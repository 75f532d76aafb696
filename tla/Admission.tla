------------------------------- MODULE Admission -------------------------------
(***************************************************************************)
(* How many deliveries a pass admits, and whose.  The pass reads its       *)
(* gauges, its two budgets, the demand and the per-consumer usage in       *)
(* separate statements (READ COMMITTED: each sees a later database), while *)
(* workers go on claiming and completing and virtual time goes on.         *)
(*                                                                         *)
(* Rows of one consumer are interchangeable here, so the table is counts.  *)
(***************************************************************************)
EXTENDS Integers, FiniteSets, Functions

CONSTANTS
    ConsumerId,      \* integers: allocate breaks its ties on them
    Weight,          \* consumer.weight
    ConcurrencyCap,  \* consumer.concurrency_cap
    RateCap,         \* int(max_attempts_per_s * window), per consumer
    GlobalRate,      \* int(global_attempts_per_s * window)
    BufferTarget,    \* ceil(ready_buffer_depth_multiplier * sum of the caps)
    Window,          \* fairness_window_virtual_s
    Overfetch,       \* admission_overfetch
    Arms,            \* values fair_drain_enabled may have during the run
    Droppable,       \* consumers with a delivery policy
    Supply,          \* bound: rows that fall due for a consumer, retries included
    PassTicks        \* bound: virtual seconds that one pass may span

ASSUME RatesAssumption ==
    /\ ConsumerId \subseteq Int /\ IsFiniteSet(ConsumerId)
    /\ Weight \in [ConsumerId -> Nat \ {0}]
    /\ RateCap \in [ConsumerId -> Nat] /\ GlobalRate \in Nat /\ BufferTarget \in Nat
    /\ Window \in Nat /\ Overfetch \in Nat
    /\ Arms \subseteq BOOLEAN
ASSUME BoundsAssumption == Supply \in [ConsumerId -> Nat] /\ PassTicks \in Nat

VARIABLES
    (* delivery and attempt, as counts per consumer *)
    pending,     \* pending and due
    ready,
    inFlight,
    started,     \* attempts by age of started_at, a virtual second each
    supply,      \* rows yet to fall due
    (* the pass *)
    pc,          \* the statement it runs next
    elapsed,     \* virtual seconds since the pass read its clock
    fair,        \* sim.fair_drain_enabled as the pass read it
    gauges,      \* read_gauges: ready and in-flight counts
    readyCount,  \* compute_budget's own count of ready rows
    slots,       \* Budget.slots
    demand,      \* due rows, as read_consumer_states counted them
    headroom,    \* per consumer
    allowance    \* what each consumer may be admitted

tableVars == <<pending, ready, inFlight, started, supply>>
passVars  == <<pc, elapsed, fair, gauges, readyCount, slots, demand, headroom, allowance>>
vars      == <<tableVars, passVars>>

Zero == [c \in ConsumerId |-> 0]
NoGauges == [c \in ConsumerId |-> [ready |-> 0, inFlight |-> 0]]
Least(m, n) == IF m < n THEN m ELSE n
AtLeast0(n) == IF n < 0 THEN 0 ELSE n

\* Attempts with started_at >= now - Window, where now lies `since` seconds back.
InWindow(c, since) == SumFunctionOnSet(started[c], 0 .. Window + since)
AllInWindow(since) == SumFunction([c \in ConsumerId |-> InWindow(c, since)])

-----------------------------------------------------------------------------
(* The arithmetic of admission.py.                                           *)

ReadyUncounted(readyNow, attempts) == GlobalRate - attempts  \* variant: window only
\* compute_budget: what is admitted and has no attempt row yet is subtracted too.
RateSlots(readyNow, attempts) == GlobalRate - attempts - readyNow

BufferUnbounded(readyNow, attempts) == AtLeast0(RateSlots(readyNow, attempts)) \* variant
BudgetUnclamped(readyNow, attempts) ==   \* variant: without max(0, ...)
    Least(BufferTarget - readyNow, RateSlots(readyNow, attempts))
BudgetSlots(readyNow, attempts) ==
    AtLeast0(Least(BufferTarget - readyNow, RateSlots(readyNow, attempts)))

\* ConsumerState.headroom, on what has been read of consumer c.
HeadroomOfAttempts(c, attempts) ==      \* variant: ready work not counted
    IF fair /\ gauges[c].inFlight >= ConcurrencyCap[c] THEN 0
    ELSE AtLeast0(Least(demand[c], RateCap[c] - attempts))
HeadroomGateOffByOne(c, attempts) ==    \* variant: dispatchable below cap - 1
    IF fair /\ gauges[c].inFlight + 1 >= ConcurrencyCap[c] THEN 0
    ELSE AtLeast0(Least(demand[c], RateCap[c] - (attempts + gauges[c].ready)))
Headroom(c, attempts) ==
    IF fair /\ gauges[c].inFlight >= ConcurrencyCap[c] THEN 0
    ELSE AtLeast0(Least(demand[c], RateCap[c] - (attempts + gauges[c].ready)))

\* c is no less deserving than d: granted / weight, ties to the lower id.
Behind(g, c, d) ==
    LET mine == g[c] * Weight[d]
        its  == g[d] * Weight[c]
    IN  mine < its \/ (mine = its /\ c <= d)

\* The consumers that could take more than g grants them, the one of them that
\* is furthest behind, and the next slot, which it gets.
Active(head, g) == {c \in ConsumerId : g[c] < head[c]}
Winner(head, g) ==
    CHOOSE c \in Active(head, g) : \A d \in Active(head, g) : Behind(g, c, d)
Grant(head, g) ==
    IF Active(head, g) = {} THEN g ELSE [g EXCEPT ![Winner(head, g)] = @ + 1]

Allocate(head, budget) ==
    LET granted[n \in 0 .. budget] == IF n = 0 THEN Zero ELSE Grant(head, granted[n - 1])
    IN  granted[budget]

\* The naive arm: one shared pool, each consumer bounded by its rate cap.
Shared(head, budget) == [c \in ConsumerId |-> Least(head[c], budget)]

SharesOfDemand(head) ==                 \* variant: consumers active by their demand
    IF fair THEN Allocate(demand, slots) ELSE Shared(head, slots)
Shares(head) == IF fair THEN Allocate(head, slots) ELSE Shared(head, slots)

-----------------------------------------------------------------------------
Idle ==
    /\ pc' = "idle" /\ elapsed' = 0 /\ fair' = TRUE
    /\ gauges' = NoGauges
    /\ readyCount' = 0 /\ slots' = 0
    /\ demand' = Zero /\ headroom' = Zero /\ allowance' = Zero

Init ==
    /\ pending = Zero /\ ready = Zero /\ inFlight = Zero
    /\ started = [c \in ConsumerId |-> [a \in 0 .. Window + PassTicks |-> 0]]
    /\ supply = Supply
    /\ pc = "idle" /\ elapsed = 0 /\ fair = TRUE
    /\ gauges = NoGauges
    /\ readyCount = 0 /\ slots = 0
    /\ demand = Zero /\ headroom = Zero /\ allowance = Zero

(* The rest of the system, between any two statements of the pass. *)

\* A row falls due: an event, or a retry whose backoff is over.
Arrive(c) ==
    /\ supply[c] > 0
    /\ supply'  = [supply EXCEPT ![c] = @ - 1]
    /\ pending' = [pending EXCEPT ![c] = @ + 1]
    /\ UNCHANGED <<ready, inFlight, started, passVars>>

\* A worker claims a ready row of c: from now on the attempt table counts it.
Claim(c) ==
    /\ ready[c] > 0
    /\ ready'    = [ready EXCEPT ![c] = @ - 1]
    /\ inFlight' = [inFlight EXCEPT ![c] = @ + 1]
    /\ started'  = [started EXCEPT ![c][0] = @ + 1]
    /\ UNCHANGED <<pending, supply, passVars>>

\* Or expires it, stale, without an attempt.
ExpireReady(c) ==
    /\ ready[c] > 0 /\ c \in Droppable
    /\ ready' = [ready EXCEPT ![c] = @ - 1]
    /\ UNCHANGED <<pending, inFlight, started, supply, passVars>>

\* An attempt ends: settled, or handed back (its retry falls due as an Arrive).
Finish(c) ==
    /\ inFlight[c] > 0
    /\ inFlight' = [inFlight EXCEPT ![c] = @ - 1]
    /\ UNCHANGED <<pending, ready, started, supply, passVars>>

Tick ==
    /\ pc # "idle" => elapsed < PassTicks
    /\ elapsed' = IF pc = "idle" THEN 0 ELSE elapsed + 1
    /\ started' = [c \in ConsumerId |-> [a \in 0 .. Window + PassTicks |->
                      IF a = 0 THEN 0
                      ELSE IF pc = "idle" /\ a > Window THEN 0 ELSE started[c][a - 1]]]
    /\ UNCHANGED <<pending, ready, inFlight, supply, pc, fair, gauges, readyCount,
                   slots, demand, headroom, allowance>>

-----------------------------------------------------------------------------
(* The pass, a statement at a time.  What it has read is forgotten after its  *)
(* last use.                                                                  *)

BeginPass(arm) ==
    /\ pc = "idle"
    /\ pc' = "gauges" /\ fair' = arm
    /\ UNCHANGED <<tableVars, elapsed, gauges, readyCount, slots, demand, headroom, allowance>>

ReadGauges ==
    /\ pc = "gauges"
    /\ gauges' = [c \in ConsumerId |-> [ready |-> ready[c], inFlight |-> inFlight[c]]]
    /\ pc' = "ready"
    /\ UNCHANGED <<tableVars, elapsed, fair, readyCount, slots, demand, headroom, allowance>>

\* The pipeline is down: the pass ends here, nothing is admitted.
HoldForOutage == pc = "ready" /\ Idle /\ UNCHANGED tableVars

\* compute_budget: first the ready rows ...
CountReady ==
    /\ pc = "ready"
    /\ readyCount' = SumFunction(ready)
    /\ pc' = "window"
    /\ UNCHANGED <<tableVars, elapsed, fair, gauges, slots, demand, headroom, allowance>>

\* ... then the attempts.  Without a slot the pass ends here.
CountAttempts ==
    LET free == BudgetSlots(readyCount, AllInWindow(elapsed)) IN
    /\ pc = "window"
    /\ IF free = 0 THEN Idle
       ELSE /\ slots' = free /\ readyCount' = 0 /\ pc' = "demand"
            /\ UNCHANGED <<elapsed, fair, gauges, demand, headroom, allowance>>
    /\ UNCHANGED tableVars

ReadDemand ==
    /\ pc = "demand"
    /\ demand' = pending
    /\ pc' = "usage"
    /\ UNCHANGED <<tableVars, elapsed, fair, gauges, readyCount, slots, headroom, allowance>>

ReadUsage ==
    LET head   == [c \in ConsumerId |-> Headroom(c, InWindow(c, elapsed))]
        shares == Shares(head)
    IN
    /\ pc = "usage"
    /\ IF \A c \in ConsumerId : shares[c] = 0 THEN Idle
       ELSE /\ headroom' = head /\ allowance' = shares /\ pc' = "candidates"
            /\ gauges' = NoGauges /\ demand' = Zero
            /\ UNCHANGED <<elapsed, fair, readyCount, slots>>
    /\ UNCHANGED tableVars

\* The candidates: on the fair arm so many of each consumer, on the other so
\* many in all, oldest first (whose they are is any mixture).
Fetches(f) ==
    LET wanted == Overfetch * (CHOOSE m \in {allowance[c] : c \in ConsumerId} :
                                 \A c \in ConsumerId : allowance[c] <= m)
    IN  IF fair THEN f = [c \in ConsumerId |-> Least(pending[c], wanted)]
        ELSE /\ \A c \in ConsumerId : f[c] <= pending[c]
             /\ SumFunction(f) = Least(SumFunction(pending), Overfetch * slots)

\* The loop over the survivors: in order, within the allowances, until the
\* slots are gone.
Admits(admit, survivors) ==
    LET may == [c \in ConsumerId |-> Least(survivors[c], allowance[c])]
    IN  /\ \A c \in ConsumerId : admit[c] <= may[c]
        /\ SumFunction(admit) = Least(SumFunction(may), slots)

Counts == [ConsumerId -> 0 .. CHOOSE m \in {Supply[c] : c \in ConsumerId} :
                                 \A c \in ConsumerId : Supply[c] <= m]

\* The candidates are fetched, policy condemns some of them, apply_drops and
\* mark_ready write, COMMIT.
CommitPass ==
    /\ pc = "candidates"
    /\ \E fetched \in {f \in Counts : Fetches(f)} :
       \E survivors \in {f \in Counts : \A c \in ConsumerId :
                            /\ f[c] <= fetched[c]
                            /\ c \notin Droppable => f[c] = fetched[c]} :
       \E admit \in {f \in Counts : Admits(f, survivors)} :
          /\ pending' = [c \in ConsumerId |->
                            pending[c] - (fetched[c] - survivors[c]) - admit[c]]
          /\ ready'   = [c \in ConsumerId |-> ready[c] + admit[c]]
    /\ Idle
    /\ UNCHANGED <<inFlight, started, supply>>

\* An error, or the leader's death: the transaction is rolled back.
AbortPass == pc # "idle" /\ Idle /\ UNCHANGED tableVars

PassStep ==
    \/ \E arm \in Arms : BeginPass(arm)
    \/ ReadGauges \/ HoldForOutage \/ CountReady \/ CountAttempts \/ ReadDemand \/ ReadUsage
    \/ CommitPass

Next ==
    \/ \E c \in ConsumerId : Arrive(c) \/ Claim(c) \/ ExpireReady(c) \/ Finish(c)
    \/ Tick
    \/ PassStep
    \/ AbortPass

Spec == Init /\ [][Next]_vars

\* A pass that reaches an end of its own: no slots, nobody to admit, or the commit.
PassEnds == (CountAttempts \/ ReadUsage \/ CommitPass) /\ pc' = "idle"

(* Fairness.  The pipeline is not down for ever and its passes do not all     *)
(* fail; workers claim and finish what is ready; due times come; time goes on. *)
Fairness ==
    /\ []<><<PassEnds>>_vars
    /\ SF_vars(Tick)
    /\ WF_vars(\E c \in ConsumerId : Arrive(c) \/ Claim(c) \/ Finish(c))

FairSpec == Spec /\ Fairness

-----------------------------------------------------------------------------
\* Counts are never negative, no pass is given more slots than the buffer's depth.
TypeOK ==
    /\ \A f \in {pending, ready, inFlight, supply, demand, headroom, allowance} :
          f \in [ConsumerId -> Nat]
    /\ started \in [ConsumerId -> [0 .. Window + PassTicks -> Nat]]
    /\ pc \in {"idle", "gauges", "ready", "window", "demand", "usage", "candidates"}
    /\ elapsed \in 0 .. PassTicks /\ fair \in BOOLEAN
    /\ gauges \in [ConsumerId -> [ready : Nat, inFlight : Nat]]
    /\ readyCount \in Nat /\ slots \in 0 .. BufferTarget

\* The provider's rate is never exceeded in any window, the admitted work that
\* no attempt row shows yet included -- however a claim falls between the two
\* counts that compute_budget makes.
GlobalRateHolds == SumFunction(ready) + AllInWindow(0) <= GlobalRate

\* Nor is a consumer's own rate, by either arm, although the gauges that supply
\* its ready count are older than the window query.
ConsumerRateHolds ==
    \A c \in ConsumerId : ready[c] + InWindow(c, 0) <= RateCap[c]

\* The ready buffer stays as shallow as it was meant to be.
BufferHolds == SumFunction(ready) <= BufferTarget

\* Weighted max-min fairness, within the granularity of a slot: a consumer that
\* could take more is at most one slot behind anyone's weighted share, no slot is
\* left over while someone could take it, and nobody gets more than it can take.
FairSplit(head, budget, shares) ==
    /\ SumFunction(shares) = Least(budget, SumFunction(head))
    /\ \A c \in ConsumerId : shares[c] <= head[c]
    /\ \A c, d \in ConsumerId : shares[c] < head[c] /\ shares[d] > 0 =>
          (shares[d] - 1) * Weight[c] <= shares[c] * Weight[d]

\* What allocate hands out in a pass is such a split of its slots.
SharesFair == pc = "candidates" /\ fair => FairSplit(headroom, slots, allowance)

\* Every backlog drains once its events stop, on either arm and whatever the
\* toggle does meanwhile.
BacklogDrains == <>[](\A c \in ConsumerId : pending[c] = 0 /\ supply[c] = 0)
=============================================================================
