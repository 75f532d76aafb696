------------------------------- MODULE Delivery -------------------------------
(***************************************************************************)
(* The delivery pipeline at the granularity of its database transactions:  *)
(* ingest, the conductor's pass (reclaim, drop, admit), a worker's claim,  *)
(* its conversation with the consumer, and its fenced completion, with     *)
(* workers that crash, abandon a batch or outlive their lease.             *)
(*                                                                         *)
(* Virtual time is kept relative, so that it needs no horizon: an age      *)
(* counts up from created_at, and every deadline is what is left of it,    *)
(* negative once it has passed.                                            *)
(***************************************************************************)
EXTENDS Integers, Sequences, FiniteSets

CONSTANTS
    DeliveryId,     \* integers; their order is the order on (created_at, id)
    Worker,         \* process ids of workers; a restart is a new id
    NoWorker,       \* NULL in delivery.leased_by
    BatchSize,      \* settings.worker_batch_size
    MaxAttempts,    \* settings.max_attempts
    LeaseDuration,  \* settings.lease_duration_virtual_s
    BackoffBase,    \* settings.retry_backoff_base_virtual_s
    BackoffCap,     \* settings.retry_backoff_cap_virtual_s
    KeyOf,          \* (consumer, event_type, entity_key) of a delivery
    Coalesced,      \* keys whose policy is coalesce = latest_by_key
    MaxStaleness,   \* max_staleness_s of a key's policy
    NoBound         \* NULL in delivery_policy.max_staleness_s

VARIABLES
    (* table delivery *)
    state,          \* DeliveryState, "absent" for a row not yet inserted
    attemptCount,   \* attempt_count
    leasedBy,       \* leased_by
    leaseLeft,      \* lease_expires_at - now
    dueIn,          \* next_attempt_at - now
    age,            \* now - created_at
    completed,      \* completed_at IS NOT NULL
    (* table attempt *)
    attempts,       \* the attempt rows of each delivery, in id order
    (* worker processes *)
    phase,          \* where each worker is in Worker._drain
    claimed,        \* the Claimed a worker holds in memory for a delivery
    (* history *)
    accepted        \* how often the consumer has answered 200 to a delivery

rowVars    == <<state, attemptCount, leasedBy, leaseLeft, dueIn, age, completed>>
tableVars  == <<rowVars, attempts>>
workerVars == <<phase, claimed>>
vars       == <<tableVars, workerVars, accepted>>

-----------------------------------------------------------------------------
Terminal == {"delivered", "failed", "expired", "superseded"}
Queued   == {"pending", "ready"}
States   == {"absent", "pending", "ready", "in_flight"} \cup Terminal

Answers  == {"ok", "5xx", "timeout"}
Outcomes == Answers \cup {"lease_expired"}
Open     == "open"                        \* attempt.finished_at IS NULL
Row      == [worker : Worker, outcome : Outcomes \cup {Open}]

Pending  == "unanswered"                  \* the transport has not returned
NoClaim  == [aid |-> 0, no |-> 0, answer |-> Pending]
Claim    == [aid : Nat, no : Nat, answer : Answers \cup {Pending}]

Phases   == {"idle", "sending", "answered", "dead"}

BackoffUncapped(n) == BackoffBase * 2^(n - 1)      \* variant: no cap
\* backoff_s: base * 2^(n-1), capped.
Backoff(n) ==
    LET uncapped == BackoffBase * 2^(n - 1)
    IN  IF uncapped < BackoffCap THEN uncapped ELSE BackoffCap

\* The retry budget is spent: both the worker and the sweep ask this.
SpentOffByOne(n) == n > MaxAttempts       \* variant: one attempt too many
Spent(n) == n >= MaxAttempts

ASSUME IdsAssumption      == DeliveryId \subseteq Int
ASSUME WorkerAssumption   == NoWorker \notin Worker
ASSUME AttemptsAssumption == MaxAttempts \in Nat \ {0}
ASSUME LeaseAssumption    == LeaseDuration \in Nat \ {0}
ASSUME BackoffAssumption  ==
    /\ BackoffCap \in Nat \ {0}
    /\ \A n \in 1 .. MaxAttempts : BackoffBase * 2^(n - 1) \in Nat \ {0}
ASSUME PolicyAssumption   ==
    \A d \in DeliveryId : MaxStaleness[KeyOf[d]] \in Nat \cup {NoBound}

-----------------------------------------------------------------------------
\* stale_by(now, created_at, max_staleness_s) is not None: strictly past it.
Stale(d) ==
    LET bound == MaxStaleness[KeyOf[d]]
    IN  bound # NoBound /\ age[d] > bound

DueAnyQueued(d) == state[d] \in Queued /\ dueIn[d] <= 0   \* variant: admitted rows too
\* _due: a pending row whose next_attempt_at has come.
Due(d) == state[d] = "pending" /\ dueIn[d] <= 0

\* Variants: a sweep that trusts the lease columns of a settled row, and one
\* that waits for the holder to be known dead.
ExpiredAnyState(d) == leasedBy[d] # NoWorker /\ leaseLeft[d] < 0
ExpiredOfTheDead(d) ==
    /\ state[d] = "in_flight" /\ leaseLeft[d] < 0
    /\ phase[leasedBy[d]] = "dead"
\* The sweep's predicate: leased, and strictly past the lease.
Expired(d) == state[d] = "in_flight" /\ leaseLeft[d] < 0

\* The batch worker w claimed and has not answered for.
InHand(w) == {d \in DeliveryId : claimed[w][d] # NoClaim}

HeldUnfenced(w) == InHand(w)                       \* variant: no fence
HeldAnyHolder(w) ==                                \* variant: leased, by anyone
    {d \in InHand(w) : state[d] = "in_flight"}
\* complete_batch's fence: the rows whose lease w still holds.
Held(w) == {d \in InHand(w) : state[d] = "in_flight" /\ leasedBy[d] = w}

CloseNothing(d, outcome) == attempts[d]            \* variant: row left open
\* UPDATE attempt ... WHERE finished_at IS NULL, over every row of d.
CloseOpen(d, outcome) ==
    [i \in DOMAIN attempts[d] |->
        IF attempts[d][i].outcome = Open
        THEN [attempts[d][i] EXCEPT !.outcome = outcome]
        ELSE attempts[d][i]]

\* A value one virtual second later: what is left of a deadline, and an age.
\* Both saturate once no comparison in the code can tell them apart.
Elapse(left) == IF left < 0 THEN left ELSE left - 1
Older(d) ==
    LET bound == MaxStaleness[KeyOf[d]]
    IN  IF bound # NoBound /\ age[d] <= bound THEN age[d] + 1 ELSE age[d]

NumberedBehind(d) ==           \* variant: numbered before it is counted
    [aid |-> Len(attempts[d]) + 1, no |-> attemptCount[d], answer |-> Pending]
\* The Claimed that claim_batch returns for d: its new attempt row, numbered
\* with the count as it will be.
NewClaim(d) ==
    [aid |-> Len(attempts[d]) + 1, no |-> attemptCount[d] + 1, answer |-> Pending]

-----------------------------------------------------------------------------
Init ==
    /\ state        = [d \in DeliveryId |-> "absent"]
    /\ attemptCount = [d \in DeliveryId |-> 0]
    /\ leasedBy     = [d \in DeliveryId |-> NoWorker]
    /\ leaseLeft    = [d \in DeliveryId |-> -1]
    /\ dueIn        = [d \in DeliveryId |-> -1]
    /\ age          = [d \in DeliveryId |-> 0]
    /\ completed    = [d \in DeliveryId |-> FALSE]
    /\ attempts     = [d \in DeliveryId |-> <<>>]
    /\ phase        = [w \in Worker |-> "idle"]
    /\ claimed      = [w \in Worker |-> [d \in DeliveryId |-> NoClaim]]
    /\ accepted     = [d \in DeliveryId |-> 0]

(* ingest_events: the row is due from the moment of its event. *)
Ingest(d) ==
    /\ state[d] = "absent"
    /\ \A e \in DeliveryId : e < d => state[e] # "absent"
    /\ state' = [state EXCEPT ![d] = "pending"]
    /\ dueIn' = [dueIn EXCEPT ![d] = 0]
    /\ UNCHANGED <<attemptCount, leasedBy, leaseLeft, age, completed,
                   attempts, workerVars, accepted>>

(* claim_batch, one transaction.  SKIP LOCKED and the batch limit leave the  *)
(* worker some non-empty part of the ready rows; the stale ones among them   *)
(* are expired without an attempt, the rest leased with one.                 *)
ClaimBatch(w, batch) ==
    LET live  == {d \in batch : ~Stale(d)}
        stale == batch \ live
    IN
    /\ phase[w] = "idle"
    /\ batch # {}
    /\ batch \subseteq {d \in DeliveryId : state[d] = "ready"}
    /\ Cardinality(batch) <= BatchSize
    /\ state' = [d \in DeliveryId |->
                    IF d \in live THEN "in_flight"
                    ELSE IF d \in stale THEN "expired" ELSE state[d]]
    /\ completed' = [d \in DeliveryId |-> d \in stale \/ completed[d]]
    /\ leasedBy'  = [d \in DeliveryId |-> IF d \in live THEN w ELSE leasedBy[d]]
    /\ leaseLeft' = [d \in DeliveryId |->
                        IF d \in live THEN LeaseDuration ELSE leaseLeft[d]]
    /\ attemptCount' = [d \in DeliveryId |->
                        IF d \in live THEN attemptCount[d] + 1 ELSE attemptCount[d]]
    /\ attempts' = [d \in DeliveryId |->
                        IF d \in live
                        THEN Append(attempts[d], [worker |-> w, outcome |-> Open])
                        ELSE attempts[d]]
    /\ claimed' = [claimed EXCEPT ![w] = [d \in DeliveryId |->
                        IF d \in live
                        THEN NewClaim(d) ELSE NoClaim]]
    /\ phase' = [phase EXCEPT ![w] = IF live = {} THEN "idle" ELSE "sending"]
    /\ UNCHANGED <<dueIn, age, accepted>>

(* asyncio.gather returns: every transport call of the batch has an answer.  *)
(* No transaction is open and no row is locked while this takes its time.    *)
Send(w, answer) ==
    /\ phase[w] = "sending"
    /\ claimed' = [claimed EXCEPT ![w] = [d \in DeliveryId |->
                      IF d \in InHand(w)
                      THEN [claimed[w][d] EXCEPT !.answer = answer[d]]
                      ELSE NoClaim]]
    /\ accepted' = [d \in DeliveryId |->
                      IF d \in InHand(w) /\ answer[d] = "ok"
                      THEN accepted[d] + 1 ELSE accepted[d]]
    /\ phase' = [phase EXCEPT ![w] = "answered"]
    /\ UNCHANGED tableVars

(* complete_batch, one transaction.  The attempt rows are fenced on being    *)
(* open, the delivery rows on the lease w still holds.                       *)
CompleteBatch(w) ==
    LET ok     == {d \in Held(w) : claimed[w][d].answer = "ok"}
        failed == {d \in Held(w) \ ok : Spent(claimed[w][d].no)}
        retry  == Held(w) \ (ok \cup failed)
        aid(d) == claimed[w][d].aid
        fenced == {d \in InHand(w) : attempts[d][aid(d)].outcome = Open}
    IN
    /\ phase[w] = "answered"
    /\ attempts' = [d \in DeliveryId |->
                      IF d \in fenced
                      THEN [attempts[d] EXCEPT ![aid(d)].outcome = claimed[w][d].answer]
                      ELSE attempts[d]]
    /\ state' = [d \in DeliveryId |->
                    IF d \in ok THEN "delivered"
                    ELSE IF d \in failed THEN "failed"
                    ELSE IF d \in retry THEN "pending" ELSE state[d]]
    /\ completed' = [d \in DeliveryId |-> d \in ok \cup failed \/ completed[d]]
    /\ dueIn' = [d \in DeliveryId |->
                    IF d \in retry THEN Backoff(claimed[w][d].no) ELSE dueIn[d]]
    /\ claimed' = [claimed EXCEPT ![w] = [d \in DeliveryId |-> NoClaim]]
    /\ phase' = [phase EXCEPT ![w] = "idle"]
    /\ UNCHANGED <<attemptCount, leasedBy, leaseLeft, age, accepted>>

(* The batch is lost and the process lives: the completion transaction fails, *)
(* session_scope rolls it back, and the runner logs it and loops.             *)
Abandon(w) ==
    /\ phase[w] = "answered"
    /\ claimed' = [claimed EXCEPT ![w] = [d \in DeliveryId |-> NoClaim]]
    /\ phase' = [phase EXCEPT ![w] = "idle"]
    /\ UNCHANGED <<tableVars, accepted>>

(* os._exit, or a process killed from outside.  Its id never comes back.     *)
(* CrashBound: one of the worker ids is kept alive for the run.              *)
Crash(w) ==
    /\ phase[w] # "dead"
    /\ \E v \in Worker \ {w} : phase[v] # "dead"
    /\ claimed' = [claimed EXCEPT ![w] = [d \in DeliveryId |-> NoClaim]]
    /\ phase' = [phase EXCEPT ![w] = "dead"]
    /\ UNCHANGED <<tableVars, accepted>>

-----------------------------------------------------------------------------
(* Conductor._pass, one transaction of the one leader. *)

\* Rows a completion in progress may have locked, which the sweep skips.
Lockable == {d \in DeliveryId : Expired(d) /\ \E w \in Worker :
                                      phase[w] = "answered" /\ d \in Held(w)}

\* reclaim_expired_leases, when `skipped` are locked.
Reclaimable(skipped) == {d \in DeliveryId : Expired(d)} \ skipped

\* evaluate: the candidates that are stale, and those for which a newer
\* delivery of a coalesced key is queued -- `queued` being read after the sweep.
StaleIn(cand) == {d \in cand : Stale(d)}
SupersededByAnyOther(cand, queued) ==      \* variant: the order is not total
    {d \in cand \ StaleIn(cand) :
        /\ KeyOf[d] \in Coalesced
        /\ \E e \in queued : KeyOf[e] = KeyOf[d] /\ d # e}
SupersededIn(cand, queued) ==
    {d \in cand \ StaleIn(cand) :
        /\ KeyOf[d] \in Coalesced
        /\ \E e \in queued : KeyOf[e] = KeyOf[d] /\ d < e}

\* `cand` is what the over-fetch returned and `admit` what rationing left of
\* the survivors: any part of the due rows, none of them in an outage or with
\* the budget spent.  (Which part is the subject of admission.py.)
Pass(skipped, cand, admit) ==
    LET reclaimed  == Reclaimable(skipped)
        exhausted  == {d \in reclaimed : Spent(attemptCount[d])}
        requeued   == reclaimed \ exhausted
        queued     == {d \in DeliveryId : state[d] \in Queued} \cup requeued
        stale      == StaleIn(cand)
        superseded == SupersededIn(cand, queued)
    IN
    /\ skipped \subseteq Lockable
    /\ cand \subseteq {d \in DeliveryId : Due(d)}
    /\ admit \subseteq cand \ (stale \cup superseded)
    /\ state' = [d \in DeliveryId |->
                    CASE d \in exhausted  -> "failed"
                      [] d \in requeued   -> "pending"
                      [] d \in stale      -> "expired"
                      [] d \in superseded -> "superseded"
                      [] d \in admit      -> "ready"
                      [] OTHER            -> state[d]]
    /\ completed' = [d \in DeliveryId |->
                    d \in exhausted \cup stale \cup superseded \/ completed[d]]
    /\ leasedBy'  = [d \in DeliveryId |->
                    IF d \in reclaimed THEN NoWorker ELSE leasedBy[d]]
    /\ leaseLeft' = [d \in DeliveryId |->
                    IF d \in reclaimed THEN -1 ELSE leaseLeft[d]]
    /\ dueIn' = [d \in DeliveryId |->
                    IF d \in requeued THEN Backoff(attemptCount[d]) ELSE dueIn[d]]
    /\ attempts' = [d \in DeliveryId |->
                    IF d \in reclaimed THEN CloseOpen(d, "lease_expired")
                    ELSE attempts[d]]
    /\ UNCHANGED <<attemptCount, age, workerVars, accepted>>

\* One virtual second.
Tick ==
    /\ age'       = [d \in DeliveryId |-> IF state[d] = "absent" THEN 0 ELSE Older(d)]
    /\ leaseLeft' = [d \in DeliveryId |-> Elapse(leaseLeft[d])]
    /\ dueIn'     = [d \in DeliveryId |-> Elapse(dueIn[d])]
    /\ UNCHANGED <<state, attemptCount, leasedBy, completed, attempts,
                   workerVars, accepted>>

-----------------------------------------------------------------------------
ConductorStep ==
    \E skipped \in SUBSET Lockable, cand \in SUBSET {d \in DeliveryId : Due(d)} :
        \E admit \in SUBSET cand : Pass(skipped, cand, admit)

WorkerStep(w) ==
    \/ \E batch \in SUBSET DeliveryId : ClaimBatch(w, batch)
    \/ \E answer \in [DeliveryId -> Answers] : Send(w, answer)
    \/ CompleteBatch(w)
    \/ Abandon(w)
    \/ Crash(w)

Next ==
    \/ \E d \in DeliveryId : Ingest(d)
    \/ \E w \in Worker : WorkerStep(w)
    \/ ConductorStep
    \/ Tick

Spec == Init /\ [][Next]_vars

-----------------------------------------------------------------------------
(* Fairness.  The conductor passes every 50 ms and its sweep takes every     *)
(* expired row; each due row is a candidate again and again (rationing does  *)
(* not starve a consumer for ever); workers loop; gather returns because     *)
(* every transport sleep is bounded; virtual time advances.                  *)
Decides(d) == \E cand \in SUBSET {e \in DeliveryId : Due(e)} :
                \E admit \in SUBSET cand :
                    /\ Pass({}, cand, admit)
                    /\ state'[d] # "pending"

Fairness ==
    /\ WF_vars(Tick)
    /\ WF_vars(Pass({}, {}, {}))
    /\ \A d \in DeliveryId : WF_vars(Due(d) /\ Decides(d))
    /\ WF_vars(\E w \in Worker, batch \in SUBSET DeliveryId : ClaimBatch(w, batch))
    /\ \A w \in Worker :
        /\ WF_vars(\E answer \in [DeliveryId -> Answers] : Send(w, answer))
        /\ WF_vars(CompleteBatch(w))

FairSpec == Spec /\ Fairness

-----------------------------------------------------------------------------
\* Types and ranges: in particular no retry is ever held back beyond the
\* backoff cap, and no lease runs longer than it was given.
TypeOK ==
    /\ state        \in [DeliveryId -> States]
    /\ attemptCount \in [DeliveryId -> Nat]
    /\ leasedBy     \in [DeliveryId -> Worker \cup {NoWorker}]
    /\ leaseLeft    \in [DeliveryId -> -1 .. LeaseDuration]
    /\ dueIn        \in [DeliveryId -> -1 .. BackoffCap]
    /\ age          \in [DeliveryId -> Nat]
    /\ completed    \in [DeliveryId -> BOOLEAN]
    /\ attempts     \in [DeliveryId -> Seq(Row)]
    /\ phase        \in [Worker -> Phases]
    /\ claimed      \in [Worker -> [DeliveryId -> Claim]]
    /\ accepted     \in [DeliveryId -> Nat]

\* A delivery is in flight exactly while its newest attempt row is open, and
\* that row is charged to the worker named in leased_by; no older row is ever
\* left open.  (claim_batch opens, complete_batch and the reaper close, each in
\* one transaction with the delivery row, after any crash, loss or late answer.)
LeaseMatchesAttempt ==
    \A d \in DeliveryId :
        /\ state[d] = "in_flight" =>
              /\ attempts[d] # <<>>
              /\ attempts[d][Len(attempts[d])] = [worker |-> leasedBy[d], outcome |-> Open]
        /\ \A i \in DOMAIN attempts[d] :
              attempts[d][i].outcome = Open =>
                 i = Len(attempts[d]) /\ state[d] = "in_flight"

\* complete_batch fences its two tables differently -- attempt rows on
\* finished_at IS NULL, delivery rows on the lease -- and the two always agree:
\* no completion settles a delivery while leaving its attempt to someone else's
\* story, or the other way about.
FencesAgree ==
    \A w \in Worker : \A d \in InHand(w) :
        d \in Held(w) <=> attempts[d][claimed[w][d].aid].outcome = Open

\* Every attempt row is charged against the retry budget once, a reclaimed one
\* included; the budget is never exceeded, and nothing queued has spent it.
AttemptsCharged ==
    \A d \in DeliveryId :
        /\ Len(attempts[d]) = attemptCount[d]
        /\ attemptCount[d] <= MaxAttempts
        /\ state[d] \in Queued => attemptCount[d] < MaxAttempts
        /\ state[d] = "absent" => attemptCount[d] = 0

\* The two tables tell the same story of how a delivery ended: delivered if and
\* only if an attempt row says ok (and the consumer did accept it), failed only
\* with the budget spent, and completed_at stamped on every terminal row and no
\* other, so that the decision feed and the metrics see it.
SettledByOutcome ==
    \A d \in DeliveryId :
        /\ completed[d] <=> state[d] \in Terminal
        /\ state[d] = "delivered" <=>
              \E i \in DOMAIN attempts[d] : attempts[d][i].outcome = "ok"
        /\ state[d] = "delivered" => accepted[d] > 0
        /\ state[d] = "failed" => attemptCount[d] = MaxAttempts

\* Coalescing never silences a key: whatever is superseded, a newer delivery of
\* the same key was kept (policy.py's order on the pair (created_at, id)).
NewestSurvives ==
    \A d \in DeliveryId : state[d] = "superseded" =>
        \E e \in DeliveryId : /\ KeyOf[e] = KeyOf[d] /\ d < e
                             /\ state[e] \notin {"absent", "superseded"}

\* What a worker has in hand: its own attempt of that delivery, numbered as the
\* retry budget numbers it, and not attempted by it again since.  This is why
\* leased_by = :worker_id identifies the attempt and not only the process.
ClaimsTracked ==
    \A w \in Worker : \A d \in InHand(w) :
        LET c == claimed[w][d] IN
        /\ phase[w] \in {"sending", "answered"}
        /\ phase[w] = "answered" => c.answer \in Answers
        /\ c.aid \in DOMAIN attempts[d] /\ c.no = c.aid
        /\ attempts[d][c.aid].worker = w
        /\ \A i \in DOMAIN attempts[d] : c.aid < i => attempts[d][i].worker # w

\* Once a delivery is terminal neither its row nor its attempts are written
\* again: not by a late completion, not by the sweep, not by policy.
TerminalIsFinal ==
    [][\A d \in DeliveryId : state[d] \in Terminal =>
            UNCHANGED <<state[d], attemptCount[d], leasedBy[d], completed[d], attempts[d]>>]_vars

\* Every event ingested comes to a terminal decision, although workers crash,
\* abandon batches and outlive their leases: nothing asks whether they live.
EventuallySettled ==
    \A d \in DeliveryId : state[d] # "absent" ~> state[d] \in Terminal

\* The transactions implement the promised lifecycle.
Lifecycle == INSTANCE DeliveryLifecycle WITH stage <- state, tries <- attemptCount
ImplementsLifecycle == Lifecycle!LifecycleSpec
=============================================================================
