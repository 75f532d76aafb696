------------------------------- MODULE RowLocks -------------------------------
(***************************************************************************)
(* Inside the two transactions that settle leases: complete_batch, which   *)
(* writes its attempt rows and then its delivery rows, and the sweep at    *)
(* the head of the conductor's pass, which locks delivery rows (skipping   *)
(* locked ones), writes them, and then writes attempt rows.  One row at a  *)
(* time, with PostgreSQL's row locks held to the end of the transaction,   *)
(* READ COMMITTED re-evaluation after a wait, and its deadlock detector.   *)
(***************************************************************************)
EXTENDS Integers

CONSTANTS DeliveryId,   \* ids; a batch is written in their order
          Worker,
          Conductor,    \* the leader's transaction
          Batch         \* the deliveries each worker holds a claim on

Txn  == Worker \cup {Conductor}
Free == "free"

ASSUME BatchAssumption ==
    /\ DeliveryId \subseteq Int
    /\ Conductor \notin Worker
    /\ Free \notin Txn
    /\ Batch \in [Worker -> SUBSET DeliveryId]
    /\ \A w, v \in Worker : w # v => Batch[w] \cap Batch[v] = {}

VARIABLES
    delivery,   \* committed value of each delivery row
    attempt,    \* committed value of the attempt row that is open for it
    lapsed,     \* deliveries whose lease_expires_at has passed
    lock,       \* the transaction holding each row's lock
    stage,      \* what each transaction is doing
    todo,       \* rows of the current statement(s) still to be written
    target,     \* the row it is writing or waiting for
    dirty       \* rows it has written and not committed

vars == <<delivery, attempt, lapsed, lock, stage, todo, target, dirty>>

NoRow == <<"none", 0>>
DeliveryRow(d) == <<"delivery", d>>
AttemptRow(d)  == <<"attempt", d>>
Rows  == {DeliveryRow(d) : d \in DeliveryId} \cup {AttemptRow(d) : d \in DeliveryId}

DeliveryValues == {"leased", "requeued", "settled"}
AttemptValues  == {"open", "answered", "lease_expired"}
Stages == {"outside", "attempts", "deliveries", "closing", "written"}

-----------------------------------------------------------------------------
MatchesAsRead(row) == TRUE   \* variant: the WHERE clause asks for the ids alone
\* The row a WHERE clause still matches once its lock is had: the attempt row
\* while finished_at IS NULL, the delivery row while in_flight and leased.
Matches(row) ==
    IF row[1] = "attempt" THEN attempt[row[2]] = "open" ELSE delivery[row[2]] = "leased"

\* Transaction t stands before a row that u has locked.
WaitsFor(t, u) == /\ target[t] # NoRow
                  /\ lock[target[t]] = u /\ t # u

\* Batches are disjoint, so workers never wait for one another and a circle
\* has two in it.
Deadlocked(t) == \E u \in Txn : WaitsFor(t, u) /\ WaitsFor(u, t)

UnlockNothing(t) == lock     \* variant: the session is never rolled back or closed
Unlock(t) == [row \in Rows |-> IF lock[row] = t THEN Free ELSE lock[row]]

Init ==
    /\ delivery = [d \in DeliveryId |-> "leased"]
    /\ attempt  = [d \in DeliveryId |-> "open"]
    /\ lapsed   = {}
    /\ lock     = [row \in Rows |-> Free]
    /\ stage    = [t \in Txn |-> "outside"]
    /\ todo     = [t \in Txn |-> {}]
    /\ target   = [t \in Txn |-> NoRow]
    /\ dirty    = [t \in Txn |-> {}]

\* Virtual time passes the lease of d.
Lapse(d) ==
    /\ d \notin lapsed
    /\ lapsed' = lapsed \cup {d}
    /\ UNCHANGED <<delivery, attempt, lock, stage, todo, target, dirty>>

\* complete_batch begins: its first statement is the UPDATE of attempt rows.
BeginCompletion(w) ==
    /\ stage[w] = "outside"
    /\ \E d \in Batch[w] : delivery[d] = "leased"
    /\ stage' = [stage EXCEPT ![w] = "attempts"]
    /\ todo'  = [todo EXCEPT ![w] = {AttemptRow(d) : d \in Batch[w]}]
    /\ UNCHANGED <<delivery, attempt, lapsed, lock, target, dirty>>

\* SELECT ... FOR UPDATE SKIP LOCKED, then the UPDATEs of the rows it locked.
Sweep ==
    LET found == {d \in lapsed : delivery[d] = "leased" /\ lock[DeliveryRow(d)] = Free}
    IN
    /\ stage[Conductor] = "outside"
    /\ found # {}
    /\ lock'  = [row \in Rows |->
                    IF \E d \in found : row = DeliveryRow(d) THEN Conductor ELSE lock[row]]
    /\ dirty' = [dirty EXCEPT ![Conductor] = {DeliveryRow(d) : d \in found}]
    /\ todo'  = [todo EXCEPT ![Conductor] = {AttemptRow(d) : d \in found}]
    /\ stage' = [stage EXCEPT ![Conductor] = "closing"]
    /\ UNCHANGED <<delivery, attempt, lapsed, target>>

\* The statement reaches its next row: attempt rows in the batch's own order
\* for a worker (executemany), otherwise in any order (one UPDATE with IN, or
\* three statements that split the batch by outcome).
Reach(t, row) ==
    /\ target[t] = NoRow
    /\ row \in todo[t]
    /\ stage[t] = "attempts" => \A other \in todo[t] : row[2] <= other[2]
    /\ target' = [target EXCEPT ![t] = row]
    /\ UNCHANGED <<delivery, attempt, lapsed, lock, stage, todo, dirty>>

\* It has the row, at once or after waiting: the WHERE clause is evaluated on
\* what is committed by now, and a row that still matches is locked and written.
Write(t) ==
    LET row == target[t] IN
    /\ row # NoRow
    /\ lock[row] \in {Free, t}
    /\ IF Matches(row)
       THEN /\ lock'  = [lock EXCEPT ![row] = t]
            /\ dirty' = [dirty EXCEPT ![t] = @ \cup {row}]
       ELSE UNCHANGED <<lock, dirty>>
    /\ todo'   = [todo EXCEPT ![t] = @ \ {row}]
    /\ target' = [target EXCEPT ![t] = NoRow]
    /\ UNCHANGED <<delivery, attempt, lapsed, stage>>

\* The attempt rows are written: complete_batch turns to the delivery rows.
TurnToDeliveries(w) ==
    /\ stage[w] = "attempts" /\ todo[w] = {} /\ target[w] = NoRow
    /\ stage' = [stage EXCEPT ![w] = "deliveries"]
    /\ todo'  = [todo EXCEPT ![w] = {DeliveryRow(d) : d \in Batch[w]}]
    /\ UNCHANGED <<delivery, attempt, lapsed, lock, target, dirty>>

Finish(t) ==
    /\ stage' = [stage EXCEPT ![t] = IF t \in Worker THEN "written" ELSE "outside"]
    /\ lock'   = Unlock(t)
    /\ dirty'  = [dirty EXCEPT ![t] = {}]
    /\ todo'   = [todo EXCEPT ![t] = {}]
    /\ target' = [target EXCEPT ![t] = NoRow]
    /\ UNCHANGED lapsed

CompleteByTable(t) ==        \* variant: a commit after each table's statements
    /\ stage[t] \in {"attempts", "deliveries", "closing"}
    /\ todo[t] = {} /\ target[t] = NoRow
\* Every statement of the transaction has run.
Complete(t) ==
    /\ stage[t] \in {"deliveries", "closing"}
    /\ todo[t] = {} /\ target[t] = NoRow

\* COMMIT: what the transaction wrote becomes visible, its locks go.
Commit(t) ==
    /\ Complete(t)
    /\ delivery' = [d \in DeliveryId |->
          IF DeliveryRow(d) \in dirty[t]
          THEN IF t \in Worker THEN "settled" ELSE "requeued"
          ELSE delivery[d]]
    /\ attempt' = [d \in DeliveryId |->
          IF AttemptRow(d) \in dirty[t]
          THEN IF t \in Worker THEN "answered" ELSE "lease_expired"
          ELSE attempt[d]]
    /\ Finish(t)

\* The deadlock detector cancels one of those waiting in a circle: the error
\* rolls the transaction back (session_scope, or LeaderLock.release), and the
\* worker's batch is lost to it.
CancelDeadlocked(t) ==
    /\ Deadlocked(t)
    /\ Finish(t)
    /\ UNCHANGED <<delivery, attempt>>

Next ==
    \/ \E d \in DeliveryId : Lapse(d)
    \/ \E w \in Worker : BeginCompletion(w) \/ TurnToDeliveries(w)
    \/ Sweep
    \/ \E t \in Txn, row \in Rows : Reach(t, row)
    \/ \E t \in Txn : Write(t) \/ Commit(t) \/ CancelDeadlocked(t)

\* Every transaction runs on, the detector wakes up, and the leader passes again.
\* Strong where a lock is asked for: its release wakes the waiter at once, while
\* the next sweep is a loop interval away.
Fairness ==
    /\ \A d \in DeliveryId : WF_vars(Lapse(d))
    /\ WF_vars(Sweep)
    /\ \A w \in Worker : WF_vars(TurnToDeliveries(w))
    /\ \A t \in Txn : /\ WF_vars(\E row \in Rows : Reach(t, row))
                      /\ SF_vars(Write(t)) /\ WF_vars(Commit(t))
                      /\ WF_vars(CancelDeadlocked(t))

Spec == Init /\ [][Next]_vars /\ Fairness

-----------------------------------------------------------------------------
\* Types, and a row is locked by the transaction that has written it and by no
\* other: none survives the end of its transaction.
TypeOK ==
    /\ delivery \in [DeliveryId -> DeliveryValues]
    /\ attempt  \in [DeliveryId -> AttemptValues]
    /\ lapsed \subseteq DeliveryId
    /\ lock   \in [Rows -> Txn \cup {Free}]
    /\ stage  \in [Txn -> Stages]
    /\ todo   \in [Txn -> SUBSET Rows]
    /\ target \in [Txn -> Rows \cup {NoRow}]
    /\ dirty  \in [Txn -> SUBSET Rows]
    /\ \A row \in Rows, t \in Txn : lock[row] = t <=> row \in dirty[t]

\* However the statements of a completion and of a sweep interleave, what is
\* committed of a delivery and of its attempt always tells one story.
OneStory ==
    \A d \in DeliveryId : <<delivery[d], attempt[d]>> \in
        {<<"leased", "open">>, <<"settled", "answered">>, <<"requeued", "lease_expired">>}

\* What the two tables say of a lease, "torn" if not the same.
LeaseTold(d) ==
    CASE delivery[d] = "leased"   /\ attempt[d] = "open"          -> "held"
      [] delivery[d] = "settled"  /\ attempt[d] = "answered"      -> "answered"
      [] delivery[d] = "requeued" /\ attempt[d] = "lease_expired" -> "reclaimed"
      [] OTHER -> "torn"

\* A lease ends once, and for its whole batch or sweep at once: whoever waited for
\* the row of one that has ended meanwhile leaves it as it is, and a batch whose
\* deliveries were partly reclaimed is answered for just the others.
Settle == INSTANCE Settlement
             WITH lease <- [d \in DeliveryId |-> LeaseTold(d)], expired <- lapsed
ImplementsSettlement == Settle!SettlementSpec

\* No wait for a row lasts: it is granted, or the deadlock detector ends it.
WaitsEnd == \A t \in Txn : target[t] # NoRow ~> target[t] = NoRow

\* No lease outlives its expiry for ever, whatever deadlocks on the way.
LeasesEnd == \A d \in DeliveryId : <>(delivery[d] # "leased")

\* What reaper.py says of SKIP LOCKED: a slow worker's row locks do not stall
\* the conductor's pass.
SweepNeverWaits == \A w \in Worker : ~WaitsFor(Conductor, w)
=============================================================================
