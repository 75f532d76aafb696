------------------------- MODULE DeliveryStory_proofs -------------------------
(***************************************************************************)
(* How a delivery ends, and that its end is final: the transactions of     *)
(* Delivery implement DeliveryLifecycle, never write a terminal row again, *)
(* and tell in both tables the same story of what the consumer answered.   *)
(* And that coalescing, which ends a delivery for the sake of a newer one,  *)
(* always leaves such a newer one.                                          *)
(***************************************************************************)
EXTENDS Delivery_proofs, FiniteSetTheorems, WellFoundedInduction

\* An "ok" in a worker's memory is one that the consumer did give.
Truthful ==
    \A w \in Worker : \A d \in DeliveryId :
        claimed[w][d].answer = "ok" => accepted[d] > 0

\* What is added to IInv to make SettledByOutcome inductive.
SInv == IInv /\ SettledByOutcome /\ Truthful

-----------------------------------------------------------------------------
(* What one step does to one delivery d.                                     *)

OkRow(d) == \E i \in DOMAIN attempts[d] : attempts[d][i].outcome = "ok"

StoryRow(d) ==
    /\ completed[d] <=> state[d] \in Terminal
    /\ state[d] = "delivered" <=> OkRow(d)
    /\ state[d] = "delivered" => accepted[d] > 0
    /\ state[d] = "failed" => attemptCount[d] = MaxAttempts

Edge(d) == Lifecycle!Stays(d) \/ Lifecycle!Moves(d)

Frozen(d) ==
    state[d] \in Terminal =>
        UNCHANGED <<state[d], attemptCount[d], leasedBy[d], completed[d], attempts[d]>>

\* All that the theorems below ask of a step, for one delivery.
Sound(d) == Edge(d) /\ Frozen(d) /\ StoryRow(d)'

\* A step that leaves the row of d and its attempts alone.
LEMMA Untouched ==
  ASSUME NEW d \in DeliveryId, StoryRow(d),
         UNCHANGED <<state[d], attemptCount[d], leasedBy[d], completed[d], attempts[d]>>,
         accepted'[d] \in Nat, accepted[d] \in Nat, accepted'[d] >= accepted[d]
  PROVE  Sound(d)
  BY DEF Sound, Edge, Frozen, StoryRow, OkRow, Lifecycle!Stays

\* The story of one delivery is a part of the invariant.
LEMMA Parts ==
  ASSUME SInv, NEW d \in DeliveryId
  PROVE  /\ StoryRow(d) /\ ChargedRow(d) /\ LeaseRow(d)
         /\ attempts[d] \in Seq(Row) /\ attemptCount[d] \in Nat
         /\ accepted[d] \in Nat /\ state[d] \in States
  BY DEF SInv, IInv, TypeOK, SettledByOutcome, AttemptsCharged, LeaseMatchesAttempt,
         StoryRow, OkRow, ChargedRow, LeaseRow

\* The row of an event appears, with no attempt.
LEMMA IngestSound ==
  ASSUME SInv, NEW e \in DeliveryId, Ingest(e), NEW d \in DeliveryId
  PROVE  Sound(d)
<1>0. StoryRow(d) /\ accepted[d] \in Nat
  BY Parts
<1>1. CASE d = e
  <2>1. /\ state[d] = "absent" /\ state'[d] = "pending"
        /\ UNCHANGED <<attemptCount, completed, attempts, accepted>>
    BY <1>1 DEF Ingest, SInv, IInv, TypeOK
  <2> QED BY <1>0, <2>1 DEF Sound, Edge, Frozen, StoryRow, OkRow, Terminal,
                Lifecycle!Moves, Lifecycle!Appears
<1>2. CASE d # e
  <2>1. UNCHANGED <<state[d], attemptCount, leasedBy, completed, attempts, accepted>>
    BY <1>2 DEF Ingest, SInv, IInv, TypeOK
  <2> QED BY <1>0, <2>1, Untouched
<1> QED BY <1>1, <1>2

\* A claim leases a ready delivery and charges it, or expires it uncharged.
LEMMA ClaimBatchSound ==
  ASSUME SInv, NEW w \in Worker, NEW batch \in SUBSET DeliveryId,
         ClaimBatch(w, batch), NEW d \in DeliveryId
  PROVE  Sound(d)
<1>0. /\ StoryRow(d) /\ ChargedRow(d) /\ attempts[d] \in Seq(Row)
      /\ attemptCount[d] \in Nat /\ accepted[d] \in Nat
  BY Parts
<1> DEFINE new == [worker |-> w, outcome |-> Open]
<1>1. accepted' = accepted
  BY DEF ClaimBatch
<1>2. CASE d \in batch /\ ~Stale(d)
  <2>1. /\ state[d] = "ready" /\ state'[d] = "in_flight"
        /\ attemptCount'[d] = attemptCount[d] + 1
        /\ completed'[d] = completed[d]
        /\ attempts'[d] = Append(attempts[d], new)
    BY <1>2 DEF ClaimBatch, SInv, IInv, TypeOK
  <2>2. attemptCount[d] < MaxAttempts
    BY <1>0, <2>1 DEF ChargedRow, Queued
  <2>3. ~OkRow(d)'
    <3>1. new \in Row /\ new.outcome # "ok"
      BY DEF Row, Open
    <3>2. \A i \in 1 .. Len(attempts[d]) : attempts[d][i].outcome # "ok"
      BY <1>0, <2>1 DEF StoryRow, OkRow
    <3> HIDE DEF new
    <3>3. \A i \in DOMAIN attempts'[d] : i \in 1 .. Len(attempts[d]) \/ i = Len(attempts[d]) + 1
      BY <1>0, <2>1, <3>1, Appended
    <3> QED BY <1>0, <2>1, <3>1, <3>2, <3>3, Appended DEF OkRow
  <2>4. Edge(d)
    BY <2>1, <2>2 DEF Edge, Lifecycle!Moves, Lifecycle!Taken
  <2> QED BY <1>0, <2>1, <2>3, <2>4 DEF Sound, Frozen, StoryRow, Terminal
<1>3. CASE d \in batch /\ Stale(d)
  <2>1. /\ state[d] = "ready" /\ state'[d] = "expired" /\ completed'[d] = TRUE
        /\ attemptCount'[d] = attemptCount[d] /\ attempts'[d] = attempts[d]
    BY <1>3 DEF ClaimBatch, SInv, IInv, TypeOK
  <2> QED BY <1>0, <2>1 DEF Sound, Edge, Frozen, StoryRow, OkRow, Terminal,
                Lifecycle!Moves, Lifecycle!Dropped
<1>4. CASE d \notin batch
  <2>1. UNCHANGED <<state[d], attemptCount[d], leasedBy[d], completed[d], attempts[d]>>
    BY <1>4 DEF ClaimBatch, SInv, IInv, TypeOK
  <2> QED BY <1>0, <1>1, <2>1, Untouched
<1> QED BY <1>2, <1>3, <1>4

\* A worker that sends, forgets or dies writes no row, and time settles none.
LEMMA QuietSound ==
  ASSUME SInv, NEW d \in DeliveryId,
         UNCHANGED <<state, attemptCount, leasedBy, completed, attempts>>,
         accepted'[d] \in {accepted[d], accepted[d] + 1}
  PROVE  Sound(d)
<1>1. StoryRow(d) /\ accepted[d] \in Nat
  BY Parts
<1> QED BY <1>1, Untouched

\* The answer that is counted is the one the worker remembers.
LEMMA SendSound ==
  ASSUME SInv, NEW w \in Worker, NEW answer \in [DeliveryId -> Answers], Send(w, answer)
  PROVE  Truthful' /\ \A d \in DeliveryId : Sound(d)
<1>1. \A d \in DeliveryId : accepted'[d] \in {accepted[d], accepted[d] + 1}
  BY DEF Send, SInv, IInv, TypeOK
<1>2. \A d \in DeliveryId : Sound(d)
  BY <1>1, QuietSound DEF Send, tableVars, rowVars
<1>3. Truthful'
  <2> SUFFICES ASSUME NEW v \in Worker, NEW d \in DeliveryId, claimed'[v][d].answer = "ok"
               PROVE  accepted'[d] > 0
    BY DEF Truthful
  <2>0. accepted[d] \in Nat
    BY DEF SInv, IInv, TypeOK
  <2>1. CASE v = w
    <3>1. claimed'[w][d] = IF d \in InHand(w)
                           THEN [claimed[w][d] EXCEPT !.answer = answer[d]] ELSE NoClaim
      BY DEF Send, SInv, IInv, TypeOK
    <3>2. d \in InHand(w)
      BY <2>1, <3>1 DEF NoClaim, Pending
    <3>3. claimed[w][d] \in Claim
      BY DEF SInv, IInv, TypeOK
    <3>4. answer[d] = "ok"
      BY <2>1, <3>1, <3>2, <3>3 DEF Claim
    <3>5. accepted'[d] = accepted[d] + 1
      BY <3>2, <3>4 DEF Send
    <3> QED BY <2>0, <3>5
  <2>2. CASE v # w
    <3>1. claimed'[v][d] = claimed[v][d]
      BY <2>2 DEF Send, SInv, IInv, TypeOK
    <3>2. accepted[d] > 0
      BY <3>1 DEF SInv, Truthful
    <3> QED BY <1>1, <2>0, <3>2
  <2> QED BY <2>1, <2>2
<1> QED BY <1>2, <1>3

\* What a completion does to a delivery whose lease the worker still holds, and
\* to any other.
LEMMA CompletionOf ==
  ASSUME IInv, NEW w \in Worker, CompleteBatch(w), NEW d \in DeliveryId
  PROVE  LET c == claimed[w][d] IN
         /\ d \in Held(w) =>
              /\ state[d] = "in_flight" /\ c.no = attemptCount[d]
              /\ c.aid \in 1 .. Len(attempts[d]) /\ c.answer \in Answers
              /\ attempts'[d] = [attempts[d] EXCEPT ![c.aid].outcome = c.answer]
              /\ state'[d] = IF c.answer = "ok" THEN "delivered"
                             ELSE IF Spent(attemptCount[d]) THEN "failed" ELSE "pending"
              /\ completed'[d] = (state'[d] # "pending" \/ completed[d])
         /\ d \notin Held(w) =>
              UNCHANGED <<state[d], completed[d], attempts[d]>>
         /\ UNCHANGED <<attemptCount[d], leasedBy[d], accepted[d]>>
<1> DEFINE c == claimed[w][d]
           fenced == {e \in InHand(w) : attempts[e][claimed[w][e].aid].outcome = Open}
<1>t. /\ attempts \in [DeliveryId -> Seq(Row)] /\ attemptCount \in [DeliveryId -> Nat]
      /\ completed \in [DeliveryId -> BOOLEAN]
  BY DEF IInv, TypeOK
<1>1. d \in fenced <=> d \in Held(w)
  BY InvFences DEF FencesAgree, Held
<1>2. attempts'[d] = IF d \in fenced
                     THEN [attempts[d] EXCEPT ![c.aid].outcome = c.answer] ELSE attempts[d]
  BY DEF CompleteBatch
<1>3. UNCHANGED <<attemptCount[d], leasedBy[d], accepted[d]>>
  BY DEF CompleteBatch
<1>4. ASSUME d \notin Held(w)
      PROVE  UNCHANGED <<state[d], completed[d], attempts[d]>>
  <2>1. UNCHANGED <<state[d], completed[d]>>
    BY <1>4 DEF CompleteBatch, IInv, TypeOK
  <2> QED BY <1>1, <1>2, <1>4, <2>1
<1>5. ASSUME d \in Held(w)
      PROVE  /\ state[d] = "in_flight" /\ c.no = attemptCount[d]
             /\ c.aid \in 1 .. Len(attempts[d]) /\ c.answer \in Answers
             /\ attempts'[d] = [attempts[d] EXCEPT ![c.aid].outcome = c.answer]
             /\ state'[d] = IF c.answer = "ok" THEN "delivered"
                            ELSE IF Spent(attemptCount[d]) THEN "failed" ELSE "pending"
             /\ completed'[d] = (state'[d] # "pending" \/ completed[d])
  <2>1. state[d] = "in_flight" /\ d \in InHand(w)
    BY <1>5 DEF Held
  <2>2. ClaimRow(w, d) /\ c.answer \in Answers
    <3>1. phase[w] = "answered"
      BY DEF CompleteBatch
    <3> QED BY <2>1, <3>1 DEF IInv, ClaimsTracked, ClaimRow
  <2>3. c.aid \in 1 .. Len(attempts[d]) /\ c.no = c.aid
    BY <1>t, <2>2 DEF ClaimRow
  <2>4. LeaseRow(d) /\ ChargedRow(d) /\ attempts[d][c.aid].outcome = Open
    BY <1>1, <1>5 DEF IInv, LeaseMatchesAttempt, LeaseRow, AttemptsCharged, ChargedRow
  <2>5. c.aid = Len(attempts[d]) /\ c.no = attemptCount[d]
    BY <1>t, <2>3, <2>4 DEF LeaseRow, ChargedRow
  <2>6. state'[d] = IF c.answer = "ok" THEN "delivered"
                    ELSE IF Spent(c.no) THEN "failed" ELSE "pending"
    BY <1>5 DEF CompleteBatch
  <2>7. completed'[d] = (c.answer = "ok" \/ Spent(c.no) \/ completed[d])
    BY <1>5 DEF CompleteBatch
  <2>8. attempts'[d] = [attempts[d] EXCEPT ![c.aid].outcome = c.answer]
    BY <1>1, <1>2, <1>5
  <2> QED BY <2>1, <2>2, <2>3, <2>5, <2>6, <2>7, <2>8
<1> QED BY <1>3, <1>4, <1>5

\* A completion settles the row and its attempt together, or neither.
LEMMA CompleteBatchSound ==
  ASSUME SInv, NEW w \in Worker, CompleteBatch(w), NEW d \in DeliveryId
  PROVE  Sound(d)
<1> DEFINE c == claimed[w][d]
<1>0. /\ StoryRow(d) /\ ChargedRow(d) /\ attempts[d] \in Seq(Row)
      /\ attemptCount[d] \in Nat /\ accepted[d] \in Nat
  BY Parts
<1>1. UNCHANGED <<attemptCount[d], leasedBy[d], accepted[d]>>
  BY CompletionOf DEF SInv
<1>2. CASE d \notin Held(w)
  <2>1. UNCHANGED <<state[d], completed[d], attempts[d]>>
    BY <1>2, CompletionOf DEF SInv
  <2> QED BY <1>0, <1>1, <2>1, Untouched
<1>3. CASE d \in Held(w)
  <2>1. /\ state[d] = "in_flight" /\ c.no = attemptCount[d]
        /\ c.aid \in 1 .. Len(attempts[d]) /\ c.answer \in Answers
        /\ attempts'[d] = [attempts[d] EXCEPT ![c.aid].outcome = c.answer]
        /\ state'[d] = IF c.answer = "ok" THEN "delivered"
                       ELSE IF Spent(attemptCount[d]) THEN "failed" ELSE "pending"
        /\ completed'[d] = (state'[d] # "pending" \/ completed[d])
    BY <1>3, CompletionOf DEF SInv
  <2>2. c.answer = "ok" => accepted[d] > 0
    BY DEF SInv, Truthful
  <2> HIDE DEF c
  <2>3. Spent(attemptCount[d]) <=> attemptCount[d] = MaxAttempts
    BY <1>0, AttemptsAssumption DEF Spent, ChargedRow
  <2>4. Edge(d)
    <3>1. ~Spent(attemptCount[d]) => attemptCount[d] < MaxAttempts
      BY <1>0, AttemptsAssumption DEF Spent
    <3> QED BY <1>1, <2>1, <2>3, <3>1
            DEF Edge, Lifecycle!Moves, Lifecycle!Accepted, Lifecycle!GivenBack, Lifecycle!Exhausted
  <2>5. OkRow(d)' <=> c.answer = "ok"
    <3>1. \A i \in 1 .. Len(attempts[d]) : attempts[d][i].outcome # "ok"
      BY <1>0, <2>1 DEF StoryRow, OkRow
    <3>2. c.answer \in Outcomes
      BY <2>1, Names
    <3>3. /\ Len(attempts'[d]) = Len(attempts[d]) /\ attempts'[d] \in Seq(Row)
          /\ \A i \in 1 .. Len(attempts[d]) : i # c.aid => attempts'[d][i] = attempts[d][i]
          /\ attempts'[d][c.aid].outcome = c.answer
      BY <1>0, <2>1, <3>2, Settled
    <3>4. DOMAIN attempts'[d] = 1 .. Len(attempts[d])
      BY <3>3
    <3> QED BY <2>1, <3>1, <3>3, <3>4 DEF OkRow
  <2>6. StoryRow(d)'
    <3>1. ~completed[d]
      BY <1>0, <2>1 DEF StoryRow, Terminal
    <3> QED BY <1>0, <1>1, <2>1, <2>2, <2>3, <2>5, <3>1 DEF StoryRow, Terminal
  <2> QED BY <2>1, <2>4, <2>6 DEF Sound, Frozen, Terminal
<1> QED BY <1>2, <1>3

\* The sweep gives back or fails what is in flight; policy and rationing decide
\* what is pending.
LEMMA PassSound ==
  ASSUME SInv, NEW skipped, NEW cand, NEW admit, Pass(skipped, cand, admit),
         NEW d \in DeliveryId
  PROVE  Sound(d)
<1> DEFINE reclaimed  == Reclaimable(skipped)
           exhausted  == {e \in reclaimed : Spent(attemptCount[e])}
           requeued   == reclaimed \ exhausted
           queued     == {e \in DeliveryId : state[e] \in Queued} \cup requeued
           stale      == StaleIn(cand)
           superseded == SupersededIn(cand, queued)
<1>0. /\ StoryRow(d) /\ ChargedRow(d) /\ attempts[d] \in Seq(Row)
      /\ attemptCount[d] \in Nat /\ accepted[d] \in Nat
  BY Parts
<1>1. /\ state'[d] = CASE d \in exhausted  -> "failed"
                       [] d \in requeued   -> "pending"
                       [] d \in stale      -> "expired"
                       [] d \in superseded -> "superseded"
                       [] d \in admit      -> "ready"
                       [] OTHER            -> state[d]
      /\ completed'[d] = (d \in exhausted \cup stale \cup superseded \/ completed[d])
      /\ leasedBy'[d] = IF d \in reclaimed THEN NoWorker ELSE leasedBy[d]
      /\ attempts'[d] = IF d \in reclaimed THEN CloseOpen(d, "lease_expired")
                        ELSE attempts[d]
      /\ UNCHANGED <<attemptCount[d], accepted[d]>>
  BY DEF Pass
<1>2. d \in reclaimed => state[d] = "in_flight"
  BY DEF Reclaimable, Expired
<1>3. d \in stale \cup superseded \cup admit => state[d] = "pending"
  BY DEF Pass, Due, StaleIn, SupersededIn
<1>4. /\ d \in exhausted <=> d \in reclaimed /\ Spent(attemptCount[d])
      /\ d \in requeued <=> d \in reclaimed /\ ~Spent(attemptCount[d])
      /\ d \in admit => d \notin stale /\ d \notin superseded
      /\ d \in superseded => d \notin stale
  BY DEF Pass, SupersededIn
<1> HIDE DEF reclaimed, exhausted, requeued, queued, stale, superseded
<1>5. CASE d \in reclaimed
  <2>1. /\ Spent(attemptCount[d]) <=> attemptCount[d] = MaxAttempts
        /\ ~Spent(attemptCount[d]) => attemptCount[d] < MaxAttempts
    BY <1>0, AttemptsAssumption DEF Spent, ChargedRow
  <2>2. /\ state[d] = "in_flight" /\ d \notin stale /\ d \notin superseded
        /\ state'[d] = IF Spent(attemptCount[d]) THEN "failed" ELSE "pending"
        /\ completed'[d] = (Spent(attemptCount[d]) \/ completed[d])
    BY <1>1, <1>2, <1>3, <1>4, <1>5
  <2>3. Edge(d)
    BY <1>1, <2>1, <2>2 DEF Edge, Lifecycle!Moves, Lifecycle!GivenBack, Lifecycle!Exhausted
  <2>4. ~OkRow(d)'
    <3>1. \A i \in 1 .. Len(attempts[d]) : attempts[d][i].outcome # "ok"
      BY <1>0, <2>2 DEF StoryRow, OkRow
    <3>2. DOMAIN attempts[d] = 1 .. Len(attempts[d])
      BY <1>0
    <3>3. \A i \in 1 .. Len(attempts[d]) :
             [attempts[d][i] EXCEPT !.outcome = "lease_expired"].outcome # "ok"
      <4> TAKE i \in 1 .. Len(attempts[d])
      <4>1. attempts[d][i] \in Row
        BY <1>0
      <4> QED BY <4>1 DEF Row
    <3> QED BY <1>1, <1>5, <3>1, <3>2, <3>3 DEF OkRow, CloseOpen
  <2> QED BY <1>0, <1>1, <2>1, <2>2, <2>3, <2>4 DEF Sound, Frozen, StoryRow, Terminal
<1>6. CASE d \in stale \cup superseded \cup admit
  <2>1. /\ state[d] = "pending" /\ attempts'[d] = attempts[d]
        /\ state'[d] \in {"expired", "superseded", "ready"}
        /\ completed'[d] = (state'[d] # "ready" \/ completed[d])
    BY <1>1, <1>2, <1>3, <1>4, <1>6
  <2>2. Edge(d)
    BY <1>1, <2>1 DEF Edge, Lifecycle!Moves, Lifecycle!Dropped, Lifecycle!Admitted
  <2> QED BY <1>0, <1>1, <2>1, <2>2 DEF Sound, Frozen, StoryRow, OkRow, Terminal
<1>7. CASE d \notin reclaimed /\ d \notin stale \cup superseded \cup admit
  <2>1. UNCHANGED <<state[d], attemptCount[d], leasedBy[d], completed[d], attempts[d]>>
    <3>1. completed'[d] = completed[d]
      BY <1>1, <1>4, <1>7 DEF SInv, IInv, TypeOK
    <3> QED BY <1>1, <1>4, <1>7, <3>1
  <2> QED BY <1>0, <1>1, <2>1, Untouched
<1> QED BY <1>5, <1>6, <1>7

-----------------------------------------------------------------------------
\* Nothing in a worker's memory but a Send is new, and no answer is taken back.
LEMMA TruthfulKept ==
  ASSUME SInv, accepted' = accepted,
         \A w \in Worker : \A d \in DeliveryId :
            claimed'[w][d].answer = "ok" => claimed'[w][d] = claimed[w][d]
  PROVE  Truthful'
  BY DEF SInv, Truthful

\* Every step moves each delivery along one edge of the lifecycle at most,
\* leaves a settled one alone, and keeps the invariant.
LEMMA StepSound ==
  ASSUME SInv, [Next]_vars
  PROVE  Truthful' /\ \A d \in DeliveryId : Sound(d)
<1>t. /\ claimed \in [Worker -> [DeliveryId -> Claim]]
      /\ accepted \in [DeliveryId -> Nat]
      /\ NoClaim.answer # "ok"
  BY DEF SInv, IInv, TypeOK, NoClaim, Pending
<1>1. CASE \E e \in DeliveryId : Ingest(e)
  <2>1. PICK e \in DeliveryId : Ingest(e)
    BY <1>1
  <2>2. Truthful'
    BY <2>1, TruthfulKept DEF Ingest, workerVars
  <2> QED BY <2>1, <2>2, IngestSound
<1>2. ASSUME NEW w \in Worker, WorkerStep(w)
      PROVE  Truthful' /\ \A d \in DeliveryId : Sound(d)
  <2>1. CASE \E batch \in SUBSET DeliveryId : ClaimBatch(w, batch)
    <3>1. PICK batch \in SUBSET DeliveryId : ClaimBatch(w, batch)
      BY <2>1
    <3>2. \A d \in DeliveryId : NewClaim(d).answer # "ok"
      BY DEF NewClaim, Pending
    <3>3. Truthful'
      BY <1>t, <3>1, <3>2, TruthfulKept DEF ClaimBatch
    <3> QED BY <3>1, <3>3, ClaimBatchSound
  <2>2. CASE \E answer \in [DeliveryId -> Answers] : Send(w, answer)
    BY <2>2, SendSound
  <2>3. CASE CompleteBatch(w)
    <3>1. Truthful'
      BY <1>t, <2>3, TruthfulKept DEF CompleteBatch
    <3> QED BY <2>3, <3>1, CompleteBatchSound
  <2>4. CASE Abandon(w) \/ Crash(w)
    <3>1. UNCHANGED <<tableVars, accepted>>
      BY <2>4 DEF Abandon, Crash
    <3>2. Truthful'
      BY <1>t, <2>4, TruthfulKept DEF Abandon, Crash
    <3> QED BY <3>1, <3>2, QuietSound DEF tableVars, rowVars
  <2> QED BY <1>2, <2>1, <2>2, <2>3, <2>4 DEF WorkerStep
<1>3. CASE ConductorStep
  <2>1. PICK skipped \in SUBSET Lockable, cand \in SUBSET {d \in DeliveryId : Due(d)} :
           \E admit \in SUBSET cand : Pass(skipped, cand, admit)
    BY <1>3 DEF ConductorStep
  <2>2. PICK admit \in SUBSET cand : Pass(skipped, cand, admit)
    BY <2>1
  <2>3. Truthful'
    BY <2>2, TruthfulKept DEF Pass, workerVars
  <2> QED BY <2>2, <2>3, PassSound
<1>4. CASE Tick \/ UNCHANGED vars
  <2>1. UNCHANGED <<state, attemptCount, leasedBy, completed, attempts, claimed, accepted>>
    BY <1>4 DEF Tick, vars, tableVars, rowVars, workerVars
  <2>2. Truthful'
    BY <2>1, TruthfulKept
  <2> QED BY <2>1, <2>2, QuietSound
<1> QED BY <1>1, <1>2, <1>3, <1>4 DEF Next

\* The strengthened invariant holds at the start and after every step.
LEMMA StoryInductive == (Init => SInv) /\ (SInv /\ [Next]_vars => SInv')
<1>1. ASSUME Init PROVE SInv
  <2>1. SettledByOutcome
    BY <1>1 DEF Init, SettledByOutcome, Terminal
  <2>2. Truthful
    BY <1>1 DEF Init, Truthful, NoClaim, Pending
  <2> QED BY <1>1, <2>1, <2>2, InitInv DEF SInv
<1>2. ASSUME SInv, [Next]_vars PROVE SInv'
  <2>1. \A d \in DeliveryId : StoryRow(d)'
    BY <1>2, StepSound DEF Sound
  <2>2. SettledByOutcome'
    BY <2>1 DEF SettledByOutcome, StoryRow, OkRow
  <2> QED BY <1>2, <2>2, StepInv, StepSound DEF SInv
<1> QED BY <1>1, <1>2

\* The tables agree on how a delivery ended: delivered exactly when an attempt
\* row says ok, which the consumer did say; failed only with the budget spent;
\* completed_at stamped on every settled row and on no other.
THEOREM SettledByOutcomeHolds == Spec => []SettledByOutcome
<1>1. SInv => SettledByOutcome
  BY DEF SInv
<1> QED BY <1>1, StoryInductive, PTL DEF Spec

\* A settled delivery is never written again, by a late completion, a sweep that
\* finds the lease columns still filled in, or policy.
THEOREM TerminalIsFinalHolds == Spec => TerminalIsFinal
<1>1. SInv /\ [Next]_vars =>
        [\A d \in DeliveryId : state[d] \in Terminal =>
            UNCHANGED <<state[d], attemptCount[d], leasedBy[d], completed[d], attempts[d]>>]_vars
  BY StepSound DEF Sound, Frozen
<1> QED BY <1>1, StoryInductive, PTL DEF Spec, TerminalIsFinal

\* The transactions implement the lifecycle: whatever workers, conductor and
\* clock do, each delivery only ever follows its edges, and is charged on one.
THEOREM Refinement == Spec => ImplementsLifecycle
<1>1. Init => Lifecycle!LifecycleInit
  BY DEF Init, Lifecycle!LifecycleInit
<1>2. SInv /\ [Next]_vars => [Lifecycle!LifecycleNext]_(Lifecycle!lifecycleVars)
  <2> SUFFICES ASSUME SInv, [Next]_vars PROVE Lifecycle!LifecycleNext
    OBVIOUS
  <2>1. IInv'
    BY StepInv DEF SInv
  <2>2. state' \in [DeliveryId -> Lifecycle!Stages]
    BY <2>1 DEF IInv, TypeOK, States, Terminal, Lifecycle!Stages, Lifecycle!Terminal
  <2>3. attemptCount' \in [DeliveryId -> 0 .. MaxAttempts]
    BY <2>1, AttemptsAssumption DEF IInv, TypeOK, AttemptsCharged
  <2>4. \A d \in DeliveryId : Lifecycle!Stays(d) \/ Lifecycle!Moves(d)
    BY StepSound DEF Sound, Edge
  <2> QED BY <2>2, <2>3, <2>4 DEF Lifecycle!LifecycleNext
<1> QED BY <1>1, <1>2, StoryInductive, PTL
        DEF Spec, ImplementsLifecycle, Lifecycle!LifecycleSpec

-----------------------------------------------------------------------------
(* A delivery cannot go round for ever.  A try takes three moves (admitted,  *)
(* taken, ended) and there are MaxAttempts of them; a give-back or a lease   *)
(* that a sweep takes away returns a delivery to the queue, never its try.   *)

\* How many moves delivery d still has in it at most.
MovesLeft(d) ==
    LET tries == 3 * (MaxAttempts - attemptCount[d])
    IN  CASE state[d] \in {"absent", "in_flight"} -> tries + 1
          [] state[d] = "pending"                 -> tries
          [] state[d] = "ready"                   -> tries - 1
          [] state[d] \in Terminal                -> 0

\* Each edge of the lifecycle uses at least one of the moves left.
LEMMA MoveSpends ==
  ASSUME SInv, NEW d \in DeliveryId, Lifecycle!Moves(d)
  PROVE  MovesLeft(d) \in Nat /\ MovesLeft(d)' \in Nat /\ MovesLeft(d)' < MovesLeft(d)
<1>1. /\ attemptCount[d] \in Nat /\ MaxAttempts \in Nat
      /\ attemptCount[d] <= MaxAttempts
      /\ state[d] \in {"pending", "ready"} => attemptCount[d] < MaxAttempts
      /\ state[d] = "absent" => attemptCount[d] = 0
  BY Parts, AttemptsAssumption DEF ChargedRow, Queued
<1>2. CASE Lifecycle!Appears(d)
  BY <1>1, <1>2 DEF Lifecycle!Appears, MovesLeft, Terminal
<1>3. CASE Lifecycle!Admitted(d)
  BY <1>1, <1>3 DEF Lifecycle!Admitted, MovesLeft, Terminal
<1>4. CASE Lifecycle!Dropped(d)
  BY <1>1, <1>4 DEF Lifecycle!Dropped, MovesLeft, Terminal
<1>5. CASE Lifecycle!Taken(d)
  BY <1>1, <1>5 DEF Lifecycle!Taken, MovesLeft, Terminal
<1>6. CASE Lifecycle!Accepted(d) \/ Lifecycle!Exhausted(d)
  BY <1>1, <1>6 DEF Lifecycle!Accepted, Lifecycle!Exhausted, MovesLeft, Terminal
<1>7. CASE Lifecycle!GivenBack(d)
  BY <1>1, <1>7 DEF Lifecycle!GivenBack, MovesLeft, Terminal
<1> QED BY <1>2, <1>3, <1>4, <1>5, <1>6, <1>7 DEF Lifecycle!Moves

\* No delivery is retried, reaped and re-admitted without end: whatever workers,
\* crashes, sweeps and policy do with it, every change of its state uses up one of
\* at most 3 * MaxAttempts + 1 moves; a step that leaves its state alone uses none.
THEOREM EveryMoveSpends ==
  Spec => [][\A d \in DeliveryId :
                IF state'[d] = state[d]
                THEN MovesLeft(d)' = MovesLeft(d)
                ELSE /\ MovesLeft(d) \in 1 .. (3 * MaxAttempts + 1)
                     /\ MovesLeft(d)' \in 0 .. (MovesLeft(d) - 1)]_vars
<1>1. SInv /\ [Next]_vars =>
        [\A d \in DeliveryId :
            IF state'[d] = state[d]
            THEN MovesLeft(d)' = MovesLeft(d)
            ELSE /\ MovesLeft(d) \in 1 .. (3 * MaxAttempts + 1)
                 /\ MovesLeft(d)' \in 0 .. (MovesLeft(d) - 1)]_vars
  <2> SUFFICES ASSUME SInv, [Next]_vars, NEW d \in DeliveryId
               PROVE  IF state'[d] = state[d]
                      THEN MovesLeft(d)' = MovesLeft(d)
                      ELSE /\ MovesLeft(d) \in 1 .. (3 * MaxAttempts + 1)
                           /\ MovesLeft(d)' \in 0 .. (MovesLeft(d) - 1)
    OBVIOUS
  <2>1. Edge(d)
    BY StepSound DEF Sound
  <2>2. CASE Lifecycle!Stays(d)
    BY <2>2 DEF Lifecycle!Stays, MovesLeft
  <2>3. CASE Lifecycle!Moves(d)
    <3>1. state'[d] # state[d]
      BY <2>3 DEF Lifecycle!Moves, Lifecycle!Appears, Lifecycle!Admitted, Lifecycle!Dropped,
             Lifecycle!Taken, Lifecycle!Accepted, Lifecycle!GivenBack, Lifecycle!Exhausted
    <3>2. MovesLeft(d) \in Nat /\ MovesLeft(d)' \in Nat /\ MovesLeft(d)' < MovesLeft(d)
      BY <2>3, MoveSpends
    <3>3. MovesLeft(d) <= 3 * MaxAttempts + 1
      BY Parts, AttemptsAssumption DEF MovesLeft, States, Terminal
    <3> QED BY <3>1, <3>2, <3>3, AttemptsAssumption
  <2> QED BY <2>1, <2>2, <2>3 DEF Edge
<1> QED BY <1>1, StoryInductive, PTL DEF Spec

-----------------------------------------------------------------------------
(* Coalescing.  A pass decides all its candidates at once, so that one is    *)
(* superseded by another that the same pass supersedes; the newest of those  *)
(* kept so far is the one to look at.                                        *)

\* A non-empty finite set of ids has a newest one.
LEMMA HasNewest ==
  ASSUME NEW S, IsFiniteSet(S), S \subseteq Int, S # {}
  PROVE  \E e \in S : \A f \in S : f <= e
<1> DEFINE Above(e) == {f \in S : f > e}
           R == StrictSubsetOrdering(S)
           T == {Above(e) : e \in S}
<1>1. IsWellFoundedOn(R, SUBSET S)
  BY FS_FiniteSubsetsOfFinite, FS_StrictSubsetOrderingWellFounded
<1>2. T \subseteq SUBSET S /\ T # {}
  OBVIOUS
<1>3. PICK x \in T : \A y \in T : <<y, x>> \notin R
  <2> HIDE DEF R, T
  <2> QED BY <1>1, <1>2, WFMin
<1>4. PICK e \in S : x = Above(e)
  BY <1>3
<1>5. ASSUME NEW f \in S, f > e PROVE FALSE
  <2>1. Above(f) \in T /\ Above(f) \in SUBSET S /\ Above(e) \in SUBSET S
    OBVIOUS
  <2>2. f \in Above(e) /\ f \notin Above(f)
    BY <1>5
  <2>3. \A g \in Above(f) : g \in Above(e)
    BY <1>5
  <2>4. <<Above(f), Above(e)>> \in R
    <3> HIDE DEF Above
    <3> QED BY <2>1, <2>2, <2>3 DEF StrictSubsetOrdering
  <2> QED BY <1>3, <1>4, <2>1, <2>4
<1> QED BY <1>5

Arrived == {d \in DeliveryId : state[d] # "absent"}

\* The newer deliveries of d's key that are kept.
Kept(d) == {e \in DeliveryId : /\ KeyOf[e] = KeyOf[d] /\ d < e
                               /\ state[e] \notin {"absent", "superseded"}}

\* There is no end of ids to come, but only so many have.
NInv == IInv /\ NewestSurvives /\ IsFiniteSet(Arrived)

\* A step that supersedes nothing and takes no row away.
LEMMA NothingSuperseded ==
  ASSUME NewestSurvives,
         \A d \in DeliveryId :
            /\ state'[d] = "superseded" <=> state[d] = "superseded"
            /\ state[d] # "absent" => state'[d] # "absent"
  PROVE  NewestSurvives'
  BY DEF NewestSurvives

\* The rows that a pass supersedes have a newer one that it keeps.
LEMMA PassKeepsNewest ==
  ASSUME NInv, NEW skipped \in SUBSET Lockable,
         NEW cand \in SUBSET {d \in DeliveryId : Due(d)}, NEW admit \in SUBSET cand,
         Pass(skipped, cand, admit)
  PROVE  NewestSurvives' /\ Arrived' = Arrived
<1> DEFINE reclaimed  == Reclaimable(skipped)
           requeued   == reclaimed \ {d \in reclaimed : Spent(attemptCount[d])}
           queued     == {d \in DeliveryId : state[d] \in Queued} \cup requeued
           superseded == SupersededIn(cand, queued)
<1>1. \A d \in DeliveryId :
         /\ state'[d] = "superseded" => state[d] = "superseded" \/ d \in superseded
         /\ state'[d] = "absent" <=> state[d] = "absent"
  <2>1. \A d \in reclaimed : state[d] = "in_flight"
    BY DEF Reclaimable, Expired
  <2>2. \A d \in cand : state[d] = "pending"
    BY DEF Due
  <2>3. StaleIn(cand) \subseteq cand /\ superseded \subseteq cand
    BY DEF StaleIn, SupersededIn
  <2>4. state' = [d \in DeliveryId |->
                    CASE d \in {e \in reclaimed : Spent(attemptCount[e])} -> "failed"
                      [] d \in requeued      -> "pending"
                      [] d \in StaleIn(cand) -> "expired"
                      [] d \in superseded    -> "superseded"
                      [] d \in admit         -> "ready"
                      [] OTHER               -> state[d]]
    BY DEF Pass
  <2>5. requeued \subseteq reclaimed
    OBVIOUS
  <2> DEFINE exhausted == {d \in reclaimed : Spent(attemptCount[d])}
             value(d) == CASE d \in exhausted      -> "failed"
                           [] d \in requeued       -> "pending"
                           [] d \in StaleIn(cand)  -> "expired"
                           [] d \in superseded     -> "superseded"
                           [] d \in admit          -> "ready"
                           [] OTHER                -> state[d]
  <2>6. exhausted \subseteq reclaimed
    OBVIOUS
  <2>7. \A d \in DeliveryId : state'[d] = value(d)
    BY <2>4
  <2> HIDE DEF reclaimed, requeued, superseded, exhausted
  <2>8. ASSUME NEW d \in DeliveryId
        PROVE  /\ value(d) = "superseded" => state[d] = "superseded" \/ d \in superseded
               /\ value(d) = "absent" <=> state[d] = "absent"
    BY <2>1, <2>2, <2>3, <2>5, <2>6
  <2> HIDE DEF value
  <2> QED BY <2>7, <2>8
<1>2. \A e \in queued : e \in DeliveryId /\ state[e] \notin {"absent", "superseded"}
  BY DEF Reclaimable, Expired, Queued
<1>3. \A d \in superseded : \E e \in queued : KeyOf[e] = KeyOf[d] /\ d < e
  BY DEF SupersededIn
<1> HIDE DEF reclaimed, requeued, queued, superseded
<1>4. ASSUME NEW d \in DeliveryId, state'[d] = "superseded"
      PROVE  \E e \in DeliveryId : /\ KeyOf[e] = KeyOf[d] /\ d < e
                                   /\ state'[e] \notin {"absent", "superseded"}
  <2>1. Kept(d) # {}
    BY <1>1, <1>2, <1>3, <1>4 DEF Kept, NInv, NewestSurvives
  <2>2. Kept(d) \subseteq Int /\ Kept(d) \subseteq Arrived
    BY IdsAssumption DEF Kept, Arrived
  <2>3. IsFiniteSet(Kept(d))
    BY <2>2, FS_Subset DEF NInv
  <2>4. PICK e \in Kept(d) : \A f \in Kept(d) : f <= e
    BY <2>1, <2>2, <2>3, HasNewest
  <2>5. e \in DeliveryId /\ KeyOf[e] = KeyOf[d] /\ d < e /\ state[e] \notin {"absent", "superseded"}
    BY DEF Kept
  <2>6. e \notin superseded
    <3> SUFFICES ASSUME e \in superseded PROVE FALSE
      OBVIOUS
    <3>1. PICK f \in queued : KeyOf[f] = KeyOf[e] /\ e < f
      BY <1>3
    <3>2. d \in Int /\ e \in Int /\ f \in Int
      BY <1>2, <2>5, IdsAssumption
    <3>3. f \in Kept(d)
      BY <1>2, <2>5, <3>1, <3>2 DEF Kept
    <3> QED BY <2>4, <3>1, <3>2, <3>3
  <2> QED BY <1>1, <2>5, <2>6
<1> QED BY <1>1, <1>4 DEF NewestSurvives, Arrived

LEMMA NewestInductive == (Init => NInv) /\ (NInv /\ [Next]_vars => NInv')
<1>1. ASSUME Init PROVE NInv
  <2>1. Arrived = {} /\ NewestSurvives
    BY <1>1 DEF Init, Arrived, NewestSurvives
  <2> QED BY <1>1, <2>1, InitInv, FS_EmptySet DEF NInv
<1>2. ASSUME NInv, [Next]_vars PROVE NewestSurvives' /\ IsFiniteSet(Arrived')
  <2>t. state \in [DeliveryId -> States]
    BY <1>2 DEF NInv, IInv, TypeOK
  <2>1. CASE \E d \in DeliveryId : Ingest(d)
    <3>1. PICK e \in DeliveryId : Ingest(e)
      BY <2>1
    <3>2. state[e] = "absent" /\ state' = [state EXCEPT ![e] = "pending"]
      BY <3>1 DEF Ingest
    <3>3. Arrived' = Arrived \cup {e}
      BY <2>t, <3>2 DEF Arrived
    <3>4. NewestSurvives'
      BY <1>2, <2>t, <3>2, NothingSuperseded DEF NInv
    <3> QED BY <1>2, <3>3, <3>4, FS_AddElement DEF NInv
  <2>2. ASSUME \A d \in DeliveryId :
                  /\ state'[d] = "superseded" <=> state[d] = "superseded"
                  /\ state[d] # "absent" <=> state'[d] # "absent"
        PROVE  NewestSurvives' /\ IsFiniteSet(Arrived')
    <3>1. Arrived' = Arrived
      BY <2>2 DEF Arrived
    <3> QED BY <1>2, <2>2, <3>1, NothingSuperseded DEF NInv
  <2>3. ASSUME NEW w \in Worker, WorkerStep(w)
        PROVE  NewestSurvives' /\ IsFiniteSet(Arrived')
    <3>1. CASE \E batch \in SUBSET DeliveryId : ClaimBatch(w, batch)
      <4>1. PICK batch \in SUBSET DeliveryId : ClaimBatch(w, batch)
        BY <3>1
      <4>2. \A d \in batch : state[d] = "ready"
        BY <4>1 DEF ClaimBatch
      <4>3. \A d \in DeliveryId : /\ d \notin batch => state'[d] = state[d]
                                  /\ d \in batch => state'[d] \in {"in_flight", "expired"}
        BY <4>1 DEF ClaimBatch
      <4> QED BY <2>2, <4>2, <4>3
    <3>2. CASE CompleteBatch(w)
      <4>1. \A d \in DeliveryId : \/ state'[d] = state[d]
                                  \/ /\ state[d] = "in_flight"
                                     /\ state'[d] \in {"delivered", "failed", "pending"}
        BY <3>2 DEF CompleteBatch, Held
      <4> QED BY <2>2, <4>1
    <3>3. CASE \/ Abandon(w) \/ Crash(w)
               \/ \E answer \in [DeliveryId -> Answers] : Send(w, answer)
      <4>1. state' = state
        BY <3>3 DEF Abandon, Crash, Send, tableVars, rowVars
      <4> QED BY <2>2, <4>1
    <3> QED BY <2>3, <3>1, <3>2, <3>3 DEF WorkerStep
  <2>4. CASE ConductorStep
    <3>1. PICK skipped \in SUBSET Lockable, cand \in SUBSET {d \in DeliveryId : Due(d)} :
             \E admit \in SUBSET cand : Pass(skipped, cand, admit)
      BY <2>4 DEF ConductorStep
    <3>2. PICK admit \in SUBSET cand : Pass(skipped, cand, admit)
      BY <3>1
    <3> QED BY <1>2, <3>2, PassKeepsNewest DEF NInv
  <2>5. CASE Tick \/ UNCHANGED vars
    <3>1. state' = state
      BY <2>5 DEF Tick, vars, tableVars, rowVars
    <3> QED BY <2>2, <3>1
  <2> QED BY <1>2, <2>1, <2>3, <2>4, <2>5 DEF Next
<1>3. Arrived' = {d \in DeliveryId : state'[d] # "absent"}
  BY DEF Arrived
<1> QED BY <1>1, <1>2, StepInv DEF NInv

\* Coalescing never silences a key: whatever a pass supersedes, a newer delivery
\* of the key is kept, however many the same pass supersedes with it.
THEOREM NewestSurvivesHolds == Spec => []NewestSurvives
<1>1. NInv => NewestSurvives
  BY DEF NInv
<1> QED BY <1>1, NewestInductive, PTL DEF Spec
=============================================================================
