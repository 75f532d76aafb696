--------------------------- MODULE Delivery_proofs ---------------------------
(***************************************************************************)
(* The delivery pipeline keeps its two tables and its workers' memory      *)
(* consistent, for any number of deliveries, workers and attempts.         *)
(***************************************************************************)
EXTENDS Delivery, TLAPS

\* The inductive invariant.  FencesAgree is not a conjunct: it follows.
IInv ==
    /\ TypeOK
    /\ LeaseMatchesAttempt
    /\ AttemptsCharged
    /\ ClaimsTracked

-----------------------------------------------------------------------------
(* The parts of the invariant that speak of one delivery, and of one claim.  *)

LeaseRow(d) ==
    /\ state[d] = "in_flight" =>
          /\ attempts[d] # <<>>
          /\ attempts[d][Len(attempts[d])] = [worker |-> leasedBy[d], outcome |-> Open]
    /\ \A i \in DOMAIN attempts[d] :
          attempts[d][i].outcome = Open =>
             i = Len(attempts[d]) /\ state[d] = "in_flight"

ChargedRow(d) ==
    /\ Len(attempts[d]) = attemptCount[d]
    /\ attemptCount[d] <= MaxAttempts
    /\ state[d] \in Queued => attemptCount[d] < MaxAttempts
    /\ state[d] = "absent" => attemptCount[d] = 0

ClaimRow(w, d) ==
    LET c == claimed[w][d] IN
    /\ phase[w] \in {"sending", "answered"}
    /\ phase[w] = "answered" => c.answer \in Answers
    /\ c.aid \in DOMAIN attempts[d] /\ c.no = c.aid
    /\ attempts[d][c.aid].worker = w
    /\ \A i \in DOMAIN attempts[d] : c.aid < i => attempts[d][i].worker # w

\* backoff_s answers with a positive delay, never beyond its cap.
LEMMA BackoffRange == \A n \in 1 .. MaxAttempts : Backoff(n) \in 1 .. BackoffCap
<1> SUFFICES ASSUME NEW n \in 1 .. MaxAttempts PROVE Backoff(n) \in 1 .. BackoffCap
  OBVIOUS
<1> DEFINE uncapped == BackoffBase * 2^(n - 1)
<1>1. uncapped \in Nat \ {0}
  BY BackoffAssumption
<1>2. Backoff(n) = IF uncapped < BackoffCap THEN uncapped ELSE BackoffCap
  BY DEF Backoff
<1> HIDE DEF uncapped
<1> QED BY <1>1, <1>2, BackoffAssumption

\* Open is not an outcome; no state is both queued and anything else.
LEMMA Names ==
    /\ Open \notin Outcomes
    /\ Answers \subseteq Outcomes
    /\ Pending \notin Answers
  BY DEF Open, Outcomes, Answers, Pending

\* The two fences of complete_batch agree, because the newest attempt of a
\* delivery in flight is the holder's and a worker never attempts a delivery
\* again while it still has it in hand.
LEMMA InvFences == IInv => FencesAgree
<1> SUFFICES ASSUME IInv, NEW w \in Worker, NEW d \in InHand(w)
             PROVE  d \in Held(w) <=> attempts[d][claimed[w][d].aid].outcome = Open
  BY DEF FencesAgree
<1>0. /\ d \in DeliveryId /\ attempts[d] \in Seq(Row)
      /\ leasedBy[d] \in Worker \cup {NoWorker}
  BY DEF InHand, IInv, TypeOK
<1> DEFINE aid == claimed[w][d].aid
<1>1. /\ aid \in 1 .. Len(attempts[d])
      /\ attempts[d][aid].worker = w
      /\ \A i \in 1 .. Len(attempts[d]) : aid < i => attempts[d][i].worker # w
  BY <1>0 DEF IInv, ClaimsTracked
<1>2. LeaseRow(d)
  BY <1>0 DEF IInv, LeaseMatchesAttempt, LeaseRow
<1> HIDE DEF aid
<1>3. ASSUME d \in Held(w)
      PROVE  attempts[d][aid].outcome = Open
  <2>1. state[d] = "in_flight" /\ leasedBy[d] = w
    BY <1>3 DEF Held
  <2>2. attempts[d][Len(attempts[d])] = [worker |-> w, outcome |-> Open]
    BY <1>2, <2>1 DEF LeaseRow
  <2>3. aid = Len(attempts[d])
    BY <1>0, <1>1, <2>2
  <2> QED BY <2>2, <2>3
<1>4. ASSUME attempts[d][aid].outcome = Open
      PROVE  d \in Held(w)
  <2>1. aid = Len(attempts[d]) /\ state[d] = "in_flight"
    BY <1>0, <1>1, <1>2, <1>4 DEF LeaseRow
  <2>2. leasedBy[d] = w
    BY <1>0, <1>1, <1>2, <2>1 DEF LeaseRow
  <2> QED BY <2>1, <2>2 DEF Held
<1> QED BY <1>3, <1>4 DEF aid

-----------------------------------------------------------------------------
\* No row, no claim: the empty tables satisfy the invariant.
LEMMA InitInv == Init => IInv
  <1> SUFFICES ASSUME Init PROVE IInv
    OBVIOUS
  <1> USE IdsAssumption, WorkerAssumption, AttemptsAssumption, LeaseAssumption,
          BackoffAssumption DEF Init
  <1>1. TypeOK
    BY DEF TypeOK, States, Phases, NoClaim, Claim, Pending, Terminal
  <1>2. LeaseMatchesAttempt
    BY DEF LeaseMatchesAttempt
  <1>3. AttemptsCharged
    BY DEF AttemptsCharged, Queued
  <1>4. ClaimsTracked
    BY DEF ClaimsTracked, InHand
  <1> QED BY <1>1, <1>2, <1>3, <1>4 DEF IInv

-----------------------------------------------------------------------------
(* One lemma per action.  Each takes the four conjuncts in turn.             *)
(* A new row has no attempt and is in nobody's hand.                         *)
LEMMA IngestInv == ASSUME IInv, NEW d \in DeliveryId, Ingest(d) PROVE IInv'
<1> USE DEF Ingest
<1>1. TypeOK'
  BY BackoffAssumption DEF IInv, TypeOK, rowVars, tableVars, workerVars, States
<1>2. LeaseMatchesAttempt'
  BY DEF IInv, TypeOK, LeaseMatchesAttempt
<1>3. AttemptsCharged'
  BY AttemptsAssumption DEF IInv, TypeOK, AttemptsCharged, Queued, workerVars
<1>4. ClaimsTracked'
  BY DEF IInv, TypeOK, ClaimsTracked, InHand, workerVars
<1> QED BY <1>1, <1>2, <1>3, <1>4 DEF IInv

\* What Append and the closing of rows do to a sequence of attempt rows.
LEMMA Appended ==
  ASSUME NEW s \in Seq(Row), NEW r \in Row
  PROVE  /\ Append(s, r) \in Seq(Row)
         /\ Len(Append(s, r)) = Len(s) + 1
         /\ Append(s, r)[Len(s) + 1] = r
         /\ \A i \in 1 .. Len(s) : Append(s, r)[i] = s[i]
  OBVIOUS

\* What is in hand stays tracked when rows are only closed or appended, as
\* long as none of the new ones is of the same worker.
LEMMA ClaimKept ==
  ASSUME NEW v \in Worker, NEW d \in DeliveryId,
         ClaimRow(v, d), claimed'[v][d] = claimed[v][d], phase'[v] = phase[v],
         DOMAIN attempts[d] \subseteq DOMAIN attempts'[d],
         \A i \in DOMAIN attempts[d] : attempts'[d][i].worker = attempts[d][i].worker,
         \A i \in DOMAIN attempts'[d] \ DOMAIN attempts[d] : attempts'[d][i].worker # v
  PROVE  ClaimRow(v, d)'
  BY DEF ClaimRow

\* A claim opens one attempt row per leased delivery and charges it once.
LEMMA ClaimBatchInv ==
  ASSUME IInv, NEW w \in Worker, NEW batch \in SUBSET DeliveryId, ClaimBatch(w, batch)
  PROVE  IInv'
<1> DEFINE live  == {d \in batch : ~Stale(d)}
           stale == batch \ live
           new   == [worker |-> w, outcome |-> Open]
<1>1. /\ \A d \in live \cup stale : d \in DeliveryId /\ state[d] = "ready"
      /\ state' = [d \in DeliveryId |->
                     IF d \in live THEN "in_flight"
                     ELSE IF d \in stale THEN "expired" ELSE state[d]]
      /\ completed' = [d \in DeliveryId |-> d \in stale \/ completed[d]]
      /\ leasedBy'  = [d \in DeliveryId |-> IF d \in live THEN w ELSE leasedBy[d]]
      /\ leaseLeft' = [d \in DeliveryId |->
                         IF d \in live THEN LeaseDuration ELSE leaseLeft[d]]
      /\ attemptCount' = [d \in DeliveryId |->
                         IF d \in live THEN attemptCount[d] + 1 ELSE attemptCount[d]]
      /\ attempts' = [d \in DeliveryId |->
                         IF d \in live THEN Append(attempts[d], new) ELSE attempts[d]]
      /\ claimed' = [claimed EXCEPT ![w] = [d \in DeliveryId |->
                         IF d \in live
                         THEN [aid |-> Len(attempts[d]) + 1,
                               no |-> attemptCount[d] + 1, answer |-> Pending]
                         ELSE NoClaim]]
      /\ phase' = [phase EXCEPT ![w] = IF live = {} THEN "idle" ELSE "sending"]
      /\ phase[w] = "idle"
      /\ UNCHANGED <<dueIn, age, accepted>>
      /\ live \cap stale = {}
  BY DEF ClaimBatch, NewClaim
<1> HIDE DEF live, stale
<1>2. new \in Row
  BY DEF Row
<1>t. /\ attempts \in [DeliveryId -> Seq(Row)]
      /\ attemptCount \in [DeliveryId -> Nat]
      /\ claimed \in [Worker -> [DeliveryId -> Claim]]
      /\ phase \in [Worker -> Phases]
      /\ state \in [DeliveryId -> States]
      /\ leasedBy \in [DeliveryId -> Worker \cup {NoWorker}]
  BY DEF IInv, TypeOK
<1>a. \A d \in DeliveryId :
        /\ d \in live => /\ attempts'[d] \in Seq(Row)
                         /\ Len(attempts'[d]) = Len(attempts[d]) + 1
                         /\ attempts'[d][Len(attempts[d]) + 1] = new
                         /\ \A i \in 1 .. Len(attempts[d]) : attempts'[d][i] = attempts[d][i]
        /\ d \notin live => attempts'[d] = attempts[d]
  BY <1>1, <1>2, <1>t, Appended
<1> HIDE DEF new
<1>3. TypeOK'
  <2>1. attempts' \in [DeliveryId -> Seq(Row)]
    BY <1>1, <1>a, <1>t
  <2>2. claimed' \in [Worker -> [DeliveryId -> Claim]]
    <3>1. NoClaim \in Claim
      BY DEF NoClaim, Claim
    <3>2. \A d \in DeliveryId : [aid |-> Len(attempts[d]) + 1,
                no |-> attemptCount[d] + 1, answer |-> Pending] \in Claim
      BY <1>t DEF Claim
    <3> QED BY <1>1, <1>t, <3>1, <3>2
  <2>3. state' \in [DeliveryId -> States] /\ completed' \in [DeliveryId -> BOOLEAN]
    BY <1>1 DEF IInv, TypeOK, States, Terminal
  <2>4. leaseLeft' \in [DeliveryId -> -1 .. LeaseDuration]
    BY <1>1, LeaseAssumption DEF IInv, TypeOK
  <2>5. phase' \in [Worker -> Phases]
    BY <1>1 DEF IInv, TypeOK, Phases
  <2>6. leasedBy' \in [DeliveryId -> Worker \cup {NoWorker}]
    BY <1>1, <1>t
  <2>7. attemptCount' \in [DeliveryId -> Nat]
    BY <1>1, <1>t
  <2>8. /\ dueIn' \in [DeliveryId -> -1 .. BackoffCap] /\ age' \in [DeliveryId -> Nat]
        /\ accepted' \in [DeliveryId -> Nat]
    BY <1>1 DEF IInv, TypeOK
  <2> QED BY <2>1, <2>2, <2>3, <2>4, <2>5, <2>6, <2>7, <2>8 DEF TypeOK
<1>4. LeaseMatchesAttempt'
  <2> SUFFICES ASSUME NEW d \in DeliveryId PROVE LeaseRow(d)'
    BY DEF LeaseMatchesAttempt, LeaseRow
  <2>0. LeaseRow(d)
    BY DEF IInv, LeaseMatchesAttempt, LeaseRow
  <2>1. CASE d \in live
    <3>1. /\ state'[d] = "in_flight" /\ leasedBy'[d] = w /\ state[d] = "ready"
      BY <1>1, <2>1
    <3>2. \A i \in 1 .. Len(attempts[d]) : attempts[d][i].outcome # Open
      BY <2>0, <3>1, <1>t DEF LeaseRow
    <3>3. /\ Len(attempts'[d]) = Len(attempts[d]) + 1
          /\ DOMAIN attempts'[d] = 1 .. Len(attempts[d]) + 1
          /\ attempts'[d][Len(attempts[d]) + 1] = [worker |-> w, outcome |-> Open]
          /\ \A i \in 1 .. Len(attempts[d]) : attempts'[d][i] = attempts[d][i]
      BY <1>a, <1>t, <2>1 DEF new
    <3>4. Len(attempts[d]) \in Nat /\ attempts'[d] # <<>>
      BY <1>t, <3>3
    <3>5. \A i \in DOMAIN attempts'[d] :
             attempts'[d][i].outcome = Open => i = Len(attempts'[d])
      BY <3>2, <3>3, <3>4
    <3> QED BY <3>1, <3>3, <3>4, <3>5 DEF LeaseRow
  <2>2. CASE d \notin live
    <3>1. /\ state[d] = "in_flight" <=> state'[d] = "in_flight"
          /\ attempts'[d] = attempts[d] /\ leasedBy'[d] = leasedBy[d]
      BY <1>1, <1>a, <2>2
    <3> QED BY <2>0, <3>1 DEF LeaseRow
  <2> QED BY <2>1, <2>2
<1>5. AttemptsCharged'
  <2> SUFFICES ASSUME NEW d \in DeliveryId PROVE ChargedRow(d)'
    BY DEF AttemptsCharged, ChargedRow
  <2>0. ChargedRow(d)
    BY DEF IInv, AttemptsCharged, ChargedRow
  <2>1. CASE d \in live
    BY <1>1, <1>a, <1>t, <2>0, <2>1, AttemptsAssumption DEF ChargedRow, Queued
  <2>2. CASE d \notin live
    BY <1>1, <1>a, <1>t, <2>0, <2>2 DEF ChargedRow, Queued
  <2> QED BY <2>1, <2>2
<1>6. ClaimsTracked'
  <2> SUFFICES ASSUME NEW v \in Worker, NEW d \in DeliveryId, claimed'[v][d] # NoClaim
               PROVE  ClaimRow(v, d)'
    BY DEF ClaimsTracked, ClaimRow, InHand
  <2>1. CASE v = w
    <3>1. d \in live /\ claimed'[w][d] = [aid |-> Len(attempts[d]) + 1,
                                          no |-> attemptCount[d] + 1, answer |-> Pending]
      BY <1>1, <1>t, <2>1
    <3>2. phase'[w] = "sending"
      BY <1>1, <1>t, <3>1
    <3>3. Len(attempts[d]) = attemptCount[d]
      BY DEF IInv, AttemptsCharged
    <3>4. /\ DOMAIN attempts'[d] = 1 .. Len(attempts[d]) + 1
          /\ attempts'[d][Len(attempts[d]) + 1].worker = w
          /\ Len(attempts[d]) \in Nat
      BY <1>a, <1>t, <3>1 DEF new
    <3> QED BY <2>1, <3>1, <3>2, <3>3, <3>4 DEF ClaimRow
  <2>2. CASE v # w
    <3>1. claimed'[v][d] = claimed[v][d] /\ phase'[v] = phase[v]
      BY <1>1, <1>t, <2>2
    <3>2. ClaimRow(v, d)
      BY <3>1 DEF IInv, ClaimsTracked, ClaimRow, InHand
    <3>3. CASE d \in live
      <4>1. /\ DOMAIN attempts[d] = 1 .. Len(attempts[d])
            /\ DOMAIN attempts'[d] = 1 .. Len(attempts[d]) + 1
            /\ Len(attempts[d]) \in Nat
        BY <1>a, <1>t, <3>3
      <4>2. /\ attempts'[d][Len(attempts[d]) + 1].worker = w
            /\ \A i \in 1 .. Len(attempts[d]) : attempts'[d][i] = attempts[d][i]
        BY <1>a, <3>3 DEF new
      <4>3. \A i \in DOMAIN attempts'[d] \ DOMAIN attempts[d] : i = Len(attempts[d]) + 1
        BY <4>1
      <4> QED BY <2>2, <3>1, <3>2, <4>1, <4>2, <4>3, ClaimKept
    <3>4. CASE d \notin live
      BY <1>a, <3>1, <3>2, <3>4 DEF ClaimRow
    <3> QED BY <3>3, <3>4
  <2> QED BY <2>1, <2>2
<1> QED BY <1>3, <1>4, <1>5, <1>6 DEF IInv

\* The answers change what is in hand, and no row.
LEMMA SendInv ==
  ASSUME IInv, NEW w \in Worker, NEW answer \in [DeliveryId -> Answers], Send(w, answer)
  PROVE  IInv'
<1> USE DEF tableVars, rowVars
<1>1. \A d \in InHand(w) : d \in DeliveryId
  BY DEF InHand
<1>2. TypeOK'
  <2>1. claimed' \in [Worker -> [DeliveryId -> Claim]]
    <3>1. NoClaim \in Claim
      BY DEF NoClaim, Claim
    <3>2. ASSUME NEW c \in Claim, NEW a \in Answers
          PROVE  [c EXCEPT !.answer = a] \in Claim
      BY DEF Claim
    <3>3. \A d \in DeliveryId : [claimed[w][d] EXCEPT !.answer = answer[d]] \in Claim
      <4> TAKE d \in DeliveryId
      <4>1. claimed[w][d] \in Claim /\ answer[d] \in Answers
        BY DEF IInv, TypeOK
      <4> QED BY <3>2, <4>1
    <3> QED BY <3>1, <3>3 DEF Send, IInv, TypeOK
  <2>2. accepted' \in [DeliveryId -> Nat]
    BY DEF Send, IInv, TypeOK
  <2>3. phase' \in [Worker -> Phases]
    BY DEF Send, IInv, TypeOK, Phases
  <2> QED BY <2>1, <2>2, <2>3 DEF Send, IInv, TypeOK
<1>3. LeaseMatchesAttempt' /\ AttemptsCharged'
  BY DEF Send, IInv, LeaseMatchesAttempt, AttemptsCharged
<1>4. ClaimsTracked'
  <2> SUFFICES ASSUME NEW v \in Worker, NEW d \in DeliveryId, claimed'[v][d] # NoClaim
               PROVE  ClaimRow(v, d)'
    BY DEF ClaimsTracked, ClaimRow, InHand
  <2>0. attempts' = attempts
    BY DEF Send
  <2>1. CASE v = w
    <3>1. claimed'[w][d] = IF d \in InHand(w)
                           THEN [claimed[w][d] EXCEPT !.answer = answer[d]] ELSE NoClaim
      BY DEF Send, IInv, TypeOK
    <3>2. d \in InHand(w)
      BY <2>1, <3>1
    <3>3. /\ claimed'[w][d].answer \in Answers
          /\ claimed'[w][d].aid = claimed[w][d].aid
          /\ claimed'[w][d].no = claimed[w][d].no
      BY <3>1, <3>2 DEF IInv, TypeOK, Claim
    <3>4. phase'[w] = "answered"
      BY DEF Send, IInv, TypeOK
    <3>5. ClaimRow(w, d)
      BY <3>2 DEF IInv, ClaimsTracked, ClaimRow
    <3> QED BY <2>0, <2>1, <3>3, <3>4, <3>5 DEF ClaimRow
  <2>2. CASE v # w
    <3>1. claimed'[v][d] = claimed[v][d] /\ phase'[v] = phase[v]
      BY <2>2 DEF Send, IInv, TypeOK
    <3>2. ClaimRow(v, d)
      BY <3>1 DEF IInv, ClaimsTracked, ClaimRow, InHand
    <3> QED BY <2>0, <3>1, <3>2 DEF ClaimRow
  <2> QED BY <2>1, <2>2
<1> QED BY <1>2, <1>3, <1>4 DEF IInv

\* A worker that forgets its batch disturbs no row and no other worker.
LEMMA ForgetInv ==
  ASSUME IInv, NEW w \in Worker, Abandon(w) \/ Crash(w)
  PROVE  IInv'
<1>1. /\ claimed' = [claimed EXCEPT ![w] = [d \in DeliveryId |-> NoClaim]]
      /\ \E p \in {"idle", "dead"} : phase' = [phase EXCEPT ![w] = p]
      /\ UNCHANGED <<tableVars, accepted>>
  BY DEF Abandon, Crash
<1> USE DEF tableVars, rowVars
<1>2. TypeOK'
  <2>1. NoClaim \in Claim
    BY DEF NoClaim, Claim
  <2>2. claimed' \in [Worker -> [DeliveryId -> Claim]]
    BY <1>1, <2>1 DEF IInv, TypeOK
  <2>3. phase' \in [Worker -> Phases]
    BY <1>1 DEF IInv, TypeOK, Phases
  <2> QED BY <1>1, <2>2, <2>3 DEF IInv, TypeOK
<1>3. LeaseMatchesAttempt' /\ AttemptsCharged'
  BY <1>1 DEF IInv, LeaseMatchesAttempt, AttemptsCharged
<1>4. ClaimsTracked'
  <2> SUFFICES ASSUME NEW v \in Worker, NEW d \in DeliveryId, claimed'[v][d] # NoClaim
               PROVE  ClaimRow(v, d)'
    BY DEF ClaimsTracked, ClaimRow, InHand
  <2>1. v # w
    BY <1>1 DEF IInv, TypeOK
  <2>2. claimed'[v][d] = claimed[v][d] /\ phase'[v] = phase[v]
    BY <1>1, <2>1 DEF IInv, TypeOK
  <2>3. ClaimRow(v, d)
    BY <2>2 DEF IInv, ClaimsTracked, ClaimRow, InHand
  <2> QED BY <1>1, <2>2, <2>3 DEF ClaimRow
<1> QED BY <1>2, <1>3, <1>4 DEF IInv

\* Time shortens what is left of a deadline, down to -1.
LEMMA TickInv == ASSUME IInv, Tick PROVE IInv'
<1> USE DEF Tick, workerVars
<1>1. TypeOK'
  <2>1. leaseLeft' \in [DeliveryId -> -1 .. LeaseDuration]
    BY LeaseAssumption DEF IInv, TypeOK, Elapse
  <2>2. dueIn' \in [DeliveryId -> -1 .. BackoffCap]
    BY BackoffAssumption DEF IInv, TypeOK, Elapse
  <2>3. age' \in [DeliveryId -> Nat]
    BY DEF IInv, TypeOK, Older
  <2> QED BY <2>1, <2>2, <2>3 DEF IInv, TypeOK
<1>2. LeaseMatchesAttempt' /\ AttemptsCharged'
  BY DEF IInv, LeaseMatchesAttempt, AttemptsCharged
<1>3. ClaimsTracked'
  BY DEF IInv, ClaimsTracked, InHand
<1> QED BY <1>1, <1>2, <1>3 DEF IInv

\* An attempt row settled in place: the sequence keeps its shape and workers.
LEMMA Settled ==
  ASSUME NEW s \in Seq(Row), NEW a \in 1 .. Len(s), NEW o \in Outcomes
  PROVE  LET t == [s EXCEPT ![a].outcome = o] IN
         /\ t \in Seq(Row)
         /\ Len(t) = Len(s)
         /\ \A i \in 1 .. Len(s) : t[i].worker = s[i].worker
         /\ \A i \in 1 .. Len(s) : i # a => t[i] = s[i]
         /\ t[a].outcome = o
<1> DEFINE t == [s EXCEPT ![a].outcome = o]
<1>1. s[a] \in Row /\ DOMAIN s = 1 .. Len(s) /\ Len(s) \in Nat
  OBVIOUS
<1>2. [s[a] EXCEPT !.outcome = o] \in Row
  BY <1>1 DEF Row
<1>3. t = [i \in 1 .. Len(s) |-> IF i = a THEN [s[a] EXCEPT !.outcome = o] ELSE s[i]]
  BY <1>1
<1>4. t \in [1 .. Len(s) -> Row]
  BY <1>1, <1>2, <1>3
<1>5. t \in Seq(Row) /\ Len(t) = Len(s)
  BY <1>1, <1>4
<1>6. /\ \A i \in 1 .. Len(s) : i # a => t[i] = s[i]
      /\ t[a] = [s[a] EXCEPT !.outcome = o]
  BY <1>3
<1>7. t[a].outcome = o /\ t[a].worker = s[a].worker
  BY <1>1, <1>6 DEF Row
<1> QED BY <1>5, <1>6, <1>7

\* The two fences of a completion agree, so each row it settles has its attempt
\* settled with it.
LEMMA CompleteBatchInv ==
  ASSUME IInv, NEW w \in Worker, CompleteBatch(w)
  PROVE  IInv'
<1> DEFINE ok     == {d \in Held(w) : claimed[w][d].answer = "ok"}
           failed == {d \in Held(w) \ ok : Spent(claimed[w][d].no)}
           retry  == Held(w) \ (ok \cup failed)
           aid(d) == claimed[w][d].aid
           fenced == {d \in InHand(w) : attempts[d][aid(d)].outcome = Open}
<1>t. /\ attempts \in [DeliveryId -> Seq(Row)]
      /\ attemptCount \in [DeliveryId -> Nat]
      /\ claimed \in [Worker -> [DeliveryId -> Claim]]
      /\ phase \in [Worker -> Phases]
      /\ state \in [DeliveryId -> States]
      /\ leasedBy \in [DeliveryId -> Worker \cup {NoWorker}]
  BY DEF IInv, TypeOK
<1>f. Held(w) = fenced
  BY InvFences DEF FencesAgree, Held
<1>c. \A d \in InHand(w) : d \in DeliveryId /\ ClaimRow(w, d) /\ claimed[w][d].answer \in Answers
  <2>1. phase[w] = "answered"
    BY DEF CompleteBatch
  <2> QED BY <2>1 DEF IInv, ClaimsTracked, ClaimRow, InHand
<1>1. /\ attempts' = [d \in DeliveryId |->
                        IF d \in fenced
                        THEN [attempts[d] EXCEPT ![aid(d)].outcome = claimed[w][d].answer]
                        ELSE attempts[d]]
      /\ state' = [d \in DeliveryId |->
                      IF d \in ok THEN "delivered"
                      ELSE IF d \in failed THEN "failed"
                      ELSE IF d \in retry THEN "pending" ELSE state[d]]
      /\ completed' = [d \in DeliveryId |-> d \in ok \cup failed \/ completed[d]]
      /\ dueIn' = [d \in DeliveryId |->
                      IF d \in retry THEN Backoff(claimed[w][d].no) ELSE dueIn[d]]
      /\ claimed' = [claimed EXCEPT ![w] = [d \in DeliveryId |-> NoClaim]]
      /\ phase' = [phase EXCEPT ![w] = "idle"]
      /\ UNCHANGED <<attemptCount, leasedBy, leaseLeft, age, accepted>>
  BY DEF CompleteBatch
<1>2. \A d \in Held(w) : /\ d \in ok \cup failed \cup retry
                          /\ state[d] = "in_flight" /\ d \in InHand(w)
                          /\ d \in DeliveryId
  BY <1>c DEF Held
<1>3. ok \cup failed \cup retry \subseteq Held(w)
  OBVIOUS
<1>4. \A d \in retry : claimed[w][d].no \notin {n \in Nat : n >= MaxAttempts}
  BY DEF Spent
<1> HIDE DEF ok, failed, retry, fenced
\* What happens to the attempts of a delivery whose fence holds.
<1>a. \A d \in Held(w) :
        /\ attempts'[d] \in Seq(Row)
        /\ Len(attempts'[d]) = Len(attempts[d])
        /\ aid(d) = Len(attempts[d]) /\ aid(d) \in 1 .. Len(attempts[d])
        /\ \A i \in 1 .. Len(attempts[d]) : attempts'[d][i].worker = attempts[d][i].worker
        /\ \A i \in 1 .. Len(attempts[d]) : attempts'[d][i].outcome # Open
  <2> TAKE d \in Held(w)
  <2>1. /\ d \in DeliveryId /\ d \in fenced /\ state[d] = "in_flight" /\ d \in InHand(w)
        /\ attempts[d] \in Seq(Row)
    BY <1>2, <1>f, <1>t
  <2>2. aid(d) \in 1 .. Len(attempts[d])
    BY <2>1, <1>c DEF ClaimRow
  <2>3. LeaseRow(d)
    BY <2>1 DEF IInv, LeaseMatchesAttempt, LeaseRow
  <2>4. attempts[d][aid(d)].outcome = Open
    BY <2>1 DEF fenced
  <2>5. aid(d) = Len(attempts[d])
    BY <2>1, <2>2, <2>3, <2>4 DEF LeaseRow
  <2>6. claimed[w][d].answer \in Outcomes /\ claimed[w][d].answer # Open
    BY <2>1, <1>c, Names
  <2>7. attempts'[d] = [attempts[d] EXCEPT ![aid(d)].outcome = claimed[w][d].answer]
    BY <1>1, <2>1
  <2> HIDE DEF aid
  <2>8. /\ attempts'[d] \in Seq(Row)
        /\ Len(attempts'[d]) = Len(attempts[d])
        /\ \A i \in 1 .. Len(attempts[d]) : attempts'[d][i].worker = attempts[d][i].worker
        /\ \A i \in 1 .. Len(attempts[d]) : i # aid(d) => attempts'[d][i] = attempts[d][i]
        /\ attempts'[d][aid(d)].outcome = claimed[w][d].answer
    BY <2>1, <2>2, <2>6, <2>7, Settled
  <2>9. \A i \in 1 .. Len(attempts[d]) : attempts[d][i].outcome = Open => i = aid(d)
    BY <2>1, <2>3, <2>5 DEF LeaseRow
  <2>10. \A i \in 1 .. Len(attempts[d]) : attempts'[d][i].outcome # Open
    BY <2>6, <2>8, <2>9
  <2> QED BY <2>2, <2>5, <2>8, <2>10
<1>b. \A d \in DeliveryId \ Held(w) :
        attempts'[d] = attempts[d] /\ state'[d] = state[d]
  BY <1>1, <1>3, <1>f, <1>t
<1>5. TypeOK'
  <2>1. attempts' \in [DeliveryId -> Seq(Row)]
    <3>1. \A d \in DeliveryId : attempts'[d] \in Seq(Row)
      BY <1>a, <1>b, <1>t
    <3> QED BY <1>1, <3>1
  <2>2. claimed' \in [Worker -> [DeliveryId -> Claim]]
    <3>1. NoClaim \in Claim
      BY DEF NoClaim, Claim
    <3> QED BY <1>1, <1>t, <3>1
  <2>3. phase' \in [Worker -> Phases]
    BY <1>1, <1>t DEF Phases
  <2>4. state' \in [DeliveryId -> States] /\ completed' \in [DeliveryId -> BOOLEAN]
    BY <1>1, <1>t DEF IInv, TypeOK, States, Terminal
  <2>5. dueIn' \in [DeliveryId -> -1 .. BackoffCap]
    <3>1. \A d \in retry : Backoff(claimed[w][d].no) \in 1 .. BackoffCap
      <4> TAKE d \in retry
      <4>1. d \in Held(w) /\ d \in DeliveryId /\ d \in InHand(w)
        BY <1>2, <1>3
      <4>2. claimed[w][d].no = aid(d) /\ aid(d) \in 1 .. Len(attempts[d])
        BY <4>1, <1>a, <1>c DEF ClaimRow
      <4>3. Len(attempts[d]) <= MaxAttempts
        BY <4>1 DEF IInv, AttemptsCharged
      <4>4. claimed[w][d].no \in 1 .. MaxAttempts
        BY <4>2, <4>3, <4>1, <1>t, AttemptsAssumption
      <4> QED BY <4>4, BackoffRange
    <3> QED BY <1>1, <3>1, BackoffAssumption DEF IInv, TypeOK
  <2> QED BY <1>1, <2>1, <2>2, <2>3, <2>4, <2>5 DEF IInv, TypeOK
<1>6. LeaseMatchesAttempt'
  <2> SUFFICES ASSUME NEW d \in DeliveryId PROVE LeaseRow(d)'
    BY DEF LeaseMatchesAttempt, LeaseRow
  <2>1. CASE d \in Held(w)
    <3>1. state'[d] # "in_flight"
      BY <1>1, <1>2, <2>1
    <3>2. DOMAIN attempts'[d] = 1 .. Len(attempts[d])
      BY <1>a, <2>1
    <3> QED BY <1>a, <2>1, <3>1, <3>2 DEF LeaseRow
  <2>2. CASE d \notin Held(w)
    <3>1. LeaseRow(d)
      BY DEF IInv, LeaseMatchesAttempt, LeaseRow
    <3> QED BY <1>1, <1>b, <2>2, <3>1 DEF LeaseRow
  <2> QED BY <2>1, <2>2
<1>7. AttemptsCharged'
  <2> SUFFICES ASSUME NEW d \in DeliveryId PROVE ChargedRow(d)'
    BY DEF AttemptsCharged, ChargedRow
  <2>0. ChargedRow(d)
    BY DEF IInv, AttemptsCharged, ChargedRow
  <2>1. CASE d \in Held(w)
    <3>1. Len(attempts'[d]) = attemptCount'[d] /\ attemptCount'[d] <= MaxAttempts
      BY <1>1, <1>a, <2>0, <2>1 DEF ChargedRow
    <3>2. ASSUME state'[d] \in Queued PROVE attemptCount'[d] < MaxAttempts
      <4>1. d \in retry
        BY <1>1, <1>2, <2>1, <3>2 DEF Queued
      <4>2. claimed[w][d].no = attemptCount[d]
        BY <1>2, <1>a, <1>c, <2>0, <2>1 DEF ClaimRow, ChargedRow
      <4> QED BY <1>1, <1>4, <1>t, <4>1, <4>2, AttemptsAssumption
    <3>3. state'[d] # "absent"
      BY <1>1, <1>2, <2>1
    <3> QED BY <3>1, <3>2, <3>3 DEF ChargedRow
  <2>2. CASE d \notin Held(w)
    BY <1>1, <1>b, <2>0, <2>2 DEF ChargedRow
  <2> QED BY <2>1, <2>2
<1>8. ClaimsTracked'
  <2> SUFFICES ASSUME NEW v \in Worker, NEW d \in DeliveryId, claimed'[v][d] # NoClaim
               PROVE  ClaimRow(v, d)'
    BY DEF ClaimsTracked, ClaimRow, InHand
  <2>1. v # w
    BY <1>1, <1>t
  <2>2. claimed'[v][d] = claimed[v][d] /\ phase'[v] = phase[v]
    BY <1>1, <1>t, <2>1
  <2>3. ClaimRow(v, d)
    BY <2>2 DEF IInv, ClaimsTracked, ClaimRow, InHand
  <2>4. /\ DOMAIN attempts'[d] = DOMAIN attempts[d]
        /\ \A i \in DOMAIN attempts[d] : attempts'[d][i].worker = attempts[d][i].worker
    <3>1. CASE d \in Held(w)
      <4>1. DOMAIN attempts'[d] = 1 .. Len(attempts[d]) /\ DOMAIN attempts[d] = 1 .. Len(attempts[d])
        BY <1>a, <1>t, <3>1
      <4> QED BY <1>a, <3>1, <4>1
    <3>2. CASE d \notin Held(w)
      BY <1>b, <3>2
    <3> QED BY <3>1, <3>2
  <2> QED BY <2>2, <2>3, <2>4, ClaimKept
<1> QED BY <1>5, <1>6, <1>7, <1>8 DEF IInv

\* UPDATE attempt ... WHERE finished_at IS NULL keeps the rows and their workers.
LEMMA Closed ==
  ASSUME NEW d \in DeliveryId, attempts[d] \in Seq(Row)
  PROVE  LET t == CloseOpen(d, "lease_expired") IN
         /\ t \in Seq(Row)
         /\ Len(t) = Len(attempts[d])
         /\ \A i \in 1 .. Len(attempts[d]) :
               t[i].worker = attempts[d][i].worker /\ t[i].outcome # Open
<1> DEFINE s == attempts[d]
           t == CloseOpen(d, "lease_expired")
<1>1. DOMAIN s = 1 .. Len(s) /\ Len(s) \in Nat /\ \A i \in 1 .. Len(s) : s[i] \in Row
  OBVIOUS
<1>2. "lease_expired" \in Outcomes /\ "lease_expired" # Open
  BY DEF Outcomes, Open
<1>3. \A r \in Row : /\ [r EXCEPT !.outcome = "lease_expired"] \in Row
                     /\ [r EXCEPT !.outcome = "lease_expired"].worker = r.worker
                     /\ [r EXCEPT !.outcome = "lease_expired"].outcome = "lease_expired"
  BY <1>2 DEF Row
<1>4. t = [i \in 1 .. Len(s) |-> IF s[i].outcome = Open
                                 THEN [s[i] EXCEPT !.outcome = "lease_expired"] ELSE s[i]]
  BY <1>1 DEF CloseOpen
<1>5. t \in [1 .. Len(s) -> Row]
  BY <1>1, <1>3, <1>4
<1>6. t \in Seq(Row) /\ Len(t) = Len(s)
  BY <1>1, <1>5
<1> HIDE DEF t, s
<1>7. \A i \in 1 .. Len(s) : t[i].worker = s[i].worker /\ t[i].outcome # Open
  BY <1>1, <1>2, <1>3, <1>4
<1> QED BY <1>6, <1>7 DEF t, s

\* The sweep closes what it reclaims; drops and admissions touch queued rows.
LEMMA PassInv ==
  ASSUME IInv, NEW skipped, NEW cand, NEW admit, Pass(skipped, cand, admit)
  PROVE  IInv'
<1> DEFINE reclaimed  == Reclaimable(skipped)
           exhausted  == {d \in reclaimed : Spent(attemptCount[d])}
           requeued   == reclaimed \ exhausted
           queued     == {d \in DeliveryId : state[d] \in Queued} \cup requeued
           stale      == StaleIn(cand)
           superseded == SupersededIn(cand, queued)
<1>t. /\ attempts \in [DeliveryId -> Seq(Row)]
      /\ attemptCount \in [DeliveryId -> Nat]
      /\ state \in [DeliveryId -> States]
      /\ leasedBy \in [DeliveryId -> Worker \cup {NoWorker}]
  BY DEF IInv, TypeOK
<1>1. /\ cand \subseteq {d \in DeliveryId : Due(d)}
      /\ admit \subseteq cand \ (stale \cup superseded)
      /\ state' = [d \in DeliveryId |->
                    CASE d \in exhausted  -> "failed"
                      [] d \in requeued   -> "pending"
                      [] d \in stale      -> "expired"
                      [] d \in superseded -> "superseded"
                      [] d \in admit      -> "ready"
                      [] OTHER            -> state[d]]
      /\ completed' = [d \in DeliveryId |->
                        d \in exhausted \cup stale \cup superseded \/ completed[d]]
      /\ leasedBy'  = [d \in DeliveryId |->
                        IF d \in reclaimed THEN NoWorker ELSE leasedBy[d]]
      /\ leaseLeft' = [d \in DeliveryId |->
                        IF d \in reclaimed THEN -1 ELSE leaseLeft[d]]
      /\ dueIn' = [d \in DeliveryId |->
                        IF d \in requeued THEN Backoff(attemptCount[d]) ELSE dueIn[d]]
      /\ attempts' = [d \in DeliveryId |->
                        IF d \in reclaimed THEN CloseOpen(d, "lease_expired")
                        ELSE attempts[d]]
      /\ UNCHANGED <<attemptCount, age, workerVars, accepted>>
  BY DEF Pass
<1>2. \A d \in reclaimed : d \in DeliveryId /\ state[d] = "in_flight"
  BY DEF Reclaimable, Expired
<1>3. \A d \in stale \cup superseded \cup admit : d \in DeliveryId /\ state[d] = "pending"
  BY <1>1 DEF Due, StaleIn, SupersededIn
<1>4. /\ exhausted \cup requeued = reclaimed
      /\ \A d \in requeued : d \in reclaimed /\ ~Spent(attemptCount[d])
      /\ \A d \in exhausted : d \in reclaimed /\ d \notin requeued
  OBVIOUS
<1> HIDE DEF reclaimed, exhausted, requeued, stale, superseded, queued
<1>a. \A d \in reclaimed :
        /\ attempts'[d] \in Seq(Row) /\ Len(attempts'[d]) = Len(attempts[d])
        /\ \A i \in 1 .. Len(attempts[d]) :
              /\ attempts'[d][i].worker = attempts[d][i].worker
              /\ attempts'[d][i].outcome # Open
  BY <1>1, <1>2, <1>t, Closed
<1>b. \A d \in DeliveryId \ reclaimed : attempts'[d] = attempts[d]
  BY <1>1
<1>c. \A d \in DeliveryId \ reclaimed :
        state'[d] \in {state[d]} \/ (state[d] = "pending" /\ state'[d] \in {"expired", "superseded", "ready"})
  BY <1>1, <1>3, <1>4
<1>d. \A d \in reclaimed : state'[d] = IF d \in exhausted THEN "failed" ELSE "pending"
  <2> TAKE d \in reclaimed
  <2>1. d \in DeliveryId /\ d \notin stale /\ d \notin superseded /\ d \notin admit
    BY <1>2, <1>3
  <2>2. d \in exhausted \/ d \in requeued
    BY <1>4
  <2> QED BY <1>1, <1>4, <2>1, <2>2
<1>5. TypeOK'
  <2>1. attempts' \in [DeliveryId -> Seq(Row)]
    <3>1. \A d \in DeliveryId : attempts'[d] \in Seq(Row)
      BY <1>a, <1>b, <1>t
    <3> QED BY <1>1, <3>1
  <2>2. state' \in [DeliveryId -> States]
    <3>1. \A d \in DeliveryId : state'[d] \in States
      BY <1>c, <1>d, <1>t DEF States, Terminal
    <3> QED BY <1>1, <3>1
  <2>3. completed' \in [DeliveryId -> BOOLEAN]
    BY <1>1 DEF IInv, TypeOK
  <2>4. dueIn' \in [DeliveryId -> -1 .. BackoffCap]
    <3>1. \A d \in requeued : Backoff(attemptCount[d]) \in 1 .. BackoffCap
      <4> TAKE d \in requeued
      <4>1. d \in DeliveryId /\ LeaseRow(d) /\ state[d] = "in_flight" /\ ChargedRow(d)
        BY <1>2, <1>4 DEF IInv, LeaseMatchesAttempt, LeaseRow, AttemptsCharged, ChargedRow
      <4>2. Len(attempts[d]) # 0
        BY <4>1, <1>t DEF LeaseRow
      <4>3. attemptCount[d] \in 1 .. MaxAttempts
        BY <4>1, <4>2, <1>t, AttemptsAssumption DEF ChargedRow
      <4> QED BY <4>3, BackoffRange
    <3> QED BY <1>1, <3>1, BackoffAssumption DEF IInv, TypeOK
  <2>5. leaseLeft' \in [DeliveryId -> -1 .. LeaseDuration]
    BY <1>1, LeaseAssumption DEF IInv, TypeOK
  <2>6. leasedBy' \in [DeliveryId -> Worker \cup {NoWorker}]
    BY <1>1, <1>t
  <2> QED BY <1>1, <2>1, <2>2, <2>3, <2>4, <2>5, <2>6 DEF IInv, TypeOK, workerVars
<1>6. LeaseMatchesAttempt'
  <2> SUFFICES ASSUME NEW d \in DeliveryId PROVE LeaseRow(d)'
    BY DEF LeaseMatchesAttempt, LeaseRow
  <2>1. CASE d \in reclaimed
    <3>1. state'[d] # "in_flight"
      BY <1>d, <2>1
    <3>2. DOMAIN attempts'[d] = 1 .. Len(attempts[d])
      BY <1>a, <2>1
    <3> QED BY <1>a, <2>1, <3>1, <3>2 DEF LeaseRow
  <2>2. CASE d \notin reclaimed
    <3>1. LeaseRow(d)
      BY DEF IInv, LeaseMatchesAttempt, LeaseRow
    <3>2. /\ state'[d] = "in_flight" <=> state[d] = "in_flight"
          /\ leasedBy'[d] = leasedBy[d] /\ attempts'[d] = attempts[d]
      BY <1>1, <1>b, <1>c, <2>2
    <3> QED BY <3>1, <3>2 DEF LeaseRow
  <2> QED BY <2>1, <2>2
<1>7. AttemptsCharged'
  <2> SUFFICES ASSUME NEW d \in DeliveryId PROVE ChargedRow(d)'
    BY DEF AttemptsCharged, ChargedRow
  <2>0. ChargedRow(d) /\ attemptCount'[d] = attemptCount[d]
    BY <1>1 DEF IInv, AttemptsCharged, ChargedRow
  <2>1. CASE d \in reclaimed
    <3>1. state'[d] \in Queued => d \in requeued
      BY <1>d, <1>4, <2>1 DEF Queued
    <3>2. d \in requeued => attemptCount[d] < MaxAttempts
      BY <1>4, <1>t, AttemptsAssumption DEF Spent
    <3>3. state'[d] # "absent"
      BY <1>d, <2>1
    <3> QED BY <1>a, <2>0, <2>1, <3>1, <3>2, <3>3 DEF ChargedRow
  <2>2. CASE d \notin reclaimed
    <3>1. /\ state'[d] \in Queued => state[d] \in Queued
          /\ state'[d] = "absent" => state[d] = "absent"
      BY <1>c, <2>2 DEF Queued
    <3> QED BY <1>b, <2>0, <2>2, <3>1 DEF ChargedRow
  <2> QED BY <2>1, <2>2
<1>8. ClaimsTracked'
  <2> SUFFICES ASSUME NEW v \in Worker, NEW d \in DeliveryId, claimed'[v][d] # NoClaim
               PROVE  ClaimRow(v, d)'
    BY DEF ClaimsTracked, ClaimRow, InHand
  <2>1. claimed'[v][d] = claimed[v][d] /\ phase'[v] = phase[v]
    BY <1>1 DEF workerVars
  <2>2. ClaimRow(v, d)
    BY <2>1 DEF IInv, ClaimsTracked, ClaimRow, InHand
  <2>3. /\ DOMAIN attempts'[d] = DOMAIN attempts[d]
        /\ \A i \in DOMAIN attempts[d] : attempts'[d][i].worker = attempts[d][i].worker
    <3>1. CASE d \in reclaimed
      <4>1. DOMAIN attempts'[d] = 1 .. Len(attempts[d]) /\ DOMAIN attempts[d] = 1 .. Len(attempts[d])
        BY <1>a, <1>t, <3>1
      <4> QED BY <1>a, <3>1, <4>1
    <3>2. CASE d \notin reclaimed
      BY <1>b, <3>2
    <3> QED BY <3>1, <3>2
  <2> QED BY <2>1, <2>2, <2>3, ClaimKept
<1> QED BY <1>5, <1>6, <1>7, <1>8 DEF IInv

-----------------------------------------------------------------------------
\* Every step, stuttering included, preserves the invariant.
LEMMA StepInv == IInv /\ [Next]_vars => IInv'
<1> SUFFICES ASSUME IInv, [Next]_vars PROVE IInv'
  OBVIOUS
<1>1. CASE \E d \in DeliveryId : Ingest(d)
  BY <1>1, IngestInv
<1>2. ASSUME NEW w \in Worker, WorkerStep(w) PROVE IInv'
  <2>1. CASE \E batch \in SUBSET DeliveryId : ClaimBatch(w, batch)
    BY <2>1, ClaimBatchInv
  <2>2. CASE \E answer \in [DeliveryId -> Answers] : Send(w, answer)
    BY <2>2, SendInv
  <2>3. CASE CompleteBatch(w)
    BY <2>3, CompleteBatchInv
  <2>4. CASE Abandon(w) \/ Crash(w)
    BY <2>4, ForgetInv
  <2> QED BY <1>2, <2>1, <2>2, <2>3, <2>4 DEF WorkerStep
<1>3. CASE ConductorStep
  BY <1>3, PassInv DEF ConductorStep
<1>4. CASE Tick
  BY <1>4, TickInv
<1>5. CASE UNCHANGED vars
  <2> USE <1>5 DEF vars, tableVars, rowVars, workerVars
  <2>1. TypeOK'
    BY DEF IInv, TypeOK
  <2>2. LeaseMatchesAttempt' /\ AttemptsCharged'
    BY DEF IInv, LeaseMatchesAttempt, AttemptsCharged
  <2>3. ClaimsTracked'
    BY DEF IInv, ClaimsTracked, InHand
  <2> QED BY <2>1, <2>2, <2>3 DEF IInv
<1> QED BY <1>1, <1>2, <1>3, <1>4, <1>5 DEF Next

\* The inductive invariant holds of every behaviour.
THEOREM Invariance == Spec => []IInv
  BY InitInv, StepInv, PTL DEF Spec

\* Types and ranges: backoffs within the cap, leases within their duration.
THEOREM TypeCorrect == Spec => []TypeOK
<1>1. IInv => TypeOK
  BY DEF IInv
<1> QED BY <1>1, Invariance, PTL

\* In flight if and only if leased with the newest attempt row, and only that
\* one, open: whatever workers crash, abandon or answer late.
THEOREM LeaseMatchesAttemptHolds == Spec => []LeaseMatchesAttempt
<1>1. IInv => LeaseMatchesAttempt
  BY DEF IInv
<1> QED BY <1>1, Invariance, PTL

\* The delivery fence (state and leased_by) and the attempt fence (finished_at
\* IS NULL) of complete_batch always pass or fail together.
THEOREM FencesAgreeHolds == Spec => []FencesAgree
<1> QED BY InvFences, Invariance, PTL

\* One attempt row per charge against the retry budget, and never past it.
THEOREM AttemptsChargedHolds == Spec => []AttemptsCharged
<1>1. IInv => AttemptsCharged
  BY DEF IInv
<1> QED BY <1>1, Invariance, PTL

\* What a worker has in hand is its own latest attempt of that delivery, so
\* leased_by identifies the attempt and not only the process.
THEOREM ClaimsTrackedHolds == Spec => []ClaimsTracked
<1>1. IInv => ClaimsTracked
  BY DEF IInv
<1> QED BY Invariance, <1>1, PTL
=============================================================================
