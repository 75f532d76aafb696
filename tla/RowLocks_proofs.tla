---------------------------- MODULE RowLocks_proofs ----------------------------
(***************************************************************************)
(* Theorems about RowLocks: that the two transactions which settle leases  *)
(* always commit both of their tables' rows or neither, and so implement   *)
(* Settlement, for any deliveries, any workers with disjoint batches, and  *)
(* whatever the deadlock detector cancels; and that it misses no deadlock. *)
(***************************************************************************)
EXTENDS RowLocks, TLAPS

\* A row that a transaction has written still matches its WHERE clause: nobody
\* else can write it before the transaction ends.
WrittenStillMatch == \A t \in Txn : \A row \in dirty[t] : Matches(row)

\* A statement stands before one of its own rows.
AimsAtTodo == \A t \in Txn : target[t] # NoRow => target[t] \in todo[t]

\* A transaction that has not begun, or has ended, holds nothing.
AtRest == \A t \in Txn : stage[t] \in {"outside", "written"} => dirty[t] = {} /\ todo[t] = {}

\* Workers complete, the conductor sweeps.
Roles == /\ \A w \in Worker : stage[w] # "closing"
         /\ stage[Conductor] \in {"outside", "closing"}

\* complete_batch at its attempt rows: it has touched no delivery row, and each
\* attempt row of the batch is ahead of it, written, or no longer open.
AttemptsFirst(w) ==
    stage[w] = "attempts" =>
        \A d \in DeliveryId :
            /\ DeliveryRow(d) \notin todo[w] /\ DeliveryRow(d) \notin dirty[w]
            /\ AttemptRow(d) \in todo[w] \cup dirty[w] => d \in Batch[w]
            /\ d \in Batch[w] => \/ AttemptRow(d) \in todo[w] \cup dirty[w]
                                 \/ attempt[d] # "open"

\* At its delivery rows: the attempt rows still open are all written, and each
\* delivery row is ahead of it, written, or no longer leased.
DeliveriesNext(w) ==
    stage[w] = "deliveries" =>
        \A d \in DeliveryId :
            /\ AttemptRow(d) \notin todo[w]
            /\ AttemptRow(d) \in dirty[w] => d \in Batch[w]
            /\ DeliveryRow(d) \in todo[w] \cup dirty[w] => d \in Batch[w]
            /\ d \in Batch[w] => \/ AttemptRow(d) \in dirty[w]
                                 \/ attempt[d] # "open"
            /\ d \in Batch[w] => \/ DeliveryRow(d) \in todo[w] \cup dirty[w]
                                 \/ delivery[d] # "leased"

\* The sweep: it has written exactly the delivery rows whose attempt rows are
\* written or ahead of it.
ClosesWhatItFound ==
    stage[Conductor] = "closing" =>
        \A d \in DeliveryId :
            /\ DeliveryRow(d) \notin todo[Conductor]
            /\ DeliveryRow(d) \in dirty[Conductor]
                   <=> AttemptRow(d) \in todo[Conductor] \cup dirty[Conductor]

IInv == /\ TypeOK /\ OneStory /\ WrittenStillMatch /\ AimsAtTodo /\ AtRest /\ Roles
        /\ \A w \in Worker : AttemptsFirst(w) /\ DeliveriesNext(w)
        /\ ClosesWhatItFound

-----------------------------------------------------------------------------
\* The rows of the two tables are told apart, and so are those of one table.
LEMMA RowFacts ==
    /\ \A d : DeliveryRow(d)[1] = "delivery" /\ DeliveryRow(d)[2] = d
    /\ \A d : AttemptRow(d)[1] = "attempt" /\ AttemptRow(d)[2] = d
    /\ \A d, e : DeliveryRow(d) = DeliveryRow(e) => d = e
    /\ \A d, e : AttemptRow(d) = AttemptRow(e) => d = e
    /\ \A d, e : DeliveryRow(d) # AttemptRow(e)
    /\ \A d \in DeliveryId : DeliveryRow(d) \in Rows /\ AttemptRow(d) \in Rows
    /\ \A row \in Rows : \E d \in DeliveryId : row = DeliveryRow(d) \/ row = AttemptRow(d)
    /\ NoRow \notin Rows
BY DEF DeliveryRow, AttemptRow, Rows, NoRow

\* What a row's WHERE clause asks, table by table.
LEMMA MatchFacts ==
    ASSUME NEW d
    PROVE  /\ Matches(DeliveryRow(d)) <=> delivery[d] = "leased"
           /\ Matches(AttemptRow(d)) <=> attempt[d] = "open"
BY RowFacts DEF Matches

\* What a row's WHERE clause asks of the values a step leaves.
LEMMA MatchFactsNext ==
    ASSUME NEW d
    PROVE  /\ Matches(DeliveryRow(d))' <=> delivery'[d] = "leased"
           /\ Matches(AttemptRow(d))' <=> attempt'[d] = "open"
BY RowFacts DEF Matches

\* A delivery is leased exactly while its attempt row is open.
LEMMA LeasedIsOpen ==
    ASSUME OneStory, NEW d \in DeliveryId
    PROVE  delivery[d] = "leased" <=> attempt[d] = "open"
BY DEF OneStory

\* What each conjunct of TypeOK says, for the steps that need no more.
LEMMA Types ==
    ASSUME TypeOK
    PROVE  /\ delivery \in [DeliveryId -> DeliveryValues]
           /\ attempt \in [DeliveryId -> AttemptValues]
           /\ lock \in [Rows -> Txn \cup {Free}] /\ stage \in [Txn -> Stages]
           /\ todo \in [Txn -> SUBSET Rows] /\ target \in [Txn -> Rows \cup {NoRow}]
           /\ dirty \in [Txn -> SUBSET Rows]
           /\ \A row \in Rows, t \in Txn : lock[row] = t <=> row \in dirty[t]
BY DEF TypeOK

LEMMA InitIInv == Init => IInv
<1> SUFFICES ASSUME Init PROVE IInv
  OBVIOUS
<1>1. TypeOK
  <2>1. \A row \in Rows, t \in Txn : lock[row] # t /\ row \notin dirty[t]
    BY BatchAssumption DEF Init
  <2>2. lock \in [Rows -> Txn \cup {Free}]
    BY DEF Init
  <2> HIDE DEF Free, Txn, Rows, NoRow
  <2> QED BY <2>1, <2>2 DEF Init, TypeOK, DeliveryValues, AttemptValues, Stages
<1>2. OneStory /\ Roles /\ ClosesWhatItFound
  BY BatchAssumption DEF Init, OneStory, Roles, ClosesWhatItFound, Txn
<1>3. WrittenStillMatch /\ AimsAtTodo /\ AtRest
  BY DEF Init, WrittenStillMatch, AimsAtTodo, AtRest
<1>4. \A w \in Worker : AttemptsFirst(w) /\ DeliveriesNext(w)
  BY DEF Init, AttemptsFirst, DeliveriesNext, Txn
<1> QED BY <1>1, <1>2, <1>3, <1>4 DEF IInv

-----------------------------------------------------------------------------
LEMMA LapseStep ==
    ASSUME IInv, NEW d \in DeliveryId, Lapse(d)
    PROVE  IInv'
<1>1. TypeOK'
  BY DEF Lapse, IInv, TypeOK
<1>2. OneStory' /\ WrittenStillMatch' /\ AimsAtTodo' /\ AtRest' /\ Roles' /\ ClosesWhatItFound'
  BY DEF Lapse, IInv, OneStory, WrittenStillMatch, Matches, AimsAtTodo, AtRest, Roles,
         ClosesWhatItFound
<1>3. \A w \in Worker : AttemptsFirst(w)' /\ DeliveriesNext(w)'
  BY DEF Lapse, IInv, AttemptsFirst, DeliveriesNext
<1> QED BY <1>1, <1>2, <1>3 DEF IInv

LEMMA BeginStep ==
    ASSUME IInv, NEW w \in Worker, BeginCompletion(w)
    PROVE  IInv'
<1> USE DEF IInv
<1>1. w \in Txn /\ w # Conductor /\ Batch[w] \subseteq DeliveryId
  BY BatchAssumption DEF Txn
<1>2. todo' = [todo EXCEPT ![w] = {AttemptRow(d) : d \in Batch[w]}]
  BY DEF BeginCompletion
<1>3. {AttemptRow(d) : d \in Batch[w]} \in SUBSET Rows
  BY <1>1, RowFacts
<1>4. dirty[w] = {} /\ todo[w] = {}
  BY <1>1 DEF BeginCompletion, AtRest
<1>5. TypeOK'
  <2>1. todo' \in [Txn -> SUBSET Rows]
    BY <1>2, <1>3, Types
  <2>2. stage' \in [Txn -> Stages]
    BY Types DEF BeginCompletion, Stages
  <2> QED BY <2>1, <2>2 DEF BeginCompletion, TypeOK
<1>6. AimsAtTodo' /\ AtRest' /\ Roles' /\ OneStory' /\ WrittenStillMatch'
  BY <1>1, <1>2, <1>4, Types
     DEF BeginCompletion, AimsAtTodo, AtRest, Roles, Txn, OneStory, WrittenStillMatch, Matches
<1>7. ClosesWhatItFound'
  BY <1>1, <1>2, Types DEF BeginCompletion, ClosesWhatItFound, Txn
<1>8. ASSUME NEW v \in Worker PROVE AttemptsFirst(v)' /\ DeliveriesNext(v)'
  <2>1. CASE v # w
    BY <1>1, <2>1, Types DEF BeginCompletion, AttemptsFirst, DeliveriesNext, Txn
  <2>2. CASE v = w
    <3>1. /\ stage'[w] = "attempts" /\ dirty'[w] = {}
          /\ todo'[w] = {AttemptRow(d) : d \in Batch[w]}
      BY <1>1, <1>2, <1>4, Types DEF BeginCompletion
    <3> QED BY <2>2, <3>1, RowFacts DEF AttemptsFirst, DeliveriesNext
  <2> QED BY <2>1, <2>2
<1> QED BY <1>5, <1>6, <1>7, <1>8

LEMMA TurnStep ==
    ASSUME IInv, NEW w \in Worker, TurnToDeliveries(w)
    PROVE  IInv'
<1> USE DEF IInv
<1>1. w \in Txn /\ w # Conductor /\ Batch[w] \subseteq DeliveryId
  BY BatchAssumption DEF Txn
<1>2. todo' = [todo EXCEPT ![w] = {DeliveryRow(d) : d \in Batch[w]}]
  BY DEF TurnToDeliveries
<1>3. {DeliveryRow(d) : d \in Batch[w]} \in SUBSET Rows
  BY <1>1, RowFacts
<1>5. TypeOK'
  <2>1. todo' \in [Txn -> SUBSET Rows]
    BY <1>2, <1>3, Types
  <2>2. stage' \in [Txn -> Stages]
    BY Types DEF TurnToDeliveries, Stages
  <2> QED BY <2>1, <2>2 DEF TurnToDeliveries, TypeOK
<1>6. AimsAtTodo' /\ AtRest' /\ Roles' /\ OneStory' /\ WrittenStillMatch'
  BY <1>1, <1>2, Types
     DEF TurnToDeliveries, AimsAtTodo, AtRest, Roles, Txn, OneStory, WrittenStillMatch, Matches
<1>7. ClosesWhatItFound'
  BY <1>1, <1>2, Types DEF TurnToDeliveries, ClosesWhatItFound, Txn
<1>8. ASSUME NEW v \in Worker PROVE AttemptsFirst(v)' /\ DeliveriesNext(v)'
  <2>1. CASE v # w
    BY <1>1, <2>1, Types DEF TurnToDeliveries, AttemptsFirst, DeliveriesNext, Txn
  <2>2. CASE v = w
    <3>1. /\ stage'[w] = "deliveries" /\ dirty' = dirty /\ attempt' = attempt
          /\ delivery' = delivery /\ stage[w] = "attempts" /\ todo[w] = {}
          /\ todo'[w] = {DeliveryRow(d) : d \in Batch[w]}
      BY <1>1, <1>2, Types DEF TurnToDeliveries
    <3>2. AttemptsFirst(w)
      OBVIOUS
    <3> QED BY <2>2, <3>1, <3>2, RowFacts DEF AttemptsFirst, DeliveriesNext
  <2> QED BY <2>1, <2>2
<1> QED BY <1>5, <1>6, <1>7, <1>8

\* The sweep locks the rows it found before it writes any attempt row.
LEMMA SweepStep ==
    ASSUME IInv, Sweep
    PROVE  IInv'
<1> USE DEF IInv
<1> DEFINE found == {d \in lapsed : delivery[d] = "leased" /\ lock[DeliveryRow(d)] = Free}
           Found == {DeliveryRow(d) : d \in found}
           Ahead == {AttemptRow(d) : d \in found}
<1>1. Conductor \in Txn /\ Conductor \notin Worker /\ Free \notin Txn
  BY BatchAssumption DEF Txn
<1>2. found \subseteq DeliveryId
  BY DEF TypeOK
<1>3. /\ Found \in SUBSET Rows /\ Ahead \in SUBSET Rows
      /\ \A d : DeliveryRow(d) \in Found <=> d \in found
      /\ \A d : AttemptRow(d) \in Ahead <=> d \in found
      /\ \A d : DeliveryRow(d) \notin Ahead /\ AttemptRow(d) \notin Found
      /\ \A row \in Found : Matches(row) /\ lock[row] = Free
  BY <1>2, RowFacts, MatchFacts
<1>4. /\ lock' = [row \in Rows |-> IF row \in Found THEN Conductor ELSE lock[row]]
      /\ dirty' = [dirty EXCEPT ![Conductor] = Found]
      /\ todo' = [todo EXCEPT ![Conductor] = Ahead]
      /\ stage[Conductor] = "outside" /\ stage' = [stage EXCEPT ![Conductor] = "closing"]
      /\ UNCHANGED <<delivery, attempt, lapsed, target>>
  BY DEF Sweep
<1> HIDE DEF found, Found, Ahead
<1>5. dirty[Conductor] = {} /\ todo[Conductor] = {} /\ target[Conductor] = NoRow
  BY <1>1, <1>4, Types DEF AtRest, AimsAtTodo
<1>6. /\ dirty'[Conductor] = Found /\ todo'[Conductor] = Ahead
      /\ \A w \in Worker : dirty'[w] = dirty[w] /\ todo'[w] = todo[w] /\ stage'[w] = stage[w]
      /\ stage'[Conductor] = "closing"
  BY <1>1, <1>4, Types DEF Txn
<1>7. TypeOK'
  <2>1. /\ lock' \in [Rows -> Txn \cup {Free}] /\ stage' \in [Txn -> Stages]
        /\ todo' \in [Txn -> SUBSET Rows] /\ dirty' \in [Txn -> SUBSET Rows]
    BY <1>1, <1>3, <1>4, Types DEF Stages
  <2>2. ASSUME NEW row \in Rows, NEW t \in Txn PROVE lock'[row] = t <=> row \in dirty'[t]
    <3>1. lock[row] = t <=> row \in dirty[t]
      BY Types
    <3>2. CASE t = Conductor
      BY <1>1, <1>4, <1>5, <1>6, <3>1, <3>2
    <3>3. CASE t # Conductor
      BY <1>1, <1>3, <1>4, <1>6, <3>1, <3>3 DEF Txn
    <3> QED BY <3>2, <3>3
  <2> QED BY <1>4, <2>1, <2>2 DEF TypeOK
<1>8. OneStory' /\ Roles'
  BY <1>4, <1>6 DEF OneStory, Roles
<1>9. WrittenStillMatch' /\ AimsAtTodo' /\ AtRest'
  BY <1>3, <1>4, <1>5, <1>6, Types DEF WrittenStillMatch, Matches, AimsAtTodo, AtRest, Txn
<1>10. \A w \in Worker : AttemptsFirst(w)' /\ DeliveriesNext(w)'
  BY <1>4, <1>6 DEF AttemptsFirst, DeliveriesNext
<1>11. ClosesWhatItFound'
  BY <1>3, <1>6 DEF ClosesWhatItFound
<1> QED BY <1>7, <1>8, <1>9, <1>10, <1>11

LEMMA ReachStep ==
    ASSUME IInv, NEW t \in Txn, NEW row \in Rows, Reach(t, row)
    PROVE  IInv'
<1> USE DEF IInv
<1>1. TypeOK'
  BY DEF Reach, TypeOK
<1>2. AimsAtTodo'
  BY Types DEF Reach, AimsAtTodo
<1>3. OneStory' /\ WrittenStillMatch' /\ AtRest' /\ Roles' /\ ClosesWhatItFound'
  BY DEF Reach, OneStory, WrittenStillMatch, Matches, AtRest, Roles, ClosesWhatItFound
<1>4. \A w \in Worker : AttemptsFirst(w)' /\ DeliveriesNext(w)'
  BY DEF Reach, AttemptsFirst, DeliveriesNext
<1> QED BY <1>1, <1>2, <1>3, <1>4

\* A row leaves todo written, or because it no longer matches.
LEMMA WriteStep ==
    ASSUME IInv, NEW t \in Txn, Write(t)
    PROVE  IInv'
<1> USE DEF IInv
<1> DEFINE row == target[t]
<1>1. row \in todo[t] /\ row \in Rows /\ row # NoRow /\ Free \notin Txn /\ Conductor \notin Worker
  BY Types, BatchAssumption DEF Write, AimsAtTodo
<1>2. /\ lock[row] \in {Free, t}
      /\ todo' = [todo EXCEPT ![t] = @ \ {row}] /\ target' = [target EXCEPT ![t] = NoRow]
      /\ UNCHANGED <<delivery, attempt, lapsed, stage>>
      /\ Matches(row) => /\ lock' = [lock EXCEPT ![row] = t]
                         /\ dirty' = [dirty EXCEPT ![t] = @ \cup {row}]
      /\ ~Matches(row) => lock' = lock /\ dirty' = dirty
  BY DEF Write
<1> HIDE DEF row
<1>3. /\ todo'[t] = todo[t] \ {row}
      /\ Matches(row) => dirty'[t] = dirty[t] \cup {row}
      /\ ~Matches(row) => dirty'[t] = dirty[t]
      /\ \A u \in Txn : u # t => dirty'[u] = dirty[u] /\ todo'[u] = todo[u] /\ target'[u] = target[u]
      /\ target'[t] = NoRow
  BY <1>2, Types
<1>4. TypeOK'
  <2>1. /\ lock' \in [Rows -> Txn \cup {Free}] /\ todo' \in [Txn -> SUBSET Rows]
        /\ dirty' \in [Txn -> SUBSET Rows] /\ target' \in [Txn -> Rows \cup {NoRow}]
    BY <1>1, <1>2, Types
  <2>2. \A r \in Rows, u \in Txn : lock'[r] = u <=> r \in dirty'[u]
    BY <1>1, <1>2, <1>3, Types
  <2> QED BY <1>2, <2>1, <2>2 DEF TypeOK
<1>5. OneStory' /\ Roles'
  BY <1>2 DEF OneStory, Roles
<1>6. WrittenStillMatch' /\ AimsAtTodo'
  BY <1>2, <1>3, Types DEF WrittenStillMatch, Matches, AimsAtTodo
<1>7. AtRest'
  BY <1>1, <1>2, <1>3, Types DEF AtRest
<1>8. ASSUME NEW w \in Worker PROVE AttemptsFirst(w)' /\ DeliveriesNext(w)'
  <2>0. w \in Txn
    BY DEF Txn
  <2>1. CASE w # t
    BY <1>2, <1>3, <2>0, <2>1 DEF AttemptsFirst, DeliveriesNext
  <2>2. CASE w = t
    <3>1. AttemptsFirst(w)'
      BY <1>1, <1>2, <1>3, <2>2, RowFacts, MatchFacts DEF AttemptsFirst
    <3>2. DeliveriesNext(w)'
      BY <1>1, <1>2, <1>3, <2>2, RowFacts, MatchFacts DEF DeliveriesNext
    <3> QED BY <3>1, <3>2
  <2> QED BY <2>1, <2>2
<1>9. ClosesWhatItFound'
  <2>0. Conductor \in Txn
    BY DEF Txn
  <2>1. CASE t # Conductor
    BY <1>2, <1>3, <2>0, <2>1 DEF ClosesWhatItFound
  <2>2. CASE t = Conductor
    <3> SUFFICES ASSUME stage[Conductor] = "closing", NEW d \in DeliveryId
                 PROVE  /\ DeliveryRow(d) \notin todo'[Conductor]
                        /\ DeliveryRow(d) \in dirty'[Conductor]
                               <=> AttemptRow(d) \in todo'[Conductor] \cup dirty'[Conductor]
      BY <1>2 DEF ClosesWhatItFound
    <3>1. /\ DeliveryRow(d) \notin todo[Conductor]
          /\ DeliveryRow(d) \in dirty[Conductor]
                 <=> AttemptRow(d) \in todo[Conductor] \cup dirty[Conductor]
      BY DEF ClosesWhatItFound
    <3>2. row # DeliveryRow(d)
      BY <1>1, <2>2, <3>1
    <3>3. DeliveryRow(d) \in dirty[Conductor] => Matches(AttemptRow(d))
      BY <2>0, MatchFacts, LeasedIsOpen DEF WrittenStillMatch
    <3> QED BY <1>1, <1>3, <2>2, <3>1, <3>2, <3>3
  <2> QED BY <2>1, <2>2
<1> QED BY <1>4, <1>5, <1>6, <1>7, <1>8, <1>9

\* A transaction ends, having written nobody else's rows: the others are where
\* they were, and find their own rows as they left them.
LEMMA EndStep ==
    ASSUME IInv, NEW t \in Txn, Finish(t), OneStory',
           delivery' \in [DeliveryId -> DeliveryValues],
           attempt' \in [DeliveryId -> AttemptValues],
           \A d \in DeliveryId :
               /\ DeliveryRow(d) \notin dirty[t] => delivery'[d] = delivery[d]
               /\ AttemptRow(d) \notin dirty[t] => attempt'[d] = attempt[d]
               /\ delivery'[d] = "leased" => delivery[d] = "leased"
               /\ attempt'[d] = "open" => attempt[d] = "open"
    PROVE  IInv'
<1> USE DEF IInv
<1>1. /\ stage' = [stage EXCEPT ![t] = IF t \in Worker THEN "written" ELSE "outside"]
      /\ lock' = [row \in Rows |-> IF lock[row] = t THEN Free ELSE lock[row]]
      /\ dirty' = [dirty EXCEPT ![t] = {}] /\ todo' = [todo EXCEPT ![t] = {}]
      /\ target' = [target EXCEPT ![t] = NoRow] /\ lapsed' = lapsed
  BY DEF Finish, Unlock
<1>2. /\ dirty'[t] = {} /\ todo'[t] = {} /\ target'[t] = NoRow
      /\ stage'[t] = IF t \in Worker THEN "written" ELSE "outside"
      /\ \A u \in Txn : u # t => /\ dirty'[u] = dirty[u] /\ todo'[u] = todo[u]
                                 /\ target'[u] = target[u] /\ stage'[u] = stage[u]
  BY <1>1, Types
<1>3. Free \notin Txn /\ Conductor \notin Worker /\ Worker \subseteq Txn /\ Conductor \in Txn
  BY BatchAssumption DEF Txn
<1>4. TypeOK'
  <2>1. /\ lock' \in [Rows -> Txn \cup {Free}] /\ todo' \in [Txn -> SUBSET Rows]
        /\ dirty' \in [Txn -> SUBSET Rows] /\ target' \in [Txn -> Rows \cup {NoRow}]
        /\ stage' \in [Txn -> Stages]
    BY <1>1, Types DEF Stages
  <2>2. ASSUME NEW row \in Rows, NEW u \in Txn PROVE lock'[row] = u <=> row \in dirty'[u]
    <3>1. lock[row] = u <=> row \in dirty[u]
      BY Types
    <3>2. CASE u = t
      BY <1>1, <1>2, <1>3, <3>2
    <3>3. CASE u # t
      BY <1>1, <1>2, <1>3, <3>1, <3>3
    <3> QED BY <3>2, <3>3
  <2> QED BY <1>1, <2>1, <2>2 DEF TypeOK
<1>5. WrittenStillMatch'
  <2> SUFFICES ASSUME NEW u \in Txn, NEW row \in dirty'[u] PROVE Matches(row)'
    BY DEF WrittenStillMatch
  <2>1. u # t /\ row \in dirty[u] /\ row \in Rows /\ Matches(row)
    BY <1>2, Types DEF WrittenStillMatch
  <2>2. row \notin dirty[t]
    BY <2>1, Types
  <2> QED BY <2>1, <2>2, RowFacts, MatchFacts, MatchFactsNext
<1>6. AimsAtTodo' /\ AtRest' /\ Roles'
  BY <1>2, <1>3 DEF AimsAtTodo, AtRest, Roles
<1>7. \A w \in Worker : AttemptsFirst(w)' /\ DeliveriesNext(w)'
  BY <1>2, <1>3 DEF AttemptsFirst, DeliveriesNext
<1>8. ClosesWhatItFound'
  BY <1>2, <1>3 DEF ClosesWhatItFound
<1> QED BY <1>4, <1>5, <1>6, <1>7, <1>8

\* A transaction that commits has written both rows of a delivery or neither.
LEMMA BothOrNeither ==
    ASSUME IInv, NEW t \in Txn, Complete(t), NEW d \in DeliveryId
    PROVE  DeliveryRow(d) \in dirty[t] <=> AttemptRow(d) \in dirty[t]
<1> USE DEF IInv
<1>1. todo[t] = {}
  BY DEF Complete
<1>2. /\ DeliveryRow(d) \in dirty[t] => delivery[d] = "leased"
      /\ AttemptRow(d) \in dirty[t] => attempt[d] = "open"
  BY MatchFacts DEF WrittenStillMatch
<1>3. CASE t \in Worker
  <2>1. stage[t] = "deliveries" /\ DeliveriesNext(t)
    BY <1>3 DEF Complete, Roles
  <2> QED BY <1>1, <1>2, <2>1, LeasedIsOpen DEF DeliveriesNext
<1>4. CASE t = Conductor
  BY <1>1, <1>4 DEF Complete, Roles, ClosesWhatItFound
<1> QED BY <1>3, <1>4 DEF Txn

LEMMA CommitStep ==
    ASSUME IInv, NEW t \in Txn, Commit(t)
    PROVE  IInv'
<1>1. /\ delivery' = [d \in DeliveryId |-> IF DeliveryRow(d) \in dirty[t]
                        THEN IF t \in Worker THEN "settled" ELSE "requeued" ELSE delivery[d]]
      /\ attempt' = [d \in DeliveryId |-> IF AttemptRow(d) \in dirty[t]
                        THEN IF t \in Worker THEN "answered" ELSE "lease_expired" ELSE attempt[d]]
      /\ Complete(t) /\ Finish(t)
  BY DEF Commit
<1>2. /\ delivery' \in [DeliveryId -> DeliveryValues]
      /\ attempt' \in [DeliveryId -> AttemptValues]
  BY <1>1, Types DEF IInv, DeliveryValues, AttemptValues
<1>3. OneStory'
  BY <1>1, BothOrNeither DEF IInv, OneStory
<1> QED BY <1>1, <1>2, <1>3, EndStep

LEMMA CancelStep ==
    ASSUME IInv, NEW t \in Txn, CancelDeadlocked(t)
    PROVE  IInv'
<1>1. Finish(t) /\ delivery' = delivery /\ attempt' = attempt
  BY DEF CancelDeadlocked
<1>2. OneStory'
  BY <1>1 DEF IInv, OneStory
<1> QED BY <1>1, <1>2, Types, EndStep DEF IInv

-----------------------------------------------------------------------------
LEMMA NextStep == IInv /\ [Next]_vars => IInv'
<1> SUFFICES ASSUME IInv, [Next]_vars PROVE IInv'
  OBVIOUS
<1>1. CASE UNCHANGED vars
  BY <1>1 DEF vars, IInv, TypeOK, OneStory, WrittenStillMatch, Matches, AimsAtTodo, AtRest,
              Roles, AttemptsFirst, DeliveriesNext, ClosesWhatItFound
<1> QED BY <1>1, LapseStep, BeginStep, TurnStep, SweepStep, ReachStep, WriteStep, CommitStep,
           CancelStep DEF Next

\* The inductive invariant holds in every reachable state.
THEOREM Invariance == Spec => []IInv
<1> QED BY InitIInv, NextStep, PTL DEF Spec

\* Types, and every lock is its writer's and goes with its transaction.
THEOREM TypeCorrect == Spec => []TypeOK
<1>1. IInv => TypeOK
  BY DEF IInv
<1> QED BY <1>1, Invariance, PTL

\* However completions and sweeps interleave, and whichever is cancelled, the
\* committed delivery row and attempt row tell one story.
THEOREM OneStoryHolds == Spec => []OneStory
<1>1. IInv => OneStory
  BY DEF IInv
<1> QED BY <1>1, Invariance, PTL

-----------------------------------------------------------------------------
(* The refinement.  A commit is the step of the promise, every other step     *)
(* changes nothing that is committed: a worker's has written the whole of what *)
(* is left of its batch, the conductor's only what was due as it swept.        *)

SweptWereDue == \A d \in DeliveryId : DeliveryRow(d) \in dirty[Conductor] => d \in lapsed

LEMMA NextSweptWereDue == IInv /\ SweptWereDue /\ [Next]_vars => SweptWereDue'
<1> SUFFICES ASSUME IInv, SweptWereDue, [Next]_vars, NEW d \in DeliveryId,
                    DeliveryRow(d) \in dirty'[Conductor]
             PROVE  d \in lapsed'
  BY DEF SweptWereDue
<1>t. /\ Conductor \in Txn /\ Conductor \notin Worker /\ dirty \in [Txn -> SUBSET Rows]
  BY BatchAssumption, Types DEF IInv, Txn
<1>1. CASE Sweep
  <2>1. PICK found : /\ found \subseteq lapsed /\ UNCHANGED lapsed
                     /\ dirty' = [dirty EXCEPT ![Conductor] = {DeliveryRow(e) : e \in found}]
    BY <1>1 DEF Sweep
  <2> QED BY <1>t, <2>1, RowFacts
<1>2. ASSUME NEW t \in Txn, Write(t) PROVE d \in lapsed'
  <2>1. /\ target[t] # NoRow /\ lapsed' = lapsed
        /\ dirty' = dirty \/ dirty' = [dirty EXCEPT ![t] = @ \cup {target[t]}]
    BY <1>2 DEF Write
  <2>2. target[Conductor] # NoRow => target[Conductor] # DeliveryRow(d)
    BY <1>t DEF IInv, AimsAtTodo, ClosesWhatItFound, AtRest, Roles
  <2>3. DeliveryRow(d) \in dirty[Conductor]
    BY <1>t, <2>1, <2>2
  <2> QED BY <2>1, <2>3 DEF SweptWereDue
<1>3. ASSUME NEW t \in Txn, Commit(t) \/ CancelDeadlocked(t) PROVE d \in lapsed'
  <2>1. dirty' = [dirty EXCEPT ![t] = {}] /\ lapsed' = lapsed
    BY <1>3 DEF Commit, CancelDeadlocked, Finish
  <2>2. DeliveryRow(d) \in dirty[Conductor]
    BY <1>t, <2>1
  <2> QED BY <2>1, <2>2 DEF SweptWereDue
<1>4. CASE dirty' = dirty /\ lapsed \subseteq lapsed'
  BY <1>4 DEF SweptWereDue
<1>5. \/ Sweep \/ (\E t \in Txn : Write(t) \/ Commit(t) \/ CancelDeadlocked(t))
      \/ dirty' = dirty /\ lapsed \subseteq lapsed'
  BY DEF Next, Lapse, BeginCompletion, TurnToDeliveries, Reach, vars
<1> QED BY <1>1, <1>2, <1>3, <1>4, <1>5

LEMMA ToldFacts ==
    ASSUME OneStory, NEW d \in DeliveryId
    PROVE  /\ delivery[d] = "leased" <=> LeaseTold(d) = "held"
           /\ delivery[d] = "settled" <=> LeaseTold(d) = "answered"
           /\ delivery[d] = "requeued" <=> LeaseTold(d) = "reclaimed"
           /\ LeaseTold(d) \in {"held", "answered", "reclaimed"}
<1>1. CASE delivery[d] = "leased" /\ attempt[d] = "open"
  BY <1>1 DEF LeaseTold
<1>2. CASE delivery[d] = "settled" /\ attempt[d] = "answered"
  BY <1>2 DEF LeaseTold
<1>3. CASE delivery[d] = "requeued" /\ attempt[d] = "lease_expired"
  BY <1>3 DEF LeaseTold
<1> QED BY <1>1, <1>2, <1>3 DEF OneStory

\* What a committed transaction wrote is what it ends.
LEMMA CommitTold ==
    ASSUME IInv, NEW t \in Txn, Commit(t), IInv', NEW d \in DeliveryId
    PROVE  /\ DeliveryRow(d) \in dirty[t] => LeaseTold(d) = "held"
           /\ LeaseTold(d)' = IF DeliveryRow(d) \in dirty[t]
                              THEN IF t \in Worker THEN "answered" ELSE "reclaimed"
                              ELSE LeaseTold(d)
<1>1. /\ delivery' = [e \in DeliveryId |-> IF DeliveryRow(e) \in dirty[t]
                        THEN IF t \in Worker THEN "settled" ELSE "requeued" ELSE delivery[e]]
      /\ attempt' = [e \in DeliveryId |-> IF AttemptRow(e) \in dirty[t]
                        THEN IF t \in Worker THEN "answered" ELSE "lease_expired" ELSE attempt[e]]
      /\ Complete(t)
  BY DEF Commit
<1>2. DeliveryRow(d) \in dirty[t] <=> AttemptRow(d) \in dirty[t]
  BY <1>1, BothOrNeither
<1>3. DeliveryRow(d) \in dirty[t] => delivery[d] = "leased"
  BY MatchFacts DEF IInv, WrittenStillMatch
<1>4. CASE DeliveryRow(d) \in dirty[t]
  <2>1. delivery'[d] = IF t \in Worker THEN "settled" ELSE "requeued"
    BY <1>1, <1>4
  <2>2. attempt'[d] = IF t \in Worker THEN "answered" ELSE "lease_expired"
    BY <1>1, <1>2, <1>4
  <2>3. LeaseTold(d)' = IF t \in Worker THEN "answered" ELSE "reclaimed"
    BY <2>1, <2>2 DEF LeaseTold
  <2> QED BY <1>3, <1>4, <2>3, ToldFacts DEF IInv
<1>5. CASE DeliveryRow(d) \notin dirty[t]
  <2>1. delivery'[d] = delivery[d] /\ attempt'[d] = attempt[d]
    BY <1>1, <1>2, <1>5
  <2> QED BY <1>5, <2>1 DEF LeaseTold
<1> QED BY <1>4, <1>5

\* What a completion commits is what was left of its batch.
LEMMA WholeBatch ==
    ASSUME IInv, NEW w \in Worker, Complete(w), NEW d \in DeliveryId
    PROVE  DeliveryRow(d) \in dirty[w] <=> d \in Batch[w] /\ LeaseTold(d) = "held"
<1>1. stage[w] = "deliveries" /\ todo[w] = {} /\ DeliveriesNext(w) /\ w \in Txn
  BY DEF Complete, IInv, Roles, Txn
<1>2. delivery[d] = "leased" <=> LeaseTold(d) = "held"
  BY ToldFacts DEF IInv
<1>3. DeliveryRow(d) \in dirty[w] => delivery[d] = "leased"
  BY <1>1, MatchFacts DEF IInv, WrittenStillMatch
<1> QED BY <1>1, <1>2, <1>3 DEF DeliveriesNext

\* However the statements of completions and sweeps interleave, a lease ends once
\* and in one step: by its worker with all that is left of the batch, or by the
\* conductor when it was due.  For any workers, deliveries and disjoint batches.
THEOREM Refinement == Spec => ImplementsSettlement
<1>1. Init => SweptWereDue /\ Settle!SettlementInit
  <2> SUFFICES ASSUME Init PROVE SweptWereDue /\ Settle!SettlementInit
    OBVIOUS
  <2>1. SweptWereDue
    BY DEF Init, SweptWereDue, Txn
  <2>2. \A d \in DeliveryId : LeaseTold(d) = "held"
    BY DEF Init, LeaseTold
  <2>3. lapsed = {}
    BY DEF Init
  <2> QED BY <2>1, <2>2, <2>3 DEF Settle!SettlementInit
<1>2. IInv /\ IInv' /\ SweptWereDue /\ [Next]_vars
        => [Settle!SettlementNext]_(Settle!settlementVars)
  <2> SUFFICES ASSUME IInv, IInv', SweptWereDue, [Next]_vars
               PROVE  Settle!SettlementNext \/ UNCHANGED Settle!settlementVars
    OBVIOUS
  <2> DEFINE told == [d \in DeliveryId |-> LeaseTold(d)]
  <2>1. ASSUME NEW w \in Worker, Commit(w) PROVE Settle!Answered(w)
    <3>1. w \in Txn /\ lapsed' = lapsed /\ Complete(w)
      BY <2>1 DEF Commit, Finish, Txn
    <3>2. \A d \in DeliveryId :
             LeaseTold(d)' = IF d \in Batch[w] /\ LeaseTold(d) = "held"
                             THEN "answered" ELSE LeaseTold(d)
      BY <2>1, <3>1, CommitTold, WholeBatch
    <3>3. \A d \in DeliveryId : d \in Batch[w] \cap Settle!Held
                                  <=> d \in Batch[w] /\ LeaseTold(d) = "held"
      BY DEF Settle!Held
    <3>4. told' = [d \in DeliveryId |-> IF d \in Batch[w] \cap Settle!Held
                                        THEN "answered" ELSE told[d]]
      BY <3>2, <3>3
    <3> QED BY <3>1, <3>4 DEF Settle!Answered, Settle!Ends
  <2>2. ASSUME Commit(Conductor) PROVE Settle!Reclaimed
    <3> DEFINE due == {d \in DeliveryId : DeliveryRow(d) \in dirty[Conductor]}
    <3>1. Conductor \in Txn /\ Conductor \notin Worker /\ lapsed' = lapsed
      BY <2>2, BatchAssumption DEF Commit, Finish, Txn
    <3>2. \A d \in DeliveryId :
             /\ d \in due => LeaseTold(d) = "held"
             /\ LeaseTold(d)' = IF d \in due THEN "reclaimed" ELSE LeaseTold(d)
      BY <2>2, <3>1, CommitTold
    <3>3. due \in SUBSET (lapsed \cap Settle!Held)
      BY <3>2 DEF SweptWereDue, Settle!Held
    <3>4. told' = [d \in DeliveryId |-> IF d \in due THEN "reclaimed" ELSE told[d]]
      BY <3>2
    <3> HIDE DEF due
    <3>5. Settle!Ends(due, "reclaimed")
      BY <3>1, <3>4 DEF Settle!Ends
    <3> QED BY <3>3, <3>5 DEF Settle!Reclaimed
  <2>3. ASSUME NEW d \in DeliveryId, Lapse(d) PROVE Settle!Expires(d)
    <3>1. lapsed' = lapsed \cup {d} /\ delivery' = delivery /\ attempt' = attempt
      BY <2>3 DEF Lapse
    <3>2. told' = told
      BY <3>1 DEF LeaseTold
    <3> QED BY <3>1, <3>2 DEF Settle!Expires
  <2>4. CASE UNCHANGED <<delivery, attempt, lapsed>>
    <3>1. told' = told
      BY <2>4 DEF LeaseTold
    <3> QED BY <2>4, <3>1 DEF Settle!settlementVars
  <2>5. \/ \E w \in Worker : Commit(w)
        \/ Commit(Conductor) \/ (\E d \in DeliveryId : Lapse(d))
        \/ UNCHANGED <<delivery, attempt, lapsed>>
    BY DEF Next, Txn, BeginCompletion, TurnToDeliveries, Sweep, Reach, Write,
           CancelDeadlocked, Finish, vars
  <2> QED BY <2>1, <2>2, <2>3, <2>4, <2>5 DEF Settle!SettlementNext
<1> QED BY <1>1, <1>2, Invariance, NextSweptWereDue, PTL
        DEF Spec, ImplementsSettlement, Settle!SettlementSpec

-----------------------------------------------------------------------------
(* Waits.  Only two transactions can stand in a circle, so the detector that  *)
(* looks at pairs misses none.                                                *)

\* A worker touches the rows of its own batch, which is nobody else's.
LEMMA OwnRows ==
    ASSUME IInv, NEW w \in Worker, NEW d \in DeliveryId,
           \/ DeliveryRow(d) \in todo[w] \cup dirty[w]
           \/ AttemptRow(d) \in todo[w] \cup dirty[w]
    PROVE  d \in Batch[w]
<1>1. w \in Txn /\ stage[w] \in {"attempts", "deliveries"}
  BY Types DEF IInv, Roles, AtRest, Stages, Txn
<1> QED BY <1>1 DEF IInv, AttemptsFirst, DeliveriesNext

\* Workers never wait for one another.
LEMMA WorkersPass == IInv => \A w, v \in Worker : ~WaitsFor(w, v)
<1> SUFFICES ASSUME IInv, NEW w \in Worker, NEW v \in Worker, WaitsFor(w, v) PROVE FALSE
  OBVIOUS
<1>1. /\ w # v /\ w \in Txn /\ v \in Txn /\ target[w] \in todo[w] /\ target[w] \in Rows
      /\ lock[target[w]] = v
  BY Types DEF WaitsFor, IInv, AimsAtTodo, Txn
<1>2. target[w] \in dirty[v]
  BY <1>1, Types DEF IInv
<1>3. PICK d \in DeliveryId : target[w] = DeliveryRow(d) \/ target[w] = AttemptRow(d)
  BY <1>1, RowFacts
<1>4. d \in Batch[w] /\ d \in Batch[v]
  BY <1>1, <1>2, <1>3, OwnRows
<1> QED BY <1>1, <1>4, BatchAssumption

\* Whoever waits for one that waits for one, and so on without an end (in a circle
\* of whatever length): two that wait for each other are among the first three.
CirclesHaveTwo ==
    \A chain \in [Nat -> Txn] :
        (\A i \in Nat : WaitsFor(chain[i], chain[i + 1])) => \E i \in 0 .. 1 : Deadlocked(chain[i])

\* The deadlock detector of the model looks for two that wait for each other; with
\* disjoint batches there is no other deadlock of complete_batch and the sweep.
THEOREM DetectorMissesNone == Spec => []CirclesHaveTwo
<1>1. IInv => CirclesHaveTwo
  <2> SUFFICES ASSUME IInv, NEW chain \in [Nat -> Txn],
                      \A i \in Nat : WaitsFor(chain[i], chain[i + 1])
               PROVE  \E i \in 0 .. 1 : Deadlocked(chain[i])
    BY DEF CirclesHaveTwo
  <2>1. /\ WaitsFor(chain[0], chain[1]) /\ WaitsFor(chain[1], chain[2])
        /\ WaitsFor(chain[2], chain[3])
        /\ chain[0] \in Txn /\ chain[1] \in Txn /\ chain[2] \in Txn /\ chain[3] \in Txn
    <3>1. \A i \in Nat : i + 1 \in Nat
      OBVIOUS
    <3>2. 0 + 1 = 1 /\ 1 + 1 = 2 /\ 2 + 1 = 3
      OBVIOUS
    <3> QED BY <3>1, <3>2
  <2>2. \A t, u \in Txn : WaitsFor(t, u) => t # u /\ (t = Conductor \/ u = Conductor)
    BY WorkersPass DEF WaitsFor, Txn
  <2>3. CASE chain[0] = Conductor
    <3>1. chain[2] = Conductor
      BY <2>1, <2>2, <2>3
    <3> QED BY <2>1, <2>3, <3>1 DEF Deadlocked
  <2>4. CASE chain[0] # Conductor
    <3>1. chain[1] = Conductor /\ chain[3] = Conductor
      BY <2>1, <2>2, <2>4
    <3>2. WaitsFor(chain[1], chain[2]) /\ WaitsFor(chain[2], chain[1])
      BY <2>1, <3>1
    <3> QED BY <2>1, <3>2 DEF Deadlocked
  <2> QED BY <2>3, <2>4
<1> QED BY <1>1, Invariance, PTL

-----------------------------------------------------------------------------
(* And nobody is stuck: what a transaction waits for, if it waits at all, can *)
(* take its next step, or is for the detector to end.                         *)

Underway(t) == stage[t] \notin {"outside", "written"}

\* Transaction t has a step to take: it reaches its next row, has the row it
\* stands before, turns to the other table, commits, or is in a circle.
CanGo(t) ==
    \/ /\ target[t] = NoRow
       /\ \E row \in todo[t] : stage[t] = "attempts" => \A other \in todo[t] : row[2] <= other[2]
    \/ target[t] # NoRow /\ lock[target[t]] \in {Free, t}
    \/ t \in Worker /\ stage[t] = "attempts" /\ todo[t] = {} /\ target[t] = NoRow
    \/ Complete(t)
    \/ Deadlocked(t)

\* Whoever is not waiting can go on: a statement has a next row while there is
\* one, executemany a next one in the batch's order, and after the last of them
\* the transaction turns or commits.
LEMMA GoesUnlessWaiting ==
  ASSUME IInv, NEW t \in Txn, Underway(t), \A u \in Txn : ~WaitsFor(t, u),
         \A S \in SUBSET DeliveryId : S # {} => \E d \in S : \A e \in S : d <= e
  PROVE  CanGo(t)
<1>t. /\ stage[t] \in Stages /\ todo[t] \subseteq Rows /\ target[t] \in Rows \cup {NoRow}
      /\ target[t] # NoRow => lock[target[t]] \in Txn \cup {Free}
  BY Types DEF IInv
<1>1. CASE target[t] # NoRow
  <2>1. lock[target[t]] \in {Free, t}
    BY <1>t, <1>1 DEF WaitsFor
  <2> QED BY <1>1, <2>1 DEF CanGo
<1>2. CASE target[t] = NoRow /\ todo[t] # {}
  <2>1. CASE stage[t] # "attempts"
    BY <1>2, <2>1 DEF CanGo
  <2>2. CASE stage[t] = "attempts"
    <3>1. PICK S : S = {d \in DeliveryId : \E row \in todo[t] : row[2] = d}
      OBVIOUS
    <3>2. \A row \in todo[t] : row[2] \in S
      BY <1>t, <3>1, RowFacts
    <3>3. S \in SUBSET DeliveryId /\ S # {}
      BY <1>2, <3>1, <3>2
    <3>4. PICK d \in S : \A e \in S : d <= e
      BY <3>3
    <3>5. PICK row \in todo[t] : row[2] = d
      BY <3>1
    <3> QED BY <1>2, <3>2, <3>4, <3>5 DEF CanGo
  <2> QED BY <2>1, <2>2
<1>3. CASE target[t] = NoRow /\ todo[t] = {}
  <2>1. stage[t] \in {"attempts", "deliveries", "closing"}
    BY <1>t DEF Underway, Stages
  <2>2. stage[t] = "attempts" => t \in Worker
    BY DEF IInv, Roles, Txn
  <2> QED BY <1>3, <2>1, <2>2 DEF CanGo, Complete
<1> QED BY <1>2, <1>3, <1>1

\* The holder of a lock is under way.
LEMMA HolderUnderway ==
  ASSUME IInv, NEW t \in Txn, NEW u \in Txn, WaitsFor(t, u)
  PROVE  Underway(u)
<1>1. target[t] \in Rows /\ lock[target[t]] = u
  BY Types DEF WaitsFor, IInv
<1>2. target[t] \in dirty[u]
  BY <1>1, Types DEF IInv
<1> QED BY <1>2 DEF IInv, AtRest, Underway

\* A transaction under way can take its next step, or is at most two waits behind
\* one that can.
NobodyStuck ==
    \A t \in Txn : Underway(t) =>
        \E u, v \in Txn : /\ u = t \/ WaitsFor(t, u)
                          /\ v = u \/ WaitsFor(u, v)
                          /\ CanGo(v)

\* However completions and sweeps wait for one another, somebody can go on: no
\* lock is held by a transaction that is over, and no set of them is stuck in a
\* way that the detector does not see.  (Ids count up from one, so that any of
\* them have a least, the row that executemany comes to next.)
THEOREM NobodyStuckHolds ==
  ASSUME \A S \in SUBSET DeliveryId : S # {} => \E d \in S : \A e \in S : d <= e
  PROVE  Spec => []NobodyStuck
<1>1. IInv => NobodyStuck
  <2> SUFFICES ASSUME IInv, NEW t \in Txn, Underway(t),
                      \A u, v \in Txn : /\ u = t \/ WaitsFor(t, u)
                                        /\ v = u \/ WaitsFor(u, v)
                                        => ~CanGo(v)
               PROVE  FALSE
    BY DEF NobodyStuck
  <2>1. \A u \in Txn : Underway(u) /\ ~CanGo(u) => \E v \in Txn : WaitsFor(u, v)
    BY GoesUnlessWaiting
  <2>2. PICK u \in Txn : WaitsFor(t, u)
    BY <2>1
  <2>3. Underway(u)
    BY <2>2, HolderUnderway
  <2>4. PICK v \in Txn : WaitsFor(u, v)
    BY <2>1, <2>2, <2>3
  <2>5. Underway(v) /\ ~CanGo(v)
    BY <2>2, <2>4, HolderUnderway
  <2>6. PICK last \in Txn : WaitsFor(v, last)
    BY <2>1, <2>5
  <2>7. \A a, b \in Txn : WaitsFor(a, b) => a # b /\ (a = Conductor \/ b = Conductor)
    BY WorkersPass DEF WaitsFor, Txn
  <2>8. CASE t = Conductor
    <3>1. v = t
      BY <2>2, <2>4, <2>7, <2>8
    <3> QED BY <2>2, <2>4, <3>1 DEF CanGo, Deadlocked
  <2>9. CASE t # Conductor
    <3>1. u = Conductor /\ last = u
      BY <2>2, <2>4, <2>6, <2>7, <2>9
    <3> QED BY <2>2, <2>4, <2>6, <3>1 DEF CanGo, Deadlocked
  <2> QED BY <2>8, <2>9
<1> QED BY <1>1, Invariance, PTL
=============================================================================
