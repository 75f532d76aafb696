---------------------------- MODULE Metrics_proofs ----------------------------
(***************************************************************************)
(* The chart: counters are exact, no failover leaves a hole, the browser   *)
(* misses nothing, for any conductors, horizon, cap and overlap.           *)
(***************************************************************************)
EXTENDS Metrics, FiniteSetTheorems, TLAPS

\* A non-empty set of buckets has a newest one.
LEMMA HasNewest ==
  ASSUME NEW S, S \subseteq Bucket, S # {}
  PROVE  \E b \in S : \A c \in S : c <= b
<1> DEFINE Above(b) == {c \in S : c > b}
           R == StrictSubsetOrdering(S)
           T == {Above(b) : b \in S}
<1>0. \A b \in S : b \in Int
  BY BucketsAssumption DEF Bucket
<1>1. IsFiniteSet(S)
  <2>1. IsFiniteSet(Bucket)
    BY BucketsAssumption, FS_Interval DEF Bucket
  <2> QED BY <2>1, FS_Subset
<1>2. IsWellFoundedOn(R, SUBSET S)
  BY <1>1, FS_FiniteSubsetsOfFinite, FS_StrictSubsetOrderingWellFounded
<1>3. T \subseteq SUBSET S /\ T # {}
  OBVIOUS
<1>4. PICK x \in T : \A y \in T : <<y, x>> \notin R
  <2> HIDE DEF R, T
  <2> QED BY <1>2, <1>3, WFMin
<1>5. PICK b \in S : x = Above(b)
  BY <1>4
<1>6. ASSUME NEW c \in S, c > b PROVE FALSE
  <2>1. Above(c) \in T
    OBVIOUS
  <2>2. c \in Above(b) /\ c \notin Above(c)
    BY <1>0, <1>6
  <2>3. ASSUME NEW d \in Above(c) PROVE d \in Above(b)
    <3>1. d \in Int /\ c \in Int /\ b \in Int /\ d \in S /\ d > c
      BY <1>0
    <3> QED BY <1>6, <3>1
  <2>4. Above(c) \in SUBSET S /\ Above(b) \in SUBSET S
    OBVIOUS
  <2>5. <<Above(c), Above(b)>> \in R
    <3> HIDE DEF Above
    <3> QED BY <2>2, <2>3, <2>4 DEF StrictSubsetOrdering
  <2> QED BY <1>4, <1>5, <2>1, <2>5
<1> QED BY <1>0, <1>6

Lost == undone \cup cut

\* A row that is still uncommitted is of a bucket that is not complete yet.
Recent == \A b \in Bucket : stamped[b] > 0 => now - b <= CommitLag

\* What is written, by the open pass or by one that committed, is of a complete
\* bucket and exact.
Final(row, b) == row # None => b + Lag <= now /\ row = counted[b]
WrittenFinal == \A b \in Bucket : Final(snapshot[b], b)
OpenFinal ==
    writing # NoRows =>
        /\ leader \in Conductor /\ cache[leader] # None
        /\ \A b \in Bucket : Final(writing[b], b) /\ (writing[b] # None => b <= cache[leader])

\* A cached cursor never runs past the complete buckets; below it a bucket is
\* written, lost, or about to be written by the pass that moved it.
Cached(p) ==
    cache[p] # None =>
        /\ cache[p] + Lag <= now
        /\ \A b \in 0 .. cache[p] :
              \/ b \in Written \cup Lost
              \/ writing # NoRows /\ leader = p /\ writing[b] # None

\* The browser's cursor is at a bucket that is written, or at the start.
ReaderPlaced == cursor = -1 \/ cursor \in Written

Types == TypeOK /\ cache \in [Conductor -> Int \cup {None}]

IInv ==
    /\ Types
    /\ Recent
    /\ WrittenFinal
    /\ OpenFinal
    /\ \A p \in Conductor : Cached(p)
    /\ FailoverLeavesNoHole
    /\ ReaderPlaced
    /\ ReaderMissesNothing

LEMMA Buckets ==
  /\ Bucket \subseteq Nat
  /\ \A b \in Bucket : b \in Int /\ b >= 0 /\ b <= Horizon /\ 0 .. b \subseteq Bucket
  /\ None \notin Bucket /\ None \notin Nat /\ -1 # None
  /\ Lag \in Nat /\ CommitLag \in Nat /\ CommitLag < Lag /\ Horizon \in Nat
  BY BucketsAssumption, VisibilityAssumption, NoneAssumption DEF Bucket

LEMMA InitIInv == Init => IInv
<1> SUFFICES ASSUME Init PROVE IInv
  OBVIOUS
<1> USE Buckets
<1>1. Types
  BY DEF Init, Types, TypeOK, NoRows, Bucket
<1>2. Written = {}
  BY DEF Init, Written, NoRows
<1> QED BY <1>1, <1>2 DEF Init, IInv, Recent, WrittenFinal, OpenFinal, Final, Cached,
        FailoverLeavesNoHole, ReaderPlaced, ReaderMissesNothing, NoRows

\* Rows come, commit and vanish, and time passes: what is complete stays as it
\* is, and nothing else is touched.
LEMMA RowsStep ==
  ASSUME IInv, UNCHANGED <<snapshot, writerVars, readerVars, historyVars>>,
         now' \in Bucket, now' >= now,
         stamped' \in [Bucket -> Nat], counted' \in [Bucket -> Nat], Recent',
         \A b \in Bucket : b + Lag <= now => counted'[b] = counted[b]
  PROVE  IInv'
<1> USE Buckets DEF IInv
<1>0. now \in Int /\ now' \in Int
  BY DEF Types, TypeOK
<1>1. Types'
  <2>1. ASSUME NEW p \in Conductor, cache[p] # None PROVE cache[p] \in 0 .. now'
    BY <1>0, <2>1 DEF Types, TypeOK
  <2>2. cursor \in -1 .. now'
    BY <1>0 DEF Types, TypeOK
  <2> QED BY <2>1, <2>2 DEF Types, TypeOK, writerVars, readerVars, historyVars
<1>2. Written' = Written
  BY DEF Written
<1>3. ASSUME NEW b \in Bucket, NEW row, Final(row, b) PROVE Final(row, b)'
  BY <1>0, <1>3 DEF Final
<1>4. WrittenFinal'
  BY <1>3 DEF WrittenFinal, Final
<1>5. OpenFinal'
  BY <1>3 DEF OpenFinal, Final, writerVars
<1>6. ASSUME NEW p \in Conductor PROVE Cached(p)'
  <2>1. cache[p] # None => cache[p] + Lag <= now'
    BY <1>0 DEF Cached, Types
  <2> QED BY <1>2, <2>1 DEF Cached, writerVars, historyVars, Lost
<1>7. FailoverLeavesNoHole'
  BY <1>2 DEF FailoverLeavesNoHole, historyVars
<1>8. ReaderPlaced' /\ ReaderMissesNothing'
  BY <1>2 DEF ReaderPlaced, ReaderMissesNothing, readerVars, historyVars
<1> QED BY <1>1, <1>4, <1>5, <1>6, <1>7, <1>8

LEMMA StampStep == ASSUME IInv, NEW b \in Bucket, Stamp(b) PROVE IInv'
<1> USE Buckets
<1>1. /\ now \in Bucket /\ now \in Int /\ now' = now
      /\ stamped \in [Bucket -> Nat] /\ counted \in [Bucket -> Nat] /\ counted' = counted
  BY DEF IInv, Types, TypeOK, Stamp
<1>2. stamped' \in [Bucket -> Nat]
  BY <1>1 DEF Stamp
<1>3. now - b <= CommitLag
  BY <1>1 DEF Stamp
<1>4. Recent'
  BY <1>1, <1>3 DEF IInv, Recent, Stamp
<1> QED BY <1>1, <1>2, <1>4, RowsStep DEF Stamp

LEMMA EndStep ==
  ASSUME IInv, NEW b \in Bucket, NEW commits \in BOOLEAN, EndTransaction(b, commits)
  PROVE  IInv'
<1> USE Buckets
<1>1. /\ now \in Bucket /\ now \in Int /\ now' = now
      /\ stamped \in [Bucket -> Nat] /\ counted \in [Bucket -> Nat]
  BY DEF IInv, Types, TypeOK, EndTransaction
<1>2. stamped' \in [Bucket -> Nat] /\ counted' \in [Bucket -> Nat]
  BY <1>1 DEF EndTransaction
<1>3. ~(b + Lag <= now)
  <2>1. now - b <= CommitLag
    BY DEF IInv, Recent, EndTransaction
  <2> QED BY <1>1, <2>1
<1>4. \A c \in Bucket : c + Lag <= now => counted'[c] = counted[c]
  BY <1>1, <1>3 DEF EndTransaction
<1>5. \A c \in Bucket : stamped'[c] > 0 => stamped[c] > 0
  BY <1>1 DEF EndTransaction
<1>6. Recent'
  BY <1>1, <1>5 DEF IInv, Recent
<1> QED BY <1>1, <1>2, <1>4, <1>6, RowsStep DEF EndTransaction

LEMMA TickStep == ASSUME IInv, Tick PROVE IInv'
<1> USE Buckets
<1>1. /\ now \in Bucket /\ now \in Int /\ now' = now + 1 /\ now' \in Bucket
      /\ stamped' = stamped /\ counted' = counted
      /\ stamped \in [Bucket -> Nat] /\ counted \in [Bucket -> Nat]
  BY DEF IInv, Types, TypeOK, Tick, Bucket
<1>2. Recent'
  BY <1>1 DEF Recent, Tick
<1> QED BY <1>1, <1>2, RowsStep DEF Tick

LEMMA LeadStep == ASSUME IInv, NEW p \in Conductor, Lead(p) \/ Restart(p) PROVE IInv'
<1> USE Buckets DEF IInv
<1>1. /\ UNCHANGED <<rowVars, snapshot, writing, readerVars, historyVars>>
      /\ leader' \in Conductor \cup {None}
      /\ leader' = leader /\ writing # NoRows => leader # p
      /\ leader' # leader => writing = NoRows
      /\ \A q \in Conductor : cache'[q] \in {cache[q], None} /\ (q # p => cache'[q] = cache[q])
      /\ cache' \in [Conductor -> Int \cup {None}]
  BY DEF Lead, Restart, Types, TypeOK
<1>2. Types'
  <2>1. \A q \in Conductor : cache'[q] # None => cache'[q] \in 0 .. now
    BY <1>1 DEF Types, TypeOK
  <2> QED BY <1>1, <2>1 DEF Types, TypeOK, rowVars, readerVars, historyVars
<1>3. Written' = Written
  BY <1>1 DEF Written
<1>4. Recent' /\ WrittenFinal'
  BY <1>1 DEF Recent, WrittenFinal, Final, rowVars
<1>5. OpenFinal'
  <2>1. writing # NoRows => leader' = leader /\ cache'[leader] = cache[leader]
    BY <1>1 DEF OpenFinal
  <2> QED BY <1>1, <2>1 DEF OpenFinal, Final, rowVars
<1>6. ASSUME NEW q \in Conductor, cache'[q] # None PROVE Cached(q)'
  <2>1. cache'[q] = cache[q]
    BY <1>1, <1>6
  <2> QED BY <1>1, <1>3, <1>6, <2>1 DEF Cached, rowVars, historyVars, Lost
<1>7. FailoverLeavesNoHole' /\ ReaderPlaced' /\ ReaderMissesNothing'
  BY <1>1, <1>3 DEF FailoverLeavesNoHole, ReaderPlaced, ReaderMissesNothing, readerVars, historyVars
<1>8. \A q \in Conductor : Cached(q)'
  BY <1>6 DEF Cached
<1> QED BY <1>2, <1>4, <1>5, <1>7, <1>8

\* A pass starts no later than the first bucket that is missing.
LEMMA StartCovers ==
  ASSUME IInv, NEW p \in Conductor, writing = NoRows
  PROVE  /\ Start(p) \in Nat
         /\ \A b \in Bucket : b < Start(p) => b \in Written \cup Lost
<1> USE Buckets DEF IInv
<1>1. CASE cache[p] # None
  <2>1. cache[p] \in 0 .. now /\ now \in Int
    BY <1>1 DEF Types, TypeOK
  <2>2. Start(p) = cache[p] + 1
    BY <1>1 DEF Start, LastWritten
  <2>3. \A b \in 0 .. cache[p] : b \in Written \cup Lost
    BY <1>1 DEF Cached
  <2> QED BY <2>1, <2>2, <2>3
<1>2. CASE cache[p] = None /\ Written = {}
  BY <1>2 DEF Start, LastWritten, Highest
<1>3. CASE cache[p] = None /\ Written # {}
  <2>1. Written \subseteq Bucket
    BY DEF Written
  <2>2. Highest \in Written
    BY <1>3, <2>1, HasNewest DEF Highest
  <2>3. Start(p) = Highest + 1 /\ Highest \in Bucket
    BY <1>3, <2>1, <2>2 DEF Start, LastWritten
  <2>4. \A b \in 0 .. Highest : b \in Written \cup Lost
    BY <2>2 DEF FailoverLeavesNoHole, Lost
  <2> QED BY <2>3, <2>4
<1> QED BY <1>1, <1>2, <1>3

LEMMA WriteStep == ASSUME IInv, NEW p \in Conductor, WriteBuckets(p) PROVE IInv'
<1> USE Buckets DEF IInv
<1> DEFINE end   == Complete
           start == IF Start(p) < end - MaxBackfill + 1
                    THEN end - MaxBackfill + 1 ELSE Start(p)
<1>1. /\ now \in Bucket /\ now \in Int /\ writing = NoRows /\ leader = p
      /\ UNCHANGED <<rowVars, snapshot, leader, readerVars, undone>>
      /\ writing' = [b \in Bucket |-> IF b \in start .. end THEN counted[b] ELSE None]
      /\ cache' = [cache EXCEPT ![p] = end]
      /\ cut' = cut \cup (Start(p) .. start - 1)
      /\ Start(p) <= end
  BY DEF WriteBuckets, Types, TypeOK
<1>2. /\ Start(p) \in Nat
      /\ \A b \in Bucket : b < Start(p) => b \in Written \cup Lost
  BY <1>1, StartCovers
<1>3. /\ end = now - Lag /\ end \in Int /\ end >= 0
      /\ start \in Nat /\ Start(p) <= start /\ start <= end
  BY <1>1, <1>2, BucketsAssumption DEF Complete
<1> HIDE DEF end, start
<1>4. end \in Bucket /\ Start(p) .. start - 1 \subseteq Bucket
  BY <1>1, <1>2, <1>3 DEF Bucket
<1>5. /\ counted \in [Bucket -> Nat] /\ cache \in [Conductor -> Int \cup {None}]
      /\ cut \subseteq cut'
  BY <1>1 DEF Types, TypeOK
<1>6. cache'[p] = end /\ \A q \in Conductor : q # p => cache'[q] = cache[q]
  BY <1>1, <1>5
<1>7. writing' # NoRows
  <2>1. end \in start .. end
    BY <1>3
  <2>2. writing'[end] \in Nat /\ NoRows[end] = None
    BY <1>1, <1>4, <1>5, <2>1 DEF NoRows
  <2> QED BY <2>2
<1>8. Written' = Written
  BY <1>1 DEF Written
<1>9. Types'
  <2>1. \A q \in Conductor : cache'[q] # None => cache'[q] \in 0 .. now
    BY <1>1, <1>3, <1>6 DEF Types, TypeOK
  <2>2. cache' \in [Conductor -> Int \cup {None}]
    BY <1>1, <1>3, <1>5
  <2>3. writing' \in [Bucket -> Nat \cup {None}]
    BY <1>1, <1>5
  <2>4. cut' \subseteq Bucket
    BY <1>1, <1>4 DEF Types, TypeOK
  <2> QED BY <1>1, <2>1, <2>2, <2>3, <2>4 DEF Types, TypeOK, rowVars, readerVars
<1>10. Recent' /\ WrittenFinal'
  BY <1>1 DEF Recent, WrittenFinal, Final, rowVars
<1>11. OpenFinal'
  <2>1. ASSUME NEW b \in Bucket, writing'[b] # None
        PROVE  b + Lag <= now /\ writing'[b] = counted[b] /\ b <= end
    <3>1. b \in start .. end
      BY <1>1, <2>1
    <3> QED BY <1>1, <1>3, <3>1
  <2>2. leader' = p /\ cache'[p] # None
    BY <1>1, <1>3, <1>6, NoneAssumption
  <2> QED BY <1>1, <1>6, <2>1, <2>2 DEF OpenFinal, Final, rowVars
<1>12. Cached(p)'
  <2>1. ASSUME NEW b \in 0 .. end
        PROVE  b \in Written \cup Lost' \/ writing'[b] # None
    <3>0. b \in Bucket /\ b \in Int
      BY <1>4
    <3>1. CASE b < Start(p)
      BY <1>1, <1>2, <1>5, <3>0, <3>1 DEF Lost
    <3>2. CASE b >= Start(p) /\ b < start
      BY <1>1, <1>2, <1>3, <3>0, <3>2 DEF Lost
    <3>3. CASE b >= start
      <4>1. b \in start .. end
        BY <1>3, <3>0, <3>3
      <4> QED BY <1>1, <1>5, <3>0, <4>1
    <3> QED BY <1>2, <1>3, <3>0, <3>1, <3>2, <3>3
  <2>2. end + Lag <= now
    BY <1>1, <1>3
  <2> QED BY <1>1, <1>6, <1>7, <1>8, <2>1, <2>2 DEF Cached, rowVars
<1>13. ASSUME NEW q \in Conductor, q # p PROVE Cached(q)'
  BY <1>1, <1>5, <1>6, <1>8, <1>13 DEF Cached, rowVars, Lost
<1>14. FailoverLeavesNoHole' /\ ReaderPlaced' /\ ReaderMissesNothing'
  BY <1>1, <1>5, <1>8 DEF FailoverLeavesNoHole, ReaderPlaced, ReaderMissesNothing, readerVars
<1> QED BY <1>9, <1>10, <1>11, <1>12, <1>13, <1>14

\* The rows of the open pass are in: what was covered by them is written now, and
\* below them there are no holes, since the cursor that the pass moved covers it.
LEMMA CommitStep == ASSUME IInv, CommitPass PROVE IInv'
<1> USE Buckets DEF IInv
<1>1. /\ now \in Int /\ writing # NoRows /\ writing' = NoRows
      /\ UNCHANGED <<rowVars, leader, cache, readerVars, historyVars>>
      /\ snapshot' = [b \in Bucket |-> IF writing[b] # None THEN writing[b] ELSE snapshot[b]]
      /\ snapshot \in [Bucket -> Nat \cup {None}] /\ writing \in [Bucket -> Nat \cup {None}]
  BY DEF CommitPass, Types, TypeOK
<1>2. \A b \in Bucket : b \in Written' <=> b \in Written \/ writing[b] # None
  BY <1>1 DEF Written
<1>3. /\ leader \in Conductor /\ cache[leader] # None
      /\ \A b \in Bucket : Final(writing[b], b) /\ (writing[b] # None => b <= cache[leader])
  BY <1>1 DEF OpenFinal
<1>4. Types'
  <2>1. snapshot' \in [Bucket -> Nat \cup {None}]
    BY <1>1
  <2>2. writing' \in [Bucket -> Nat \cup {None}]
    BY <1>1 DEF NoRows
  <2> QED BY <1>1, <2>1, <2>2 DEF Types, TypeOK, rowVars, readerVars, historyVars
<1>5. \A b \in Bucket : snapshot'[b] = IF writing[b] # None THEN writing[b] ELSE snapshot[b]
  BY <1>1
<1>6. Recent' /\ WrittenFinal' /\ OpenFinal'
  <2>1. \A b \in Bucket : Final(snapshot'[b], b)
    BY <1>3, <1>5 DEF WrittenFinal
  <2> QED BY <1>1, <2>1 DEF Recent, WrittenFinal, OpenFinal, Final, rowVars
<1>7. ASSUME NEW p \in Conductor PROVE Cached(p)'
  <2>1. cache[p] # None => 0 .. cache[p] \subseteq Bucket
    BY DEF Types, TypeOK, Bucket
  <2>2. ASSUME NEW b \in 0 .. cache[p], cache[p] # None PROVE b \in Written' \cup Lost
    BY <1>2, <2>1, <2>2 DEF Cached
  <2> QED BY <1>1, <2>2 DEF Cached, rowVars, historyVars, Lost
<1>8. FailoverLeavesNoHole'
  <2>1. ASSUME NEW b \in Written', NEW c \in 0 .. b, c \notin Lost PROVE c \in Written'
    <3>1. b \in Bucket /\ c \in Bucket
      BY DEF Written
    <3>2. CASE b \in Written
      BY <1>2, <2>1, <3>1, <3>2 DEF FailoverLeavesNoHole, Lost
    <3>3. CASE writing[b] # None
      <4>1. b <= cache[leader] /\ cache[leader] \in Int
        BY <1>3, <3>1, <3>3 DEF Types
      <4>2. c \in 0 .. cache[leader]
        BY <3>1, <4>1
      <4> QED BY <1>2, <1>3, <2>1, <3>1, <4>2 DEF Cached
    <3> QED BY <1>2, <3>1, <3>2, <3>3
  <2> QED BY <1>1, <2>1 DEF FailoverLeavesNoHole, historyVars, Lost
<1>9. ReaderPlaced'
  BY <1>1, <1>2 DEF ReaderPlaced, readerVars, Written
<1>10. ReaderMissesNothing'
  <2>1. ASSUME NEW b \in Written' \ Lost, b <= cursor PROVE chart[b] = snapshot'[b]
    <3>1. b \in Bucket
      BY DEF Written
    <3>2. cursor \in Written /\ b \in 0 .. cursor
      BY <2>1, <3>1 DEF ReaderPlaced, Written
    <3>3. b \in Written
      BY <2>1, <3>2 DEF FailoverLeavesNoHole, Lost
    <3>4. chart[b] = snapshot[b]
      BY <2>1, <3>3 DEF ReaderMissesNothing, Lost
    <3>5. writing[b] # None => writing[b] = snapshot[b]
      BY <1>3, <3>1, <3>3 DEF WrittenFinal, Final, Written
    <3> QED BY <1>5, <3>1, <3>4, <3>5
  <2> QED BY <1>1, <2>1 DEF ReaderMissesNothing, readerVars, historyVars, Lost
<1> QED BY <1>4, <1>6, <1>7, <1>8, <1>9, <1>10

\* The pass is gone, with the cursor that it moved or with its rows lost.
LEMMA LosePassStep == ASSUME IInv, RollBackPass \/ DieInPass PROVE IInv'
<1> USE Buckets DEF IInv
<1>1. /\ writing # NoRows /\ writing' = NoRows /\ leader' = None
      /\ UNCHANGED <<rowVars, snapshot, readerVars, cut>>
      /\ undone \subseteq undone' /\ undone' \subseteq Bucket
      /\ \A q \in Conductor : cache'[q] \in {cache[q], None}
      /\ cache' \in [Conductor -> Int \cup {None}]
  BY DEF RollBackPass, DieInPass, Types, TypeOK, historyVars
<1>2. Types'
  <2>1. \A q \in Conductor : cache'[q] # None => cache'[q] \in 0 .. now
    BY <1>1 DEF Types, TypeOK
  <2>2. writing' \in [Bucket -> Nat \cup {None}]
    BY <1>1 DEF NoRows
  <2> QED BY <1>1, <2>1, <2>2 DEF Types, TypeOK, rowVars, readerVars
<1>3. Written' = Written /\ Lost \subseteq Lost'
  BY <1>1 DEF Written, Lost
<1>4. Recent' /\ WrittenFinal' /\ OpenFinal'
  BY <1>1 DEF Recent, WrittenFinal, OpenFinal, Final, rowVars
<1>5. ASSUME NEW q \in Conductor, cache'[q] # None PROVE Cached(q)'
  <2>1. cache'[q] = cache[q] /\ 0 .. cache[q] \subseteq Bucket
    BY <1>1, <1>5 DEF Types, TypeOK, Bucket
  <2>2. \A b \in Bucket : leader = q /\ writing[b] # None => b \in Lost'
    BY <1>5 DEF RollBackPass, DieInPass, Types, Lost
  <2>3. \A b \in 0 .. cache[q] : b \in Written \cup Lost'
    BY <1>3, <1>5, <2>1, <2>2 DEF Cached
  <2> QED BY <1>1, <1>3, <1>5, <2>1, <2>3 DEF Cached, rowVars
<1>6. FailoverLeavesNoHole' /\ ReaderPlaced' /\ ReaderMissesNothing'
  BY <1>1, <1>3 DEF FailoverLeavesNoHole, ReaderPlaced, ReaderMissesNothing, readerVars, Lost
<1>7. \A q \in Conductor : Cached(q)'
  BY <1>5 DEF Cached
<1> QED BY <1>2, <1>4, <1>6, <1>7

\* A page reaches from at or before the cursor to the newest bucket: the browser
\* goes on without a gap.
LEMMA ReaderStep == ASSUME IInv, Poll \/ Reload PROVE IInv'
<1> USE Buckets DEF IInv
<1>1. /\ UNCHANGED <<rowVars, snapshot, writerVars, historyVars>>
      /\ cursor \in Int /\ cursor >= -1 /\ now \in Int
      /\ chart \in [Bucket -> Nat \cup {None}] /\ snapshot \in [Bucket -> Nat \cup {None}]
  BY DEF Poll, Reload, Types, TypeOK
<1>2. Written' = Written /\ Written \subseteq Bucket
  BY <1>1 DEF Written
<1>3. /\ Recent' /\ WrittenFinal' /\ OpenFinal' /\ FailoverLeavesNoHole'
      /\ \A q \in Conductor : Cached(q)'
  BY <1>1, <1>2 DEF Recent, WrittenFinal, OpenFinal, Final, FailoverLeavesNoHole, Cached,
        rowVars, writerVars, historyVars, Lost
<1>4. CASE Reload
  <2>1. Types'
    BY <1>1, <1>4 DEF Reload, Types, TypeOK, rowVars, writerVars, historyVars, NoRows
  <2>2. cursor' = -1 /\ \A b \in Written' : ~(b <= cursor')
    BY <1>2, <1>4 DEF Reload
  <2>3. ReaderPlaced' /\ ReaderMissesNothing'
    BY <2>2 DEF ReaderPlaced, ReaderMissesNothing
  <2> QED BY <1>3, <2>1, <2>3
<1>5. CASE Poll
  <2>1. Page \subseteq Written /\ \A b \in Written : b \notin Page => b <= cursor
    BY <1>1, <1>2, BucketsAssumption DEF Page
  <2>2. Page # {} => NextSince \in Page
    BY <1>2, <2>1, HasNewest DEF NextSince
  <2>3. NextSince \in Written \/ NextSince = cursor
    BY <2>1, <2>2 DEF NextSince
  <2>4. /\ cursor' \in {cursor, NextSince} /\ chart' = Merged
    BY <1>5 DEF Poll
  <2>5. \A b \in Written : b <= now
    BY <1>1, <1>2 DEF WrittenFinal, Final, Written
  <2>6. ReaderPlaced'
    BY <1>2, <2>3, <2>4 DEF ReaderPlaced
  <2>7. Types'
    <3>1. cursor' \in -1 .. now
      BY <1>1, <1>2, <2>3, <2>4, <2>5 DEF Types, TypeOK
    <3>2. chart' \in [Bucket -> Nat \cup {None}]
      BY <1>1, <2>4 DEF Merged
    <3> QED BY <1>1, <3>1, <3>2 DEF Types, TypeOK, rowVars, writerVars, historyVars
  <2>8. ReaderMissesNothing'
    <3>1. ASSUME NEW b \in Written \ Lost PROVE chart'[b] = snapshot[b]
      BY <1>2, <2>1, <2>4 DEF Merged, ReaderMissesNothing, Lost
    <3> QED BY <1>1, <1>2, <3>1 DEF ReaderMissesNothing, historyVars, Lost
  <2> QED BY <1>3, <2>6, <2>7, <2>8
<1> QED BY <1>4, <1>5

LEMMA StutterStep == ASSUME IInv, UNCHANGED vars PROVE IInv'
<1> USE Buckets
<1>1. /\ now \in Bucket /\ now \in Int
      /\ stamped \in [Bucket -> Nat] /\ counted \in [Bucket -> Nat]
  BY DEF IInv, Types, TypeOK
<1>2. Recent'
  BY DEF IInv, Recent, vars, rowVars
<1> QED BY <1>1, <1>2, RowsStep DEF vars, rowVars

\* The inductive invariant holds in every reachable state.
THEOREM Invariance == Spec => []IInv
<1>1. IInv /\ [Next]_vars => IInv'
  <2> SUFFICES ASSUME IInv, [Next]_vars PROVE IInv'
    OBVIOUS
  <2> QED BY TickStep, StampStep, EndStep, LeadStep, WriteStep, CommitStep, LosePassStep,
             ReaderStep, StutterStep DEF Next
<1> QED BY InitIInv, <1>1, PTL DEF Spec

\* Every variable keeps its type, and no cursor runs past the current bucket.
THEOREM TypeCorrect == Spec => []TypeOK
<1>1. IInv => TypeOK
  BY DEF IInv, Types
<1> QED BY <1>1, Invariance, PTL

\* A written counter is exact and stays so.
THEOREM CountersExactHolds == Spec => []CountersExact
<1>1. IInv => CountersExact
  <2> SUFFICES ASSUME IInv, NEW b \in Written
               PROVE  stamped[b] = 0 /\ snapshot[b] = counted[b]
    BY DEF CountersExact
  <2>1. /\ b \in Bucket /\ b \in Int /\ now \in Int /\ stamped[b] \in Nat
        /\ b + Lag <= now /\ snapshot[b] = counted[b]
    BY Buckets DEF IInv, Types, TypeOK, WrittenFinal, Final, Written
  <2>2. ~(now - b <= CommitLag)
    BY <2>1, Buckets
  <2> QED BY <2>1, <2>2 DEF IInv, Recent
<1> QED BY <1>1, Invariance, PTL

\* Failovers, deaths in a pass and gaps leave no hole that is not accounted for.
THEOREM FailoverLeavesNoHoleHolds == Spec => []FailoverLeavesNoHole
<1>1. IInv => FailoverLeavesNoHole
  BY DEF IInv
<1> QED BY <1>1, Invariance, PTL

\* What the browser has gone past, it has, and up to date.
THEOREM ReaderMissesNothingHolds == Spec => []ReaderMissesNothing
<1>1. IInv => ReaderMissesNothing
  BY DEF IInv
<1> QED BY <1>1, Invariance, PTL

-----------------------------------------------------------------------------
(* What the chart's progress rests on: nothing that was written has to be     *)
(* written again, one pass covers all that was complete as it wrote, and one  *)
(* poll takes a browser to the newest bucket, wherever either of them was.    *)

\* A bucket, once it has a row, keeps it unchanged: an upsert by another leader,
\* which may recover its cursor from the table or trust an older one of its own,
\* only ever overwrites it with what it says already.
THEOREM WrittenIsFinal == Spec => [][\A b \in Written : snapshot'[b] = snapshot[b]]_vars
<1>1. IInv /\ [Next]_vars => [\A b \in Written : snapshot'[b] = snapshot[b]]_vars
  <2> SUFFICES ASSUME IInv, [Next]_vars, NEW b \in Written PROVE snapshot'[b] = snapshot[b]
    OBVIOUS
  <2>1. CASE CommitPass
    <3>1. /\ b \in Bucket /\ snapshot[b] # None /\ writing # NoRows
          /\ snapshot'[b] = IF writing[b] # None THEN writing[b] ELSE snapshot[b]
      BY <2>1 DEF CommitPass, Written
    <3>2. writing[b] # None => writing[b] = counted[b]
      BY <3>1 DEF IInv, OpenFinal, Final
    <3>3. snapshot[b] = counted[b]
      BY <3>1 DEF IInv, WrittenFinal, Final
    <3> QED BY <3>1, <3>2, <3>3
  <2>2. CASE ~CommitPass
    <3>1. UNCHANGED snapshot
      BY <2>2 DEF Next, Tick, Stamp, EndTransaction, Lead, Restart, WriteBuckets, RollBackPass,
             DieInPass, Poll, Reload, vars
    <3> QED BY <3>1
  <2> QED BY <2>1, <2>2
<1> QED BY <1>1, Invariance, PTL DEF Spec

\* However long the gap before it and whoever led in it, a pass that commits
\* leaves no bucket behind that was complete as it wrote (the one its cursor was
\* set to, and all before): each has a row, or is one that a rolled-back pass or
\* the cap has lost.
THEOREM PassCatchesUp ==
  Spec => [][CommitPass =>
                /\ leader \in Conductor /\ cache[leader] # None
                /\ \A b \in 0 .. cache[leader] : b \in Written' \cup Lost]_vars
<1>1. ASSUME IInv, CommitPass
      PROVE  /\ leader \in Conductor /\ cache[leader] # None
             /\ \A b \in 0 .. cache[leader] : b \in Written' \cup Lost
  <2>1. leader \in Conductor /\ cache[leader] # None
    BY <1>1 DEF IInv, OpenFinal, CommitPass
  <2>2. 0 .. cache[leader] \subseteq Bucket
    BY <1>1, <2>1, Buckets DEF IInv, Types, TypeOK, Bucket
  <2>3. \A b \in Bucket : b \in Written \/ writing[b] # None => b \in Written'
    BY <1>1 DEF CommitPass, Written
  <2> QED BY <1>1, <2>1, <2>2, <2>3 DEF IInv, Cached
<1> QED BY <1>1, Invariance, PTL DEF Spec

\* One answered poll takes a browser past every bucket there is, from wherever it
\* was -- just reloaded, or behind by a long gap -- and with it all their values,
\* lost buckets written late aside.
THEOREM PollCatchesUp ==
  Spec => [][Poll => \A b \in Written :
                        b <= cursor' /\ (b \in Lost \/ chart'[b] = snapshot[b])]_vars
<1>1. ASSUME IInv, Poll, NEW b \in Written
      PROVE  b <= cursor' /\ (b \in Lost \/ chart'[b] = snapshot[b])
  <2>1. /\ Written' = Written /\ Written \subseteq Bucket /\ Bucket \subseteq Int
        /\ cursor \in Int /\ cursor >= -1 /\ snapshot' = snapshot
    BY <1>1, Buckets DEF Poll, Written, IInv, Types, TypeOK
  <2>2. Page \subseteq Written /\ \A c \in Written : c \notin Page => c <= cursor
    BY <2>1, BucketsAssumption DEF Page
  <2>3. \A c \in Page : c <= NextSince /\ NextSince \in Page
    BY <2>1, <2>2, HasNewest DEF NextSince
  <2>4. Page = {} => NextSince = cursor
    BY DEF NextSince
  <2>5. NextSince \in Int /\ cursor' = IF NextSince < cursor THEN cursor ELSE NextSince
    BY <1>1, <2>1, <2>2, <2>3, <2>4 DEF Poll
  <2>6. b <= cursor'
    BY <2>1, <2>2, <2>3, <2>5
  <2>7. b \in Lost \/ chart'[b] = snapshot[b]
    <3>1. chart'[b] = IF b \in Page THEN snapshot[b] ELSE chart[b]
      BY <1>1, <2>1 DEF Poll, Merged
    <3>2. b \notin Page /\ b \notin Lost => chart[b] = snapshot[b]
      BY <1>1, <2>2 DEF IInv, ReaderMissesNothing, Lost
    <3> QED BY <3>1, <3>2
  <2> QED BY <2>6, <2>7
<1>2. IInv /\ [Next]_vars =>
        [Poll => \A b \in Written : b <= cursor' /\ (b \in Lost \/ chart'[b] = snapshot[b])]_vars
  BY <1>1
<1> QED BY <1>2, Invariance, PTL DEF Spec
=============================================================================
