-------------------------------- MODULE Metrics --------------------------------
(***************************************************************************)
(* The chart series: one snapshot row per virtual second, written once the *)
(* second is complete by whichever conductor leads, from a cursor cached   *)
(* in memory and otherwise recovered from the table.  Rows of the attempt  *)
(* table are stamped before their transaction commits, and a pass may be   *)
(* rolled back after it has written.  A browser follows the series with a  *)
(* cursor of its own.  (One consumer and one counter stand for the cross   *)
(* product: all of it is written by the same statement.)                   *)
(***************************************************************************)
EXTENDS Integers, FiniteSets

CONSTANTS Conductor,
          Horizon,        \* bound: last bucket of the run
          Lag,            \* _COMPLETE_BUCKET_LAG
          MaxBackfill,    \* metrics_max_backfill_buckets
          CommitLag,      \* bound: buckets that a commit comes after the one it stamped
          CursorOverlap,  \* CURSOR_OVERLAP
          RowBound,       \* bound: rows stamped in one bucket
          UndoneBound,    \* bound: no pass is rolled back once so many buckets were
          None

ASSUME BucketsAssumption == /\ Horizon \in Nat /\ Lag \in Nat /\ CommitLag \in Nat
                            /\ MaxBackfill \in Nat \ {0} /\ CursorOverlap \in Nat
\* What the second bucket of lag is for.
ASSUME VisibilityAssumption == CommitLag < Lag
ASSUME NoneAssumption    == None \notin Conductor \cup Int

VARIABLES
    now,        \* bucket_index of the virtual clock
    stamped,    \* rows whose timestamp is in a bucket, not yet committed
    counted,    \* and those that are
    snapshot,   \* metrics_snapshot: the counter of a bucket, None without a row
    leader,     \* the conductor whose pass it is
    cache,      \* MetricsWriter._last_written of each conductor
    writing,    \* upserted by the open pass; NoRows outside a pass
    cursor,     \* cursorRef of the browser
    chart,      \* and the buckets it has merged
    undone,     \* history: buckets of passes rolled back after their upsert
    cut         \* history: buckets that the cap on one pass left out

rowVars     == <<now, stamped, counted>>
writerVars  == <<leader, cache, writing>>
readerVars  == <<cursor, chart>>
historyVars == <<undone, cut>>
vars        == <<rowVars, snapshot, writerVars, readerVars, historyVars>>

Bucket == 0 .. Horizon
NoRows == [b \in Bucket |-> None]

Init ==
    /\ now = 0
    /\ stamped  = [b \in Bucket |-> 0]
    /\ counted  = [b \in Bucket |-> 0]
    /\ snapshot = NoRows
    /\ leader   = None
    /\ cache    = [p \in Conductor |-> None]
    /\ writing = NoRows
    /\ cursor = -1 /\ chart = NoRows
    /\ undone = {} /\ cut = {}

-----------------------------------------------------------------------------
(* Workers, the api and the clock. *)

\* A transaction reads its clock and stamps a row.  A worker's clock is a
\* snapshot from before its batch: after a speed-up since then it is behind.
Stamp(b) ==
    /\ b \in now - CommitLag .. now
    /\ stamped[b] + counted[b] < RowBound
    /\ stamped' = [stamped EXCEPT ![b] = @ + 1]
    /\ UNCHANGED <<now, counted, snapshot, writerVars, readerVars, historyVars>>

\* It ends: the row becomes visible in the bucket it was stamped for, or never.
EndTransaction(b, commits) ==
    /\ stamped[b] > 0
    /\ stamped' = [stamped EXCEPT ![b] = @ - 1]
    /\ counted' = IF commits THEN [counted EXCEPT ![b] = @ + 1] ELSE counted
    /\ UNCHANGED <<now, snapshot, writerVars, readerVars, historyVars>>

\* The next bucket, as long as no row commits later than CommitLag after its own.
Tick ==
    /\ now < Horizon
    /\ \A b \in Bucket : stamped[b] > 0 => now + 1 - b <= CommitLag
    /\ now' = now + 1
    /\ UNCHANGED <<stamped, counted, snapshot, writerVars, readerVars, historyVars>>

-----------------------------------------------------------------------------
(* Conductors. *)

\* A failover, with the old leader alive or restarted since.
Lead(p) ==
    /\ writing = NoRows /\ leader # p
    /\ leader' = p
    /\ UNCHANGED <<rowVars, snapshot, cache, writing, readerVars, historyVars>>

Restart(p) ==
    /\ leader # p /\ cache[p] # None
    /\ cache' = [cache EXCEPT ![p] = None]
    /\ UNCHANGED <<rowVars, snapshot, leader, writing, readerVars, historyVars>>

Written == {b \in Bucket : snapshot[b] # None}
\* SELECT MAX(bucket_virtual_s)
Highest == IF Written = {} THEN None
           ELSE CHOOSE b \in Written : \A c \in Written : c <= b

CompleteInFuture == now + 1               \* variant: the lag has the wrong sign
CompleteTooSoon == now - 1                \* variant: no room for late commits
\* The last bucket that is complete and, it is hoped, fully committed.
Complete == now - Lag

LastCachedOnly(p) == IF cache[p] # None THEN cache[p] ELSE Complete - 1  \* variant
LastWritten(p) == IF cache[p] # None THEN cache[p] ELSE Highest

StartPastLast(p) ==                       \* variant: the bucket after last is skipped
    IF LastWritten(p) = None THEN 1 ELSE LastWritten(p) + 2
Start(p) == IF LastWritten(p) = None THEN 0 ELSE LastWritten(p) + 1

\* MetricsWriter.write: derive the counters of the missing buckets, but of no
\* more than MaxBackfill, upsert them, and move the cached cursor.
WriteBuckets(p) ==
    LET end   == Complete
        start == IF Start(p) < end - MaxBackfill + 1
                 THEN end - MaxBackfill + 1 ELSE Start(p)
    IN
    /\ leader = p /\ writing = NoRows
    /\ Start(p) <= end
    /\ writing' = [b \in Bucket |-> IF b \in start .. end THEN counted[b] ELSE None]
    /\ cache'   = [cache EXCEPT ![p] = end]
    /\ cut'     = cut \cup (Start(p) .. start - 1)
    /\ UNCHANGED <<rowVars, snapshot, leader, readerVars, undone>>

\* The pass commits: inserted or overwritten.
CommitPass ==
    /\ writing # NoRows
    /\ snapshot' = [b \in Bucket |-> IF writing[b] # None THEN writing[b] ELSE snapshot[b]]
    /\ writing' = NoRows
    /\ UNCHANGED <<rowVars, leader, cache, readerVars, historyVars>>

\* Or a later statement of it fails: its rows are gone, the cursor is not, and
\* the lock is released for anyone to take, this process included.
RollBackPass ==
    /\ writing # NoRows /\ Cardinality(undone) < UndoneBound
    /\ writing' = NoRows
    /\ leader'  = None
    /\ undone'  = undone \cup {b \in Bucket : writing[b] # None}
    /\ UNCHANGED <<rowVars, snapshot, cache, readerVars, cut>>

\* The leader dies in its pass.
DieInPass ==
    /\ writing # NoRows
    /\ writing' = NoRows
    /\ leader'  = None
    /\ cache'   = [cache EXCEPT ![leader] = None]
    /\ UNCHANGED <<rowVars, snapshot, readerVars, historyVars>>

-----------------------------------------------------------------------------
(* The browser, which asks every second and never twice at once. *)

Page == LET since == IF cursor - CursorOverlap < -1 THEN -1 ELSE cursor - CursorOverlap
        IN  {b \in Written : b > since}

NextSinceClock == now                     \* variant: the clock's place, not the page's
\* next_since_bucket of the answer to that.
NextSince == IF Page = {} THEN cursor
             ELSE CHOOSE b \in Page : \A c \in Page : c <= b

\* mergeBuckets: what is in the page replaces what was there.
Merged == [b \in Bucket |-> IF b \in Page THEN snapshot[b] ELSE chart[b]]

\* A poll that is answered: the page is merged and the cursor moves, never back.
Poll ==
    /\ chart'  = Merged
    /\ cursor' = IF NextSince < cursor THEN cursor ELSE NextSince
    /\ UNCHANGED <<rowVars, snapshot, writerVars, historyVars>>

\* Reloading the page, or going to another run and back.
Reload ==
    /\ cursor' = -1 /\ chart' = NoRows
    /\ UNCHANGED <<rowVars, snapshot, writerVars, historyVars>>

Next ==
    \/ Tick
    \/ \E b \in Bucket : Stamp(b) \/ \E commits \in BOOLEAN : EndTransaction(b, commits)
    \/ \E p \in Conductor : Lead(p) \/ Restart(p) \/ WriteBuckets(p)
    \/ CommitPass \/ RollBackPass \/ DieInPass
    \/ Poll \/ Reload

Spec == Init /\ [][Next]_vars

\* Transactions end, time passes to the end of the run, some conductor leads,
\* and its passes do not all fail; the browser goes on polling.
Fairness ==
    /\ WF_vars(Tick)
    /\ WF_vars(\E b \in Bucket, commits \in BOOLEAN : EndTransaction(b, commits))
    /\ WF_vars(leader = None /\ \E p \in Conductor : Lead(p))
    /\ SF_vars(\E p \in Conductor : WriteBuckets(p))
    /\ SF_vars(CommitPass)
    /\ WF_vars(Poll)

FairSpec == Spec /\ Fairness

-----------------------------------------------------------------------------
\* Every variable stays in its range; the cached cursor never runs past the
\* current bucket.
TypeOK ==
    /\ now \in Bucket
    /\ stamped \in [Bucket -> Nat] /\ counted \in [Bucket -> Nat]
    /\ snapshot \in [Bucket -> Nat \cup {None}]
    /\ leader \in Conductor \cup {None}
    /\ \A p \in Conductor : cache[p] # None => cache[p] \in 0 .. now
    /\ writing \in [Bucket -> Nat \cup {None}]
    /\ cursor \in -1 .. now
    /\ chart \in [Bucket -> Nat \cup {None}]
    /\ undone \subseteq Bucket /\ cut \subseteq Bucket

\* A bucket is written complete: its counter is exact when it is written and
\* stays so, whoever writes it and however often -- given that no transaction
\* takes longer than CommitLag to become visible.
CountersExact ==
    \A b \in Written : stamped[b] = 0 /\ snapshot[b] = counted[b]

\* Leadership changing hands, between passes or by a death in one, leaves no
\* hole in the chart: below the newest bucket written, only what a rolled-back
\* pass had upserted can be missing, or what a gap exceeded the cap by.
FailoverLeavesNoHole ==
    \A b \in Written : (0 .. b) \ (undone \cup cut) \subseteq Written

\* The chart is gap-free: a pass retried after a failed commit leaves no hole
\* either (metrics.py promises both; the code keeps only the first).
NoHoles == \A b \in Written : 0 .. b \subseteq Written

\* since_bucket is a real cursor: no bucket appears behind a browser that has
\* gone past it, and none that it has goes out of date, whoever leads and
\* backfills -- what a rolled-back pass left for later, or a gap beyond the cap,
\* excepted.
ReaderMissesNothing ==
    \A b \in Written \ (undone \cup cut) : b <= cursor => chart[b] = snapshot[b]

\* The chart never stands still for good: again and again the browser's cursor
\* is past every complete bucket, lost ones (rolled back, beyond the cap) aside.
ChartAdvances ==
    []<>(\A b \in Bucket : b + Lag <= now => b <= cursor \/ b \in undone \cup cut)
=============================================================================
