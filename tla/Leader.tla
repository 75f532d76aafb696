-------------------------------- MODULE Leader --------------------------------
(***************************************************************************)
(* Which conductor passes: a session-level advisory lock, taken with       *)
(* pg_try_advisory_lock on a connection from the process's pool and kept   *)
(* across passes.  PostgreSQL counts a session's acquisitions and drops    *)
(* the lock with the session; the pool is a FIFO queue of connections,     *)
(* shared with the heartbeat, and closing a connection returns it there.   *)
(***************************************************************************)
EXTENDS Integers, Sequences, SequencesExt, FiniteSets

CONSTANTS Conductor,     \* conductor replicas
          Session,       \* PostgreSQL sessions; a closed one may be reused
          PoolLimit,     \* db_pool_size + db_max_overflow
          ReentryBound,  \* bound: acquisitions counted on one session
          CrashBound,    \* bound: crashes in a run
          None

ASSUME PoolAssumption == PoolLimit \in Nat /\ PoolLimit >= 2
ASSUME BoundAssumption == ReentryBound \in Nat /\ CrashBound \in Nat
ASSUME NoneAssumption == None \notin Session \cup Conductor

VARIABLES
    (* PostgreSQL *)
    status,     \* of each session, see Statuses
    holder,     \* session holding the advisory lock
    count,      \* times that session has acquired it
    (* each conductor process *)
    process,    \* "up", "crashed" or "stopped"
    pool,       \* its idle connections, next to be checked out first
    conn,       \* LeaderLock._conn
    inPass,     \* a pass has begun on conn and has not ended
    (* history *)
    interfered, \* another conductor has committed a pass since this one began
    crashes

serverVars == <<status, holder, count>>
vars == <<serverVars, process, pool, conn, inPass, interfered, crashes>>

Statuses == {"closed",  \* not connected
             "open",
             "broken",  \* ended by the server, and the client does not know
             "orphan"}  \* left by its client, and the server does not know

\* The connections a process knows of.
Connections(p) == {s \in Session : s = conn[p] \/ s \in ToSet(pool[p])}

Init ==
    /\ status     = [s \in Session |-> "closed"]
    /\ holder     = None
    /\ count      = 0
    /\ process    = [p \in Conductor |-> "up"]
    /\ pool       = [p \in Conductor |-> <<>>]
    /\ conn       = [p \in Conductor |-> None]
    /\ inPass     = [p \in Conductor |-> FALSE]
    /\ interfered = [p \in Conductor |-> FALSE]
    /\ crashes    = 0

-----------------------------------------------------------------------------
(* The pool.  pool_pre_ping replaces a broken connection as it is taken.     *)

Rest(p) == IF pool[p] = <<>> THEN <<>> ELSE Tail(pool[p])

Checkout(p, s) ==
    /\ process[p] = "up"
    /\ IF pool[p] # <<>> THEN s = Head(pool[p])
       ELSE status[s] = "closed" /\ Cardinality(Connections(p)) < PoolLimit
    /\ status' = [status EXCEPT ![s] = "open"]

\* Whether pg_try_advisory_lock says true: the lock is free, or is this
\* session's already.
Grants(s) == holder \in {None, s}

\* A refused connection goes back to the pool.
CheckIn(p, s) == pool' = [pool EXCEPT ![p] = Append(Rest(p), s)]

\* LeaderLock.acquire, when no connection is held yet.
Lead(p, s) ==
    /\ conn[p] = None
    /\ Checkout(p, s)
    /\ Grants(s)
    /\ holder' = s
    /\ count'  = count + 1
    /\ conn'   = [conn EXCEPT ![p] = s]
    /\ pool'   = [pool EXCEPT ![p] = Rest(p)]
    /\ UNCHANGED <<process, inPass, interfered, crashes>>

StandBy(p, s) ==
    /\ conn[p] = None
    /\ Checkout(p, s)
    /\ ~Grants(s)
    /\ CheckIn(p, s)
    /\ UNCHANGED <<holder, count, process, conn, inPass, interfered, crashes>>

\* The heartbeat task's use of the pool, whether or not this process leads.
Heartbeat(p, s) ==
    /\ Checkout(p, s)
    /\ pool' = [pool EXCEPT ![p] = Append(Rest(p), s)]
    /\ UNCHANGED <<holder, count, process, conn, inPass, interfered, crashes>>

-----------------------------------------------------------------------------
(* A pass: one transaction on the held connection.                           *)

Working(p) == conn[p] # None /\ status[conn[p]] = "open"

BeginPass(p) ==
    /\ Working(p) /\ ~inPass[p]
    /\ inPass'     = [inPass EXCEPT ![p] = TRUE]
    /\ interfered' = [interfered EXCEPT ![p] = FALSE]
    /\ UNCHANGED <<serverVars, process, pool, conn, crashes>>

CommitPass(p) ==
    /\ Working(p) /\ inPass[p]
    /\ inPass'     = [inPass EXCEPT ![p] = FALSE]
    /\ interfered' = [q \in Conductor |-> (q # p /\ inPass[q]) \/ interfered[q]]
    /\ UNCHANGED <<serverVars, process, pool, conn, crashes>>

\* One pg_advisory_unlock on session s: the lock goes with the last of them.
Unlock(s) ==
    /\ holder' = IF holder = s /\ count = 1 THEN None ELSE holder
    /\ count'  = IF holder = s THEN count - 1 ELSE count

\* Sessions in `ended` are gone: the lock goes too if one of them held it.
Drop(ended) ==
    /\ holder' = IF holder \in ended THEN None ELSE holder
    /\ count'  = IF holder \in ended THEN 0 ELSE count

ReleaseClearsFirst(p) ==     \* variant: _conn cleared before it is read
    /\ conn'   = [conn EXCEPT ![p] = None]
    /\ pool'   = [pool EXCEPT ![p] = Append(pool[p], conn'[p])]
    /\ inPass' = [inPass EXCEPT ![p] = FALSE]
\* LeaderLock.release closes the connection: back to the pool it goes.
Release(p) ==
    /\ conn'   = [conn EXCEPT ![p] = None]
    /\ pool'   = [pool EXCEPT ![p] = Append(pool[p], conn[p])]
    /\ inPass' = [inPass EXCEPT ![p] = FALSE]

\* The pass raises with its transaction usable: the unlock is executed.
FailPass(p) ==
    /\ Working(p) /\ inPass[p]
    /\ Unlock(conn[p])
    /\ Release(p)
    /\ UNCHANGED <<status, process, interfered, crashes>>

\* A statement of the pass fails in the database: the transaction is aborted,
\* so the unlock is refused and its error suppressed.
FailPassInDatabase(p) ==
    /\ Working(p) /\ inPass[p] /\ count < ReentryBound
    /\ Release(p)
    /\ UNCHANGED <<serverVars, process, interfered, crashes>>

\* What becomes of a connection that release found unusable: discarded.
ReconnectInPlace(p) ==       \* variant: error not released, connection re-opened
    /\ status' = [status EXCEPT ![conn[p]] = "open"]
    /\ Drop({conn[p]})
    /\ UNCHANGED <<conn, inPass>>
Discard(p) ==
    /\ status' = [status EXCEPT ![conn[p]] = IF @ = "broken" THEN "closed" ELSE "orphan"]
    /\ conn'   = [conn EXCEPT ![p] = None]
    /\ inPass' = [inPass EXCEPT ![p] = FALSE]
    /\ UNCHANGED <<holder, count>>

\* The connection itself fails under the leader: the server may have ended it,
\* or may not have noticed yet.
LoseConnection(p) ==
    /\ conn[p] # None
    /\ Discard(p)
    /\ UNCHANGED <<process, pool, interfered, crashes>>

-----------------------------------------------------------------------------
(* Sessions and processes end.                                               *)

\* The server ends a session (restart, idle timeout, pg_terminate_backend).
Terminate(s) ==
    /\ status[s] = "open"
    /\ status' = [status EXCEPT ![s] = "broken"]
    /\ Drop({s})
    /\ UNCHANGED <<process, pool, conn, inPass, interfered, crashes>>

\* The server notices that the client of s has gone.
Notice(s) ==
    /\ status[s] = "orphan"
    /\ status' = [status EXCEPT ![s] = "closed"]
    /\ Drop({s})
    /\ UNCHANGED <<process, pool, conn, inPass, interfered, crashes>>

Gone(p, kind) ==
    /\ process' = [process EXCEPT ![p] = kind]
    /\ pool'    = [pool EXCEPT ![p] = <<>>]
    /\ conn'    = [conn EXCEPT ![p] = None]
    /\ inPass'  = [inPass EXCEPT ![p] = FALSE]

\* ProcessRunner.die, or kill -9: nothing is released.
Crash(p) ==
    /\ process[p] = "up" /\ crashes < CrashBound
    /\ crashes' = crashes + 1
    /\ status' = [s \in Session |->
                    IF s \notin Connections(p) THEN status[s]
                    ELSE IF status[s] = "open" THEN "orphan"
                    ELSE IF status[s] = "broken" THEN "closed" ELSE status[s]]
    /\ Gone(p, "crashed")
    /\ UNCHANGED <<holder, count, interfered>>

\* The connections that shutdown closes: the held one, and the pool with it.
DisposeHeld(p)   == {s \in Session : s = conn[p]}      \* variant: pool not disposed
DisposeEngine(p) == Connections(p)

\* A stop signal: the iteration finishes, aclose releases, the engine is
\* disposed of.  StopBound: one conductor is never stopped.
Stop(p) ==
    LET closing == DisposeEngine(p) IN
    /\ process[p] = "up" /\ ~inPass[p]
    /\ \E q \in Conductor \ {p} : process[q] # "stopped"
    /\ status' = [s \in Session |-> IF s \in closing THEN "closed" ELSE status[s]]
    /\ Drop(closing)
    /\ Gone(p, "stopped")
    /\ UNCHANGED <<interfered, crashes>>

\* restart: unless-stopped.
Restart(p) ==
    /\ process[p] = "crashed"
    /\ process' = [process EXCEPT ![p] = "up"]
    /\ UNCHANGED <<serverVars, pool, conn, inPass, interfered, crashes>>

Next ==
    \/ \E p \in Conductor, s \in Session : Lead(p, s) \/ StandBy(p, s) \/ Heartbeat(p, s)
    \/ \E p \in Conductor : \/ BeginPass(p) \/ CommitPass(p) \/ FailPass(p)
                            \/ FailPassInDatabase(p) \/ LoseConnection(p)
                            \/ Crash(p) \/ Stop(p) \/ Restart(p)
    \/ \E s \in Session : Terminate(s) \/ Notice(s)

Spec == Init /\ [][Next]_vars

(* Fairness.  Every process that is up loops; a dead session is noticed and a *)
(* crashed process restarted.  Leading is strongly fair: a standby asks every *)
(* loop interval and the heartbeat, which turns the same pool, sixty times    *)
(* less often, so it cannot for ever take the one connection that would lead. *)
Fairness ==
    /\ \A p \in Conductor :
        /\ SF_vars(\E s \in Session : Lead(p, s))
        /\ WF_vars(\E s \in Session : StandBy(p, s))
        /\ WF_vars(BeginPass(p)) /\ WF_vars(CommitPass(p))
        /\ WF_vars(~Working(p) /\ LoseConnection(p))
        /\ WF_vars(Restart(p))
    /\ \A s \in Session : WF_vars(Notice(s))

FairSpec == Spec /\ Fairness

-----------------------------------------------------------------------------
\* Types, and a lock that is held is counted.
TypeOK ==
    /\ status  \in [Session -> Statuses]
    /\ holder  \in Session \cup {None}
    /\ count   \in Nat /\ (count = 0 <=> holder = None)
    /\ process \in [Conductor -> {"up", "crashed", "stopped"}]
    /\ pool    \in [Conductor -> Seq(Session)]
    /\ conn    \in [Conductor -> Session \cup {None}]
    /\ inPass  \in [Conductor -> BOOLEAN]
    /\ interfered \in [Conductor -> BOOLEAN]
    /\ crashes \in 0 .. CrashBound

\* Losing the lock and losing the ability to write are the same event: whenever
\* a conductor's held connection still works, its session holds the lock.
Fenced == \A p \in Conductor : Working(p) => holder = conn[p]

\* The read-modify-write of a pass is never crossed by another conductor's: one
\* that can still commit has seen no other commit since it began.
PassesSerial == \A p \in Conductor : Working(p) /\ inPass[p] => ~interfered[p]

\* A lock nobody leads with is within reach: idle in the pool of a process that
\* is up and will ask again, or about to go with a dead client's session.  In
\* particular a stopped conductor leaves none behind, however often its session
\* had come to hold it.
LockWithinReach ==
    holder # None =>
        \/ status[holder] = "orphan"
        \/ \E p \in Conductor : process[p] = "up" /\ holder \in Connections(p)

Leading == \E p \in Conductor : Working(p) /\ holder = conn[p]

\* After every crash, lost connection, failed pass and stop, some conductor
\* comes to lead again.
LeaderReturns == []<>Leading

\* What leader.py says of release: closing the connection drops the lock, so no
\* process keeps it without leading.
LockMeansLeader ==
    holder # None =>
        status[holder] = "orphan" \/ \E p \in Conductor : conn[p] = holder
=============================================================================
