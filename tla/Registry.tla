-------------------------------- MODULE Registry --------------------------------
(***************************************************************************)
(* The life of a process and its row in the process table: registration    *)
(* with retries, heartbeats that carry the kill flag back, the drain, the  *)
(* ungraceful death, restarts under a fresh id, and pruning.               *)
(*                                                                         *)
(* The table is read by people only.  It can be wrong about a process for  *)
(* a while; the properties say for how long, and what it must never lose.  *)
(***************************************************************************)
EXTENDS Integers, FiniteSets

CONSTANTS
    Worker, Conductor,  \* services: containers that are restarted when they fail
    BootBound,          \* bound: times that a service is started
    Window,             \* process_liveness_window_s
    PruneAge,           \* Window * PRUNE_WINDOW_MULTIPLE
    Late,               \* bound: longest time between two heartbeats, or to drain
    Grace,              \* _CRASH_GRACE_S
    MishapBound         \* bound: kills, signals, crashes and failed boots in a run

ASSUME TimesAssumption ==
    /\ Window \in Nat \ {0} /\ Late \in Nat \ {0} /\ Grace \in Nat \ {0}
    /\ PruneAge \in Nat /\ PruneAge >= 2 * Window /\ PruneAge >= Late
ASSUME BoundsAssumption == BootBound \in Nat /\ MishapBound \in Nat

Service == Worker \cup Conductor
\* What uuid4 gives a process, unique to it: whose process, and the how-manieth.
Id      == Service \X (1 .. BootBound)

VARIABLES
    (* table process *)
    rows,      \* ids that have a row
    age,       \* time since last_heartbeat_wall, up to just past PruneAge
    badge,     \* is_leader
    doomed,    \* crash_requested
    (* each service's process *)
    phase,     \* see Phases
    boots,     \* which of its processes it is on, hence process_id
    stop,      \* ProcessRunner.stop, set by a signal
    crash,     \* ProcessRunner.crash, set by the heartbeat
    leads,     \* ProcessRunner._is_leader
    beat,      \* the heartbeat task, see Beats
    busy,      \* an iteration of the loop is under way
    seen,      \* time since Worker._crash_seen_at, -1 for None
    (* history and bounds *)
    mishaps,
    left       \* ids whose processes deregistered

tableVars   == <<rows, age, badge, doomed>>
processVars == <<phase, boots, stop, crash, leads, beat, busy, seen>>
historyVars == <<mishaps, left>>
vars        == <<tableVars, processVars, historyVars>>

Phases == {"down",     \* exited; the platform restarts it
           "booting",  \* trying to register
           "running",  \* heartbeat and loop, the drain included
           "closing",  \* the loop is over: on_shutdown, heartbeat, deregister
           "stopped"}  \* exited as it was told

Beats == {"due", "asleep",       \* between two heartbeats; asleep for an interval
          "leader", "follower"}  \* one is under way, with this is_leader
Beating(s) == beat[s] \in {"leader", "follower"}

Init ==
    /\ rows = {}
    /\ age    = [i \in Id |-> 0]
    /\ badge  = [i \in Id |-> FALSE]
    /\ doomed = [i \in Id |-> FALSE]
    /\ phase  = [s \in Service |-> "down"]
    /\ boots  = [s \in Service |-> 0]
    /\ stop   = [s \in Service |-> FALSE]
    /\ crash  = [s \in Service |-> FALSE]
    /\ leads  = [s \in Service |-> FALSE]
    /\ beat   = [s \in Service |-> "due"]
    /\ busy   = [s \in Service |-> FALSE]
    /\ seen   = [s \in Service |-> -1]
    /\ mishaps = 0 /\ left = {}

pid(s) == <<s, boots[s]>>     \* ProcessRunner.process_id

Mishap == mishaps < MishapBound /\ mishaps' = mishaps + 1

\* GET /process: liveness is a filter at reading time.
Listed(i) == i \in rows /\ age[i] < Window

-----------------------------------------------------------------------------
(* Boot.                                                                     *)

\* The platform starts the service: a new process, a new id.
Start(s) ==
    /\ phase[s] = "down" /\ boots[s] < BootBound
    /\ phase' = [phase EXCEPT ![s] = "booting"]
    /\ boots' = [boots EXCEPT ![s] = @ + 1]
    /\ UNCHANGED <<tableVars, stop, crash, leads, beat, busy, seen, historyVars>>

PrunableOutOfWindow(i) == age[i] >= Window  \* variant: without the multiple
\* _prune_dead: rows that went stale long ago.
Prunable(i) == age[i] > PruneAge

\* register_process: prune and insert, in one transaction.
Inserted(i) ==
    LET kept == {j \in rows : ~Prunable(j)} IN
    /\ i \notin kept
    /\ rows'   = kept \cup {i}
    /\ age'    = [j \in Id |-> IF j \in kept THEN age[j] ELSE 0]
    /\ badge'  = [j \in Id |-> j \in kept /\ badge[j]]
    /\ doomed' = [j \in Id |-> j \in kept /\ doomed[j]]

Register(s) ==
    /\ phase[s] = "booting"
    /\ Inserted(pid(s))
    /\ phase' = [phase EXCEPT ![s] = "running"]
    /\ UNCHANGED <<boots, stop, crash, leads, beat, busy, seen, historyVars>>

\* The insert commits and its answer is lost.  It is tried again with the same
\* id, which is a duplicate key from now on.
RegisterUnanswered(s) ==
    /\ phase[s] = "booting"
    /\ Inserted(pid(s))
    /\ Mishap
    /\ UNCHANGED <<processVars, left>>

GiveUpForGood(s) ==              \* variant: returns where it should raise
    /\ phase[s] = "booting"
    /\ phase' = [phase EXCEPT ![s] = "stopped"]
    /\ IF pid(s) \in rows \/ stop[s] THEN UNCHANGED mishaps ELSE Mishap
    /\ UNCHANGED <<tableVars, boots, stop, crash, leads, beat, busy, seen, left>>
\* _register_when_ready raises: a registration failed past the deadline, or
\* with a stop requested.
GiveUp(s) ==
    /\ phase[s] = "booting"
    /\ phase' = [phase EXCEPT ![s] = IF stop[s] THEN "stopped" ELSE "down"]
    /\ IF pid(s) \in rows \/ stop[s] THEN UNCHANGED mishaps ELSE Mishap
    /\ UNCHANGED <<tableVars, boots, stop, crash, leads, beat, busy, seen, left>>

-----------------------------------------------------------------------------
(* The heartbeat task.                                                       *)

\* heartbeat_loop, awake: is_leader is read now, and written when the UPDATE is.
StartBeat(s) ==
    /\ phase[s] = "running" /\ ~stop[s] /\ beat[s] = "due"
    /\ beat' = [beat EXCEPT ![s] = IF leads[s] THEN "leader" ELSE "follower"]
    /\ UNCHANGED <<tableVars, phase, boots, stop, crash, leads, busy, seen, historyVars>>

StampedOnce(s) ==                \* variant: is_leader is set and never cleared
    /\ age'   = [age EXCEPT ![pid(s)] = IF pid(s) \in rows THEN 0 ELSE @]
    /\ badge' = [badge EXCEPT ![pid(s)] = @ \/ (pid(s) \in rows /\ beat[s] = "leader")]
\* UPDATE ... WHERE id, in its own transaction.
Stamped(s) ==
    /\ age'   = [age EXCEPT ![pid(s)] = IF pid(s) \in rows THEN 0 ELSE @]
    /\ badge' = [badge EXCEPT ![pid(s)] = pid(s) \in rows /\ beat[s] = "leader"]

\* It commits; RETURNING says whether this process is to die.
Beat(s) ==
    /\ Beating(s)
    /\ Stamped(s)
    /\ crash' = [crash EXCEPT ![s] = @ \/ doomed[pid(s)]]
    /\ beat'  = [beat EXCEPT ![s] = "asleep"]
    /\ UNCHANGED <<rows, doomed, phase, boots, stop, leads, busy, seen, historyVars>>

\* It fails, which is logged and swallowed; or it is cancelled by the shutdown.
LoseBeat(s) ==
    /\ Beating(s)
    /\ phase[s] = "closing" \/ age[pid(s)] < Late
    /\ beat' = [beat EXCEPT ![s] = "asleep"]
    /\ UNCHANGED <<tableVars, phase, boots, stop, crash, leads, busy, seen, historyVars>>

-----------------------------------------------------------------------------
(* Death and restart.                                                        *)

\* The process is gone at once.  A heartbeat whose COMMIT was sent still counts.
Exit(s) ==
    /\ phase' = [phase EXCEPT ![s] = IF stop[s] THEN "stopped" ELSE "down"]
    /\ crash' = [crash EXCEPT ![s] = FALSE]
    /\ leads' = [leads EXCEPT ![s] = FALSE]
    /\ beat'  = [beat EXCEPT ![s] = "due"]
    /\ busy'  = [busy EXCEPT ![s] = FALSE]
    /\ seen'  = [seen EXCEPT ![s] = -1]
    /\ UNCHANGED <<rows, doomed, boots, stop, left>>
    /\ \/ UNCHANGED <<age, badge>>
       \/ Beating(s) /\ Stamped(s)

\* kill -9, out of memory, or a drain that outlasts the platform's patience.
Crash(s) == phase[s] \notin {"down", "stopped"} /\ Mishap /\ Exit(s)

\* ProcessRunner.die, honouring a kill request.
Die(s) == crash[s] /\ Exit(s) /\ UNCHANGED mishaps

\* POST /process/{id}/kill; 404 without a row.
Kill(i) ==
    /\ i \in rows /\ ~doomed[i]
    /\ Mishap
    /\ doomed' = [doomed EXCEPT ![i] = TRUE]
    /\ UNCHANGED <<rows, age, badge, processVars, left>>

-----------------------------------------------------------------------------
(* The loop.                                                                 *)

\* A worker's iteration starts, or a conductor's, which learns whether it leads
\* and before that dies if it was asked to.
Begin(s) ==
    /\ phase[s] = "running" /\ ~busy[s] /\ ~stop[s]
    /\ \/ /\ s \in Conductor => ~crash[s]
          /\ busy' = [busy EXCEPT ![s] = TRUE]
          /\ \E lead \in BOOLEAN : leads' = [leads EXCEPT ![s] = lead /\ s \in Conductor]
          /\ UNCHANGED <<tableVars, phase, boots, stop, crash, beat, seen, historyVars>>
       \/ s \in Conductor /\ Die(s)

\* A claim commits with a batch in it: the moment a kill request waits for.  (A
\* batch taken while there is none changes nothing here.)
Claim(s) == s \in Worker /\ busy[s] /\ Die(s)

EndWaiting(s) ==                 \* variant: the worker waits for a batch for ever
    /\ busy[s]
    /\ busy' = [busy EXCEPT ![s] = FALSE]
    /\ UNCHANGED <<tableVars, phase, boots, stop, crash, leads, beat, seen, historyVars>>
\* The iteration ends.  A worker that had nothing to strand holds out, but only
\* for so long.
End(s) ==
    LET asked == s \in Worker /\ crash[s] IN
    /\ busy[s]
    /\ \/ asked /\ seen[s] >= Grace /\ Die(s)
       \/ /\ ~(asked /\ seen[s] >= Grace)
          /\ seen' = [seen EXCEPT ![s] = IF ~asked THEN -1 ELSE IF @ = -1 THEN 0 ELSE @]
          /\ busy' = [busy EXCEPT ![s] = FALSE]
          /\ UNCHANGED <<tableVars, phase, boots, stop, crash, leads, beat, historyVars>>

\* It raises, before it has looked at the crash flag; the loop swallows that.
Fail(s) ==
    /\ busy[s]
    /\ leads' = [leads EXCEPT ![s] = FALSE]
    /\ busy'  = [busy EXCEPT ![s] = FALSE]
    /\ UNCHANGED <<tableVars, phase, boots, stop, crash, beat, seen, historyVars>>

-----------------------------------------------------------------------------
(* The graceful stop.                                                        *)

Signal(s) ==
    /\ phase[s] \in {"booting", "running"} /\ ~stop[s]
    /\ Mishap
    /\ stop' = [stop EXCEPT ![s] = TRUE]
    /\ UNCHANGED <<tableVars, phase, boots, crash, leads, beat, busy, seen, left>>

\* The iteration under way, if any, was let finish.
Drained(s) ==
    /\ phase[s] = "running" /\ ~busy[s] /\ stop[s]
    /\ phase' = [phase EXCEPT ![s] = "closing"]
    /\ UNCHANGED <<tableVars, boots, stop, crash, leads, beat, busy, seen, historyVars>>

BackdatedForward == -(2 * Window)    \* variant: the wrong sign
\* The age that deregister_process gives the row.
Backdated == 2 * Window

DeregisterEarly(s) ==            \* variant: the heartbeat cancelled but not awaited
    /\ phase[s] = "closing"
    /\ phase' = [phase EXCEPT ![s] = "stopped"]
    /\ age'   = [age EXCEPT ![pid(s)] = Backdated]
    /\ badge' = [badge EXCEPT ![pid(s)] = FALSE]
    /\ left'  = left \cup {pid(s)}
    /\ UNCHANGED <<rows, doomed, boots, stop, crash, leads, beat, busy, seen, mishaps>>
\* The heartbeat has ended one way or the other; the row is aged out, unless
\* that fails, which is swallowed.
Deregister(s) ==
    /\ phase[s] = "closing" /\ ~Beating(s)
    /\ phase' = [phase EXCEPT ![s] = "stopped"]
    /\ \/ UNCHANGED <<age, badge, left>>
       \/ /\ age'   = [age EXCEPT ![pid(s)] = Backdated]
          /\ badge' = [badge EXCEPT ![pid(s)] = FALSE]
          /\ left'  = left \cup {pid(s)}
    /\ UNCHANGED <<rows, doomed, boots, stop, crash, leads, beat, busy, seen, mishaps>>

-----------------------------------------------------------------------------
\* Time passes, no longer than Late without a heartbeat that gets through.
Tick ==
    /\ \A s \in Service :
          /\ ~Beating(s)
          /\ phase[s] \in {"running", "closing"} => age[pid(s)] < Late
    /\ age'  = [i \in Id |-> IF i \in rows /\ age[i] <= PruneAge THEN age[i] + 1 ELSE age[i]]
    /\ beat' = [s \in Service |-> "due"]
    /\ seen' = [s \in Service |-> IF seen[s] \in 0 .. Grace - 1 THEN seen[s] + 1 ELSE seen[s]]
    /\ UNCHANGED <<rows, badge, doomed, phase, boots, stop, crash, leads, busy, historyVars>>

Next ==
    \/ \E s \in Service :
          \/ Start(s) \/ Register(s) \/ RegisterUnanswered(s) \/ GiveUp(s)
          \/ StartBeat(s) \/ Beat(s) \/ LoseBeat(s)
          \/ Begin(s) \/ Claim(s) \/ End(s) \/ Fail(s)
          \/ Crash(s) \/ Signal(s) \/ Drained(s) \/ Deregister(s)
    \/ \E i \in Id : Kill(i)
    \/ Tick

Spec == Init /\ [][Next]_vars

\* What a process does besides its loop, and what the platform does for it.
Housekeeping(s) ==
    \/ Start(s) \/ Register(s) \/ (pid(s) \in rows /\ GiveUp(s))
    \/ StartBeat(s) \/ Beat(s) \/ Drained(s) \/ Deregister(s)

(* Fairness.  Exits are followed by a restart, every task of a process that   *)
(* is up goes on, time passes (and with it a heartbeat gets through, by Late), *)
(* and a worker's iterations do not all raise.                                 *)
Fairness ==
    /\ WF_vars(Tick)
    /\ \A s \in Service :
        /\ WF_vars(Housekeeping(s))
        /\ WF_vars(Begin(s) \/ End(s) \/ Fail(s))
    /\ \A s \in Worker : SF_vars(End(s))

FairSpec == Spec /\ Fairness

-----------------------------------------------------------------------------
\* Every variable stays in its range; only conductors wear the leader's badge.
TypeOK ==
    /\ rows \subseteq {i \in Id : i[2] <= boots[i[1]]}
    /\ age \in [Id -> 0 .. PruneAge + 1]
    /\ badge \in [Id -> BOOLEAN] /\ doomed \in [Id -> BOOLEAN]
    /\ \A i \in Id : badge[i] => i[1] \in Conductor
    /\ phase \in [Service -> Phases] /\ boots \in [Service -> 0 .. BootBound]
    /\ stop \in [Service -> BOOLEAN] /\ crash \in [Service -> BOOLEAN]
    /\ leads \in [Service -> BOOLEAN] /\ busy \in [Service -> BOOLEAN]
    /\ beat \in [Service -> Beats]
    /\ seen \in [Service -> -1 .. Grace]
    /\ mishaps \in 0 .. MishapBound /\ left \subseteq Id

\* Pruning, which runs at every boot of every service, never takes the row of a
\* process that is up: it could neither be seen nor killed from then on.
RegisteredWhileUp ==
    \A s \in Service : phase[s] \in {"running", "closing"} => pid(s) \in rows

\* A process that has deregistered never comes to look alive again: no heartbeat
\* of its own is written after the backdated one.
LeftForGood == \A i \in left : ~Listed(i) /\ ~badge[i]

\* A kill request is honoured in the end, by a worker that never gets a batch
\* and by iterations that raise before they look: no process stays up doomed.
KillHonoured ==
    \A s \in Service : []<>~(phase[s] \in {"running", "closing"} /\ doomed[pid(s)])

\* A service that is not told to stop comes to run, whatever became of its
\* earlier registrations.
ComesUp ==
    \A s \in Service : []<>(stop[s] \/ phase[s] \in {"running", "closing"})

\* A row says leader, of a process that does not lead or, listed, of one that
\* has gone.
StaleBadge(i) ==
    LET s == i[1] IN
    badge[i] /\ IF i = pid(s) /\ phase[s] = "running" THEN ~leads[s] ELSE Listed(i)

\* A stale badge is taken off by the next heartbeat or leaves the list by itself.
\* (Until then two leaders may be listed.)
BadgeFades == \A i \in Conductor \X (1 .. BootBound) : []<>~StaleBadge(i)
=============================================================================
