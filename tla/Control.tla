------------------------------- MODULE Control -------------------------------
(***************************************************************************)
(* One simulation row and those who rewrite it: the PATCH requests that    *)
(* pause, resume, finish and change the speed, and the conductor that      *)
(* retires a drained run; with the producer, whose last window decides     *)
(* whether the run was drained, and the POST requests that put events of   *)
(* their own into the ledger it recovers from.  Virtual time is never      *)
(* stored: whoever reads the row derives it from the wall clock.           *)
(***************************************************************************)
EXTENDS Integers, FiniteSets, FiniteSetsExt

CONSTANTS
    Client,        \* concurrent PATCH requests
    Poster,        \* concurrent POST event requests
    Speed,         \* speed multipliers that requests ask for, finitely many
    ScriptEnd,     \* SCENARIO_ENDS_AT_S
    Backstop,      \* SCENARIO_MAX_VIRTUAL_S
    MaxCatchup,    \* settings.producer_max_catchup_virtual_s
    Horizon,       \* bound: wall time of a run
    RequestBound,  \* bound: requests of a run
    BacklogBound,  \* bound: deliveries waiting at once
    Unset          \* NULL in a column, a field left out of a request

VARIABLES
    wall,          \* the wall clock, which every process reads alike
    row,           \* the simulation row, as committed
    request,       \* what each PATCH in progress is going to write
    post,          \* the time each POST event in progress is stamped with
    asked,         \* requests so far
    pass,          \* the conductor's pass over this run
    tick,          \* the producer's tick, its transaction open
    lastEmitted,   \* _SimulationState.last_emitted; Unset without a state
    latest,        \* MAX(event.occurred_at), 0 without events
    backlog,       \* active deliveries
    (* history *)
    emitted,       \* latest event of the producer's own, 0 without
    drained,       \* the run was retired on an empty backlog
    overlap        \* since when, from what virtual time on and with how many writes
                   \* so far transactions on the row overlap; Unset between them

rowVars      == <<row, drained, overlap>>
producerVars == <<tick, lastEmitted, latest, emitted>>
vars == <<wall, rowVars, request, post, asked, pass, producerVars, backlog>>

ASSUME ScriptAssumption ==
    /\ ScriptEnd \in Nat /\ Backstop \in Nat /\ ScriptEnd < Backstop
    /\ MaxCatchup \in Nat \ {0}
ASSUME SpeedAssumption == Speed \subseteq Nat \ {0} /\ 1 \in Speed /\ IsFiniteSet(Speed)
ASSUME ControlBoundAssumption ==
    Horizon \in Nat /\ RequestBound \in Nat /\ BacklogBound \in Nat
ASSUME UnsetAssumption ==
    /\ Unset \notin Int \cup {"running", "paused", "done"}
    /\ Unset \notin [since : Int, from : Int, writes : Int, reopened : BOOLEAN]

Statuses == {"running", "paused", "done"}
Columns  == {"status", "epoch", "resumed", "paused", "speed"}
Idle     == Unset       \* no request, pass or tick in progress

-----------------------------------------------------------------------------
(* The clock: what a row reads at a wall time, and the three rewrites.       *)

NowAt(r, at) ==
    IF r.status = "running" THEN r.epoch + (at - r.resumed) * r.speed
    ELSE IF r.paused # Unset THEN r.paused ELSE r.epoch

Pause(r, at) ==
    IF r.status = "paused" THEN r
    ELSE [r EXCEPT !.status = "paused", !.paused = NowAt(r, at)]

Resume(r, at) ==
    IF r.status # "paused" THEN r
    ELSE [r EXCEPT !.status = "running", !.epoch = NowAt(r, at),
                   !.resumed = at, !.paused = Unset]

SetSpeedKeepsEpoch(r, speed, at) == [r EXCEPT !.speed = speed]  \* variant: no rebasing
SetSpeed(r, speed, at) ==
    IF r.status = "paused" THEN [r EXCEPT !.speed = speed]
    ELSE [r EXCEPT !.epoch = NowAt(r, at), !.resumed = at,
                   !.paused = Unset, !.speed = speed]

\* patch_simulation: the status first, then the speed, then the status as asked.
Patched(r, status, speed, at) ==
    LET frozen == IF status \in {Unset, r.status} THEN r
                  ELSE IF status = "running" THEN Resume(r, at) ELSE Pause(r, at)
        paced  == IF speed \in {Unset, frozen.speed} THEN frozen
                  ELSE SetSpeed(frozen, speed, at)
    IN  IF status = Unset THEN paced ELSE [paced EXCEPT !.status = status]

\* The ORM writes the columns whose value differs from the one it loaded.
Changes(loaded, new) ==
    [col \in {k \in Columns : new[k] # loaded[k]} |-> new[col]]
Update(r, changes) ==
    [col \in Columns |-> IF col \in DOMAIN changes THEN changes[col] ELSE r[col]]

\* Virtual time, for whoever reads the row now.
Now == NowAt(row, wall)

ProducingToTheEnd(now) == now <= ScriptEnd         \* variant: one second too long
\* is_producing
Producing(now) == now < ScriptEnd

\* is_finished
Finished(now, count) == now >= Backstop \/ (~Producing(now) /\ count = 0)

-----------------------------------------------------------------------------
\* start_config; a request can change the speed at once.
Init ==
    /\ wall = 0
    /\ row = [status |-> "running", epoch |-> 0, resumed |-> 0,
              paused |-> Unset, speed |-> 1]
    /\ request = [c \in Client |-> Idle]
    /\ post = [p \in Poster |-> Idle]
    /\ asked = 0
    /\ pass = Idle
    /\ tick = Idle
    /\ lastEmitted = Unset
    /\ latest = 0
    /\ emitted = 0
    /\ backlog = 0
    /\ drained = FALSE
    /\ overlap = Unset

LaterOf(a, b) == IF a < b THEN b ELSE a

\* A transaction reads the row, the first of those that overlap or a further one.
Joined(reopens) ==
    IF overlap = Unset
    THEN [since |-> wall, from |-> Now, writes |-> 0, reopened |-> reopens]
    ELSE [overlap EXCEPT !.reopened = @ \/ reopens]

\* One ends with so many writes of the row, perhaps the last.
Left(writes) ==
    IF pass' = Idle /\ \A c \in Client : request'[c] = Idle THEN Unset
    ELSE [overlap EXCEPT !.writes = @ + writes]

(* PATCH, up to the flush: the row is loaded without a lock, the wall clock  *)
(* read, and what to write computed from both.  (One that changes nothing    *)
(* issues no UPDATE and is left out.)                                        *)
PatchRead(c, status, speed) ==
    LET new == Patched(row, status, speed, wall) IN
    /\ request[c] = Idle /\ asked < RequestBound
    /\ new # row
    /\ asked' = asked + 1
    /\ request' = [request EXCEPT ![c] = Changes(row, new)]
    /\ overlap' = Joined(row.status = "done" /\ status = "running")
    /\ UNCHANGED <<wall, row, drained, post, pass, producerVars, backlog>>

(* ... the UPDATE and the commit. *)
PatchWrite(c) ==
    /\ request[c] # Idle
    /\ row' = Update(row, request[c])
    /\ drained' = (drained /\ row'.status = "done")
    /\ request' = [request EXCEPT ![c] = Idle]
    /\ UNCHANGED <<wall, post, asked, pass, producerVars, backlog>>
    /\ overlap' = Left(1)

-----------------------------------------------------------------------------
(* The conductor's pass: the running rows are all read first; then, for each  *)
(* in its turn, the time by the row as it was read, the gauges, and the end   *)
(* of the run if they say so.                                                 *)
PassRead ==
    /\ pass = Idle /\ row.status = "running"
    /\ pass' = [seen |-> row, now |-> Unset, count |-> Unset]
    /\ overlap' = Joined(FALSE)
    /\ UNCHANGED <<wall, row, drained, request, post, asked, producerVars, backlog>>

PassClock ==
    /\ pass # Idle /\ pass.now = Unset
    /\ pass' = [seen |-> Unset, now |-> NowAt(pass.seen, wall), count |-> Unset]
    /\ UNCHANGED <<wall, rowVars, request, post, asked, producerVars, backlog>>

ReadGauges ==
    /\ pass # Idle /\ pass.now # Unset /\ pass.count = Unset
    /\ pass' = [pass EXCEPT !.count = backlog]
    /\ UNCHANGED <<wall, rowVars, request, post, asked, producerVars, backlog>>

Retire ==
    /\ pass # Idle /\ pass.count # Unset
    /\ Finished(pass.now, pass.count)
    /\ row' = [row EXCEPT !.status = "done", !.paused = pass.now]
    /\ drained' = (pass.now < Backstop)
    /\ pass' = Idle
    /\ UNCHANGED <<wall, request, post, asked, producerVars, backlog>>
    /\ overlap' = Left(1)

\* The pass goes on to rationing, or fails: the row is as it was.
EndPass ==
    /\ pass # Idle
    /\ pass' = Idle
    /\ UNCHANGED <<wall, row, drained, request, post, asked, producerVars, backlog>>
    /\ overlap' = Left(0)

\* A delivery of the run is settled.
Settle ==
    /\ backlog > 0 /\ row.status = "running"
    /\ backlog' = backlog - 1
    /\ UNCHANGED <<wall, rowVars, request, post, asked, pass, producerVars>>

-----------------------------------------------------------------------------
(* The producer.  Its memory of a run is dropped when the run is not running *)
(* and recovered from the ledger.                                            *)

RecoveredFromEpoch == IF lastEmitted = Unset THEN row.epoch ELSE lastEmitted  \* variant
Recovered == IF lastEmitted = Unset THEN latest ELSE lastEmitted

\* _emit_for, up to the commit: the window it draws events for, if there is one.
TickRead ==
    /\ tick = Idle /\ row.status = "running"
    /\ Producing(Now)
    /\ lastEmitted' = Recovered
    /\ tick' = IF Now <= Recovered THEN Idle
               ELSE [since |-> Max({Recovered, Now - MaxCatchup}), now |-> Now]
    /\ UNCHANGED <<wall, rowVars, request, post, asked, pass, latest, emitted, backlog>>

\* The tick commits, with a delivery for an event in its window or with none.
TickCommit ==
    /\ tick # Idle
    /\ \/ UNCHANGED <<latest, emitted, backlog>>
       \/ /\ backlog < BacklogBound
          /\ backlog' = backlog + 1
          /\ emitted' \in tick.since + 1 .. tick.now
          /\ latest' = LaterOf(latest, emitted')
    /\ lastEmitted' = tick.now
    /\ tick' = Idle
    /\ UNCHANGED <<wall, rowVars, request, post, asked, pass>>

\* The tick fails, in its ingest or, with the memory already moved, its commit.
TickFails ==
    /\ tick # Idle
    /\ lastEmitted' \in {lastEmitted, tick.now}
    /\ tick' = Idle
    /\ UNCHANGED <<wall, rowVars, request, post, asked, pass, latest, emitted, backlog>>

(* POST event, up to the flush: whatever the run's status, it is stamped     *)
(* with the time the row reads...                                            *)
PostRead(p) ==
    /\ post[p] = Idle /\ asked < RequestBound
    /\ asked' = asked + 1
    /\ post' = [post EXCEPT ![p] = Now]
    /\ UNCHANGED <<wall, rowVars, request, pass, producerVars, backlog>>

\* ... and is in the ledger with the commit, its delivery too if anybody subscribes.
PostCommit(p) ==
    /\ post[p] # Idle
    /\ latest' = LaterOf(latest, post[p])
    /\ backlog' \in {backlog, backlog + 1} /\ backlog' <= BacklogBound
    /\ post' = [post EXCEPT ![p] = Idle]
    /\ UNCHANGED <<wall, rowVars, request, asked, pass, tick, lastEmitted, emitted>>

\* The run is not running as the producer looks, or the api restarts.
Forget ==
    /\ lastEmitted # Unset
    /\ lastEmitted' = Unset
    /\ tick' = Idle
    /\ UNCHANGED <<wall, rowVars, request, post, asked, pass, latest, emitted, backlog>>

Elapse ==
    /\ wall < Horizon
    /\ wall' = wall + 1
    /\ UNCHANGED <<rowVars, request, post, asked, pass, producerVars, backlog>>

Next ==
    \/ \E c \in Client, status \in Statuses \cup {Unset}, speed \in Speed \cup {Unset} :
          PatchRead(c, status, speed)
    \/ \E c \in Client : PatchWrite(c)
    \/ PassRead \/ PassClock \/ ReadGauges \/ Retire \/ EndPass \/ Settle
    \/ \E p \in Poster : PostRead(p) \/ PostCommit(p)
    \/ TickRead \/ TickCommit \/ TickFails \/ Forget
    \/ Elapse

Spec == Init /\ [][Next]_vars

-----------------------------------------------------------------------------
\* Types; the producer stamps nothing at or past the end of the script, and its
\* memory is never behind what it has put into the ledger.
TypeOK ==
    /\ wall \in 0 .. Horizon
    /\ row.status \in Statuses /\ row.speed \in Speed
    /\ row.epoch \in Nat /\ row.resumed \in 0 .. wall
    /\ row.paused \in Nat \cup {Unset}
    /\ asked \in 0 .. RequestBound
    /\ \A c \in Client : request[c] # Idle => DOMAIN request[c] \subseteq Columns
    /\ pass # Idle => pass.now \in Nat \cup {Unset} /\ pass.count \in 0 .. BacklogBound \cup {Unset}
    /\ overlap # Unset =>
          /\ overlap.since \in 0 .. wall /\ overlap.from \in Nat
          /\ overlap.writes \in Nat /\ overlap.reopened \in BOOLEAN
    /\ \A p \in Poster : post[p] # Idle => post[p] \in Nat
    /\ emitted \in Nat /\ (emitted = 0 \/ emitted < ScriptEnd)
    /\ latest \in Nat /\ emitted <= latest
    /\ lastEmitted = Unset \/ (lastEmitted \in Nat /\ emitted <= lastEmitted)
    /\ backlog \in 0 .. BacklogBound
    /\ drained \in BOOLEAN

Fastest == Max(Speed)
Distance(a, b) == IF a < b THEN b - a ELSE a - b
Shift == Distance(Now', NowAt(row, wall'))

\* Rewrites of the clock are continuous.  Alone, a request moves virtual time by no
\* more than what runs by between its read and its commit.  Where requests and the
\* conductor's retirement overlap and overwrite one another's columns, none sets
\* virtual time back behind where the first of them found it, and none moves it by
\* more than what can run by while they overlap, once for each write by then.  (As
\* long as none of them sets a finished run running again, which resume does not
\* recognise: the clock then leaps over the time between.)
ShiftWithinOverlap ==
    [][row' # row /\ ~overlap.reopened =>
        /\ Now' >= overlap.from
        /\ Shift <= (overlap.writes + 1) * (Fastest * (wall - overlap.since))]_vars

\* The producer never emits a window over again: whatever it forgot, rolled
\* back, saw the clock do or found in the ledger of others, it starts after the
\* last event of its own.
NoReplay == tick # Idle => tick.since >= emitted

\* What scenario.py says of is_finished: once the script is over, an empty
\* backlog stays empty, so a run retired on it leaves nothing behind.
ZeroIsStable == drained => backlog = 0
=============================================================================
