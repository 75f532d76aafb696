---------------------------- MODULE Control_proofs ----------------------------
(***************************************************************************)
(* The clock's arithmetic, for every row, time and multiplier; that the    *)
(* producer never emits a window over again; types; and how far requests   *)
(* that overlap can set virtual time.                                      *)
(***************************************************************************)
EXTENDS Control, FiniteSetTheorems, WellFoundedInduction, TLAPS

SimRow == [status : Statuses, epoch : Int, resumed : Int,
           paused : Int \cup {Unset}, speed : Speed]

LEMMA WholeSpeed == \A speed \in Speed : speed \in Int
  BY SpeedAssumption

\* Pausing leaves the clock where it is.
LEMMA PauseContinuous ==
  ASSUME NEW r \in SimRow, NEW at \in Int
  PROVE  /\ Pause(r, at) \in SimRow /\ Pause(r, at).status = "paused"
         /\ NowAt(Pause(r, at), at) = NowAt(r, at) /\ NowAt(r, at) \in Int
<1>1. NowAt(r, at) \in Int
  <2> DEFINE elapsed == at - r.resumed
  <2>1. elapsed \in Int
    BY DEF SimRow
  <2>0. r.speed \in Speed
    BY DEF SimRow
  <2>5. r.speed \in Int
    BY <2>0, WholeSpeed
  <2> HIDE DEF elapsed
  <2>2. elapsed * r.speed \in Int
    BY <2>1, <2>5
  <2>3. NowAt(r, at) = IF r.status = "running" THEN r.epoch + elapsed * r.speed
                       ELSE IF r.paused # Unset THEN r.paused ELSE r.epoch
    BY DEF NowAt, elapsed
  <2>4. r.epoch \in Int /\ r.paused \in Int \cup {Unset}
    BY DEF SimRow
  <2> QED BY <2>2, <2>3, <2>4
<1> QED BY <1>1, UnsetAssumption DEF Pause, NowAt, SimRow, Statuses

\* So does resuming, for what is paused.
LEMMA ResumeContinuous ==
  ASSUME NEW r \in SimRow, NEW at \in Int
  PROVE  /\ Resume(r, at) \in SimRow
         /\ r.status = "paused" => Resume(r, at).status = "running"
         /\ NowAt(Resume(r, at), at) = NowAt(r, at)
<1>1. NowAt(r, at) \in Int
  BY PauseContinuous
<1>2. CASE r.status = "paused"
  <2>1. Resume(r, at) = [status |-> "running", epoch |-> NowAt(r, at), resumed |-> at,
                         paused |-> Unset, speed |-> r.speed]
    BY <1>2 DEF Resume, SimRow
  <2>2. NowAt(Resume(r, at), at) = NowAt(r, at) + (at - at) * r.speed
    BY <2>1 DEF NowAt
  <2>3. (at - at) * r.speed = 0
    <3>1. r.speed \in Speed
      BY DEF SimRow
    <3>2. r.speed \in Int /\ at - at = 0
      BY <3>1, WholeSpeed
    <3> QED BY <3>2
  <2> QED BY <1>1, <2>1, <2>2, <2>3 DEF SimRow, Statuses
<1>3. CASE r.status # "paused"
  BY <1>3 DEF Resume
<1> QED BY <1>2, <1>3

\* And a change of speed, because it rebases the epoch of a running clock.
LEMMA SetSpeedContinuous ==
  ASSUME NEW r \in SimRow, NEW at \in Int, NEW speed \in Speed
  PROVE  /\ SetSpeed(r, speed, at) \in SimRow
         /\ SetSpeed(r, speed, at).status = r.status
         /\ NowAt(SetSpeed(r, speed, at), at) = NowAt(r, at)
         /\ r.status = "paused" => SetSpeed(r, speed, at).paused = r.paused
<1>1. NowAt(r, at) \in Int
  BY PauseContinuous
<1>2. CASE r.status = "paused"
  BY <1>2 DEF SetSpeed, SimRow, NowAt
<1>3. CASE r.status # "paused"
  <2>1. SetSpeed(r, speed, at) = [status |-> r.status, epoch |-> NowAt(r, at),
                         resumed |-> at, paused |-> Unset, speed |-> speed]
    BY <1>3 DEF SetSpeed, SimRow
  <2>2. (at - at) * speed = 0
    <3>1. speed \in Int /\ at - at = 0
      BY WholeSpeed
    <3> QED BY <3>1
  <2>3. NowAt(SetSpeed(r, speed, at), at) = IF r.status = "running"
                THEN NowAt(r, at) + (at - at) * speed ELSE NowAt(r, at)
    BY <2>1 DEF NowAt
  <2> QED BY <1>1, <1>3, <2>1, <2>2, <2>3 DEF SimRow
<1> QED BY <1>2, <1>3

\* A PATCH served alone moves virtual time by nothing, whatever it asks for in
\* whatever state of the run: except to run again what is done.
THEOREM PatchContinuous ==
  ASSUME NEW r \in SimRow, NEW at \in Int,
         NEW status \in Statuses \cup {Unset}, NEW speed \in Speed \cup {Unset},
         ~(r.status = "done" /\ status = "running")
  PROVE  /\ Patched(r, status, speed, at) \in SimRow
         /\ NowAt(Patched(r, status, speed, at), at) = NowAt(r, at)
<1> DEFINE frozen == IF status \in {Unset, r.status} THEN r
                     ELSE IF status = "running" THEN Resume(r, at) ELSE Pause(r, at)
           paced  == IF speed \in {Unset, frozen.speed} THEN frozen
                     ELSE SetSpeed(frozen, speed, at)
<1>0. status # Unset => status \in Statuses
  OBVIOUS
<1>1. /\ frozen \in SimRow /\ NowAt(frozen, at) = NowAt(r, at)
      /\ status # Unset => frozen.status = status \/ (status = "done" /\ frozen.status = "paused")
  <2>1. CASE status \in {Unset, r.status}
    BY <2>1
  <2>2. CASE status \notin {Unset, r.status} /\ status = "running"
    <3>1. r.status = "paused"
      BY <2>2 DEF SimRow, Statuses
    <3> QED BY <2>2, <3>1, ResumeContinuous
  <2>3. CASE status \notin {Unset, r.status} /\ status # "running"
    <3>1. status \in {"paused", "done"}
      BY <1>0, <2>3 DEF Statuses
    <3> QED BY <2>3, <3>1, PauseContinuous
  <2> QED BY <2>1, <2>2, <2>3
<1> HIDE DEF frozen
<1>2. paced \in SimRow /\ NowAt(paced, at) = NowAt(r, at) /\ paced.status = frozen.status
  BY <1>1, SetSpeedContinuous
<1> HIDE DEF paced
<1>3. Patched(r, status, speed, at) =
        IF status = Unset THEN paced ELSE [paced EXCEPT !.status = status]
  BY DEF Patched, frozen, paced
<1>4. CASE status = Unset
  BY <1>2, <1>3, <1>4
<1>5. CASE status # Unset /\ frozen.status = status
  <2>1. [paced EXCEPT !.status = status] = paced
    BY <1>2, <1>5 DEF SimRow
  <2> QED BY <1>2, <1>3, <1>5, <2>1
<1>6. CASE status = "done" /\ status # Unset /\ frozen.status = "paused"
  <2> DEFINE final == [paced EXCEPT !.status = status]
  <2>1. /\ final.status = "done" /\ final.paused = paced.paused
        /\ final.epoch = paced.epoch /\ final \in SimRow
    BY <1>2, <1>6 DEF SimRow, Statuses
  <2>2. NowAt(final, at) = NowAt(paced, at)
    BY <1>2, <1>6, <2>1 DEF NowAt
  <2> QED BY <1>2, <1>3, <1>6, <2>1, <2>2
<1> QED BY <1>1, <1>4, <1>5, <1>6

\* What is done and set running again reads as if it had run all the while: the
\* one request that leaps, over the time since the run last resumed.
THEOREM ReopenedLeaps ==
  ASSUME NEW r \in SimRow, r.status = "done", NEW at \in Int
  PROVE  NowAt(Patched(r, "running", Unset, at), at) = r.epoch + (at - r.resumed) * r.speed
<1>1. Unset # "running"
  BY UnsetAssumption
<1>2. Patched(r, "running", Unset, at) = [r EXCEPT !.status = "running"]
  BY <1>1 DEF Patched, Resume
<1>3. [r EXCEPT !.status = "running"] =
        [status |-> "running", epoch |-> r.epoch, resumed |-> r.resumed,
         paused |-> r.paused, speed |-> r.speed]
  BY DEF SimRow
<1> QED BY <1>2, <1>3 DEF NowAt

\* A frozen clock stands still: what a paused or done row reads does not depend
\* on when it is read, not even with paused_at_virtual unset.
THEOREM FrozenStandsStill ==
  ASSUME NEW r \in SimRow, r.status # "running", NEW at \in Int, NEW later \in Int
  PROVE  NowAt(r, at) = NowAt(r, later)
  BY DEF NowAt

-----------------------------------------------------------------------------
(* The producer's window.  Its time comes from the row, so the invariant     *)
(* needs the row to read as a time at all, whatever columns of it overlapping *)
(* requests have written over one another.                                   *)

ColumnValues == [status |-> Statuses, epoch |-> Int, resumed |-> Int,
                 paused |-> Int \cup {Unset}, speed |-> Speed]

Typed(changes) ==
    \A col \in Columns : col \in DOMAIN changes => changes[col] \in ColumnValues[col]

Readable ==
    /\ wall \in Int
    /\ row \in SimRow
    /\ \A c \in Client : request[c] # Idle => Typed(request[c])
    /\ pass # Idle =>
          \/ \E seen \in SimRow : pass = [seen |-> seen, now |-> Unset, count |-> Unset]
          \/ \E now \in Int : \E count : pass = [seen |-> Unset, now |-> now, count |-> count]

Remembered ==
    /\ latest \in Int /\ emitted \in Int /\ emitted <= latest
    /\ \A p \in Poster : post[p] # Idle => post[p] \in Int
    /\ lastEmitted # Unset => lastEmitted \in Int /\ lastEmitted >= emitted
    /\ tick # Idle => /\ tick.since \in Int /\ tick.now \in Int
                      /\ emitted <= tick.since /\ tick.since <= tick.now

IInv == /\ Readable /\ Remembered
        /\ request = [c \in Client |-> request[c]] /\ post = [p \in Poster |-> post[p]]

\* Whatever a request asks for, it leaves a row.
LEMMA PatchedTyped ==
  ASSUME NEW r \in SimRow, NEW at \in Int,
         NEW status \in Statuses \cup {Unset}, NEW speed \in Speed \cup {Unset}
  PROVE  Patched(r, status, speed, at) \in SimRow
<1> DEFINE frozen == IF status \in {Unset, r.status} THEN r
                     ELSE IF status = "running" THEN Resume(r, at) ELSE Pause(r, at)
           paced  == IF speed \in {Unset, frozen.speed} THEN frozen
                     ELSE SetSpeed(frozen, speed, at)
<1>1. frozen \in SimRow
  BY PauseContinuous, ResumeContinuous
<1> HIDE DEF frozen
<1>2. paced \in SimRow
  BY <1>1, SetSpeedContinuous
<1> HIDE DEF paced
<1>3. Patched(r, status, speed, at) =
        IF status = Unset THEN paced ELSE [paced EXCEPT !.status = status]
  BY DEF Patched, frozen, paced
<1> QED BY <1>2, <1>3 DEF SimRow

\* The ORM takes the columns it writes from that row...
LEMMA ChangesTyped ==
  ASSUME NEW loaded \in SimRow, NEW new \in SimRow
  PROVE  Typed(Changes(loaded, new))
<1>1. \A col \in Columns : new[col] \in ColumnValues[col]
  BY DEF Columns, ColumnValues, SimRow
<1> QED BY <1>1 DEF Typed, Changes

\* ...so that whatever row it writes them to is still one.
LEMMA UpdateTyped ==
  ASSUME NEW r \in SimRow, NEW changes, Typed(changes)
  PROVE  Update(r, changes) \in SimRow
<1>1. \A col \in Columns : r[col] \in ColumnValues[col]
  BY DEF Columns, ColumnValues, SimRow
<1>2. \A col \in Columns : Update(r, changes)[col] \in ColumnValues[col]
  BY <1>1 DEF Typed, Update
<1>3. Update(r, changes) = [status  |-> Update(r, changes)["status"],
                            epoch   |-> Update(r, changes)["epoch"],
                            resumed |-> Update(r, changes)["resumed"],
                            paused  |-> Update(r, changes)["paused"],
                            speed   |-> Update(r, changes)["speed"]]
  BY DEF Update, Columns
<1> QED BY <1>2, <1>3 DEF SimRow, Columns, ColumnValues

LEMMA InitIInv == Init => IInv
<1> SUFFICES ASSUME Init PROVE IInv
  OBVIOUS
<1>1. row \in SimRow
  BY SpeedAssumption DEF Init, SimRow, Statuses
<1> QED BY <1>1 DEF Init, IInv, Readable, Remembered, Idle

\* The row: each step that writes it, or prepares to.
LEMMA NextReadable == IInv /\ [Next]_vars => Readable'
<1> SUFFICES ASSUME IInv, [Next]_vars PROVE Readable'
  OBVIOUS
<1> USE DEF IInv
<1>1. ASSUME NEW c \in Client, NEW status \in Statuses \cup {Unset},
             NEW speed \in Speed \cup {Unset}, PatchRead(c, status, speed)
      PROVE  Readable'
  <2> DEFINE new == Patched(row, status, speed, wall)
  <2>1. Typed(Changes(row, new))
    BY PatchedTyped, ChangesTyped DEF Readable
  <2> HIDE DEF new
  <2>2. request' = [request EXCEPT ![c] = Changes(row, new)]
    BY <1>1 DEF PatchRead, new
  <2>3. \A d \in Client : request'[d] # Idle => Typed(request'[d])
    BY <2>1, <2>2 DEF Readable
  <2> QED BY <1>1, <2>3 DEF PatchRead, Readable
<1>2. ASSUME NEW c \in Client, PatchWrite(c) PROVE Readable'
  <2>1. row' \in SimRow
    BY <1>2, UpdateTyped DEF PatchWrite, Readable
  <2> QED BY <1>2, <2>1 DEF PatchWrite, Readable
<1>3. CASE PassRead
  BY <1>3 DEF PassRead, Readable
<1>12. ASSUME PassClock PROVE Readable'
  <2>1. PICK seen \in SimRow : pass = [seen |-> seen, now |-> Unset, count |-> Unset]
    BY <1>12, UnsetAssumption DEF PassClock, Readable
  <2>2. NowAt(seen, wall) \in Int
    BY PauseContinuous DEF Readable
  <2>3. pass' = [seen |-> Unset, now |-> NowAt(seen, wall), count |-> Unset]
    BY <1>12, <2>1 DEF PassClock
  <2> QED BY <1>12, <2>2, <2>3 DEF PassClock, Readable, rowVars
<1>4. ASSUME ReadGauges PROVE Readable'
  <2>1. PICK now \in Int :
          \E count : pass = [seen |-> Unset, now |-> now, count |-> count]
    BY <1>4 DEF ReadGauges, Readable
  <2>2. PICK count : pass = [seen |-> Unset, now |-> now, count |-> count]
    BY <2>1
  <2>3. pass' = [seen |-> Unset, now |-> now, count |-> backlog]
    BY <1>4, <2>2 DEF ReadGauges
  <2> QED BY <1>4, <2>3 DEF ReadGauges, Readable, rowVars
<1>5. ASSUME Retire PROVE Readable'
  <2>1. pass.now \in Int
    BY <1>5 DEF Retire, Readable
  <2>2. row' \in SimRow
    BY <1>5, <2>1 DEF Retire, Readable, SimRow, Statuses
  <2> QED BY <1>5, <2>2 DEF Retire, Readable
<1>6. CASE EndPass
  BY <1>6 DEF EndPass, Readable, rowVars
<1>7. CASE Settle \/ TickRead \/ TickCommit \/ TickFails \/ Forget
  BY <1>7 DEF Settle, TickRead, TickCommit, TickFails, Forget, Readable, rowVars
<1>10. ASSUME NEW p \in Poster, PostRead(p) \/ PostCommit(p) PROVE Readable'
  BY <1>10 DEF PostRead, PostCommit, Readable, rowVars
<1>8. CASE Elapse
  BY <1>8 DEF Elapse, Readable, rowVars
<1>9. CASE UNCHANGED vars
  BY <1>9 DEF vars, Readable, rowVars
<1> QED BY <1>1, <1>2, <1>3, <1>4, <1>5, <1>6, <1>7, <1>8, <1>9, <1>10, <1>12 DEF Next

\* The window starts where the memory ends, and the memory is never behind what
\* the producer has put into the ledger: not when it was forgotten and recovered,
\* not when a tick rolled back, not when others put their events there.
LEMMA NextRemembered == IInv /\ [Next]_vars => Remembered'
<1> SUFFICES ASSUME IInv, [Next]_vars PROVE Remembered'
  OBVIOUS
<1> USE DEF IInv
<1>0. Now \in Int
  BY PauseContinuous DEF Now, Readable
<1>1. CASE TickRead
  <2>1. Recovered \in Int /\ emitted <= Recovered
    BY DEF Recovered, Remembered
  <2>2. MaxCatchup \in Int /\ MaxCatchup > 0
    BY ScriptAssumption
  <2> DEFINE since == Max({Recovered, Now - MaxCatchup})
  <2>3. /\ since \in {Recovered, Now - MaxCatchup}
        /\ since >= Recovered
    <3> DEFINE ends == {Recovered, Now - MaxCatchup}
               top  == IF Recovered >= Now - MaxCatchup THEN Recovered ELSE Now - MaxCatchup
    <3>1. top \in ends /\ \A end \in ends : top >= end
      BY <1>0, <2>1, <2>2
    <3>2. since \in ends /\ \A end \in ends : since >= end
      BY <3>1 DEF Max
    <3> QED BY <3>2
  <2>4. since \in Int /\ emitted <= since /\ (Now > Recovered => since <= Now)
    BY <1>0, <2>1, <2>2, <2>3 DEF Remembered
  <2> HIDE DEF since
  <2>5. /\ tick' = IF Now <= Recovered THEN Idle ELSE [since |-> since, now |-> Now]
        /\ lastEmitted' = Recovered /\ UNCHANGED <<latest, emitted, post>>
    BY <1>1 DEF TickRead, since
  <2>6. tick' # Idle => tick'.since = since /\ tick'.now = Now /\ Now > Recovered
    BY <1>0, <2>1, <2>5
  <2> QED BY <1>0, <2>1, <2>4, <2>5, <2>6 DEF Remembered
<1>2. CASE TickCommit
  <2>1. /\ tick' = Idle /\ lastEmitted' = tick.now /\ post' = post
        /\ \/ latest' = latest /\ emitted' = emitted
           \/ emitted' \in tick.since + 1 .. tick.now /\ latest' = LaterOf(latest, emitted')
    BY <1>2 DEF TickCommit
  <2>2. /\ tick.since \in Int /\ tick.now \in Int /\ latest \in Int /\ emitted \in Int
        /\ emitted <= tick.since /\ tick.since <= tick.now /\ emitted <= latest
    BY <1>2 DEF TickCommit, Remembered
  <2>3. emitted' \in Int /\ emitted' <= tick.now /\ latest' \in Int /\ emitted' <= latest'
    BY <2>1, <2>2 DEF LaterOf
  <2> QED BY <2>1, <2>2, <2>3 DEF Remembered
<1>3. CASE TickFails
  <2>1. /\ tick' = Idle /\ lastEmitted' \in {lastEmitted, tick.now}
        /\ UNCHANGED <<latest, emitted, post>>
    BY <1>3 DEF TickFails
  <2>2. emitted \in Int /\ tick.now \in Int /\ emitted <= tick.now
    BY <1>3 DEF TickFails, Remembered
  <2> QED BY <2>1, <2>2 DEF Remembered
<1>4. CASE Forget
  BY <1>4 DEF Forget, Remembered, Idle
<1>5. CASE UNCHANGED <<producerVars, post>>
  BY <1>5 DEF producerVars, Remembered
<1>6. ASSUME NEW p \in Poster, PostRead(p) PROVE Remembered'
  <2>1. post' = [post EXCEPT ![p] = Now] /\ UNCHANGED producerVars
    BY <1>6 DEF PostRead
  <2>2. \A q \in Poster : post'[q] # Idle => post'[q] \in Int
    BY <1>0, <2>1 DEF Remembered
  <2> QED BY <2>1, <2>2 DEF Remembered, producerVars
<1>7. ASSUME NEW p \in Poster, PostCommit(p) PROVE Remembered'
  <2>1. /\ latest' = LaterOf(latest, post[p]) /\ post[p] # Idle
        /\ post' = [post EXCEPT ![p] = Idle] /\ UNCHANGED <<tick, lastEmitted, emitted>>
    BY <1>7 DEF PostCommit
  <2>2. latest' \in Int /\ emitted <= latest'
    BY <2>1 DEF LaterOf, Remembered
  <2>3. \A q \in Poster : post'[q] # Idle => post'[q] \in Int
    BY <2>1 DEF Remembered
  <2> QED BY <2>1, <2>2, <2>3 DEF Remembered
<1>8. \/ UNCHANGED <<producerVars, post>> \/ TickRead \/ TickCommit \/ TickFails \/ Forget
      \/ \E p \in Poster : PostRead(p) \/ PostCommit(p)
  BY DEF Next, PatchRead, PatchWrite, PassRead, PassClock, ReadGauges, Retire, EndPass,
         Settle, Elapse, vars, producerVars
<1> QED BY <1>1, <1>2, <1>3, <1>4, <1>5, <1>6, <1>7, <1>8

LEMMA NextRequests ==
  IInv /\ [Next]_vars => /\ (request = [c \in Client |-> request[c]])'
                         /\ (post = [p \in Poster |-> post[p]])'
  BY DEF IInv, Next, PatchRead, PatchWrite, PassRead, PassClock, ReadGauges, Retire, EndPass,
         Settle, PostRead, PostCommit, TickRead, TickCommit, TickFails, Forget, Elapse, vars

\* The row always reads as a time, and the producer's memory is never behind what
\* it has put into the ledger.
THEOREM Invariance == Spec => []IInv
<1>1. Init => IInv
  BY InitIInv
<1>2. IInv /\ [Next]_vars => IInv'
  BY NextReadable, NextRemembered, NextRequests DEF IInv
<1> QED BY <1>1, <1>2, PTL DEF Spec

\* No window is emitted over again, whatever rollbacks, restarts and clock
\* rewrites came before it.
THEOREM NoReplayHolds == Spec => []NoReplay
<1>1. IInv => NoReplay
  BY DEF IInv, Remembered, NoReplay
<1> QED BY <1>1, Invariance, PTL

-----------------------------------------------------------------------------
(* Types.  That the columns stay in range although requests overlap rests on *)
(* every value being computed from a row, at a wall time, both of the past.  *)

\* The rows of a simulation, at wall time at: it was resumed by then.
RowsBy(at) == [status : Statuses, epoch : Nat, resumed : 0 .. at,
               paused : Nat \cup {Unset}, speed : Speed]

ValuesBy(at) == [status |-> Statuses, epoch |-> Nat, resumed |-> 0 .. at,
                 paused |-> Nat \cup {Unset}, speed |-> Speed]

ChangesBy(changes, at) ==
    /\ DOMAIN changes \subseteq Columns
    /\ \A col \in DOMAIN changes : changes[col] \in ValuesBy(at)[col]

\* What a pass has read: the row, or the time by it and then the gauges.
PassesBy(at) == [seen : RowsBy(at), now : {Unset}, count : {Unset}]
                \cup [seen : {Unset}, now : Nat, count : (0 .. BacklogBound) \cup {Unset}]

\* What is known, at wall time at, of transactions that overlap.
Overlaps(at) == [since : 0 .. at, from : Nat, writes : Nat, reopened : BOOLEAN]

TimedRow ==
    /\ wall \in 0 .. Horizon /\ row \in RowsBy(wall)
    /\ \A c \in Client : request[c] # Idle =>
          ChangesBy(request[c], wall)
    /\ pass # Idle => pass \in PassesBy(wall)
    /\ overlap # Unset => overlap \in Overlaps(wall)
    /\ asked \in 0 .. RequestBound /\ backlog \in 0 .. BacklogBound
    /\ drained \in BOOLEAN

\* The producer emits nothing at or past the end of the script.
TimedProducer ==
    /\ \A p \in Poster : post[p] # Idle => post[p] \in Nat
    /\ latest \in Nat /\ emitted \in Nat /\ (emitted = 0 \/ emitted < ScriptEnd)
    /\ lastEmitted = Unset \/ lastEmitted \in Nat
    /\ tick # Idle => tick.now < ScriptEnd

\* Whoever is at work on the row is known to overlap.
Tracked == overlap = Unset => pass = Idle /\ \A c \in Client : request[c] = Idle

TInv == IInv /\ Tracked /\ TimedRow /\ TimedProducer

LEMMA NowNat ==
  ASSUME NEW at \in Nat, NEW r \in RowsBy(at)
  PROVE  NowAt(r, at) \in Nat /\ r \in SimRow
<1> DEFINE elapsed == at - r.resumed
<1>1. elapsed \in Nat /\ r.epoch \in Nat /\ r.paused \in Nat \cup {Unset} /\ r.speed \in Speed
  BY DEF RowsBy
<1>2. r.speed \in Nat
  BY <1>1, SpeedAssumption
<1> HIDE DEF elapsed
<1>3. elapsed * r.speed \in Nat
  BY <1>1, <1>2
<1>4. NowAt(r, at) = IF r.status = "running" THEN r.epoch + elapsed * r.speed
                     ELSE IF r.paused # Unset THEN r.paused ELSE r.epoch
  BY DEF NowAt, elapsed
<1>5. r \in SimRow
  BY DEF RowsBy, SimRow
<1> QED BY <1>1, <1>3, <1>4, <1>5

\* Whatever a request asks for, what it computes is of now or before.
LEMMA PatchedBy ==
  ASSUME NEW at \in Nat, NEW r \in RowsBy(at),
         NEW status \in Statuses \cup {Unset}, NEW speed \in Speed \cup {Unset}
  PROVE  Patched(r, status, speed, at) \in RowsBy(at)
<1> DEFINE frozen == IF status \in {Unset, r.status} THEN r
                     ELSE IF status = "running" THEN Resume(r, at) ELSE Pause(r, at)
           paced  == IF speed \in {Unset, frozen.speed} THEN frozen
                     ELSE SetSpeed(frozen, speed, at)
<1>1. frozen \in RowsBy(at)
  <2>1. NowAt(r, at) \in Nat /\ at \in 0 .. at
    BY NowNat
  <2>2. Resume(r, at) \in RowsBy(at) /\ Pause(r, at) \in RowsBy(at)
    BY <2>1 DEF Resume, Pause, RowsBy, Statuses
  <2> QED BY <2>2
<1> HIDE DEF frozen
<1>2. paced \in RowsBy(at)
  <2>1. NowAt(frozen, at) \in Nat /\ at \in 0 .. at
    BY <1>1, NowNat
  <2>2. speed # Unset => SetSpeed(frozen, speed, at) \in RowsBy(at)
    BY <1>1, <2>1 DEF SetSpeed, RowsBy
  <2> QED BY <1>1, <2>2
<1> HIDE DEF paced
<1>3. Patched(r, status, speed, at) =
        IF status = Unset THEN paced ELSE [paced EXCEPT !.status = status]
  BY DEF Patched, frozen, paced
<1> QED BY <1>2, <1>3 DEF RowsBy

LEMMA ChangesOfRows ==
  ASSUME NEW at \in Nat, NEW loaded \in RowsBy(at), NEW new \in RowsBy(at)
  PROVE  ChangesBy(Changes(loaded, new), at)
<1>1. \A col \in Columns : new[col] \in ValuesBy(at)[col]
  BY DEF Columns, ValuesBy, RowsBy
<1> QED BY <1>1 DEF ChangesBy, Changes

LEMMA UpdateBy ==
  ASSUME NEW at \in Nat, NEW r \in RowsBy(at), NEW changes, ChangesBy(changes, at)
  PROVE  Update(r, changes) \in RowsBy(at)
<1>1. \A col \in Columns : r[col] \in ValuesBy(at)[col]
  BY DEF Columns, ValuesBy, RowsBy
<1>2. \A col \in Columns : Update(r, changes)[col] \in ValuesBy(at)[col]
  BY <1>1 DEF ChangesBy, Update
<1>3. Update(r, changes) = [status  |-> Update(r, changes)["status"],
                            epoch   |-> Update(r, changes)["epoch"],
                            resumed |-> Update(r, changes)["resumed"],
                            paused  |-> Update(r, changes)["paused"],
                            speed   |-> Update(r, changes)["speed"]]
  BY DEF Update, Columns
<1> QED BY <1>2, <1>3 DEF RowsBy, Columns, ValuesBy

\* What is of one time or before is of a later one or before.
LEMMA Later ==
  ASSUME NEW at \in Nat
  PROVE  /\ RowsBy(at) \subseteq RowsBy(at + 1)
         /\ \A changes : ChangesBy(changes, at) => ChangesBy(changes, at + 1)
<1>1. \A x : x \in 0 .. at => x \in 0 .. at + 1
  OBVIOUS
<1>2. RowsBy(at) \subseteq RowsBy(at + 1)
  BY <1>1 DEF RowsBy
<1>3. \A col \in Columns : \A x : x \in ValuesBy(at)[col] => x \in ValuesBy(at + 1)[col]
  BY <1>1 DEF ValuesBy, Columns
<1> QED BY <1>2, <1>3 DEF ChangesBy

LEMMA JoinedBy ==
  ASSUME TimedRow, NEW reopens \in BOOLEAN
  PROVE  Joined(reopens) \in Overlaps(wall)
<1>1. wall \in Nat /\ Now \in Nat
  BY ControlBoundAssumption, NowNat DEF TimedRow, Now
<1> QED BY <1>1 DEF Joined, TimedRow, Overlaps

LEMMA LeftBy ==
  ASSUME TimedRow, overlap # Unset, NEW writes \in Nat
  PROVE  Left(writes) # Unset => Left(writes) \in Overlaps(wall)
  BY DEF Left, TimedRow, Overlaps

LEMMA NextTimedRow == TInv /\ [Next]_vars => TimedRow'
<1> SUFFICES ASSUME TInv, [Next]_vars PROVE TimedRow'
  OBVIOUS
<1> USE DEF TInv
<1>t. /\ wall \in Nat /\ Horizon \in Nat /\ RequestBound \in Nat /\ BacklogBound \in Nat
      /\ request = [c \in Client |-> request[c]]
  BY ControlBoundAssumption DEF TimedRow, IInv
<1>1. ASSUME NEW c \in Client, NEW status \in Statuses \cup {Unset},
             NEW speed \in Speed \cup {Unset}, PatchRead(c, status, speed)
      PROVE  TimedRow'
  <2> DEFINE new == Patched(row, status, speed, wall)
             changes == Changes(row, new)
  <2>1. ChangesBy(changes, wall)
    BY <1>t, PatchedBy, ChangesOfRows DEF TimedRow
  <2>2. request' = [request EXCEPT ![c] = changes]
    BY <1>1 DEF PatchRead
  <2>3. overlap' \in Overlaps(wall)
    BY <1>1, JoinedBy DEF PatchRead
  <2>4. asked' \in 0 .. RequestBound
    BY <1>1, <1>t DEF PatchRead, TimedRow
  <2> HIDE DEF new, changes
  <2>5. \A d \in Client : request'[d] # Idle => ChangesBy(request'[d], wall)
    BY <1>t, <2>1, <2>2 DEF TimedRow
  <2> QED BY <1>1, <2>3, <2>4, <2>5 DEF PatchRead, TimedRow
<1>2. ASSUME NEW c \in Client, PatchWrite(c) PROVE TimedRow'
  <2>1. row' \in RowsBy(wall)
    BY <1>2, <1>t, UpdateBy DEF PatchWrite, TimedRow
  <2>2. drained' \in BOOLEAN
    BY <1>2 DEF PatchWrite, TimedRow
  <2>3. \A d \in Client : request'[d] # Idle => request'[d] = request[d] /\ request[d] # Idle
    BY <1>2, <1>t DEF PatchWrite
  <2>4. overlap' # Unset => overlap' \in Overlaps(wall)
    BY <1>2, LeftBy DEF PatchWrite, Tracked
  <2> QED BY <1>2, <2>1, <2>2, <2>3, <2>4 DEF PatchWrite, TimedRow
<1>3. ASSUME PassRead PROVE TimedRow'
  <2>1. overlap' \in Overlaps(wall)
    BY <1>3, JoinedBy DEF PassRead
  <2>2. pass' = [seen |-> row, now |-> Unset, count |-> Unset]
    BY <1>3 DEF PassRead
  <2>3. pass' \in PassesBy(wall)
    BY <2>2 DEF PassesBy, TimedRow
  <2>4. UNCHANGED <<wall, row, drained, request, asked, backlog>>
    BY <1>3 DEF PassRead
  <2> QED BY <2>1, <2>3, <2>4 DEF TimedRow
<1>12. ASSUME PassClock PROVE TimedRow'
  <2>1. pass.seen \in RowsBy(wall)
    BY <1>12, UnsetAssumption DEF PassClock, TimedRow, PassesBy
  <2>2. pass' = [seen |-> Unset, now |-> NowAt(pass.seen, wall), count |-> Unset]
    BY <1>12 DEF PassClock
  <2>3. pass' \in PassesBy(wall)
    BY <1>t, <2>1, <2>2, NowNat DEF PassesBy
  <2> QED BY <1>12, <2>3 DEF PassClock, TimedRow, rowVars
<1>4. ASSUME ReadGauges PROVE TimedRow'
  <2>1. /\ pass' = [pass EXCEPT !.count = backlog] /\ backlog \in 0 .. BacklogBound
        /\ pass \in [seen : {Unset}, now : Nat, count : (0 .. BacklogBound) \cup {Unset}]
    BY <1>4 DEF ReadGauges, TimedRow, PassesBy
  <2>2. pass' \in PassesBy(wall)
    BY <2>1 DEF PassesBy
  <2> QED BY <1>4, <2>2 DEF ReadGauges, TimedRow, rowVars
<1>5. ASSUME Retire PROVE TimedRow'
  <2>1. pass.now \in Nat
    BY <1>5, UnsetAssumption DEF Retire, TimedRow, PassesBy
  <2>2. row' \in RowsBy(wall)
    BY <1>5, <2>1 DEF Retire, TimedRow, RowsBy, Statuses
  <2>3. drained' \in BOOLEAN
    BY <1>5 DEF Retire
  <2>4. overlap' # Unset => overlap' \in Overlaps(wall)
    BY <1>5, LeftBy DEF Retire, Tracked
  <2> QED BY <1>5, <2>2, <2>3, <2>4 DEF Retire, TimedRow
<1>6. CASE EndPass
  <2>1. overlap' # Unset => overlap' \in Overlaps(wall)
    BY <1>6, LeftBy DEF EndPass, Tracked
  <2> QED BY <1>6, <2>1 DEF EndPass, TimedRow
<1>7. CASE Settle \/ TickCommit
  <2>1. backlog' \in 0 .. BacklogBound
    BY <1>7, <1>t DEF Settle, TickCommit, TimedRow
  <2> QED BY <1>7, <2>1 DEF Settle, TickCommit, TimedRow, rowVars
<1>8. CASE TickRead \/ TickFails \/ Forget
  BY <1>8 DEF TickRead, TickFails, Forget, TimedRow, rowVars
<1>11. ASSUME NEW p \in Poster, PostRead(p) \/ PostCommit(p) PROVE TimedRow'
  <2>1. asked' \in 0 .. RequestBound /\ backlog' \in 0 .. BacklogBound
    BY <1>11, <1>t DEF PostRead, PostCommit, TimedRow
  <2> QED BY <1>11, <2>1 DEF PostRead, PostCommit, TimedRow, rowVars
<1>9. CASE Elapse
  <2>1. /\ wall' = wall + 1 /\ wall' \in 0 .. Horizon
        /\ UNCHANGED <<row, request, pass, asked, backlog, drained, overlap>>
    BY <1>9, <1>t DEF Elapse, rowVars
  <2>2. row \in RowsBy(wall + 1)
    BY <1>t, Later DEF TimedRow
  <2>3. \A c \in Client : request[c] # Idle => ChangesBy(request[c], wall + 1)
    BY <1>t, Later DEF TimedRow
  <2>4. overlap # Unset => overlap \in Overlaps(wall + 1)
    <3>1. \A x : x \in 0 .. wall => x \in 0 .. wall + 1
      BY <1>t
    <3> QED BY <3>1 DEF TimedRow, Overlaps
  <2>5. pass # Idle => pass \in PassesBy(wall + 1)
    BY <1>t, Later DEF TimedRow, PassesBy
  <2> QED BY <2>1, <2>2, <2>3, <2>4, <2>5 DEF TimedRow
<1>10. CASE UNCHANGED vars
  BY <1>10 DEF vars, TimedRow, rowVars
<1> QED BY <1>1, <1>2, <1>3, <1>4, <1>5, <1>6, <1>7, <1>8, <1>9, <1>10, <1>11, <1>12 DEF Next

LEMMA NextTracked == TInv /\ [Next]_vars => Tracked'
<1> SUFFICES ASSUME TInv, [Next]_vars PROVE Tracked'
  OBVIOUS
<1> USE DEF TInv
<1>0. \A at \in Nat : \A o \in Overlaps(at) : o # Unset
  BY UnsetAssumption DEF Overlaps
<1>t. wall \in Nat
  BY ControlBoundAssumption DEF TimedRow
<1>1. CASE \E c \in Client, status \in Statuses \cup {Unset}, speed \in Speed \cup {Unset} :
              PatchRead(c, status, speed)
  <2>1. PICK reopens \in BOOLEAN : overlap' = Joined(reopens)
    BY <1>1 DEF PatchRead
  <2>2. overlap' # Unset
    BY <1>0, <1>t, <2>1, JoinedBy
  <2> QED BY <2>2 DEF Tracked
<1>2. CASE PassRead
  <2>1. overlap' = Joined(FALSE)
    BY <1>2 DEF PassRead
  <2>2. overlap' # Unset
    BY <1>0, <1>t, <2>1, JoinedBy
  <2> QED BY <2>2 DEF Tracked
<1>3. CASE (\E c \in Client : PatchWrite(c)) \/ Retire \/ EndPass
  <2>1. PICK writes \in {0, 1} : overlap' = Left(writes)
    BY <1>3 DEF PatchWrite, Retire, EndPass
  <2>2. overlap \in Overlaps(wall)
    BY <1>3 DEF PatchWrite, Retire, EndPass, Tracked, TimedRow
  <2>3. [overlap EXCEPT !.writes = @ + writes] \in Overlaps(wall)
    BY <2>2 DEF Overlaps
  <2> QED BY <1>0, <1>t, <2>1, <2>3 DEF Left, Tracked
<1>4. CASE UNCHANGED <<overlap, pass, request>>
  BY <1>4 DEF Tracked
<1>5. CASE PassClock \/ ReadGauges
  BY <1>5 DEF PassClock, ReadGauges, Tracked, rowVars
<1>6. \/ \E c \in Client, status \in Statuses \cup {Unset}, speed \in Speed \cup {Unset} :
              PatchRead(c, status, speed)
      \/ PassRead
      \/ (\E c \in Client : PatchWrite(c)) \/ Retire \/ EndPass
      \/ UNCHANGED <<overlap, pass, request>>
      \/ PassClock \/ ReadGauges
  BY DEF Next, Settle, PostRead, PostCommit, TickRead, TickCommit, TickFails, Forget,
         Elapse, vars, rowVars
<1> QED BY <1>1, <1>2, <1>3, <1>4, <1>5, <1>6

LEMMA NextTimedProducer == TInv /\ [Next]_vars => TimedProducer'
<1> SUFFICES ASSUME TInv, [Next]_vars PROVE TimedProducer'
  OBVIOUS
<1> USE DEF TInv
<1>t. latest \in Nat /\ emitted \in Nat /\ ScriptEnd \in Nat
  BY ScriptAssumption DEF TimedProducer
<1>0. Now \in Nat
  BY ControlBoundAssumption, NowNat DEF Now, TimedRow
<1>1. CASE TickRead
  <2>1. /\ tick' # Idle => tick'.now = Now /\ Now < ScriptEnd
        /\ lastEmitted' = Recovered /\ UNCHANGED <<latest, emitted, post>>
    BY <1>1 DEF TickRead, Producing
  <2>2. Recovered \in Nat
    BY <1>t DEF Recovered, TimedProducer
  <2> QED BY <2>1, <2>2 DEF TimedProducer
<1>2. CASE TickCommit \/ TickFails
  <2>1. /\ tick # Idle /\ tick' = Idle /\ post' = post
        /\ \/ latest' = latest /\ emitted' = emitted
           \/ emitted' \in tick.since + 1 .. tick.now /\ latest' = LaterOf(latest, emitted')
        /\ lastEmitted' = tick.now \/ lastEmitted' = lastEmitted
    BY <1>2 DEF TickCommit, TickFails
  <2>2. /\ tick.since \in Int /\ tick.now \in Int /\ tick.now < ScriptEnd
        /\ emitted <= tick.since /\ tick.since <= tick.now
    BY <2>1 DEF IInv, Remembered, TimedProducer
  <2>3. /\ emitted' \in Nat /\ emitted' <= tick.now /\ (emitted' = 0 \/ emitted' < ScriptEnd)
        /\ latest' \in Nat /\ tick.now \in Nat
    BY <1>t, <2>1, <2>2 DEF LaterOf, TimedProducer
  <2> QED BY <1>t, <2>1, <2>3 DEF TimedProducer
<1>3. CASE Forget
  BY <1>3 DEF Forget, TimedProducer, Idle
<1>4. CASE UNCHANGED <<producerVars, post>>
  BY <1>4 DEF producerVars, TimedProducer
<1>5. ASSUME NEW p \in Poster, PostRead(p) PROVE TimedProducer'
  <2>1. post' = [post EXCEPT ![p] = Now] /\ UNCHANGED producerVars
    BY <1>5 DEF PostRead
  <2>2. \A q \in Poster : post'[q] # Idle => post'[q] \in Nat
    BY <1>0, <2>1 DEF IInv, TimedProducer
  <2> QED BY <2>1, <2>2 DEF TimedProducer, producerVars
<1>6. ASSUME NEW p \in Poster, PostCommit(p) PROVE TimedProducer'
  <2>1. /\ latest' = LaterOf(latest, post[p]) /\ post[p] # Idle
        /\ post' = [post EXCEPT ![p] = Idle] /\ UNCHANGED <<tick, lastEmitted, emitted>>
    BY <1>6 DEF PostCommit
  <2>2. latest' \in Nat
    BY <2>1 DEF LaterOf, TimedProducer
  <2>3. \A q \in Poster : post'[q] # Idle => post'[q] \in Nat
    BY <2>1 DEF IInv, TimedProducer
  <2> QED BY <2>1, <2>2, <2>3 DEF TimedProducer
<1>7. \/ UNCHANGED <<producerVars, post>> \/ TickRead \/ TickCommit \/ TickFails \/ Forget
      \/ \E p \in Poster : PostRead(p) \/ PostCommit(p)
  BY DEF Next, PatchRead, PatchWrite, PassRead, PassClock, ReadGauges, Retire, EndPass,
         Settle, Elapse, vars, producerVars
<1> QED BY <1>1, <1>2, <1>3, <1>4, <1>5, <1>6, <1>7

LEMMA InitTInv == Init => TInv
<1> SUFFICES ASSUME Init PROVE TimedRow /\ TimedProducer /\ Tracked
  BY InitIInv DEF TInv
<1>1. row \in RowsBy(wall)
  BY SpeedAssumption DEF Init, RowsBy, Statuses
<1>2. wall \in 0 .. Horizon /\ asked \in 0 .. RequestBound /\ backlog \in 0 .. BacklogBound
  BY ControlBoundAssumption DEF Init
<1>3. (\A c \in Client : request[c] = Idle) /\ pass = Idle /\ overlap = Unset
  BY DEF Init
<1>4. drained \in BOOLEAN
  BY DEF Init
<1>5. TimedRow
  BY <1>1, <1>2, <1>3, <1>4 DEF TimedRow
<1> QED BY <1>3, <1>5 DEF Init, TimedProducer, Tracked

LEMMA NextTInv == TInv /\ [Next]_vars => TInv'
  BY NextReadable, NextRemembered, NextRequests, NextTracked, NextTimedRow,
     NextTimedProducer DEF TInv, IInv

\* Every column stays in its range, however requests overlap; the producer emits
\* nothing at or past the end of the script.
THEOREM TypeCorrect == Spec => []TypeOK
<1>1. TInv => TypeOK
  <2> SUFFICES ASSUME TInv PROVE TypeOK
    OBVIOUS
  <2>1. /\ wall \in 0 .. Horizon /\ row.status \in Statuses /\ row.speed \in Speed
        /\ row.epoch \in Nat /\ row.resumed \in 0 .. wall /\ row.paused \in Nat \cup {Unset}
    BY DEF TInv, TimedRow, RowsBy
  <2>2. \A c \in Client : request[c] # Idle => DOMAIN request[c] \subseteq Columns
    BY DEF TInv, TimedRow, ChangesBy
  <2>3. pass # Idle => /\ pass.now \in Nat \cup {Unset}
                       /\ pass.count \in 0 .. BacklogBound \cup {Unset}
    BY DEF TInv, TimedRow, PassesBy
  <2>4. overlap # Unset => /\ overlap.since \in 0 .. wall /\ overlap.from \in Nat
                           /\ overlap.writes \in Nat /\ overlap.reopened \in BOOLEAN
    BY DEF TInv, TimedRow, Overlaps
  <2>5. /\ asked \in 0 .. RequestBound /\ backlog \in 0 .. BacklogBound
        /\ drained \in BOOLEAN
    BY DEF TInv, TimedRow
  <2> QED BY <2>1, <2>2, <2>3, <2>4, <2>5 DEF TInv, IInv, Remembered, TimedProducer, TypeOK
<1> QED BY <1>1, InitTInv, NextTInv, PTL DEF Spec

-----------------------------------------------------------------------------
(* Overlapping rewrites of the clock.  What a transaction writes was computed *)
(* before others committed, and only the columns it found changed are written, *)
(* so that a row may be put together from several.  The invariant says what    *)
(* each column can be meanwhile, and which of them a transaction writes if it   *)
(* writes another.                                                             *)

\* What can run by since the overlap began, and what no reading of it passes.
Span(o, at) == Fastest * (at - o.since)
Top(o, at)  == o.from + LaterOf(1, o.writes) * Span(o, at)

\* A time that may be read, or written, while the overlap lasts.
Good(o, v, at) == v \in Int /\ o.from <= v /\ v <= Top(o, at)

\* A running row resumed in the overlap stays below the top even at the fastest...
Climbing(o, r, at) ==
    /\ r.epoch >= o.from /\ r.resumed >= o.since
    /\ r.epoch + Fastest * (at - r.resumed) <= Top(o, at)

\* ...another one still reads what it did as the overlap began...
Untouched(o, r) ==
    r.resumed <= o.since /\ r.epoch + (o.since - r.resumed) * r.speed = o.from

\* ...and one that does not run stands at a time of the overlap.
Frozen(o, r, at) == Good(o, IF r.paused # Unset THEN r.paused ELSE r.epoch, at)

RowGood(o, r, at) ==
    IF r.status = "running" THEN Climbing(o, r, at) \/ Untouched(o, r) ELSE Frozen(o, r, at)

Writes(changes, col) == col \in DOMAIN changes

\* With a time of the overlap go a wall time of the overlap and the reverse, be
\* it that they are written together or that they are there already.
Completes(o, changes, r, at) ==
    /\ Writes(changes, "epoch") \/ Good(o, r.epoch, at)
    /\ Writes(changes, "resumed") \/ r.resumed >= o.since

\* The changes that make a row run otherwise than it did, or stand at its epoch.
Rebases(changes, r) ==
    \/ Writes(changes, "epoch") \/ Writes(changes, "resumed")
    \/ Writes(changes, "status") /\ changes.status = "running"
    \/ Writes(changes, "paused") /\ changes.paused = Unset
    \/ Writes(changes, "speed") /\ ~Writes(changes, "status") /\ r.status = "running"

\* What a transaction is going to write, as long as it has not.
Pending(o, changes, r, at) ==
    /\ Writes(changes, "epoch") => Good(o, changes.epoch, at)
    /\ Writes(changes, "paused") /\ changes.paused # Unset => Good(o, changes.paused, at)
    /\ Writes(changes, "resumed") => changes.resumed \in o.since .. at
    /\ Rebases(changes, r) => Completes(o, changes, r, at)
    /\ Writes(changes, "status") /\ changes.status # "running" /\ ~Writes(changes, "paused")
          => Frozen(o, r, at)
    /\ o.writes = 0 /\ Update(r, changes).status = "running"
          => Climbing(o, Update(r, changes), at)

\* What a pass goes by: the row that it has read, or the time.
PassGood(o, p, at) == IF p.now = Unset THEN RowGood(o, p.seen, at) ELSE Good(o, p.now, at)

OInv ==
    overlap # Unset /\ ~overlap.reopened =>
        /\ RowGood(overlap, row, wall)
        /\ \A c \in Client : request[c] # Idle => Pending(overlap, request[c], row, wall)
        /\ pass # Idle => PassGood(overlap, pass, wall)

\* There is a fastest speed.
LEMMA FastestIsTop == Fastest \in Nat /\ \A speed \in Speed : speed \in Nat /\ speed <= Fastest
<1> DEFINE R == StrictSubsetOrdering(Speed)
           Faster(speed) == {other \in Speed : other > speed}
           T == {Faster(speed) : speed \in Speed}
<1>1. IsWellFoundedOn(R, SUBSET Speed)
  BY SpeedAssumption, FS_FiniteSubsetsOfFinite, FS_StrictSubsetOrderingWellFounded
<1>2. T \subseteq SUBSET Speed /\ T # {}
  BY SpeedAssumption
<1>3. PICK least \in T : \A other \in T : ~(<<other, least>> \in R)
  <2> HIDE DEF R, T
  <2> QED BY <1>1, <1>2, WFMin
<1>4. PICK top \in Speed : least = Faster(top)
  BY <1>3
<1>5. \A speed \in Speed : top >= speed
  <2> SUFFICES ASSUME NEW speed \in Speed, speed > top PROVE FALSE
    BY SpeedAssumption
  <2>1. Faster(speed) \subseteq Faster(top) /\ Faster(speed) # Faster(top)
    <3>1. speed \in Faster(top) /\ speed \notin Faster(speed)
      BY SpeedAssumption
    <3>2. \A other \in Speed : other > speed => other > top
      BY SpeedAssumption
    <3> QED BY <3>1, <3>2
  <2>2. <<Faster(speed), Faster(top)>> \in R
    BY <2>1 DEF StrictSubsetOrdering
  <2> QED BY <1>3, <1>4, <2>2
<1>6. Fastest \in Speed /\ \A speed \in Speed : Fastest >= speed
  BY <1>5 DEF Fastest, Max
<1> QED BY <1>6, SpeedAssumption

\* Products of what is not negative.
LEMMA Products ==
  /\ \A a, b \in Nat : a * b \in Nat
  /\ \A a, b, c \in Nat : a <= b => a * c <= b * c /\ c * a <= c * b
  /\ \A a, b, c \in Nat : (a + b) * c = a * c + b * c
<1>1. \A a, b \in Nat : a * b \in Nat
  OBVIOUS
<1>2. \A a, b, c \in Nat : (a + b) * c = a * c + b * c
  OBVIOUS
<1>3. ASSUME NEW a \in Nat, NEW b \in Nat, NEW c \in Nat, a <= b
      PROVE  a * c <= b * c /\ c * a <= c * b
  <2> DEFINE d == b - a
  <2>1. d \in Nat /\ b = a + d
    BY <1>3
  <2> HIDE DEF d
  <2>2. b * c = a * c + d * c /\ d * c \in Nat /\ a * c \in Nat
    BY <1>1, <1>2, <2>1
  <2>3. c * a = a * c /\ c * b = b * c
    OBVIOUS
  <2> QED BY <2>2, <2>3
<1> QED BY <1>1, <1>2, <1>3

\* The bounds grow with the time and with the writes.
LEMMA Tops ==
  ASSUME NEW at \in Nat, NEW o \in Overlaps(at)
  PROVE  /\ o.since \in Nat /\ o.since <= at /\ o.from \in Nat /\ o.writes \in Nat
         /\ Span(o, at) \in Nat /\ Top(o, at) \in Nat
         /\ o.from + Span(o, at) <= Top(o, at)
         /\ o \in Overlaps(at + 1) /\ Top(o, at) + Fastest <= Top(o, at + 1)
<1>1. o.since \in Nat /\ o.since <= at /\ o.from \in Nat /\ o.writes \in Nat
  BY DEF Overlaps
<1>2. at - o.since \in Nat /\ (at + 1) - o.since = (at - o.since) + 1 /\ Fastest \in Nat
  BY <1>1, FastestIsTop
<1> DEFINE factor == LaterOf(1, o.writes)
           now    == Span(o, at)
           later  == Span(o, at + 1)
<1>3. factor \in Nat /\ 1 <= factor
  BY <1>1 DEF LaterOf
<1>4. now \in Nat /\ later = now + Fastest
  <2>1. now = Fastest * (at - o.since) /\ later = Fastest * ((at - o.since) + 1)
    BY <1>2 DEF Span
  <2> DEFINE past == at - o.since
  <2>2. past \in Nat
    BY <1>2
  <2> HIDE DEF past
  <2>3. Fastest * past \in Nat /\ Fastest * (past + 1) = Fastest * past + Fastest
    BY <1>2, <2>2, Products
  <2> QED BY <2>1, <2>3 DEF past
<1>5. o \in Overlaps(at + 1)
  <2>1. \A x : x \in 0 .. at => x \in 0 .. at + 1
    OBVIOUS
  <2> QED BY <2>1 DEF Overlaps
<1>6. Top(o, at) = o.from + factor * now /\ Top(o, at + 1) = o.from + factor * later
  BY DEF Top
<1> HIDE DEF factor, now, later
<1>7. /\ factor * now \in Nat /\ now <= factor * now
      /\ factor * later = factor * now + factor * Fastest
      /\ factor * Fastest \in Nat /\ Fastest <= factor * Fastest
  BY <1>2, <1>3, <1>4, Products
<1> QED BY <1>1, <1>2, <1>4, <1>5, <1>6, <1>7 DEF now

\* With one write more.
Wrote(o) == [o EXCEPT !.writes = @ + 1]

LEMMA TopWrote ==
  ASSUME NEW at \in Nat, NEW o \in Overlaps(at)
  PROVE  /\ Wrote(o) \in Overlaps(at)
         /\ Wrote(o).since = o.since /\ Wrote(o).from = o.from
         /\ Wrote(o).writes = o.writes + 1 /\ Wrote(o).reopened = o.reopened
         /\ Top(o, at) <= Top(Wrote(o), at)
         /\ o.writes # 0 => Top(Wrote(o), at) = Top(o, at) + Span(o, at)
         /\ Top(Wrote(o), at) = o.from + (o.writes + 1) * Span(o, at)
<1>1. /\ Wrote(o) \in Overlaps(at)
      /\ Wrote(o).since = o.since /\ Wrote(o).from = o.from
      /\ Wrote(o).writes = o.writes + 1 /\ Wrote(o).reopened = o.reopened
  BY DEF Wrote, Overlaps
<1>2. o.writes \in Nat /\ o.from \in Nat /\ Span(o, at) \in Nat
  BY Tops
<1>3. LaterOf(1, o.writes + 1) = o.writes + 1
  BY <1>2 DEF LaterOf
<1>4. Top(Wrote(o), at) = o.from + (o.writes + 1) * Span(o, at)
  BY <1>1, <1>3 DEF Top, Span
<1> DEFINE now == Span(o, at)
<1> HIDE DEF now
<1>5. CASE o.writes = 0
  <2>1. LaterOf(1, o.writes) = o.writes + 1
    BY <1>5 DEF LaterOf
  <2>2. Top(o, at) = o.from + (o.writes + 1) * Span(o, at)
    BY <2>1 DEF Top
  <2>3. Top(o, at) \in Nat
    BY Tops
  <2> QED BY <1>1, <1>4, <1>5, <2>2, <2>3
<1>6. CASE o.writes # 0
  <2>1. LaterOf(1, o.writes) = o.writes
    BY <1>2, <1>6 DEF LaterOf
  <2>2. Top(o, at) = o.from + o.writes * now
    BY <2>1 DEF Top, now
  <2>3. now \in Nat /\ (o.writes + 1) * now = o.writes * now + now /\ o.writes * now \in Nat
    BY <1>2, Products DEF now
  <2> QED BY <1>1, <1>2, <1>4, <1>6, <2>2, <2>3 DEF now
<1> QED BY <1>5, <1>6

\* Whatever a request asks for: the epoch it writes is the time as it read it, the
\* start is the wall time at which it did, and one does not go without the other;
\* pausing a running row writes the time too.
LEMMA PatchShape ==
  ASSUME NEW at \in Nat, NEW r \in RowsBy(at),
         NEW status \in Statuses \cup {Unset}, NEW speed \in Speed \cup {Unset},
         ~(r.status = "done" /\ status = "running"),
         NEW new, new = Patched(r, status, speed, at)
  PROVE  /\ new.epoch \in {r.epoch, NowAt(r, at)} /\ new.resumed \in {r.resumed, at}
         /\ new.paused \in {r.paused, Unset, NowAt(r, at)}
         /\ (\/ new.epoch # r.epoch \/ new.resumed # r.resumed
             \/ new.paused = Unset /\ r.paused # Unset
             \/ new.status = "running" /\ new # r)
            => new.epoch = NowAt(r, at) /\ new.resumed = at
         /\ r.status = "running" /\ new.status # "running" => new.paused = NowAt(r, at)
<1> DEFINE frozen == IF status \in {Unset, r.status} THEN r
                     ELSE IF status = "running" THEN Resume(r, at) ELSE Pause(r, at)
           paced  == IF speed \in {Unset, frozen.speed} THEN frozen
                     ELSE SetSpeed(frozen, speed, at)
           v      == NowAt(r, at)
<1>a. /\ r.status \in Statuses /\ (status # Unset => status \in Statuses)
      /\ Unset \notin Statuses /\ ~(r.status = "done" /\ status = "running")
  BY UnsetAssumption DEF RowsBy, Statuses
<1>r. /\ r = [status |-> r.status, epoch |-> r.epoch, resumed |-> r.resumed,
              paused |-> r.paused, speed |-> r.speed]
      /\ r \in SimRow
  BY NowNat DEF RowsBy
<1>v. v \in Nat /\ v # Unset
  BY UnsetAssumption, NowNat
<1>1. \/ frozen = r /\ status \in {Unset, r.status}
      \/ /\ r.status = "paused" /\ status = "running"
         /\ frozen = [status |-> "running", epoch |-> v, resumed |-> at,
                      paused |-> Unset, speed |-> r.speed]
      \/ /\ r.status # "paused" /\ status # "running" /\ status # Unset /\ status # r.status
         /\ frozen = [status |-> "paused", epoch |-> r.epoch, resumed |-> r.resumed,
                      paused |-> v, speed |-> r.speed]
      \/ r.status = "paused" /\ status = "done" /\ frozen = r
  <2>1. /\ status \in {Unset, r.status} => frozen = r
        /\ status \notin {Unset, r.status} /\ status = "running" => frozen = Resume(r, at)
        /\ status \notin {Unset, r.status} /\ status # "running" => frozen = Pause(r, at)
    OBVIOUS
  <2>2. r.status = "paused" => Resume(r, at) =
          [status |-> "running", epoch |-> v, resumed |-> at, paused |-> Unset, speed |-> r.speed]
    BY <1>r DEF Resume, SimRow
  <2>3. r.status # "paused" => Pause(r, at) = [status |-> "paused", epoch |-> r.epoch,
                      resumed |-> r.resumed, paused |-> v, speed |-> r.speed]
    BY <1>r DEF Pause, SimRow
  <2>4. r.status = "paused" => Pause(r, at) = r
    BY DEF Pause
  <2> HIDE DEF frozen, v
  <2>5. CASE status \in {Unset, r.status}
    BY <2>1, <2>5
  <2>6. CASE status \notin {Unset, r.status} /\ status = "running"
    <3>1. r.status = "paused"
      BY <1>a, <2>6 DEF Statuses
    <3> QED BY <2>1, <2>2, <2>6, <3>1
  <2>7. CASE status \notin {Unset, r.status} /\ status # "running"
    <3>1. r.status = "paused" => status = "done"
      BY <1>a, <2>7 DEF Statuses
    <3> QED BY <2>1, <2>3, <2>4, <2>7, <3>1
  <2> QED BY <2>5, <2>6, <2>7
<1>2. frozen \in SimRow /\ NowAt(frozen, at) = v
  <2>1. Pause(r, at) \in SimRow /\ NowAt(Pause(r, at), at) = v
    BY <1>r, PauseContinuous
  <2>2. Resume(r, at) \in SimRow /\ NowAt(Resume(r, at), at) = v
    BY <1>r, ResumeContinuous
  <2> HIDE DEF v
  <2> QED BY <1>r, <2>1, <2>2 DEF v
<1>3. \/ paced = frozen
      \/ /\ frozen.status = "paused" /\ speed # Unset /\ speed # frozen.speed
         /\ paced = [frozen EXCEPT !.speed = speed]
      \/ /\ frozen.status # "paused"
         /\ paced = [status |-> frozen.status, epoch |-> v, resumed |-> at,
                     paused |-> Unset, speed |-> speed]
  <2> HIDE DEF frozen
  <2>1. frozen = [status |-> frozen.status, epoch |-> frozen.epoch, resumed |-> frozen.resumed,
              paused |-> frozen.paused, speed |-> frozen.speed]
    BY <1>2 DEF SimRow
  <2> QED BY <1>2, <2>1 DEF SetSpeed
<1>4. new = IF status = Unset THEN paced ELSE [paced EXCEPT !.status = status]
  BY DEF Patched, frozen, paced
<1> HIDE DEF frozen, paced, v
<1>5. CASE frozen = r /\ status \in {Unset, r.status}
  <2>1. CASE paced = r
    <3>1. new = r
      BY <1>4, <1>5, <1>a, <1>r, <2>1
    <3> QED BY <3>1
  <2>2. CASE r.status = "paused" /\ paced = [r EXCEPT !.speed = speed]
    <3>1. new = [status |-> r.status, epoch |-> r.epoch, resumed |-> r.resumed,
              paused |-> r.paused, speed |-> speed]
      BY <1>4, <1>5, <1>a, <1>r, <2>2
    <3> QED BY <2>2, <3>1
  <2>3. CASE /\ r.status # "paused"
             /\ paced = [status |-> r.status, epoch |-> v, resumed |-> at,
                         paused |-> Unset, speed |-> speed]
    <3>1. new = paced
      BY <1>4, <1>5, <1>a, <1>r, <2>3
    <3> QED BY <2>3, <3>1 DEF v
  <2> QED BY <1>3, <1>5, <2>1, <2>2, <2>3
<1>6. CASE /\ r.status = "paused" /\ status = "running"
           /\ frozen = [status |-> "running", epoch |-> v, resumed |-> at,
                        paused |-> Unset, speed |-> r.speed]
  <2>1. PICK s : paced = [status |-> "running", epoch |-> v, resumed |-> at,
                          paused |-> Unset, speed |-> s]
    BY <1>3, <1>6
  <2>2. new = paced
    BY <1>4, <1>6, <2>1
  <2> QED BY <1>6, <2>1, <2>2 DEF v
<1>7. CASE /\ r.status # "paused" /\ status # "running" /\ status # Unset /\ status # r.status
           /\ frozen = [status |-> "paused", epoch |-> r.epoch, resumed |-> r.resumed,
                        paused |-> v, speed |-> r.speed]
  <2>1. PICK s : paced = [status |-> "paused", epoch |-> r.epoch, resumed |-> r.resumed,
                          paused |-> v, speed |-> s]
    BY <1>3, <1>7
  <2>2. new = [status |-> status, epoch |-> r.epoch, resumed |-> r.resumed,
               paused |-> v, speed |-> s]
    BY <1>4, <1>7, <2>1
  <2> QED BY <1>v, <1>7, <2>2 DEF v
<1>8. CASE r.status = "paused" /\ status = "done" /\ frozen = r
  <2>1. PICK s : paced = [status |-> "paused", epoch |-> r.epoch, resumed |-> r.resumed,
                          paused |-> r.paused, speed |-> s]
    <3>1. paced = r \/ paced = [r EXCEPT !.speed = speed]
      BY <1>3, <1>8
    <3> QED BY <1>r, <1>8, <3>1 DEF SimRow
  <2>2. new = [status |-> status, epoch |-> r.epoch, resumed |-> r.resumed,
               paused |-> r.paused, speed |-> s]
    BY <1>a, <1>4, <1>8, <2>1 DEF Statuses
  <2> QED BY <1>8, <2>2
<1> QED BY <1>1, <1>5, <1>6, <1>7, <1>8

\* What a row reads in the overlap is a time of the overlap.
LEMMA ReadingGood ==
  ASSUME NEW at \in Nat, NEW o \in Overlaps(at), NEW r \in RowsBy(at), RowGood(o, r, at)
  PROVE  Good(o, NowAt(r, at), at)
<1>1. /\ r.epoch \in Nat /\ r.resumed \in Nat /\ r.resumed <= at /\ r.speed \in Nat
      /\ r.speed <= Fastest /\ Fastest \in Nat /\ NowAt(r, at) \in Nat
      /\ o.since \in Nat /\ o.since <= at /\ o.from \in Nat
      /\ Span(o, at) \in Nat /\ Top(o, at) \in Nat /\ o.from + Span(o, at) <= Top(o, at)
  BY FastestIsTop, NowNat, Tops DEF RowsBy
<1>2. CASE r.status # "running"
  BY <1>2 DEF RowGood, Frozen, NowAt
<1>3. CASE r.status = "running" /\ Climbing(o, r, at)
  <2> DEFINE elapsed == at - r.resumed
  <2>1. elapsed \in Nat
    BY <1>1
  <2>2. NowAt(r, at) = r.epoch + elapsed * r.speed
    BY <1>3 DEF NowAt
  <2>3. r.epoch >= o.from /\ r.epoch + Fastest * elapsed <= Top(o, at)
    BY <1>3 DEF Climbing
  <2> HIDE DEF elapsed
  <2>4. /\ elapsed * r.speed \in Nat /\ elapsed * r.speed <= elapsed * Fastest
        /\ elapsed * Fastest = Fastest * elapsed /\ Fastest * elapsed \in Nat
    BY <1>1, <2>1, Products
  <2> QED BY <1>1, <2>2, <2>3, <2>4 DEF Good
<1>4. CASE r.status = "running" /\ Untouched(o, r)
  <2> DEFINE before == o.since - r.resumed
             during == at - o.since
  <2>1. before \in Nat /\ during \in Nat /\ at - r.resumed = before + during
    BY <1>1, <1>4 DEF Untouched
  <2>2. NowAt(r, at) = r.epoch + (before + during) * r.speed
    BY <1>4, <2>1 DEF NowAt
  <2>3. r.epoch + before * r.speed = o.from /\ Span(o, at) = Fastest * during
    BY <1>4 DEF Untouched, Span
  <2> HIDE DEF before, during
  <2>4. /\ (before + during) * r.speed = before * r.speed + during * r.speed
        /\ before * r.speed \in Nat /\ during * r.speed \in Nat
        /\ during * r.speed <= during * Fastest /\ during * Fastest = Fastest * during
    BY <1>1, <2>1, Products
  <2>5. NowAt(r, at) = o.from + during * r.speed
    BY <1>1, <2>2, <2>3, <2>4
  <2> QED BY <1>1, <2>3, <2>4, <2>5 DEF Good
<1> QED BY <1>2, <1>3, <1>4 DEF RowGood

\* The first of those that overlap finds the row as it is...
LEMMA FirstFinds ==
  ASSUME NEW at \in Nat, NEW r \in RowsBy(at), NEW o \in Overlaps(at),
         o.since = at, o.from = NowAt(r, at)
  PROVE  RowGood(o, r, at)
<1>1. NowAt(r, at) \in Nat
  BY NowNat
<1>3. CASE r.status = "running"
  <2>1. r.resumed <= at
    BY DEF RowsBy
  <2>2. Untouched(o, r)
    BY <1>3, <2>1 DEF Untouched, NowAt
  <2> QED BY <1>3, <2>2 DEF RowGood
<1>4. CASE r.status # "running"
  <2>1. Top(o, at) \in Nat /\ o.from + Span(o, at) <= Top(o, at) /\ Span(o, at) \in Nat
    BY Tops
  <2>2. Good(o, NowAt(r, at), at)
    BY <1>1, <2>1 DEF Good
  <2> QED BY <1>4, <2>2 DEF RowGood, Frozen, NowAt
<1> QED BY <1>3, <1>4

LEMMA ChangesWrite ==
  ASSUME NEW loaded, NEW new, NEW col \in Columns
  PROVE  /\ Writes(Changes(loaded, new), col) <=> new[col] # loaded[col]
         /\ Writes(Changes(loaded, new), col) => Changes(loaded, new)[col] = new[col]
         /\ Update(loaded, Changes(loaded, new))[col] = new[col]
  BY DEF Writes, Changes, Update

\* ...and what a request that finds it so is going to write is in order.
LEMMA RequestPending ==
  ASSUME NEW at \in Nat, NEW o \in Overlaps(at), NEW r \in RowsBy(at), RowGood(o, r, at),
         NEW status \in Statuses \cup {Unset}, NEW speed \in Speed \cup {Unset},
         ~(r.status = "done" /\ status = "running"),
         NEW new, new = Patched(r, status, speed, at), new # r
  PROVE  Pending(o, Changes(r, new), r, at)
<1> DEFINE v       == NowAt(r, at)
           changes == Changes(r, new)
           updated == Update(r, changes)
<1>1. /\ new.epoch \in {r.epoch, v} /\ new.resumed \in {r.resumed, at}
      /\ new.paused \in {r.paused, Unset, v}
      /\ (\/ new.epoch # r.epoch \/ new.resumed # r.resumed
          \/ new.paused = Unset /\ r.paused # Unset
          \/ new.status = "running" /\ new # r)
         => new.epoch = v /\ new.resumed = at
      /\ r.status = "running" /\ new.status # "running" => new.paused = v
  BY PatchShape
<1>2. Good(o, v, at) /\ v \in Int
  BY ReadingGood DEF Good
<1>3. /\ o.since \in Nat /\ o.since <= at /\ Fastest \in Nat /\ o.from <= v
      /\ Top(o, at) \in Nat /\ v <= Top(o, at)
  BY <1>2, Tops, FastestIsTop DEF Good
<1>4. /\ Writes(changes, "epoch") <=> new.epoch # r.epoch
      /\ Writes(changes, "resumed") <=> new.resumed # r.resumed
      /\ Writes(changes, "paused") <=> new.paused # r.paused
      /\ Writes(changes, "status") <=> new.status # r.status
      /\ Writes(changes, "speed") <=> new.speed # r.speed
      /\ Writes(changes, "epoch") => changes.epoch = new.epoch
      /\ Writes(changes, "resumed") => changes.resumed = new.resumed
      /\ Writes(changes, "paused") => changes.paused = new.paused
      /\ Writes(changes, "status") => changes.status = new.status
      /\ updated.epoch = new.epoch /\ updated.resumed = new.resumed
      /\ updated.status = new.status
  BY ChangesWrite DEF Columns
<1> HIDE DEF v, changes, updated
<1>5. Writes(changes, "epoch") => Good(o, changes.epoch, at)
  BY <1>1, <1>2, <1>4
<1>6. Writes(changes, "paused") /\ changes.paused # Unset => Good(o, changes.paused, at)
  BY <1>1, <1>2, <1>4
<1>7. Writes(changes, "resumed") => changes.resumed \in o.since .. at
  BY <1>1, <1>3, <1>4
<1>8. Rebases(changes, r) => new.epoch = v /\ new.resumed = at
  BY <1>1, <1>4 DEF Rebases
<1>9. Rebases(changes, r) => Completes(o, changes, r, at)
  BY <1>2, <1>3, <1>4, <1>8 DEF Completes
<1>10. Writes(changes, "status") /\ changes.status # "running" /\ ~Writes(changes, "paused")
          => Frozen(o, r, at)
  <2>1. CASE r.status = "running"
    <3>1. v # Unset
      BY <1>2, UnsetAssumption
    <3> QED BY <1>1, <1>2, <1>4, <2>1, <3>1 DEF Frozen
  <2>2. CASE r.status # "running"
    BY <2>2 DEF RowGood
  <2> QED BY <2>1, <2>2
<1>11. updated.status = "running" => Climbing(o, updated, at)
  <2> SUFFICES ASSUME updated.status = "running" PROVE Climbing(o, updated, at)
    OBVIOUS
  <2>1. updated.epoch = v /\ updated.resumed = at
    BY <1>1, <1>4
  <2>2. at - at = 0 /\ Fastest * 0 = 0
    BY <1>3
  <2> QED BY <1>2, <1>3, <2>1, <2>2 DEF Climbing
<1> QED BY <1>5, <1>6, <1>7, <1>9, <1>10, <1>11 DEF Pending, changes, updated

LEMMA UpdateColumns ==
  ASSUME NEW r, NEW changes, NEW new, new = Update(r, changes)
  PROVE  /\ new.status = IF Writes(changes, "status") THEN changes.status ELSE r.status
         /\ new.epoch = IF Writes(changes, "epoch") THEN changes.epoch ELSE r.epoch
         /\ new.resumed = IF Writes(changes, "resumed") THEN changes.resumed ELSE r.resumed
         /\ new.paused = IF Writes(changes, "paused") THEN changes.paused ELSE r.paused
         /\ new.speed = IF Writes(changes, "speed") THEN changes.speed ELSE r.speed
  BY DEF Update, Columns, Writes

\* A write does not take a time out of the overlap.
LEMMA GoodWrote ==
  ASSUME NEW at \in Nat, NEW o \in Overlaps(at), NEW v, Good(o, v, at)
  PROVE  Good(Wrote(o), v, at)
<1>1. /\ Top(o, at) <= Top(Wrote(o), at) /\ Wrote(o).from = o.from
      /\ Top(o, at) \in Nat /\ Top(Wrote(o), at) \in Nat
  BY Tops, TopWrote
<1> QED BY <1>1 DEF Good

\* With a change that rebases go both a time and a wall time of the overlap.
LEMMA Completed ==
  ASSUME NEW at \in Nat, NEW o \in Overlaps(at), NEW r \in RowsBy(at),
         NEW changes, Pending(o, changes, r, at), Rebases(changes, r),
         NEW new \in RowsBy(at), new = Update(r, changes)
  PROVE  Good(o, new.epoch, at) /\ new.resumed >= o.since
<1>1. /\ new.epoch = IF Writes(changes, "epoch") THEN changes.epoch ELSE r.epoch
      /\ new.resumed = IF Writes(changes, "resumed") THEN changes.resumed ELSE r.resumed
  BY UpdateColumns
<1>2. /\ Completes(o, changes, r, at)
      /\ Writes(changes, "epoch") => Good(o, changes.epoch, at)
      /\ Writes(changes, "resumed") => changes.resumed \in o.since .. at
  BY DEF Pending
<1>3. Good(o, new.epoch, at)
  BY <1>1, <1>2 DEF Completes
<1>4. o.since \in Nat
  BY Tops
<1>5. new.resumed >= o.since
  BY <1>1, <1>2, <1>4 DEF Completes
<1> QED BY <1>3, <1>5

\* Whatever others write, what stands at a time of the overlap stays at one...
LEMMA FrozenKept ==
  ASSUME NEW at \in Nat, NEW o \in Overlaps(at), NEW r \in RowsBy(at),
         NEW changes, Pending(o, changes, r, at),
         NEW new \in RowsBy(at), new = Update(r, changes),
         Frozen(o, r, at) \/ Writes(changes, "paused")
  PROVE  Frozen(Wrote(o), new, at)
<1>1. /\ new.epoch = IF Writes(changes, "epoch") THEN changes.epoch ELSE r.epoch
      /\ new.paused = IF Writes(changes, "paused") THEN changes.paused ELSE r.paused
  BY UpdateColumns
<1>2. /\ Writes(changes, "epoch") => Good(o, changes.epoch, at)
      /\ Writes(changes, "paused") /\ changes.paused # Unset => Good(o, changes.paused, at)
  BY DEF Pending
<1>3. CASE new.paused # Unset
  <2>1. Good(o, new.paused, at)
    BY <1>1, <1>2, <1>3 DEF Frozen
  <2>2. Good(Wrote(o), new.paused, at)
    BY <2>1, GoodWrote
  <2> QED BY <1>3, <2>2 DEF Frozen
<1>4. CASE new.paused = Unset
  <2>1. CASE Writes(changes, "paused")
    <3>1. Rebases(changes, r)
      BY <1>1, <1>4, <2>1 DEF Rebases
    <3> QED BY <1>4, <3>1, Completed, GoodWrote DEF Frozen
  <2>2. CASE ~Writes(changes, "paused")
    <3>1. Good(o, r.epoch, at)
      BY <1>1, <1>4, <2>2 DEF Frozen
    <3>2. Good(o, new.epoch, at)
      BY <1>1, <1>2, <3>1
    <3>3. Good(Wrote(o), new.epoch, at)
      BY <3>2, GoodWrote
    <3> QED BY <1>4, <3>3 DEF Frozen
  <2> QED BY <2>1, <2>2
<1> QED BY <1>3, <1>4

\* ...and the row with the changes of one of them reads a time of the overlap.
LEMMA CommittedRow ==
  ASSUME NEW at \in Nat, NEW o \in Overlaps(at), NEW r \in RowsBy(at), RowGood(o, r, at),
         NEW changes, Pending(o, changes, r, at),
         NEW new \in RowsBy(at), new = Update(r, changes)
  PROVE  RowGood(Wrote(o), new, at)
<1>1. /\ new.status = IF Writes(changes, "status") THEN changes.status ELSE r.status
      /\ new.epoch = IF Writes(changes, "epoch") THEN changes.epoch ELSE r.epoch
      /\ new.resumed = IF Writes(changes, "resumed") THEN changes.resumed ELSE r.resumed
      /\ new.speed = IF Writes(changes, "speed") THEN changes.speed ELSE r.speed
  BY UpdateColumns
<1>2. /\ Wrote(o).since = o.since /\ Wrote(o).from = o.from
      /\ Top(o, at) <= Top(Wrote(o), at)
      /\ o.writes # 0 => Top(Wrote(o), at) = Top(o, at) + Span(o, at)
      /\ Wrote(o) \in Overlaps(at)
  BY TopWrote
<1>3. /\ o.since \in Nat /\ o.since <= at /\ o.from \in Nat /\ Span(o, at) \in Nat
      /\ Top(o, at) \in Nat /\ Top(Wrote(o), at) \in Nat /\ Fastest \in Nat
  BY <1>2, Tops, FastestIsTop
<1>4. ASSUME NEW moved \in RowsBy(at), Climbing(o, moved, at)
      PROVE  Climbing(Wrote(o), moved, at)
  <2> DEFINE reach == moved.epoch + Fastest * (at - moved.resumed)
  <2>1. reach \in Nat
    <3>1. moved.epoch \in Nat /\ at - moved.resumed \in Nat
      BY DEF RowsBy
    <3>2. Fastest * (at - moved.resumed) \in Nat
      BY <1>3, <3>1, Products
    <3> QED BY <3>1, <3>2
  <2>2. moved.epoch >= o.from /\ moved.resumed >= o.since /\ reach <= Top(o, at)
    BY <1>4 DEF Climbing
  <2> HIDE DEF reach
  <2>3. moved.epoch >= Wrote(o).from /\ moved.resumed >= Wrote(o).since
        /\ reach <= Top(Wrote(o), at)
    BY <1>2, <1>3, <2>1, <2>2
  <2> QED BY <2>3 DEF Climbing, reach
<1>5. CASE new.status # "running"
  <2>1. Frozen(o, r, at) \/ Writes(changes, "paused")
    BY <1>1, <1>5 DEF RowGood, Pending
  <2> QED BY <1>5, <2>1, FrozenKept DEF RowGood
<1>6. CASE new.status = "running" /\ o.writes = 0
  <2>1. Climbing(o, new, at)
    BY <1>6 DEF Pending
  <2> QED BY <1>4, <1>6, <2>1 DEF RowGood
<1>7. CASE new.status = "running" /\ o.writes # 0 /\ Rebases(changes, r)
  <2>1. Good(o, new.epoch, at) /\ new.resumed >= o.since
    BY <1>7, Completed
  <2> DEFINE before == at - new.resumed
             during == at - o.since
  <2>2. before \in Nat /\ during \in Nat /\ before <= during
    BY <1>3, <2>1 DEF RowsBy
  <2>3. Span(o, at) = Fastest * during
    BY DEF Span
  <2> HIDE DEF before, during
  <2>4. Fastest * before <= Fastest * during /\ Fastest * before \in Nat
        /\ Fastest * during \in Nat
    BY <1>3, <2>2, Products
  <2>5. new.epoch \in Int /\ new.epoch >= o.from /\ new.epoch <= Top(o, at)
    BY <2>1 DEF Good
  <2>6. new.epoch + Fastest * before <= Top(Wrote(o), at)
    BY <1>2, <1>3, <1>7, <2>3, <2>4, <2>5
  <2>7. Climbing(Wrote(o), new, at)
    BY <1>2, <2>1, <2>5, <2>6 DEF Climbing, before
  <2> QED BY <1>7, <2>7 DEF RowGood
<1>8. CASE new.status = "running" /\ ~Rebases(changes, r)
  <2>1. /\ r.status = "running" /\ new.epoch = r.epoch /\ new.resumed = r.resumed
        /\ new.speed = r.speed
    BY <1>1, <1>8 DEF Rebases
  <2>2. CASE Climbing(o, r, at)
    <3>1. Climbing(o, new, at)
      BY <2>1, <2>2 DEF Climbing
    <3> QED BY <1>4, <1>8, <3>1 DEF RowGood
  <2>3. CASE Untouched(o, r)
    <3>1. Untouched(Wrote(o), new)
      BY <1>2, <2>1, <2>3 DEF Untouched
    <3> QED BY <1>8, <3>1 DEF RowGood
  <2> QED BY <2>1, <2>2, <2>3 DEF RowGood
<1> QED BY <1>5, <1>6, <1>7, <1>8

\* What the others are going to write is in order for the row it has become.
LEMMA OthersPending ==
  ASSUME NEW at \in Nat, NEW o \in Overlaps(at), NEW r \in RowsBy(at), RowGood(o, r, at),
         NEW changes, Pending(o, changes, r, at),
         NEW new \in RowsBy(at), new = Update(r, changes),
         NEW others, Pending(o, others, r, at)
  PROVE  Pending(Wrote(o), others, new, at)
<1>1. /\ new.status = IF Writes(changes, "status") THEN changes.status ELSE r.status
      /\ new.epoch = IF Writes(changes, "epoch") THEN changes.epoch ELSE r.epoch
      /\ new.resumed = IF Writes(changes, "resumed") THEN changes.resumed ELSE r.resumed
  BY UpdateColumns
<1>2. /\ Wrote(o).since = o.since /\ Wrote(o).writes = o.writes + 1
      /\ Wrote(o) \in Overlaps(at) /\ o.since \in Nat /\ o.since <= at /\ o.writes \in Nat
  BY TopWrote, Tops
<1>3. Writes(others, "epoch") => Good(Wrote(o), others.epoch, at)
  BY GoodWrote DEF Pending
<1>4. Writes(others, "paused") /\ others.paused # Unset => Good(Wrote(o), others.paused, at)
  BY GoodWrote DEF Pending
<1>5. Writes(others, "resumed") => others.resumed \in Wrote(o).since .. at
  BY <1>2 DEF Pending
<1>6. ASSUME Rebases(others, new) PROVE Completes(Wrote(o), others, new, at)
  <2>1. CASE Rebases(others, r)
    <3>1. Completes(o, others, r, at)
      BY <2>1 DEF Pending
    <3>2. Writes(others, "epoch") \/ Good(o, new.epoch, at)
      BY <1>1, <3>1 DEF Completes, Pending
    <3>3. Writes(others, "resumed") \/ new.resumed >= o.since
      BY <1>1, <1>2, <3>1 DEF Completes, Pending
    <3> QED BY <1>2, <3>2, <3>3, GoodWrote DEF Completes
  <2>2. CASE ~Rebases(others, r)
    <3>1. r.status # "running" /\ new.status = "running"
      BY <1>6, <2>2 DEF Rebases
    <3>2. Rebases(changes, r)
      BY <1>1, <3>1 DEF Rebases
    <3>3. Good(o, new.epoch, at) /\ new.resumed >= o.since
      BY <3>2, Completed
    <3> QED BY <1>2, <3>3, GoodWrote DEF Completes
  <2> QED BY <2>1, <2>2
<1>7. ASSUME Writes(others, "status"), others.status # "running", ~Writes(others, "paused")
      PROVE  Frozen(Wrote(o), new, at)
  <2>1. Frozen(o, r, at)
    BY <1>7 DEF Pending
  <2> QED BY <2>1, FrozenKept
<1>8. Wrote(o).writes # 0
  BY <1>2
<1> QED BY <1>3, <1>4, <1>5, <1>6, <1>7, <1>8 DEF Pending

\* Time passes: all of it stays in order.
LEMMA LaterGood ==
  ASSUME NEW at \in Nat, NEW o \in Overlaps(at)
  PROVE  /\ \A v : Good(o, v, at) => Good(o, v, at + 1)
         /\ \A r : Frozen(o, r, at) => Frozen(o, r, at + 1)
         /\ \A r \in RowsBy(at) : Climbing(o, r, at) => Climbing(o, r, at + 1)
         /\ \A r \in RowsBy(at) : RowGood(o, r, at) => RowGood(o, r, at + 1)
<1>1. /\ Top(o, at) \in Nat /\ Top(o, at + 1) \in Nat /\ Fastest \in Nat
      /\ Top(o, at) + Fastest <= Top(o, at + 1) /\ o.from \in Nat
  BY Tops, FastestIsTop
<1>2. \A v : Good(o, v, at) => Good(o, v, at + 1)
  BY <1>1 DEF Good
<1>3. \A r : Frozen(o, r, at) => Frozen(o, r, at + 1)
  BY <1>2 DEF Frozen
<1>4. ASSUME NEW r \in RowsBy(at), Climbing(o, r, at) PROVE Climbing(o, r, at + 1)
  <2> DEFINE elapsed == at - r.resumed
  <2>1. elapsed \in Nat /\ (at + 1) - r.resumed = elapsed + 1 /\ r.epoch \in Nat
    BY DEF RowsBy
  <2>2. r.epoch + Fastest * elapsed <= Top(o, at)
    BY <1>4 DEF Climbing
  <2> HIDE DEF elapsed
  <2>3. Fastest * (elapsed + 1) = Fastest * elapsed + Fastest /\ Fastest * elapsed \in Nat
    BY <1>1, <2>1, Products
  <2>4. r.epoch + Fastest * ((at + 1) - r.resumed) <= Top(o, at + 1)
    BY <1>1, <2>1, <2>2, <2>3
  <2> QED BY <1>4, <2>4 DEF Climbing
<1> QED BY <1>2, <1>3, <1>4 DEF RowGood

LEMMA LaterPending ==
  ASSUME NEW at \in Nat, NEW o \in Overlaps(at), NEW r \in RowsBy(at), NEW changes,
         ChangesBy(changes, at), Pending(o, changes, r, at)
  PROVE  Pending(o, changes, r, at + 1)
<1>1. Update(r, changes) \in RowsBy(at)
  BY UpdateBy
<1>2. o.since \in Nat /\ \A x : x \in o.since .. at => x \in o.since .. at + 1
  BY Tops
<1>3. Completes(o, changes, r, at) => Completes(o, changes, r, at + 1)
  BY LaterGood DEF Completes
<1> QED BY <1>1, <1>2, <1>3, LaterGood DEF Pending

\* What a pass goes by stays in order through the writes of others and through time.
LEMMA PassKept ==
  ASSUME NEW at \in Nat, NEW o \in Overlaps(at), NEW p \in PassesBy(at), PassGood(o, p, at)
  PROVE  PassGood(Wrote(o), p, at) /\ PassGood(o, p, at + 1)
<1>1. CASE p.now = Unset
  <2>1. p.seen \in RowsBy(at) /\ RowGood(o, p.seen, at)
    BY <1>1, UnsetAssumption DEF PassesBy, PassGood
  <2> DEFINE r == p.seen
  <2>2. /\ Wrote(o).since = o.since /\ Wrote(o).from = o.from
        /\ Top(o, at) \in Nat /\ Top(Wrote(o), at) \in Nat
        /\ Top(o, at) <= Top(Wrote(o), at)
    BY Tops, TopWrote
  <2>3. Climbing(o, r, at) => Climbing(Wrote(o), r, at)
    <3> DEFINE climb == Fastest * (at - r.resumed)
    <3>1. r.epoch \in Nat /\ climb \in Int
      BY <2>1, FastestIsTop DEF RowsBy
    <3>2. Climbing(o, r, at) =>
            r.epoch >= o.from /\ r.resumed >= o.since /\ r.epoch + climb <= Top(o, at)
      BY DEF Climbing
    <3>3. r.epoch >= o.from /\ r.resumed >= o.since /\ r.epoch + climb <= Top(Wrote(o), at)
            => Climbing(Wrote(o), r, at)
      BY <2>2 DEF Climbing
    <3> HIDE DEF climb
    <3> QED BY <2>2, <3>1, <3>2, <3>3
  <2>4. Untouched(o, r) => Untouched(Wrote(o), r)
    BY <2>2 DEF Untouched
  <2>5. Frozen(o, r, at) => Frozen(Wrote(o), r, at)
    BY GoodWrote DEF Frozen
  <2>6. RowGood(Wrote(o), r, at) /\ RowGood(o, r, at + 1)
    BY <2>1, <2>3, <2>4, <2>5, LaterGood DEF RowGood
  <2> QED BY <1>1, <2>6 DEF PassGood
<1>2. CASE p.now # Unset
  BY <1>2, GoodWrote, LaterGood DEF PassGood
<1> QED BY <1>1, <1>2

\* The conductor's retirement, written as the changes it makes.
Retirement(now) == [col \in {"status", "paused"} |-> IF col = "status" THEN "done" ELSE now]

LEMMA RetirementPending ==
  ASSUME NEW at \in Nat, NEW o \in Overlaps(at), NEW r \in RowsBy(at),
         NEW now \in Nat, Good(o, now, at)
  PROVE  Pending(o, Retirement(now), r, at)
<1> DEFINE changes == Retirement(now)
<1>1. /\ Writes(changes, "status") /\ changes.status = "done"
      /\ Writes(changes, "paused") /\ changes.paused = now
      /\ ~Writes(changes, "epoch") /\ ~Writes(changes, "resumed") /\ ~Writes(changes, "speed")
  BY DEF Writes, Retirement
<1>2. now # Unset
  BY UnsetAssumption
<1>3. Update(r, changes).status = "done"
  BY <1>1, UpdateColumns
<1>4. Pending(o, changes, r, at)
  BY <1>1, <1>2, <1>3 DEF Pending, Rebases
<1> QED BY <1>4

LEMMA RetirementUpdates ==
  ASSUME NEW at \in Nat, NEW r \in RowsBy(at), NEW now,
         NEW new, new = [r EXCEPT !.status = "done", !.paused = now]
  PROVE  new = Update(r, Retirement(now))
<1>1. r = [col \in Columns |-> r[col]]
  BY DEF RowsBy, Columns
<1>2. new = [col \in Columns |-> IF col = "paused" THEN now
                                 ELSE IF col = "status" THEN "done" ELSE r[col]]
  BY <1>1 DEF Columns
<1>3. Update(r, Retirement(now)) = [col \in Columns |->
         IF col = "paused" THEN now ELSE IF col = "status" THEN "done" ELSE r[col]]
  BY DEF Update, Retirement, Columns
<1> QED BY <1>2, <1>3

\* Who reads the row in an overlap, or begins one, finds all of it in order.
LEMMA JoinedGood ==
  ASSUME TInv, OInv, NEW reopens \in BOOLEAN, NEW o, o = Joined(reopens), ~o.reopened
  PROVE  /\ ~reopens /\ wall \in Nat /\ row \in RowsBy(wall)
         /\ o \in Overlaps(wall) /\ RowGood(o, row, wall)
         /\ \A c \in Client : request[c] # Idle => Pending(o, request[c], row, wall)
         /\ pass # Idle => PassGood(o, pass, wall)
<1>1. wall \in Nat /\ row \in RowsBy(wall) /\ o \in Overlaps(wall)
  BY ControlBoundAssumption, JoinedBy DEF TInv, TimedRow
<1>2. CASE overlap = Unset
  <2>1. o = [since |-> wall, from |-> Now, writes |-> 0, reopened |-> reopens]
    BY <1>2 DEF Joined
  <2>2. o.since = wall /\ o.from = NowAt(row, wall) /\ o.reopened = reopens
    BY <2>1 DEF Now
  <2>3. RowGood(o, row, wall)
    BY <1>1, <2>2, FirstFinds
  <2>4. pass = Idle /\ \A c \in Client : request[c] = Idle
    BY <1>2 DEF TInv, Tracked
  <2> QED BY <1>1, <2>2, <2>3, <2>4
<1>3. CASE overlap # Unset
  <2>1. o = [overlap EXCEPT !.reopened = @ \/ reopens] /\ overlap \in Overlaps(wall)
    BY <1>3 DEF Joined, TInv, TimedRow
  <2>2. o.reopened = (overlap.reopened \/ reopens)
    BY <2>1 DEF Overlaps
  <2>3. ~reopens /\ ~overlap.reopened
    BY <2>2
  <2>4. o = overlap
    BY <2>1, <2>3 DEF Overlaps
  <2> QED BY <1>1, <1>3, <2>3, <2>4 DEF OInv
<1> QED BY <1>2, <1>3

\* What a commit does to the row, whoever's it is.
LEMMA Commits ==
  ASSUME TInv, OInv, (\E c \in Client : PatchWrite(c)) \/ Retire, ~overlap.reopened
  PROVE  /\ wall \in Nat /\ wall' = wall /\ row \in RowsBy(wall) /\ row' \in RowsBy(wall)
         /\ overlap # Unset /\ overlap \in Overlaps(wall) /\ RowGood(overlap, row, wall)
         /\ \E changes : Pending(overlap, changes, row, wall) /\ row' = Update(row, changes)
<1>1. /\ wall \in Nat /\ wall' = wall /\ row \in RowsBy(wall)
      /\ overlap # Unset /\ overlap \in Overlaps(wall)
  BY ControlBoundAssumption DEF TInv, Tracked, TimedRow, PatchWrite, Retire
<1>2. RowGood(overlap, row, wall)
  BY <1>1 DEF OInv
<1>3. \E changes : Pending(overlap, changes, row, wall) /\ row' = Update(row, changes)
  <2>1. CASE \E c \in Client : PatchWrite(c)
    <3>1. PICK c \in Client : PatchWrite(c)
      BY <2>1
    <3>2. row' = Update(row, request[c]) /\ request[c] # Idle
      BY <3>1 DEF PatchWrite
    <3> QED BY <1>1, <3>2 DEF OInv
  <2>2. CASE Retire
    <3>1. /\ pass # Idle /\ row' = [row EXCEPT !.status = "done", !.paused = pass.now]
      BY <2>2 DEF Retire
    <3>2. pass.now \in Nat /\ Good(overlap, pass.now, wall)
      BY <1>1, <2>2, <3>1, UnsetAssumption DEF Retire, OInv, TInv, TimedRow, PassesBy, PassGood
    <3>3. PICK now \in Nat : now = pass.now
      BY <3>2
    <3>4. Good(overlap, now, wall) /\ row' = [row EXCEPT !.status = "done", !.paused = now]
      BY <3>1, <3>2, <3>3
    <3>5. Pending(overlap, Retirement(now), row, wall)
      BY <1>1, <3>4, RetirementPending
    <3>6. row' = Update(row, Retirement(now))
      BY <1>1, <3>4, RetirementUpdates
    <3> QED BY <3>5, <3>6
  <2> QED BY <2>1, <2>2
<1>4. row' \in RowsBy(wall)
  <2>1. TimedRow'
    BY NextTimedRow DEF Next
  <2> QED BY <1>1, <2>1 DEF TimedRow
<1> QED BY <1>1, <1>2, <1>3, <1>4

LEMMA NextOInv == TInv /\ OInv /\ [Next]_vars => OInv'
<1> SUFFICES ASSUME TInv, OInv, [Next]_vars, (overlap # Unset /\ ~overlap.reopened)'
             PROVE  /\ RowGood(overlap, row, wall)'
                    /\ \A c \in Client : request'[c] # Idle =>
                          Pending(overlap', request'[c], row', wall')
                    /\ (pass # Idle => PassGood(overlap, pass, wall))'
  BY DEF OInv
<1>t. /\ request = [c \in Client |-> request[c]]
      /\ wall \in Nat /\ row \in RowsBy(wall)
  BY ControlBoundAssumption DEF TInv, IInv, TimedRow
<1>1. ASSUME NEW c \in Client, NEW status \in Statuses \cup {Unset},
             NEW speed \in Speed \cup {Unset}, PatchRead(c, status, speed)
      PROVE  /\ RowGood(overlap, row, wall)'
             /\ \A d \in Client : request'[d] # Idle =>
                   Pending(overlap', request'[d], row', wall')
             /\ (pass # Idle => PassGood(overlap, pass, wall))'
  <2> DEFINE reopens == row.status = "done" /\ status = "running"
             new     == Patched(row, status, speed, wall)
             o       == Joined(reopens)
  <2>1. /\ overlap' = o /\ new # row
        /\ request' = [request EXCEPT ![c] = Changes(row, new)]
        /\ UNCHANGED <<wall, row, pass>>
    BY <1>1 DEF PatchRead
  <2>2. reopens \in BOOLEAN /\ ~o.reopened
    BY <2>1
  <2>3. /\ ~reopens /\ o \in Overlaps(wall) /\ RowGood(o, row, wall)
        /\ \A d \in Client : request[d] # Idle => Pending(o, request[d], row, wall)
        /\ pass # Idle => PassGood(o, pass, wall)
    <3> HIDE DEF reopens
    <3> QED BY <2>2, JoinedGood
  <2> HIDE DEF new, o
  <2>4. Pending(o, Changes(row, new), row, wall)
    BY <1>t, <2>1, <2>3, RequestPending DEF new
  <2>5. \A d \in Client : request'[d] = IF d = c THEN Changes(row, new) ELSE request[d]
    BY <1>t, <2>1
  <2> QED BY <2>1, <2>3, <2>4, <2>5
<1>2. CASE PassRead
  <2>1. /\ overlap' = Joined(FALSE) /\ UNCHANGED <<wall, row, request>>
        /\ pass' = [seen |-> row, now |-> Unset, count |-> Unset]
    BY <1>2 DEF PassRead
  <2> DEFINE o == Joined(FALSE)
  <2>2. /\ o \in Overlaps(wall) /\ RowGood(o, row, wall)
        /\ \A d \in Client : request[d] # Idle => Pending(o, request[d], row, wall)
    BY <2>1, JoinedGood
  <2> HIDE DEF o
  <2>3. PassGood(o, pass', wall)
    BY <2>1, <2>2 DEF PassGood
  <2> QED BY <2>1, <2>2, <2>3 DEF o
<1>9. CASE PassClock
  <2>1. /\ pass.now = Unset /\ pass.seen \in RowsBy(wall)
        /\ pass' = [seen |-> Unset, now |-> NowAt(pass.seen, wall), count |-> Unset]
        /\ UNCHANGED <<wall, row, request, overlap>>
    BY <1>9, UnsetAssumption DEF PassClock, rowVars, TInv, TimedRow, PassesBy
  <2>2. overlap \in Overlaps(wall) /\ RowGood(overlap, pass.seen, wall)
    BY <1>9, <2>1 DEF PassClock, OInv, PassGood, TInv, TimedRow
  <2>3. Good(overlap, pass'.now, wall) /\ pass'.now # Unset
    BY <1>t, <2>1, <2>2, ReadingGood, NowNat, UnsetAssumption
  <2> QED BY <2>1, <2>3 DEF OInv, PassGood
<1>3. CASE (\E c \in Client : PatchWrite(c)) \/ Retire
  <2>1. overlap' = Left(1)
    BY <1>3 DEF PatchWrite, Retire
  <2>2. overlap' = Wrote(overlap)
    BY <2>1 DEF Left, Wrote
  <2>3. overlap \in Overlaps(wall) \/ overlap = Unset
    BY DEF TInv, TimedRow
  <2>4. overlap # Unset
    BY <1>3 DEF PatchWrite, Retire, TInv, Tracked
  <2>5. ~overlap.reopened
    BY <1>t, <2>2, <2>3, <2>4, TopWrote
  <2>6. /\ wall' = wall /\ row' \in RowsBy(wall)
        /\ overlap \in Overlaps(wall) /\ RowGood(overlap, row, wall)
        /\ \E changes : Pending(overlap, changes, row, wall) /\ row' = Update(row, changes)
    BY <1>3, <2>5, Commits
  <2>7. PICK changes : Pending(overlap, changes, row, wall) /\ row' = Update(row, changes)
    BY <2>6
  <2>8. RowGood(Wrote(overlap), row', wall)
    BY <1>t, <2>6, <2>7, CommittedRow
  <2>9. ASSUME NEW d \in Client, request'[d] # Idle
        PROVE  Pending(Wrote(overlap), request'[d], row', wall)
    <3>1. request'[d] = request[d]
      BY <1>3, <1>t, <2>9 DEF PatchWrite, Retire
    <3>2. Pending(overlap, request[d], row, wall)
      BY <2>4, <2>5, <2>9, <3>1 DEF OInv
    <3> QED BY <1>t, <2>6, <2>7, <3>1, <3>2, OthersPending
  <2>10. pass' # Idle => PassGood(Wrote(overlap), pass', wall)
    <3>1. pass' # Idle => pass' = pass
      BY <1>3 DEF PatchWrite, Retire
    <3>2. pass # Idle => pass \in PassesBy(wall) /\ PassGood(overlap, pass, wall)
      BY <2>4, <2>5 DEF OInv, TInv, TimedRow
    <3> QED BY <1>t, <2>3, <2>4, <3>1, <3>2, PassKept
  <2> QED BY <2>2, <2>6, <2>8, <2>9, <2>10
<1>4. CASE EndPass
  <2>1. /\ overlap' = Left(0) /\ pass' = Idle /\ UNCHANGED <<wall, row, request>>
    BY <1>4 DEF EndPass
  <2>2. overlap # Unset /\ overlap \in Overlaps(wall)
    BY <1>4 DEF EndPass, TInv, Tracked, TimedRow
  <2>3. overlap' = overlap
    BY <2>1, <2>2 DEF Left, Overlaps
  <2> QED BY <2>1, <2>3 DEF OInv
<1>5. CASE ReadGauges
  <2>1. pass # Idle /\ pass' = [pass EXCEPT !.count = backlog]
        /\ UNCHANGED <<wall, row, request, overlap>>
    BY <1>5 DEF ReadGauges, rowVars
  <2>2. pass'.now = pass.now /\ pass'.seen = pass.seen
    BY <2>1 DEF TInv, TimedRow, PassesBy
  <2> QED BY <2>1, <2>2 DEF OInv, PassGood
<1>6. CASE Elapse
  <2>1. wall' = wall + 1 /\ UNCHANGED <<row, request, overlap, pass>>
    BY <1>6 DEF Elapse, rowVars
  <2>2. /\ overlap \in Overlaps(wall)
        /\ \A c \in Client : request[c] # Idle => ChangesBy(request[c], wall)
    BY <2>1 DEF TInv, TimedRow
  <2>3. RowGood(overlap, row, wall + 1)
    BY <1>t, <2>1, <2>2, LaterGood DEF OInv
  <2>4. \A c \in Client : request[c] # Idle => Pending(overlap, request[c], row, wall + 1)
    BY <1>t, <2>1, <2>2, LaterPending DEF OInv
  <2>5. pass # Idle => PassGood(overlap, pass, wall + 1)
    BY <1>t, <2>1, <2>2, PassKept DEF OInv, TInv, TimedRow
  <2> QED BY <2>1, <2>3, <2>4, <2>5
<1>7. CASE UNCHANGED <<wall, row, request, pass, overlap>>
  BY <1>7 DEF OInv
<1>8. \/ \E c \in Client, status \in Statuses \cup {Unset}, speed \in Speed \cup {Unset} :
              PatchRead(c, status, speed)
      \/ PassRead \/ (\E c \in Client : PatchWrite(c)) \/ Retire
      \/ EndPass \/ PassClock \/ ReadGauges \/ Elapse \/ UNCHANGED <<wall, row, request, pass, overlap>>
  BY DEF Next, Settle, PostRead, PostCommit, TickRead, TickCommit, TickFails, Forget,
         vars, rowVars
<1> QED BY <1>1, <1>2, <1>3, <1>4, <1>5, <1>6, <1>7, <1>8, <1>9

\* A rewrite of the clock by one of several who overlap sets virtual time neither
\* back behind where it was as they began nor further on than what can run by in
\* the meantime, once for each write: for every number of requests and speeds.
THEOREM ShiftBounded == Spec => ShiftWithinOverlap
<1>1. Init => TInv /\ OInv
  BY InitTInv DEF Init, OInv
<1>2. TInv /\ OInv /\ [Next]_vars => (TInv /\ OInv)'
  BY NextTInv, NextOInv
<1>3. TInv /\ OInv /\ [Next]_vars =>
        [row' # row /\ ~overlap.reopened =>
            /\ Now' >= overlap.from
            /\ Shift <= (overlap.writes + 1) * (Fastest * (wall - overlap.since))]_vars
  <2> SUFFICES ASSUME TInv, OInv, Next, row' # row, ~overlap.reopened
               PROVE  /\ Now' >= overlap.from
                      /\ Shift <= (overlap.writes + 1) * (Fastest * (wall - overlap.since))
    BY DEF vars, rowVars
  <2>1. (\E c \in Client : PatchWrite(c)) \/ Retire
    BY DEF Next, PatchRead, PassRead, PassClock, ReadGauges, EndPass, Settle, PostRead, PostCommit,
           TickRead, TickCommit, TickFails, Forget, Elapse, rowVars
  <2> DEFINE o == Wrote(overlap)
  <2>2. /\ wall \in Nat /\ wall' = wall /\ row \in RowsBy(wall) /\ row' \in RowsBy(wall)
        /\ overlap \in Overlaps(wall) /\ RowGood(overlap, row, wall)
        /\ \E changes : Pending(overlap, changes, row, wall) /\ row' = Update(row, changes)
    BY <2>1, Commits
  <2>3. RowGood(o, row', wall)
    BY <2>2, CommittedRow
  <2>4. /\ o \in Overlaps(wall) /\ o.from = overlap.from /\ o.from \in Nat
        /\ Top(overlap, wall) <= Top(o, wall)
        /\ Top(o, wall) = overlap.from + (overlap.writes + 1) * Span(overlap, wall)
        /\ Top(overlap, wall) \in Nat /\ Top(o, wall) \in Nat
    BY <2>2, Tops, TopWrote
  <2> HIDE DEF o
  <2>5. Good(overlap, NowAt(row, wall), wall) /\ Good(o, NowAt(row', wall), wall)
    BY <2>2, <2>3, <2>4, ReadingGood
  <2> DEFINE bound == (overlap.writes + 1) * Span(overlap, wall)
             old   == NowAt(row, wall)
             new   == NowAt(row', wall)
  <2>6. bound \in Nat
    BY <2>2, Tops, Products
  <2>7. /\ old \in Int /\ new \in Int /\ overlap.from <= old /\ overlap.from <= new
        /\ old <= overlap.from + bound /\ new <= overlap.from + bound
    BY <2>4, <2>5, <2>6 DEF Good
  <2>8. Now' = new /\ Shift = Distance(new, old)
    BY <2>2 DEF Now, Shift
  <2>9. bound = (overlap.writes + 1) * (Fastest * (wall - overlap.since))
    BY DEF Span
  <2> HIDE DEF bound, old, new
  <2>10. Distance(new, old) <= bound
    BY <2>4, <2>6, <2>7 DEF Distance
  <2> QED BY <2>4, <2>7, <2>8, <2>9, <2>10
<1> QED BY <1>1, <1>2, <1>3, PTL DEF Spec, ShiftWithinOverlap
=============================================================================
