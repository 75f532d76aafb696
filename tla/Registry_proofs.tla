---------------------------- MODULE Registry_proofs ----------------------------
(***************************************************************************)
(* A process that is up has its row, and one that left stays gone, for any *)
(* services, any windows and any number of restarts and mishaps.           *)
(***************************************************************************)
EXTENDS Registry, TLAPS

Up(s) == phase[s] \in {"running", "closing"}

\* Only conductors lead, in their memory and in a heartbeat under way.
Kinds == \A s \in Service : leads[s] \/ beat[s] = "leader" => s \in Conductor

\* What has been started has an id, what beats is up, what iterates is running.
Alive ==
    \A s \in Service : /\ phase[s] # "down" => boots[s] >= 1
                       /\ Beating(s) => Up(s)
                       /\ busy[s] => phase[s] = "running"

\* A process that is up has its row, which has not been left without a heartbeat
\* for longer than Late.
Fresh == \A s \in Service : Up(s) => pid(s) \in rows /\ age[pid(s)] <= Late

\* What has deregistered is out of the window, if it still has a row, wears no
\* badge, and is not the process that its service has up.
Gone ==
    \A i \in left :
        /\ ~badge[i] /\ (i \in rows => age[i] >= Window)
        /\ i[2] <= boots[i[1]]
        /\ boots[i[1]] = i[2] => phase[i[1]] = "stopped"

IInv == TypeOK /\ Kinds /\ Alive /\ Fresh /\ Gone

LEMMA InitIInv == Init => IInv
<1> SUFFICES ASSUME Init PROVE IInv
  OBVIOUS
<1>1. TypeOK
  BY TimesAssumption, BoundsAssumption DEF Init, TypeOK, Phases, Beats
<1> QED BY <1>1 DEF Init, IInv, Kinds, Alive, Beating, Up, Fresh, Gone

\* The id of a process that has been started.
LEMMA Pid ==
  ASSUME IInv, NEW s \in Service, phase[s] # "down"
  PROVE  /\ pid(s) \in Id /\ pid(s)[1] = s /\ pid(s)[2] = boots[s]
         /\ boots[s] \in 1 .. BootBound
         /\ pid(s) \in left => phase[s] = "stopped"
<1>1. boots[s] \in 1 .. BootBound
  BY BoundsAssumption DEF IInv, TypeOK, Alive
<1>2. pid(s) \in Id /\ pid(s)[1] = s /\ pid(s)[2] = boots[s]
  BY <1>1 DEF pid, Id
<1> QED BY <1>1, <1>2 DEF IInv, Gone

\* A step of a process that does not touch the table, and takes none up.
LEMMA ProcessStep ==
  ASSUME IInv, UNCHANGED <<tableVars, boots, left>>,
         phase' \in [Service -> Phases], stop' \in [Service -> BOOLEAN],
         crash' \in [Service -> BOOLEAN], leads' \in [Service -> BOOLEAN],
         busy' \in [Service -> BOOLEAN], beat' \in [Service -> Beats],
         seen' \in [Service -> -1 .. Grace], mishaps' \in 0 .. MishapBound,
         Kinds', Alive',
         \A s \in Service : /\ Up(s)' => Up(s)
                            /\ phase[s] = "stopped" => phase'[s] = "stopped"
  PROVE  IInv'
<1> USE DEF IInv, tableVars
<1>1. TypeOK'
  BY DEF TypeOK
<1>2. Fresh'
  BY DEF Fresh, pid
<1>3. Gone'
  <2>1. \A i \in left : i[1] \in Service
    BY DEF TypeOK, Id
  <2> QED BY <2>1 DEF Gone
<1> QED BY <1>1, <1>2, <1>3

\* The steps of a process that is up or comes up, apart from the table.
LEMMA LocalStep ==
  ASSUME IInv, NEW s \in Service,
         \/ StartBeat(s) \/ LoseBeat(s) \/ Fail(s) \/ Signal(s) \/ Drained(s) \/ GiveUp(s)
         \/ Begin(s) /\ ~Exit(s)
         \/ End(s) /\ ~Exit(s)
  PROVE  IInv'
<1> USE DEF IInv
<1>1. /\ UNCHANGED <<tableVars, boots, left>>
      /\ phase' \in [Service -> Phases] /\ stop' \in [Service -> BOOLEAN]
      /\ crash' \in [Service -> BOOLEAN] /\ leads' \in [Service -> BOOLEAN]
      /\ busy' \in [Service -> BOOLEAN] /\ beat' \in [Service -> Beats]
  BY DEF StartBeat, LoseBeat, Fail, Signal, Drained, GiveUp, Begin, End, Die, TypeOK,
         Phases, Beats, historyVars
<1>2. seen' \in [Service -> -1 .. Grace] /\ mishaps' \in 0 .. MishapBound
  BY TimesAssumption, BoundsAssumption
     DEF StartBeat, LoseBeat, Fail, Signal, Drained, GiveUp, Begin, End, Die, TypeOK,
         historyVars, Mishap
<1>3. \A t \in Service : /\ t # s => phase'[t] = phase[t] /\ beat'[t] = beat[t] /\ leads'[t] = leads[t]
                         /\ phase[t] = "stopped" => phase'[t] = "stopped"
                         /\ Up(t)' => Up(t)
                         /\ phase[t] = "down" => phase'[t] = "down"
                         /\ busy'[t] => phase'[t] = "running"
  BY DEF StartBeat, LoseBeat, Fail, Signal, Drained, GiveUp, Begin, End, Die, TypeOK, Up,
         Beating, Alive
<1>4. /\ leads'[s] => leads[s] \/ s \in Conductor
      /\ beat'[s] = "leader" => beat[s] = "leader" \/ leads[s]
      /\ Beating(s)' => (Beating(s) \/ StartBeat(s)) /\ (Up(s) => Up(s)')
      /\ StartBeat(s) => Up(s)
  BY DEF StartBeat, LoseBeat, Fail, Signal, Drained, GiveUp, Begin, End, Die, TypeOK, Up,
         Beating
<1>5. Kinds'
  BY <1>3, <1>4 DEF Kinds
<1>6. Alive'
  BY <1>1, <1>3, <1>4 DEF Alive, Beating, Up
<1> QED BY <1>1, <1>2, <1>3, <1>5, <1>6, ProcessStep

\* A fresh id: no row, no badge and no history are its own yet.
LEMMA StartStep == ASSUME IInv, NEW s \in Service, Start(s) PROVE IInv'
<1> USE DEF IInv, Start
<1>1. boots' \in [Service -> 0 .. BootBound] /\ phase' \in [Service -> Phases]
  BY BoundsAssumption DEF TypeOK, Phases
<1>2. \A t \in Service : boots[t] <= boots'[t] /\ (t # s => boots'[t] = boots[t] /\ phase'[t] = phase[t])
  BY BoundsAssumption DEF TypeOK
<1>3. phase'[s] = "booting" /\ boots'[s] >= 1 /\ ~Up(s) /\ ~Beating(s) /\ boots'[s] = boots[s] + 1
  BY BoundsAssumption DEF TypeOK, Alive, Up
<1>4. \A i \in Id : i[1] \in Service /\ i[2] \in Int
  BY DEF Id
<1>5. rows \subseteq {i \in Id : i[2] <= boots'[i[1]]}
  <2> SUFFICES ASSUME NEW i \in rows PROVE i \in Id /\ i[2] <= boots'[i[1]]
    BY DEF tableVars
  <2>1. i \in Id /\ i[2] <= boots[i[1]] /\ i[1] \in Service /\ i[2] \in Int
    BY <1>4 DEF TypeOK
  <2>2. boots[i[1]] \in Int /\ boots'[i[1]] \in Int
    BY <1>1, <2>1, BoundsAssumption DEF TypeOK
  <2> QED BY <1>2, <2>1, <2>2
<1>6. TypeOK'
  BY <1>1, <1>5 DEF TypeOK, tableVars, historyVars
<1>7. Kinds' /\ Alive'
  BY <1>2, <1>3 DEF Kinds, Alive, Beating, Up
<1>8. Fresh'
  <2>1. \A t \in Service : Up(t)' => t # s /\ Up(t)
    BY <1>2, <1>3 DEF Up
  <2> QED BY <1>2, <2>1 DEF Fresh, pid, tableVars
<1>9. Gone'
  <2> SUFFICES ASSUME NEW i \in left
               PROVE  /\ ~badge[i] /\ (i \in rows => age[i] >= Window)
                      /\ i[2] <= boots'[i[1]]
                      /\ boots'[i[1]] = i[2] => phase'[i[1]] = "stopped"
    BY DEF Gone, tableVars, historyVars
  <2>1. i[1] \in Service /\ i[2] \in Int /\ boots[i[1]] \in Int
    BY <1>4, BoundsAssumption DEF TypeOK
  <2> QED BY <1>2, <1>3, <2>1 DEF Gone
<1> QED BY <1>6, <1>7, <1>8, <1>9

\* Registering takes no row of a process that is up, and gives none to one that
\* has left.
LEMMA InsertStep ==
  ASSUME IInv, NEW s \in Service, Register(s) \/ RegisterUnanswered(s)
  PROVE  IInv'
<1> USE DEF IInv
<1> DEFINE i    == pid(s)
           kept == {j \in rows : ~Prunable(j)}
<1>1. phase[s] = "booting" /\ i \in Id /\ i[1] = s /\ i[2] = boots[s] /\ i \notin left
  BY Pid DEF Register, RegisterUnanswered
<1>2. /\ rows' = kept \cup {i}
      /\ age' = [j \in Id |-> IF j \in kept THEN age[j] ELSE 0]
      /\ badge' = [j \in Id |-> j \in kept /\ badge[j]]
      /\ doomed' = [j \in Id |-> j \in kept /\ doomed[j]]
      /\ i \notin kept
      /\ UNCHANGED <<boots, stop, crash, leads, beat, busy, seen, left>>
  BY DEF Register, RegisterUnanswered, Inserted, processVars, historyVars
<1>3. /\ phase' \in [Service -> Phases] /\ mishaps' \in 0 .. MishapBound
      /\ \A t \in Service : t # s => phase'[t] = phase[t]
      /\ phase'[s] \in {"booting", "running"}
  BY BoundsAssumption
     DEF Register, RegisterUnanswered, TypeOK, Phases, Mishap, processVars, historyVars
<1> HIDE DEF i
<1>4. kept \subseteq rows /\ rows \subseteq Id /\ boots[s] <= boots[s]
  BY BoundsAssumption DEF TypeOK
<1>5. TypeOK'
  <2>1. rows' \subseteq {j \in Id : j[2] <= boots'[j[1]]}
    BY <1>1, <1>2, <1>4 DEF TypeOK
  <2>2. age' \in [Id -> 0 .. PruneAge + 1]
    BY <1>2, TimesAssumption DEF TypeOK
  <2>3. badge' \in [Id -> BOOLEAN] /\ doomed' \in [Id -> BOOLEAN]
    BY <1>2 DEF TypeOK
  <2>4. \A j \in Id : badge'[j] => j[1] \in Conductor
    BY <1>2 DEF TypeOK
  <2> QED BY <1>2, <1>3, <2>1, <2>2, <2>3, <2>4 DEF TypeOK
<1>6. Kinds' /\ Alive'
  BY <1>1, <1>2, <1>3 DEF Kinds, Alive, Beating, Up
<1>7. ASSUME NEW t \in Service, Up(t)' PROVE pid(t) \in rows' /\ age'[pid(t)] <= Late
  <2>1. CASE t = s
    BY <1>1, <1>2, <2>1, TimesAssumption DEF i
  <2>2. CASE t # s
    <3>1. Up(t) /\ pid(t) \in rows /\ age[pid(t)] <= Late
      BY <1>3, <1>7, <2>2 DEF Up, Fresh
    <3>2. pid(t) \in kept /\ pid(t) \in Id
      BY <1>4, <3>1, TimesAssumption DEF Prunable, TypeOK
    <3> QED BY <1>2, <3>1, <3>2
  <2> QED BY <2>1, <2>2
<1>8. Fresh'
  BY <1>2, <1>7 DEF Fresh, pid
<1>9. Gone'
  <2> SUFFICES ASSUME NEW j \in left
               PROVE  /\ ~badge'[j] /\ (j \in rows' => age'[j] >= Window)
                      /\ j[2] <= boots[j[1]]
                      /\ boots[j[1]] = j[2] => phase'[j[1]] = "stopped"
    BY <1>2 DEF Gone
  <2>1. j \in Id /\ j # i
    BY <1>1 DEF TypeOK
  <2>2. ~badge'[j] /\ (j \in rows' => age'[j] >= Window)
    BY <1>2, <2>1 DEF Gone
  <2>3. phase[j[1]] = "stopped" => phase'[j[1]] = "stopped"
    <3>1. j[1] \in Service
      BY <2>1 DEF Id
    <3> QED BY <1>1, <1>3, <3>1
  <2> QED BY <2>2, <2>3 DEF Gone
<1> QED BY <1>5, <1>6, <1>8, <1>9

\* A heartbeat that gets through is of a process that is up.
LEMMA BeatStep == ASSUME IInv, NEW s \in Service, Beat(s) PROVE IInv'
<1> USE DEF IInv
<1> DEFINE i == pid(s)
<1>1. /\ Up(s) /\ i \in Id /\ i[1] = s /\ i[2] = boots[s] /\ i \notin left /\ i \in rows
      /\ age[i] <= Late
  BY Pid DEF Beat, Alive, Up, Fresh
<1>2. /\ age' = [age EXCEPT ![i] = 0] /\ badge' = [badge EXCEPT ![i] = beat[s] = "leader"]
      /\ crash' \in [Service -> BOOLEAN]
      /\ beat' = [beat EXCEPT ![s] = "asleep"]
      /\ UNCHANGED <<rows, doomed, phase, boots, stop, leads, busy, seen, historyVars>>
  BY <1>1 DEF Beat, Stamped, TypeOK
<1> HIDE DEF i
<1>3. TypeOK'
  <2>0. 0 \in 0 .. PruneAge + 1
    BY TimesAssumption
  <2>1. age' \in [Id -> 0 .. PruneAge + 1]
    BY <1>2, <2>0 DEF TypeOK
  <2>2. badge' \in [Id -> BOOLEAN] /\ \A j \in Id : badge'[j] => j[1] \in Conductor
    BY <1>1, <1>2 DEF TypeOK, Kinds
  <2>3. beat' \in [Service -> Beats]
    BY <1>2 DEF TypeOK, Beats
  <2> QED BY <1>2, <2>1, <2>2, <2>3 DEF TypeOK, historyVars
<1>4. Kinds' /\ Alive'
  BY <1>2 DEF Kinds, Alive, Beating, Up, TypeOK
<1>5. Fresh'
  <2>1. \A j \in Id : age'[j] \in {age[j], 0}
    BY <1>2 DEF TypeOK
  <2>2. \A t \in Service : Up(t) => pid(t) \in Id
    BY Pid DEF Up
  <2> QED BY <1>2, <2>1, <2>2, TimesAssumption DEF Fresh, pid, Up
<1>6. Gone'
  <2>1. \A j \in left : j \in Id /\ age'[j] = age[j] /\ badge'[j] = badge[j]
    BY <1>1, <1>2 DEF TypeOK
  <2> QED BY <1>2, <2>1 DEF Gone, historyVars
<1> QED BY <1>3, <1>4, <1>5, <1>6

\* A process that is gone at once, its last heartbeat written or not.
LEMMA ExitStep ==
  ASSUME IInv, NEW s \in Service, phase[s] \notin {"down", "stopped"}, Exit(s),
         mishaps' \in 0 .. MishapBound
  PROVE  IInv'
<1> USE DEF IInv
<1> DEFINE i == pid(s)
<1>1. i \in Id /\ i[1] = s /\ i[2] = boots[s] /\ i \notin left
  BY Pid
<1>2. /\ UNCHANGED <<rows, doomed, boots, stop, left>>
      /\ phase' = [phase EXCEPT ![s] = IF stop[s] THEN "stopped" ELSE "down"]
      /\ leads' = [leads EXCEPT ![s] = FALSE] /\ crash' = [crash EXCEPT ![s] = FALSE]
      /\ beat' = [beat EXCEPT ![s] = "due"] /\ busy' = [busy EXCEPT ![s] = FALSE]
      /\ seen' = [seen EXCEPT ![s] = -1]
  BY DEF Exit
<1>3. \/ UNCHANGED <<age, badge>>
      \/ /\ age' = [age EXCEPT ![i] = 0] /\ badge' = [badge EXCEPT ![i] = beat[s] = "leader"]
  <2>1. Beating(s) => i \in rows
    BY DEF Alive, Fresh
  <2> QED BY <2>1 DEF Exit, Stamped
<1> HIDE DEF i
<1>4. age' \in [Id -> 0 .. PruneAge + 1] /\ \A j \in Id : age'[j] \in {age[j], 0}
  BY <1>3, TimesAssumption DEF TypeOK
<1>5. badge' \in [Id -> BOOLEAN] /\ \A j \in Id : badge'[j] => j[1] \in Conductor
  BY <1>1, <1>3 DEF TypeOK, Kinds
<1>6. TypeOK'
  <2>1. /\ phase' \in [Service -> Phases] /\ leads' \in [Service -> BOOLEAN]
        /\ crash' \in [Service -> BOOLEAN] /\ busy' \in [Service -> BOOLEAN]
        /\ beat' \in [Service -> Beats]
    BY <1>2 DEF TypeOK, Phases, Beats
  <2>2. seen' \in [Service -> -1 .. Grace]
    BY <1>2, TimesAssumption DEF TypeOK
  <2> QED BY <1>2, <1>4, <1>5, <2>1, <2>2 DEF TypeOK
<1>7. Kinds' /\ Alive'
  BY <1>2 DEF Kinds, Alive, Beating, Up, TypeOK
<1>8. Fresh'
  <2>1. \A t \in Service : Up(t)' => Up(t) /\ pid(t) \in Id
    BY <1>2, Pid DEF Up, TypeOK
  <2> QED BY <1>2, <1>4, <2>1, TimesAssumption DEF Fresh, pid
<1>9. Gone'
  <2> SUFFICES ASSUME NEW j \in left
               PROVE  /\ ~badge'[j] /\ (j \in rows => age'[j] >= Window)
                      /\ j[2] <= boots[j[1]]
                      /\ boots[j[1]] = j[2] => phase'[j[1]] = "stopped"
    BY <1>2 DEF Gone
  <2>1. j \in Id /\ j # i /\ j[1] \in Service /\ age'[j] = age[j] /\ badge'[j] = badge[j]
    BY <1>1, <1>3 DEF TypeOK, Id
  <2>2. phase[j[1]] = "stopped" => phase'[j[1]] = "stopped"
    BY <1>2, <2>1 DEF TypeOK
  <2> QED BY <2>1, <2>2 DEF Gone
<1> QED BY <1>6, <1>7, <1>8, <1>9

LEMMA KillStep == ASSUME IInv, NEW i \in Id, Kill(i) PROVE IInv'
<1> USE DEF IInv, Kill
<1>1. doomed' \in [Id -> BOOLEAN] /\ mishaps' \in 0 .. MishapBound
  BY BoundsAssumption DEF TypeOK, Mishap
<1>2. TypeOK' /\ Kinds' /\ Alive'
  BY <1>1 DEF TypeOK, Kinds, Alive, Beating, Up, processVars
<1>3. Fresh' /\ Gone'
  BY DEF Fresh, Gone, pid, Up, processVars
<1> QED BY <1>2, <1>3

\* The row is aged past the window, and its process is not up any more.
LEMMA DeregisterStep == ASSUME IInv, NEW s \in Service, Deregister(s) PROVE IInv'
<1> USE DEF IInv
<1> DEFINE i == pid(s)
<1>1. i \in Id /\ i[1] = s /\ i[2] = boots[s] /\ boots[s] \in Int /\ i \notin left
  BY Pid DEF Deregister
<1>2. /\ UNCHANGED <<rows, doomed, boots, stop, crash, leads, beat, busy, seen, mishaps>>
      /\ phase' = [phase EXCEPT ![s] = "stopped"] /\ phase[s] = "closing" /\ ~Beating(s)
      /\ \/ UNCHANGED <<age, badge, left>>
         \/ /\ age' = [age EXCEPT ![i] = Backdated]
            /\ badge' = [badge EXCEPT ![i] = FALSE] /\ left' = left \cup {i}
  BY DEF Deregister
<1> HIDE DEF i
<1>3. Backdated \in 0 .. PruneAge + 1 /\ Backdated >= Window
  BY TimesAssumption DEF Backdated
<1>4. TypeOK'
  <2>1. phase' \in [Service -> Phases]
    BY <1>2 DEF TypeOK, Phases
  <2>2. age' \in [Id -> 0 .. PruneAge + 1]
    BY <1>2, <1>3 DEF TypeOK
  <2>3. /\ badge' \in [Id -> BOOLEAN] /\ \A j \in Id : badge'[j] => badge[j]
        /\ left' \subseteq Id
    BY <1>1, <1>2 DEF TypeOK
  <2> QED BY <1>2, <2>1, <2>2, <2>3 DEF TypeOK
<1>5. Kinds' /\ Alive'
  BY <1>2 DEF Kinds, Alive, Beating, Up, TypeOK
<1>6. Fresh'
  <2> SUFFICES ASSUME NEW t \in Service, Up(t)' PROVE pid(t) \in rows /\ age'[pid(t)] <= Late
    BY <1>2 DEF Fresh, pid
  <2>1. t # s /\ Up(t)
    BY <1>2 DEF Up, TypeOK
  <2>2. pid(t) \in Id /\ pid(t) # i
    BY <1>1, <2>1, Pid DEF Up
  <2> QED BY <1>2, <2>1, <2>2 DEF Fresh, TypeOK
<1>7. Gone'
  <2> SUFFICES ASSUME NEW j \in left'
               PROVE  /\ ~badge'[j] /\ (j \in rows => age'[j] >= Window)
                      /\ j[2] <= boots[j[1]]
                      /\ boots[j[1]] = j[2] => phase'[j[1]] = "stopped"
    BY <1>2 DEF Gone
  <2>1. CASE j = i
    <3>1. age'[i] = Backdated /\ badge'[i] = FALSE
      BY <1>1, <1>2, <2>1 DEF TypeOK
    <3>2. phase'[s] = "stopped"
      BY <1>2 DEF TypeOK
    <3> QED BY <1>1, <1>3, <2>1, <3>1, <3>2
  <2>2. CASE j # i
    <3>1. j \in left /\ j \in Id /\ j[1] \in Service
      BY <1>2, <2>2 DEF TypeOK, Id
    <3>2. age'[j] = age[j] /\ badge'[j] = badge[j]
      BY <1>2, <2>2, <3>1 DEF TypeOK
    <3>3. phase[j[1]] = "stopped" => phase'[j[1]] = "stopped"
      BY <1>2, <3>1 DEF TypeOK
    <3> QED BY <3>1, <3>2, <3>3 DEF Gone
  <2> QED BY <2>1, <2>2
<1> QED BY <1>4, <1>5, <1>6, <1>7

\* Rows grow older, those of processes that are up no older than Late.
LEMMA TickStep == ASSUME IInv, Tick PROVE IInv'
<1> USE DEF IInv
<1>1. /\ age' = [i \in Id |-> IF i \in rows /\ age[i] <= PruneAge THEN age[i] + 1 ELSE age[i]]
      /\ beat' = [t \in Service |-> "due"]
      /\ UNCHANGED <<rows, badge, doomed, phase, boots, stop, crash, leads, busy, historyVars>>
  BY DEF Tick
<1>2. \A i \in Id : age[i] \in Int /\ age[i] >= 0 /\ age[i] <= PruneAge + 1
  BY TimesAssumption DEF TypeOK
<1>3. TypeOK'
  <2>1. age' \in [Id -> 0 .. PruneAge + 1]
    <3>1. PruneAge \in Int
      BY TimesAssumption
    <3> QED BY <1>1, <1>2, <3>1
  <2>2. seen' \in [Service -> -1 .. Grace]
    BY TimesAssumption DEF Tick, TypeOK
  <2>3. beat' \in [Service -> Beats]
    BY <1>1 DEF Beats
  <2> QED BY <1>1, <2>1, <2>2, <2>3 DEF TypeOK, historyVars
<1>4. Kinds' /\ Alive'
  BY <1>1 DEF Kinds, Alive, Beating, Up
<1>5. Fresh'
  <2> SUFFICES ASSUME NEW t \in Service, Up(t) PROVE pid(t) \in rows /\ age'[pid(t)] <= Late
    BY <1>1 DEF Fresh, pid, Up
  <2>1. pid(t) \in Id /\ pid(t) \in rows
    BY Pid DEF Fresh, Up
  <2>2. age[pid(t)] < Late /\ Late \in Int
    BY TimesAssumption DEF Tick, Up
  <2> QED BY <1>1, <1>2, <2>1, <2>2
<1>6. Gone'
  <2>1. \A i \in left : i \in Id /\ (i \in rows => age'[i] >= age[i])
    BY <1>1, <1>2 DEF TypeOK
  <2>2. \A i \in Id : age'[i] \in Int
    BY <1>1, <1>2
  <2> QED BY <1>1, <1>2, <2>1, <2>2, TimesAssumption DEF Gone, historyVars
<1> QED BY <1>3, <1>4, <1>5, <1>6

LEMMA NextStep == ASSUME IInv, [Next]_vars PROVE IInv'
<1>1. ASSUME NEW s \in Service, Begin(s) \/ Claim(s) \/ End(s) \/ Crash(s) PROVE IInv'
  <2>1. CASE Exit(s)
    <3>1. phase[s] \notin {"down", "stopped"}
      BY <1>1 DEF Begin, Claim, End, Crash, IInv, Alive
    <3>2. mishaps' \in 0 .. MishapBound
      BY <1>1, BoundsAssumption
         DEF Begin, Claim, End, Crash, Die, Mishap, historyVars, IInv, TypeOK
    <3> QED BY <2>1, <3>1, <3>2, ExitStep
  <2>2. CASE ~Exit(s)
    BY <1>1, <2>2, LocalStep DEF Claim, Crash, Die
  <2> QED BY <2>1, <2>2
<1>2. CASE UNCHANGED vars
  BY <1>2 DEF vars, tableVars, processVars, historyVars, IInv, TypeOK, Kinds, Alive, Fresh,
              Gone, Beating, Up, pid
<1> QED BY <1>1, <1>2, LocalStep, StartStep, InsertStep, BeatStep, KillStep, DeregisterStep,
           TickStep DEF Next

\* The inductive invariant holds in every reachable state.
THEOREM Invariance == Spec => []IInv
<1>1. IInv /\ [Next]_vars => IInv'
  BY NextStep
<1> QED BY InitIInv, <1>1, PTL DEF Spec

\* Every variable keeps its type; only conductors wear the leader's badge.
THEOREM TypeCorrect == Spec => []TypeOK
<1>1. IInv => TypeOK
  BY DEF IInv
<1> QED BY <1>1, Invariance, PTL

\* No prune, by whatever registration, takes the row of a process that is up.
THEOREM RegisteredWhileUpHolds == Spec => []RegisteredWhileUp
<1>1. IInv => RegisteredWhileUp
  BY DEF IInv, Fresh, Up, RegisteredWhileUp
<1> QED BY <1>1, Invariance, PTL

\* No write, by whatever process, lists one that has deregistered.
THEOREM LeftForGoodHolds == Spec => []LeftForGood
<1>1. IInv => LeftForGood
  <2> SUFFICES ASSUME IInv, NEW i \in left PROVE ~Listed(i) /\ ~badge[i]
    BY DEF LeftForGood
  <2>1. i \in Id /\ age[i] \in Int /\ Window \in Int
    BY TimesAssumption DEF IInv, TypeOK
  <2> QED BY <2>1 DEF IInv, Gone, Listed
<1> QED BY <1>1, Invariance, PTL

-----------------------------------------------------------------------------
(* A kill request reaches the process that it names and no other, although    *)
(* the flag is in a table that other processes prune, and the process learns  *)
(* of it from a heartbeat which may be answered late.                         *)

\* A request is of a row; and who has been told to die is up, and is the one
\* whose row says so still.  (Or it was stopped before it came to look.)
KillMeant ==
    /\ \A i \in Id : doomed[i] => i \in rows
    /\ \A s \in Service : crash[s] => \/ Up(s) /\ doomed[pid(s)]
                                      \/ phase[s] = "stopped"

\* A step that writes no kill flag, in the table or in a process.
LEMMA NoKillStep ==
  ASSUME IInv, KillMeant, UNCHANGED <<rows, doomed, boots>>,
         \A t \in Service : /\ crash'[t] => crash[t]
                            /\ crash'[t] /\ Up(t) => Up(t)' \/ phase'[t] = "stopped"
                            /\ phase[t] = "stopped" => phase'[t] = "stopped"
  PROVE  KillMeant'
  BY DEF KillMeant, pid

\* No step makes a kill request mean another process than it did.
LEMMA KillMeantStep == ASSUME IInv, KillMeant, [Next]_vars PROVE KillMeant'
<1>t. /\ crash \in [Service -> BOOLEAN] /\ phase \in [Service -> Phases]
      /\ doomed \in [Id -> BOOLEAN]
  BY DEF IInv, TypeOK
<1>1. ASSUME NEW s \in Service, Start(s) PROVE KillMeant'
  <2>1. /\ UNCHANGED <<rows, doomed, crash>> /\ phase[s] = "down"
        /\ \A t \in Service : t # s => phase'[t] = phase[t] /\ boots'[t] = boots[t]
    BY <1>1, <1>t DEF Start, tableVars, IInv, TypeOK
  <2>2. ~crash[s]
    BY <2>1 DEF KillMeant, Up
  <2> QED BY <2>1, <2>2 DEF KillMeant, Up, pid
<1>2. ASSUME NEW s \in Service, Register(s) \/ RegisterUnanswered(s) PROVE KillMeant'
  <2> DEFINE kept == {j \in rows : ~Prunable(j)}
  <2>1. /\ phase[s] = "booting" /\ UNCHANGED <<boots, crash>>
        /\ rows' = kept \cup {pid(s)}
        /\ doomed' = [j \in Id |-> j \in kept /\ doomed[j]]
        /\ \A t \in Service : t # s => phase'[t] = phase[t]
    BY <1>2, <1>t DEF Register, RegisterUnanswered, Inserted, processVars
  <2>2. ~crash[s]
    BY <2>1 DEF KillMeant, Up
  <2>3. ASSUME NEW t \in Service, crash[t], phase[t] # "stopped"
        PROVE  Up(t)' /\ doomed'[pid(t)]
    <3>1. t # s /\ Up(t) /\ doomed[pid(t)]
      BY <2>2, <2>3 DEF KillMeant
    <3>2. pid(t) \in rows /\ pid(t) \in Id /\ age[pid(t)] <= Late
      BY <3>1, Pid DEF IInv, Fresh, Up
    <3>3. pid(t) \in kept
      BY <3>2, TimesAssumption DEF Prunable, IInv, TypeOK
    <3> QED BY <2>1, <3>1, <3>2, <3>3 DEF Up
  <2>4. \A t \in Service : phase[t] = "stopped" => phase'[t] = "stopped"
    BY <2>1
  <2>5. \A j \in Id : doomed'[j] => j \in rows'
    BY <2>1
  <2> HIDE DEF kept
  <2> QED BY <2>1, <2>3, <2>4, <2>5 DEF KillMeant, pid
<1>3. ASSUME NEW s \in Service, Beat(s) PROVE KillMeant'
  <2>1. /\ UNCHANGED <<rows, doomed, boots, phase>> /\ Up(s)
        /\ crash' = [crash EXCEPT ![s] = @ \/ doomed[pid(s)]]
    BY <1>3 DEF Beat, IInv, Alive
  <2>2. \A t \in Service : crash'[t] => crash[t] \/ (t = s /\ doomed[pid(s)])
    BY <1>t, <2>1
  <2> QED BY <2>1, <2>2 DEF KillMeant, pid, Up
<1>4. ASSUME NEW i \in Id, Kill(i) PROVE KillMeant'
  <2>1. /\ UNCHANGED <<rows, boots, phase, crash>> /\ i \in rows
        /\ \A j \in Id : /\ doomed'[j] => doomed[j] \/ j = i
                         /\ doomed[j] => doomed'[j]
    BY <1>4, <1>t DEF Kill, processVars
  <2>2. ASSUME NEW t \in Service, crash[t], phase[t] # "stopped" PROVE pid(t) \in Id
    BY <2>2, Pid DEF KillMeant, Up
  <2> QED BY <2>1, <2>2 DEF KillMeant, Up, pid
<1>5. ASSUME NEW s \in Service, Exit(s), phase[s] # "stopped" PROVE KillMeant'
  <2>1. /\ UNCHANGED <<rows, doomed, boots>>
        /\ \A t \in Service : /\ t # s => phase'[t] = phase[t] /\ crash'[t] = crash[t]
                              /\ ~crash'[s]
    BY <1>5, <1>t DEF Exit
  <2>2. \A t \in Service : crash'[t] => t # s
    BY <2>1
  <2> QED BY <1>5, <2>1, <2>2, NoKillStep DEF Up
<1>6. ASSUME NEW s \in Service, ~Exit(s), Begin(s) \/ Claim(s) \/ End(s) \/ Crash(s) PROVE KillMeant'
  <2>1. UNCHANGED <<rows, doomed, boots, phase, crash>>
    BY <1>6 DEF Begin, Claim, End, Crash, Die, tableVars
  <2> QED BY <2>1, NoKillStep DEF Up
<1>7. ASSUME NEW s \in Service, Begin(s) \/ Claim(s) \/ End(s) \/ Crash(s) PROVE KillMeant'
  <2>1. CASE Exit(s)
    <3>1. phase[s] # "stopped"
      BY <1>7, <2>1 DEF Begin, Claim, End, Crash, IInv, Alive
    <3> QED BY <1>5, <2>1, <3>1
  <2> QED BY <1>6, <1>7, <2>1
<1>8. ASSUME NEW s \in Service, StartBeat(s) \/ LoseBeat(s) \/ Fail(s) \/ Signal(s) PROVE KillMeant'
  <2>1. UNCHANGED <<rows, doomed, boots, phase, crash>>
    BY <1>8 DEF StartBeat, LoseBeat, Fail, Signal, tableVars
  <2> QED BY <2>1, NoKillStep DEF Up
<1>9. ASSUME NEW s \in Service, GiveUp(s) \/ Drained(s) \/ Deregister(s) PROVE KillMeant'
  <2>1. /\ UNCHANGED <<rows, doomed, boots, crash>>
        /\ \A t \in Service : t # s => phase'[t] = phase[t]
        /\ phase[s] \in {"booting", "running", "closing"}
        /\ Up(s) => phase'[s] \in {"closing", "stopped"}
    BY <1>9, <1>t DEF GiveUp, Drained, Deregister, tableVars, Up
  <2> QED BY <2>1, NoKillStep DEF Up
<1>10. CASE Tick \/ UNCHANGED vars
  <2>1. UNCHANGED <<rows, doomed, boots, phase, crash>>
    BY <1>10 DEF Tick, vars, tableVars, processVars
  <2> QED BY <2>1, NoKillStep DEF Up
<1> QED BY <1>1, <1>2, <1>3, <1>4, <1>7, <1>8, <1>9, <1>10 DEF Next

\* Whoever is told to die was asked to: it is up, and its own row, which no prune
\* has taken meanwhile, carries the request.
THEOREM OnlyTheDoomedDie ==
  Spec => [](\A s \in Service :
                crash[s] /\ phase[s] # "stopped" => Up(s) /\ doomed[pid(s)])
<1>1. Init => KillMeant
  BY DEF Init, KillMeant
<1>2. IInv /\ KillMeant /\ [Next]_vars => KillMeant'
  BY KillMeantStep
<1>3. KillMeant => \A s \in Service :
                     crash[s] /\ phase[s] # "stopped" => Up(s) /\ doomed[pid(s)]
  BY DEF KillMeant
<1> QED BY <1>1, <1>2, <1>3, Invariance, PTL DEF Spec

\* A request ends with the process that it killed: what the platform starts in its
\* place has neither the flag in its memory nor an id that anybody has doomed, so
\* that a kill is never answered twice.
THEOREM KillIsOnce ==
  Spec => [][\A s \in Service : Start(s) => ~crash'[s] /\ pid(s)' \notin rows
                                            /\ ~doomed'[pid(s)']]_vars
<1>1. Init => KillMeant
  BY DEF Init, KillMeant
<1>2. IInv /\ KillMeant /\ [Next]_vars => KillMeant'
  BY KillMeantStep
<1>3. ASSUME IInv, KillMeant, NEW s \in Service, Start(s)
      PROVE  ~crash'[s] /\ pid(s)' \notin rows /\ ~doomed'[pid(s)']
  <2>1. /\ UNCHANGED <<rows, doomed, crash>> /\ phase[s] = "down"
        /\ boots[s] \in Nat /\ boots'[s] = boots[s] + 1 /\ boots'[s] \in 1 .. BootBound
    BY <1>3, BoundsAssumption DEF Start, tableVars, IInv, TypeOK
  <2>2. pid(s)' \in Id /\ pid(s)'[1] = s /\ pid(s)'[2] = boots[s] + 1
    BY <2>1 DEF pid, Id
  <2>3. pid(s)' \notin rows
    BY <1>3, <2>1, <2>2 DEF IInv, TypeOK
  <2> QED BY <1>3, <2>1, <2>2, <2>3 DEF KillMeant, Up
<1>4. IInv /\ KillMeant /\ [Next]_vars =>
        [\A s \in Service : Start(s) => ~crash'[s] /\ pid(s)' \notin rows
                                        /\ ~doomed'[pid(s)']]_vars
  BY <1>3
<1> QED BY <1>1, <1>2, <1>4, Invariance, PTL DEF Spec
=============================================================================
