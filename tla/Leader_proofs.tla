----------------------------- MODULE Leader_proofs -----------------------------
(***************************************************************************)
(* The safety of leadership, for any conductors, sessions and pool size.   *)
(* The key is who owns a session: no two processes share one, a process    *)
(* never has one in its pool and in its hand at once, and the server and   *)
(* the client disagree about a session in one direction at a time.         *)
(***************************************************************************)
EXTENDS Leader, TLAPS

\* The connections a process has idle.
Idle(p) == ToSet(pool[p])

Distinct(seq) == \A i, j \in DOMAIN seq : i # j => seq[i] # seq[j]

Ownership ==
    /\ \A p \in Conductor : Distinct(pool[p])
    /\ \A p \in Conductor : conn[p] \notin Idle(p)
    /\ \A p, q \in Conductor : p # q => Connections(p) \cap Connections(q) = {}
    /\ \A p \in Conductor : \A s \in Connections(p) :
          status[s] \in {"open", "broken"} /\ process[p] = "up"

HolderLives == holder # None => status[holder] \in {"open", "orphan"}

PassOnConnection == \A p \in Conductor : inPass[p] => conn[p] # None

IInv == /\ TypeOK /\ Ownership /\ HolderLives /\ PassOnConnection
        /\ Fenced /\ PassesSerial /\ LockWithinReach

-----------------------------------------------------------------------------
\* A connection checked in: the pool gains it and stays free of duplicates.
LEMMA CheckedIn ==
  ASSUME NEW seq \in Seq(Session), Distinct(seq), NEW s \in Session, s \notin ToSet(seq)
  PROVE  /\ Append(seq, s) \in Seq(Session)
         /\ ToSet(Append(seq, s)) = ToSet(seq) \cup {s}
         /\ Distinct(Append(seq, s))
<1> DEFINE t == Append(seq, s)
<1>1. /\ t \in Seq(Session) /\ Len(t) = Len(seq) + 1
      /\ \A i \in 1 .. Len(seq) : t[i] = seq[i]
      /\ t[Len(seq) + 1] = s
  OBVIOUS
<1>2. DOMAIN t = DOMAIN seq \cup {Len(t)} /\ DOMAIN seq = 1 .. Len(seq)
  BY <1>1
<1> HIDE DEF t
<1>3. ToSet(t) = ToSet(seq) \cup {s}
  BY <1>1, <1>2 DEF ToSet
<1>4. Distinct(t)
  BY <1>1, <1>2 DEF Distinct, ToSet
<1> QED BY <1>1, <1>3, <1>4 DEF t

\* The next connection of a non-empty pool leaves it.
LEMMA CheckedOut ==
  ASSUME NEW seq \in Seq(Session), Distinct(seq), seq # <<>>
  PROVE  /\ Head(seq) \in Session /\ Tail(seq) \in Seq(Session)
         /\ Head(seq) \in ToSet(seq)
         /\ ToSet(Tail(seq)) = ToSet(seq) \ {Head(seq)}
         /\ Distinct(Tail(seq))
<1> DEFINE t == Tail(seq)
<1>1. /\ t \in Seq(Session) /\ Len(seq) > 0 /\ Len(t) = Len(seq) - 1
      /\ \A i \in 1 .. Len(t) : t[i] = seq[i + 1]
      /\ Head(seq) = seq[1] /\ Head(seq) \in Session
  OBVIOUS
<1>2. DOMAIN t = 1 .. Len(t) /\ DOMAIN seq = 1 .. Len(seq) /\ Len(seq) \in Nat
  BY <1>1
<1> HIDE DEF t
<1>3. Distinct(t)
  <2> SUFFICES ASSUME NEW i \in 1 .. Len(t), NEW j \in 1 .. Len(t), i # j
               PROVE  t[i] # t[j]
    BY <1>2 DEF Distinct
  <2>1. /\ i + 1 \in DOMAIN seq /\ j + 1 \in DOMAIN seq /\ i + 1 # j + 1
        /\ t[i] = seq[i + 1] /\ t[j] = seq[j + 1]
    BY <1>1, <1>2
  <2> QED BY <2>1 DEF Distinct
<1>4. ToSet(t) \subseteq ToSet(seq) \ {Head(seq)}
  <2> SUFFICES ASSUME NEW i \in 1 .. Len(t) PROVE t[i] \in ToSet(seq) \ {Head(seq)}
    BY <1>2 DEF ToSet
  <2>1. i + 1 \in DOMAIN seq /\ 1 \in DOMAIN seq /\ i + 1 # 1 /\ t[i] = seq[i + 1]
    BY <1>1, <1>2
  <2> QED BY <1>1, <2>1 DEF ToSet, Distinct
<1>5. ASSUME NEW x \in ToSet(seq) \ {Head(seq)} PROVE x \in ToSet(t)
  <2>1. PICK i \in 1 .. Len(seq) : x = seq[i] /\ i # 1
    BY <1>1, <1>2 DEF ToSet
  <2>2. i - 1 \in 1 .. Len(t) /\ t[i - 1] = x
    BY <1>1, <1>2, <2>1
  <2> QED BY <1>2, <2>2 DEF ToSet
<1>6. Head(seq) \in ToSet(seq)
  BY <1>1, <1>2 DEF ToSet
<1> QED BY <1>1, <1>3, <1>4, <1>5, <1>6 DEF t

\* What a process draws from its pool was nobody else's, nor in its own hand.
LEMMA Drawn ==
  ASSUME IInv, NEW p \in Conductor, NEW s \in Session, Checkout(p, s)
  PROVE  /\ Rest(p) \in Seq(Session) /\ Distinct(Rest(p))
         /\ s \notin ToSet(Rest(p))
         /\ ToSet(Rest(p)) \cup {s} = Idle(p) \cup {s}
         /\ s # conn[p]
         /\ \A q \in Conductor \ {p} : s \notin Connections(q)
         /\ status' = [status EXCEPT ![s] = "open"]
         /\ process[p] = "up"
<1>1. CASE pool[p] # <<>>
  <2>1. s = Head(pool[p]) /\ Rest(p) = Tail(pool[p])
    BY <1>1 DEF Checkout, Rest
  <2>2. /\ Tail(pool[p]) \in Seq(Session) /\ Distinct(Tail(pool[p]))
        /\ s \in Idle(p) /\ ToSet(Tail(pool[p])) = Idle(p) \ {s}
    BY <1>1, <2>1, CheckedOut DEF IInv, TypeOK, Ownership, Idle
  <2>3. s \in Connections(p)
    BY <2>2 DEF Connections, Idle
  <2> QED BY <2>1, <2>2, <2>3 DEF IInv, Ownership, Checkout, Idle
<1>2. CASE pool[p] = <<>>
  <2>1. /\ status[s] = "closed" /\ Rest(p) = <<>>
    BY <1>2 DEF Checkout, Rest
  <2>2. \A q \in Conductor : s \notin Connections(q)
    BY <2>1 DEF IInv, Ownership
  <2>3. ToSet(<<>>) = {} /\ Distinct(<<>>) /\ <<>> \in Seq(Session)
    BY DEF ToSet, Distinct
  <2>4. s # conn[p]
    BY <2>2 DEF Connections
  <2> QED BY <1>2, <2>1, <2>2, <2>3, <2>4 DEF Checkout, Idle
<1> QED BY <1>1, <1>2

-----------------------------------------------------------------------------
\* The invariant holds when the system starts.
LEMMA InitInv == Init => IInv
<1> SUFFICES ASSUME Init PROVE IInv
  OBVIOUS
<1>1. \A p \in Conductor : Idle(p) = {} /\ Connections(p) = {} /\ Distinct(pool[p])
  BY NoneAssumption DEF Init, Idle, Connections, ToSet, Distinct
<1>2. TypeOK
  BY BoundAssumption DEF Init, TypeOK, Statuses
<1>3. Ownership
  BY <1>1 DEF Ownership, Init
<1> QED
  BY <1>2, <1>3 DEF IInv, Init, HolderLives, PassOnConnection, Fenced, PassesSerial,
                    LockWithinReach, Working

\* Leading: the connection drawn moves from the pool to the hand.
LEMMA LeadInv ==
  ASSUME IInv, NEW p \in Conductor, NEW s \in Session, Lead(p, s)
  PROVE  IInv'
<1> USE DEF Lead
<1>1. /\ Rest(p) \in Seq(Session) /\ Distinct(Rest(p)) /\ s \notin ToSet(Rest(p))
      /\ ToSet(Rest(p)) \cup {s} = Idle(p) \cup {s}
      /\ \A q \in Conductor \ {p} : s \notin Connections(q)
      /\ status' = [status EXCEPT ![s] = "open"] /\ process[p] = "up"
  BY Drawn
<1>2. TypeOK'
  BY <1>1, NoneAssumption DEF IInv, TypeOK, Statuses, Grants
<1>3. /\ Idle(p)' = ToSet(Rest(p)) /\ conn'[p] = s
      /\ \A q \in Conductor \ {p} : Idle(q)' = Idle(q) /\ conn'[q] = conn[q]
  BY DEF IInv, TypeOK, Idle
<1>4. /\ Connections(p)' = Connections(p) \cup {s}
      /\ \A q \in Conductor \ {p} : Connections(q)' = Connections(q)
  BY <1>1, <1>3, NoneAssumption DEF Connections, Idle
<1>5. Ownership'
  <2>1. \A q \in Conductor : Distinct(pool'[q]) /\ conn'[q] \notin Idle(q)'
    BY <1>1, <1>3 DEF IInv, TypeOK, Ownership
  <2>2. \A q, r \in Conductor : q # r => Connections(q)' \cap Connections(r)' = {}
    BY <1>1, <1>4 DEF IInv, Ownership
  <2>3. \A q \in Conductor : \A t \in Connections(q)' :
           status'[t] \in {"open", "broken"} /\ process'[q] = "up"
    BY <1>1, <1>4 DEF IInv, Ownership, TypeOK, Connections
  <2> QED BY <2>1, <2>2, <2>3 DEF Ownership
<1>6. HolderLives' /\ PassOnConnection'
  BY <1>1, <1>3, NoneAssumption DEF IInv, TypeOK, HolderLives, PassOnConnection
<1>7. Fenced' /\ PassesSerial'
  <2>1. \A q \in Conductor \ {p} : conn[q] # s
    BY <1>1 DEF Connections
  <2>2. \A q \in Conductor \ {p} : ~Working(q)
    BY <1>1, <2>1 DEF IInv, Fenced, Working, Grants, TypeOK
  <2>3. \A q \in Conductor \ {p} : ~Working(q)'
    BY <1>1, <1>3, <2>1, <2>2 DEF Working, IInv, TypeOK
  <2> QED BY <1>3, <2>3 DEF IInv, Fenced, PassesSerial, PassOnConnection, Working
<1>8. LockWithinReach'
  BY <1>1, <1>4 DEF LockWithinReach
<1> QED BY <1>2, <1>5, <1>6, <1>7, <1>8 DEF IInv

\* A standby's refused connection, or the heartbeat's: drawn and checked in.
LEMMA TurnInv ==
  ASSUME IInv, NEW p \in Conductor, NEW s \in Session, StandBy(p, s) \/ Heartbeat(p, s)
  PROVE  IInv'
<1> USE DEF StandBy, Heartbeat, CheckIn
<1>0. /\ Checkout(p, s)
      /\ pool' = [pool EXCEPT ![p] = Append(Rest(p), s)]
      /\ UNCHANGED <<holder, count, process, conn, inPass, interfered, crashes>>
  OBVIOUS
<1>1. /\ Rest(p) \in Seq(Session) /\ Distinct(Rest(p)) /\ s \notin ToSet(Rest(p))
      /\ ToSet(Rest(p)) \cup {s} = Idle(p) \cup {s} /\ s # conn[p]
      /\ \A q \in Conductor \ {p} : s \notin Connections(q)
      /\ status' = [status EXCEPT ![s] = "open"] /\ process[p] = "up"
  BY <1>0, Drawn
<1>2. /\ Append(Rest(p), s) \in Seq(Session)
      /\ ToSet(Append(Rest(p), s)) = Idle(p) \cup {s}
      /\ Distinct(Append(Rest(p), s))
  BY <1>1, CheckedIn
<1>3. TypeOK'
  BY <1>0, <1>1, <1>2 DEF IInv, TypeOK, Statuses
<1>4. /\ Idle(p)' = Idle(p) \cup {s}
      /\ \A q \in Conductor \ {p} : Idle(q)' = Idle(q) /\ pool'[q] = pool[q]
  BY <1>0, <1>2 DEF IInv, TypeOK, Idle
<1>5. /\ Connections(p)' = Connections(p) \cup {s}
      /\ \A q \in Conductor \ {p} : Connections(q)' = Connections(q)
  BY <1>0, <1>4 DEF Connections, Idle
<1>6. Ownership'
  <2>1. \A q \in Conductor : Distinct(pool'[q]) /\ conn'[q] \notin Idle(q)'
    BY <1>0, <1>1, <1>2, <1>4 DEF IInv, TypeOK, Ownership
  <2>2. \A q, r \in Conductor : q # r => Connections(q)' \cap Connections(r)' = {}
    BY <1>1, <1>5 DEF IInv, Ownership
  <2>3. \A q \in Conductor : \A t \in Connections(q)' :
           status'[t] \in {"open", "broken"} /\ process'[q] = "up"
    BY <1>0, <1>1, <1>5 DEF IInv, Ownership, TypeOK, Connections
  <2> QED BY <2>1, <2>2, <2>3 DEF Ownership
<1>7. HolderLives' /\ PassOnConnection'
  BY <1>0, <1>1 DEF IInv, TypeOK, HolderLives, PassOnConnection
<1>8. Fenced' /\ PassesSerial'
  <2>1. \A q \in Conductor : conn[q] # s
    BY <1>1 DEF Connections
  <2>2. \A q \in Conductor : Working(q)' <=> Working(q)
    BY <1>0, <1>1, <2>1 DEF Working, IInv, TypeOK
  <2> QED BY <1>0, <2>2 DEF IInv, Fenced, PassesSerial
<1>9. LockWithinReach'
  <2>1. ASSUME holder # None, status[holder] = "orphan"
        PROVE  status'[holder] = "orphan" \/ holder \in Connections(p)'
    BY <2>1, <1>1, <1>5 DEF IInv, TypeOK, Connections, Idle
  <2> QED BY <2>1, <1>0, <1>1, <1>5 DEF IInv, LockWithinReach
<1> QED BY <1>3, <1>6, <1>7, <1>8, <1>9 DEF IInv

\* A pass begins or commits: nobody else can be in a pass that works.
LEMMA PassInv ==
  ASSUME IInv, NEW p \in Conductor, BeginPass(p) \/ CommitPass(p)
  PROVE  IInv'
<1> USE DEF BeginPass, CommitPass, serverVars
<1>1. TypeOK'
  BY DEF IInv, TypeOK
<1>2. /\ \A q \in Conductor : /\ Idle(q)' = Idle(q) /\ Connections(q)' = Connections(q)
                              /\ Working(q)' <=> Working(q)
      /\ UNCHANGED <<pool, conn, process, status, holder>>
  BY DEF Idle, Connections, Working
<1>3. Ownership' /\ HolderLives' /\ Fenced' /\ LockWithinReach'
  BY <1>2 DEF IInv, Ownership, HolderLives, Fenced, LockWithinReach
<1>4. PassOnConnection'
  BY <1>2 DEF IInv, PassOnConnection, Working, TypeOK
<1>5. PassesSerial'
  <2>1. Working(p)
    OBVIOUS
  <2>2. \A q \in Conductor \ {p} : ~Working(q)
    BY <2>1 DEF IInv, Fenced, Ownership, Connections, Working, TypeOK
  <2> QED BY <1>2, <2>1, <2>2 DEF IInv, PassesSerial, TypeOK
<1> QED BY <1>1, <1>3, <1>4, <1>5 DEF IInv

\* A failed pass: the connection moves back to the pool, with the lock or
\* without it.
LEMMA FailInv ==
  ASSUME IInv, NEW p \in Conductor, FailPass(p) \/ FailPassInDatabase(p)
  PROVE  IInv'
<1> DEFINE s == conn[p]
<1> USE DEF FailPass, FailPassInDatabase, Release, serverVars
<1>0. /\ Working(p) /\ s \in Session
      /\ pool' = [pool EXCEPT ![p] = Append(pool[p], s)]
      /\ conn' = [conn EXCEPT ![p] = None]
      /\ inPass' = [inPass EXCEPT ![p] = FALSE]
      /\ UNCHANGED <<status, process, interfered, crashes>>
  BY DEF Working, IInv, TypeOK
<1>1. /\ holder' \in {holder, None} /\ count' \in Nat
      /\ count' = 0 <=> holder' = None
  <2>1. CASE FailPassInDatabase(p)
    BY <2>1 DEF IInv, TypeOK
  <2>2. CASE FailPass(p)
    <3>1. holder = s /\ holder # None /\ count \in Nat /\ count # 0
      BY <1>0, NoneAssumption DEF IInv, TypeOK, Fenced
    <3>2. /\ holder' = IF count = 1 THEN None ELSE holder
          /\ count' = count - 1
      BY <2>2, <3>1 DEF Unlock
    <3> QED BY <3>1, <3>2
  <2> QED BY <2>1, <2>2
<1>2. /\ Append(pool[p], s) \in Seq(Session)
      /\ ToSet(Append(pool[p], s)) = Idle(p) \cup {s}
      /\ Distinct(Append(pool[p], s))
  BY <1>0, CheckedIn DEF IInv, TypeOK, Ownership, Idle
<1>3. TypeOK'
  BY <1>0, <1>1, <1>2 DEF IInv, TypeOK
<1>4. /\ Idle(p)' = Idle(p) \cup {s}
      /\ \A q \in Conductor \ {p} : Idle(q)' = Idle(q) /\ pool'[q] = pool[q]
  BY <1>0, <1>2 DEF IInv, TypeOK, Idle
<1>5. \A q \in Conductor : Connections(q)' = Connections(q)
  BY <1>0, <1>4, NoneAssumption DEF Connections, Idle, IInv, TypeOK
<1>6. Ownership'
  <2>1. \A q \in Conductor : Distinct(pool'[q])
    BY <1>0, <1>2, <1>4 DEF IInv, TypeOK, Ownership
  <2>2. \A q \in Conductor : conn'[q] \notin Idle(q)'
    <3>1. None \notin Idle(p)'
      BY <1>3, NoneAssumption DEF TypeOK, Idle, ToSet
    <3> QED BY <1>0, <1>4, <3>1 DEF IInv, TypeOK, Ownership
  <2> QED BY <1>0, <1>5, <2>1, <2>2 DEF IInv, Ownership
<1>7. HolderLives' /\ PassOnConnection'
  BY <1>0, <1>1 DEF IInv, TypeOK, HolderLives, PassOnConnection
<1>8. Fenced' /\ PassesSerial'
  <2>1. \A q \in Conductor \ {p} : ~Working(q)
    BY <1>0 DEF IInv, Fenced, Ownership, Connections, Working, TypeOK
  <2>2. \A q \in Conductor : ~Working(q)'
    BY <1>0, <2>1 DEF Working, IInv, TypeOK
  <2> QED BY <2>2 DEF Fenced, PassesSerial
<1>9. LockWithinReach'
  BY <1>0, <1>1, <1>5 DEF IInv, LockWithinReach
<1> QED BY <1>3, <1>6, <1>7, <1>8, <1>9 DEF IInv

-----------------------------------------------------------------------------
\* The connection under the leader is lost.
LEMMA LoseInv ==
  ASSUME IInv, NEW p \in Conductor, LoseConnection(p)
  PROVE  IInv'
<1> DEFINE s == conn[p]
<1> USE DEF LoseConnection, Discard
<1>0. /\ s \in Session /\ status[s] \in {"open", "broken"}
      /\ status' = [status EXCEPT ![s] = IF @ = "broken" THEN "closed" ELSE "orphan"]
      /\ conn' = [conn EXCEPT ![p] = None]
      /\ inPass' = [inPass EXCEPT ![p] = FALSE]
      /\ UNCHANGED <<holder, count, process, pool, interfered, crashes>>
  BY DEF IInv, TypeOK, Ownership, Connections
<1>1. TypeOK'
  BY <1>0 DEF IInv, TypeOK, Statuses
<1>2. /\ \A q \in Conductor : Idle(q)' = Idle(q)
      /\ s \notin Idle(p)
      /\ Connections(p)' = Connections(p) \ {s}
      /\ \A q \in Conductor \ {p} : Connections(q)' = Connections(q) /\ s \notin Connections(q)
  BY <1>0, NoneAssumption DEF Connections, Idle, IInv, TypeOK, Ownership
<1>3. Ownership'
  <2>1. \A q \in Conductor : Distinct(pool'[q])
    BY <1>0 DEF IInv, Ownership
  <2>2. \A q \in Conductor : conn'[q] \notin Idle(q)'
    <3>1. None \notin Idle(p)'
      BY <1>1, NoneAssumption DEF TypeOK, Idle, ToSet
    <3> QED BY <1>0, <1>2, <3>1 DEF IInv, TypeOK, Ownership
  <2>3. \A q, r \in Conductor : q # r => Connections(q)' \cap Connections(r)' = {}
    BY <1>2 DEF IInv, Ownership
  <2>4. \A q \in Conductor : \A t \in Connections(q)' :
           status'[t] \in {"open", "broken"} /\ process'[q] = "up"
    BY <1>0, <1>2 DEF IInv, Ownership, TypeOK, Connections
  <2> QED BY <2>1, <2>2, <2>3, <2>4 DEF Ownership
<1>4. HolderLives' /\ PassOnConnection'
  BY <1>0 DEF IInv, TypeOK, HolderLives, PassOnConnection
<1>5. Fenced' /\ PassesSerial'
  <2>1. ASSUME NEW q \in Conductor, Working(q)'
        PROVE  Working(q) /\ conn'[q] = conn[q] /\ inPass'[q] = inPass[q]
    <3>0. conn'[q] # None /\ conn'[p] = None
      BY <1>0, <2>1 DEF Working, IInv, TypeOK
    <3>a. q # p
      BY <3>0
    <3>b. conn'[q] = conn[q] /\ inPass'[q] = inPass[q]
      <4>1. conn \in [Conductor -> Session \cup {None}] /\ inPass \in [Conductor -> BOOLEAN]
        BY DEF IInv, TypeOK
      <4>2. conn' = [conn EXCEPT ![p] = None] /\ inPass' = [inPass EXCEPT ![p] = FALSE]
        BY <1>0
      <4> HIDE DEF LoseConnection, Discard, s
      <4> QED BY <3>a, <4>1, <4>2, Zenon
    <3>1. q # p /\ conn'[q] = conn[q] /\ inPass'[q] = inPass[q] /\ conn[q] \in Session
      <4>1. conn[q] \in Session \cup {None} /\ conn[q] # None
        BY <3>0, <3>b DEF IInv, TypeOK
      <4> QED BY <3>a, <3>b, <4>1
    <3>2. status'[conn[q]] = "open"
      BY <2>1, <3>1 DEF Working
    <3>3. status[conn[q]] = "open"
      BY <1>0, <3>1, <3>2 DEF IInv, TypeOK
    <3> QED BY <2>1, <3>1, <3>3 DEF Working
  <2> QED BY <1>0, <2>1 DEF IInv, Fenced, PassesSerial
<1>6. LockWithinReach'
  <2>1. holder = s /\ holder # None => status'[holder] = "orphan"
    BY <1>0 DEF IInv, TypeOK, HolderLives
  <2>2. holder # s /\ holder # None => status'[holder] = status[holder]
    BY <1>0 DEF IInv, TypeOK
  <2> QED BY <1>0, <1>2, <2>1, <2>2 DEF IInv, LockWithinReach
<1> QED BY <1>1, <1>3, <1>4, <1>5, <1>6 DEF IInv

\* The server ends a session, or notices that its client has gone.
LEMMA ServerInv ==
  ASSUME IInv, NEW s \in Session, Terminate(s) \/ Notice(s)
  PROVE  IInv'
<1> USE DEF Terminate, Notice, Drop
<1>0. /\ \/ status[s] = "open" /\ status' = [status EXCEPT ![s] = "broken"]
         \/ status[s] = "orphan" /\ status' = [status EXCEPT ![s] = "closed"]
      /\ holder' = (IF holder = s THEN None ELSE holder)
      /\ count' = (IF holder = s THEN 0 ELSE count)
      /\ UNCHANGED <<process, pool, conn, inPass, interfered, crashes>>
  OBVIOUS
<1>1. TypeOK'
  BY <1>0, NoneAssumption DEF IInv, TypeOK, Statuses
<1>2. \A q \in Conductor : Idle(q)' = Idle(q) /\ Connections(q)' = Connections(q)
  BY <1>0 DEF Idle, Connections
<1>3. Ownership'
  <2>1. \A q \in Conductor : \A t \in Connections(q)' :
           status'[t] \in {"open", "broken"} /\ process'[q] = "up"
    BY <1>0, <1>2 DEF IInv, Ownership, TypeOK, Connections
  <2> QED BY <1>0, <1>2, <2>1 DEF IInv, Ownership
<1>4. HolderLives' /\ PassOnConnection'
  BY <1>0 DEF IInv, TypeOK, HolderLives, PassOnConnection
<1>5. Fenced' /\ PassesSerial'
  <2>1. \A q \in Conductor : Working(q)' => Working(q) /\ conn[q] # s
    BY <1>0, NoneAssumption DEF Working, IInv, TypeOK
  <2> QED BY <1>0, <2>1 DEF IInv, Fenced, PassesSerial
<1>6. LockWithinReach'
  <2>1. holder' # None => holder' = holder /\ holder # s /\ status'[holder] = status[holder]
    BY <1>0 DEF IInv, TypeOK
  <2> QED BY <1>0, <1>2, <2>1 DEF IInv, LockWithinReach
<1> QED BY <1>1, <1>3, <1>4, <1>5, <1>6 DEF IInv

\* A process goes, by a crash (its sessions are orphaned) or by a stop (they
\* are closed, and the lock with them).
LEMMA GoneInv ==
  ASSUME IInv, NEW p \in Conductor, Crash(p) \/ Stop(p)
  PROVE  IInv'
<1> DEFINE own == Connections(p)
<1>0. /\ process' \in [Conductor -> {"up", "crashed", "stopped"}]
      /\ \A q \in Conductor \ {p} : process'[q] = process[q]
      /\ pool' = [pool EXCEPT ![p] = <<>>]
      /\ conn' = [conn EXCEPT ![p] = None]
      /\ inPass' = [inPass EXCEPT ![p] = FALSE]
      /\ interfered' = interfered
  BY DEF Crash, Stop, Gone, IInv, TypeOK
<1>1. /\ status' \in [Session -> Statuses]
      /\ \A s \in Session \ own : status'[s] = status[s]
      /\ crashes' \in 0 .. CrashBound
  <2>1. CASE Crash(p)
    BY <2>1, BoundAssumption DEF Crash, IInv, TypeOK, Statuses
  <2>2. CASE Stop(p)
    BY <2>2 DEF Stop, DisposeEngine, IInv, TypeOK, Statuses
  <2> QED BY <2>1, <2>2
<1>2. /\ holder' \in {holder, None} /\ count' \in Nat
      /\ count' = 0 <=> holder' = None
      /\ holder' # None =>
            \/ holder \notin own
            \/ status'[holder] = "orphan"
  <2>1. CASE Crash(p)
    <3>1. /\ holder' = holder /\ count' = count
          /\ \A s \in own : status[s] = "open" => status'[s] = "orphan"
      BY <2>1 DEF Crash, Connections
    <3> QED BY <3>1 DEF IInv, TypeOK, HolderLives, Ownership
  <2>2. CASE Stop(p)
    <3>1. /\ holder' = (IF holder \in own THEN None ELSE holder)
          /\ count' = (IF holder \in own THEN 0 ELSE count)
      BY <2>2 DEF Stop, DisposeEngine, Drop
    <3> QED BY <3>1 DEF IInv, TypeOK
  <2> QED BY <2>1, <2>2
<1> HIDE DEF own
<1>3. TypeOK'
  <2>1. <<>> \in Seq(Session)
    OBVIOUS
  <2> QED BY <1>0, <1>1, <1>2, <2>1 DEF IInv, TypeOK
<1>4. /\ Idle(p)' = {} /\ Connections(p)' = {} /\ Distinct(<<>>)
      /\ \A q \in Conductor \ {p} :
            /\ pool'[q] = pool[q] /\ conn'[q] = conn[q]
            /\ Idle(q)' = Idle(q) /\ Connections(q)' = Connections(q)
            /\ Connections(q) \cap own = {}
  BY <1>0, NoneAssumption DEF Idle, Connections, ToSet, Distinct, IInv, TypeOK, Ownership, own
<1>5. Ownership'
  <2>1. \A q \in Conductor : Distinct(pool'[q]) /\ conn'[q] \notin Idle(q)'
    BY <1>0, <1>4 DEF IInv, TypeOK, Ownership
  <2>2. \A q, r \in Conductor : q # r => Connections(q)' \cap Connections(r)' = {}
    BY <1>4 DEF IInv, Ownership
  <2>3. \A q \in Conductor : \A t \in Connections(q)' :
           status'[t] \in {"open", "broken"} /\ process'[q] = "up"
    BY <1>0, <1>1, <1>4 DEF IInv, Ownership, Connections
  <2> QED BY <2>1, <2>2, <2>3 DEF Ownership
<1>6. HolderLives' /\ PassOnConnection'
  <2>1. HolderLives'
    BY <1>1, <1>2 DEF IInv, TypeOK, HolderLives
  <2>2. PassOnConnection'
    BY <1>0 DEF IInv, TypeOK, PassOnConnection
  <2> QED BY <2>1, <2>2
<1>7. Fenced' /\ PassesSerial'
  <2>1. ~Working(p)'
    BY <1>0 DEF Working, IInv, TypeOK
  <2>2. \A q \in Conductor \ {p} : Working(q)' =>
           Working(q) /\ conn'[q] = conn[q] /\ conn[q] \notin own
    BY <1>1, <1>4 DEF Working, Connections, IInv, TypeOK
  <2>3. \A q \in Conductor \ {p} : Working(q)' => holder' = conn[q]
    <3> SUFFICES ASSUME NEW q \in Conductor \ {p}, Working(q)' PROVE holder' = conn[q]
      OBVIOUS
    <3>1. holder = conn[q] /\ holder \notin own
      BY <2>2 DEF IInv, Fenced
    <3>2. CASE Crash(p)
      BY <3>1, <3>2 DEF Crash
    <3>3. CASE Stop(p)
      BY <3>1, <3>3 DEF Stop, DisposeEngine, Drop, own
    <3> QED BY <3>2, <3>3
  <2> QED BY <1>0, <2>1, <2>2, <2>3 DEF IInv, Fenced, PassesSerial, TypeOK
<1>8. LockWithinReach'
  <2> SUFFICES ASSUME holder' # None
               PROVE  \/ status'[holder] = "orphan"
                      \/ \E q \in Conductor : process'[q] = "up" /\ holder \in Connections(q)'
    BY <1>2 DEF LockWithinReach
  <2>1. CASE holder \in own
    BY <2>1, <1>2
  <2>2. CASE holder \notin own
    <3>1. holder' = holder /\ (status'[holder] = status[holder] \/ status'[holder] = "orphan")
      BY <2>2, <1>0, <1>1, <1>2 DEF IInv, TypeOK
    <3>2. \A q \in Conductor \ {p} : Connections(q)' = Connections(q) /\ process'[q] = process[q]
      BY <1>0, <1>4 DEF IInv, TypeOK
    <3>3. holder \notin Connections(p)
      BY <2>2 DEF own
    <3> QED BY <3>1, <3>2, <3>3 DEF IInv, LockWithinReach
  <2> QED BY <2>1, <2>2
<1> QED BY <1>3, <1>5, <1>6, <1>7, <1>8 DEF IInv

\* A crashed process comes back with nothing.
LEMMA RestartInv ==
  ASSUME IInv, NEW p \in Conductor, Restart(p)
  PROVE  IInv'
<1> USE DEF Restart, serverVars
<1>1. TypeOK'
  BY DEF IInv, TypeOK
<1>2. \A q \in Conductor : /\ Idle(q)' = Idle(q) /\ Connections(q)' = Connections(q)
                           /\ Working(q)' <=> Working(q)
                           /\ process[q] = "up" => process'[q] = "up"
  BY DEF Idle, Connections, Working, IInv, TypeOK
<1>3. Ownership'
  BY <1>2 DEF IInv, Ownership
<1>4. HolderLives' /\ PassOnConnection' /\ Fenced' /\ PassesSerial' /\ LockWithinReach'
  BY <1>2 DEF IInv, HolderLives, PassOnConnection, Fenced, PassesSerial, LockWithinReach
<1> QED BY <1>1, <1>3, <1>4 DEF IInv

-----------------------------------------------------------------------------
\* Every step of the specification keeps the invariant.
LEMMA StepInv == IInv /\ [Next]_vars => IInv'
<1> SUFFICES ASSUME IInv, [Next]_vars PROVE IInv'
  OBVIOUS
<1>1. ASSUME NEW p \in Conductor, NEW s \in Session,
             Lead(p, s) \/ StandBy(p, s) \/ Heartbeat(p, s)
      PROVE  IInv'
  BY <1>1, LeadInv, TurnInv
<1>2. ASSUME NEW p \in Conductor, BeginPass(p) \/ CommitPass(p)
      PROVE  IInv'
  BY <1>2, PassInv
<1>3. ASSUME NEW p \in Conductor, FailPass(p) \/ FailPassInDatabase(p)
      PROVE  IInv'
  BY <1>3, FailInv
<1>4. ASSUME NEW p \in Conductor, LoseConnection(p)
      PROVE  IInv'
  BY <1>4, LoseInv
<1>5. ASSUME NEW p \in Conductor, Crash(p) \/ Stop(p)
      PROVE  IInv'
  BY <1>5, GoneInv
<1>6. ASSUME NEW p \in Conductor, Restart(p)
      PROVE  IInv'
  BY <1>6, RestartInv
<1>7. ASSUME NEW s \in Session, Terminate(s) \/ Notice(s)
      PROVE  IInv'
  BY <1>7, ServerInv
<1>8. CASE UNCHANGED vars
  <2>1. \A q \in Conductor : /\ Idle(q)' = Idle(q) /\ Connections(q)' = Connections(q)
                             /\ Working(q)' <=> Working(q)
    BY <1>8 DEF vars, serverVars, Idle, Connections, Working
  <2> QED BY <1>8, <2>1 DEF vars, serverVars, IInv, TypeOK, Ownership, HolderLives,
             PassOnConnection, Fenced, PassesSerial, LockWithinReach
<1> QED BY <1>1, <1>2, <1>3, <1>4, <1>5, <1>6, <1>7, <1>8 DEF Next

\* Leadership as a whole: the invariant holds in every reachable state.
THEOREM Invariance == Spec => []IInv
  BY InitInv, StepInv, PTL DEF Spec

\* Every variable keeps its type, and the lock is held exactly while it is counted.
THEOREM TypeCorrect == Spec => []TypeOK
<1>1. IInv => TypeOK
  BY DEF IInv
<1> QED BY <1>1, Invariance, PTL

\* A connection that works is the one that holds the advisory lock: a conductor
\* that lost the lock lost the ability to write with it.
THEOREM FencedHolds == Spec => []Fenced
<1>1. IInv => Fenced
  BY DEF IInv
<1> QED BY <1>1, Invariance, PTL

\* No conductor commits inside another's pass.
THEOREM PassesSerialHolds == Spec => []PassesSerial
<1>1. IInv => PassesSerial
  BY DEF IInv
<1> QED BY <1>1, Invariance, PTL

\* A lock without a leader is in the pool of a process that is up, or about to
\* go with a dead client's session.
THEOREM LockWithinReachHolds == Spec => []LockWithinReach
<1>1. IInv => LockWithinReach
  BY DEF IInv
<1> QED BY <1>1, Invariance, PTL

\* At most one conductor can write as the leader: any number may think they
\* hold the lock, one of them has a connection that works.
OneLeader == \A p, q \in Conductor : Working(p) /\ Working(q) => p = q

\* The advisory lock does what the conductors take it for.
THEOREM OneLeaderHolds == Spec => []OneLeader
<1>1. IInv => OneLeader
  <2> SUFFICES ASSUME IInv, NEW p \in Conductor, NEW q \in Conductor,
                      Working(p), Working(q), p # q
               PROVE  FALSE
    BY DEF OneLeader
  <2>1. conn[p] = conn[q] /\ conn[p] \in Session
    BY DEF IInv, Fenced, Working, TypeOK
  <2>2. conn[p] \in Connections(p) \cap Connections(q)
    BY <2>1 DEF Connections
  <2> QED BY <2>2 DEF IInv, Ownership
<1> QED BY <1>1, Invariance, PTL

-----------------------------------------------------------------------------
(* Why a leader can always return.                                           *)

\* A process whose next iteration asks for the lock.
Asking(p) == process[p] = "up" /\ conn[p] = None

\* Without a leader there is a way back that waits for no other conductor: a
\* process that asks, and the lock is free or in its own pool; one that finds out
\* that its connection is gone; one that is restarted; or the lock is going with a
\* session whose client has gone.
WayBack ==
    ~Leading =>
        \/ \E p \in Conductor : Asking(p) /\ holder \in {None} \cup ToSet(pool[p])
        \/ \E p \in Conductor : conn[p] # None /\ ~Working(p)
        \/ holder = None /\ \E p \in Conductor : process[p] = "crashed"
        \/ holder # None /\ status[holder] = "orphan"

SomeoneStays == \E p \in Conductor : process[p] # "stopped"

\* A stop leaves another conductor, and nothing else ends one for good.
LEMMA SomeoneStaysStep ==
  ASSUME IInv, SomeoneStays, [Next]_vars
  PROVE  SomeoneStays'
<1>1. ASSUME NEW p \in Conductor, Crash(p) \/ Restart(p)
      PROVE  SomeoneStays'
  <2>1. process'[p] \in {"crashed", "up"}
    BY <1>1 DEF Crash, Gone, Restart, IInv, TypeOK
  <2> QED BY <2>1 DEF SomeoneStays
<1>2. ASSUME NEW p \in Conductor, Stop(p)
      PROVE  SomeoneStays'
  <2>1. PICK q \in Conductor \ {p} : process[q] # "stopped"
    BY <1>2 DEF Stop
  <2>2. process'[q] = process[q]
    BY <1>2, <2>1 DEF Stop, Gone, IInv, TypeOK
  <2> QED BY <2>1, <2>2 DEF SomeoneStays
<1>3. ASSUME process' = process
      PROVE  SomeoneStays'
  BY <1>3 DEF SomeoneStays
<1>4. ASSUME NEW p \in Conductor, NEW s \in Session,
             Lead(p, s) \/ StandBy(p, s) \/ Heartbeat(p, s)
      PROVE  process' = process
  BY <1>4 DEF Lead, StandBy, Heartbeat
<1>5. ASSUME NEW p \in Conductor, \/ BeginPass(p) \/ CommitPass(p) \/ FailPass(p)
                                  \/ FailPassInDatabase(p) \/ LoseConnection(p)
      PROVE  process' = process
  BY <1>5 DEF BeginPass, CommitPass, FailPass, FailPassInDatabase, LoseConnection
<1>6. ASSUME NEW s \in Session, Terminate(s) \/ Notice(s)
      PROVE  process' = process
  BY <1>6 DEF Terminate, Notice
<1>7. CASE UNCHANGED vars
  BY <1>3, <1>7 DEF vars
<1> QED BY <1>1, <1>2, <1>3, <1>4, <1>5, <1>6, <1>7 DEF Next

\* However leadership was lost, by a crash, a stop, a failed pass that left the
\* lock in the pool or a connection that broke, nobody has to be waited for in
\* vain.  That the way is then taken is the run's liveness property.
THEOREM WayBackHolds ==
  ASSUME Conductor # {}
  PROVE  Spec => []WayBack
<1>1. Init => SomeoneStays
  BY DEF Init, SomeoneStays
<1>2. IInv /\ SomeoneStays /\ [Next]_vars => SomeoneStays'
  BY SomeoneStaysStep
<1>3. IInv /\ SomeoneStays => WayBack
  <2> SUFFICES ASSUME IInv, SomeoneStays, ~Leading,
                      ~\E p \in Conductor : conn[p] # None /\ ~Working(p)
               PROVE  WayBack
    BY DEF WayBack
  <2>1. \A p \in Conductor : conn[p] = None
    BY DEF IInv, Fenced, Leading
  <2>2. CASE holder = None
    <3>1. PICK p \in Conductor : process[p] # "stopped"
      BY DEF SomeoneStays
    <3>2. process[p] \in {"up", "crashed"}
      BY <3>1 DEF IInv, TypeOK
    <3> QED BY <2>1, <2>2, <3>2 DEF WayBack, Asking
  <2>3. CASE holder # None /\ status[holder] # "orphan"
    <3>1. PICK p \in Conductor : process[p] = "up" /\ holder \in Connections(p)
      BY <2>3 DEF IInv, LockWithinReach
    <3>2. holder \in ToSet(pool[p])
      BY <2>1, <2>3, <3>1 DEF Connections
    <3> QED BY <2>1, <3>1, <3>2 DEF WayBack, Asking
  <2> QED BY <2>2, <2>3 DEF WayBack
<1> QED BY <1>1, <1>2, <1>3, Invariance, PTL DEF Spec

\* A lock left in the asker's own pool comes round: every request refused brings
\* the session that has it one connection nearer the front, where the request is
\* granted.
LockComesRound ==
    [][\A p \in Conductor, s \in Session : StandBy(p, s) =>
          \A i \in DOMAIN pool[p] : pool[p][i] = holder =>
             i > 1 /\ pool'[p][i - 1] = holder]_vars

\* A process refused a lock that its own pool holds is refused at most as often
\* as the pool has other connections.
THEOREM LockComesRoundHolds == Spec => LockComesRound
<1>1. ASSUME IInv, NEW p \in Conductor, NEW s \in Session, StandBy(p, s),
             NEW i \in DOMAIN pool[p], pool[p][i] = holder
      PROVE  i > 1 /\ pool'[p][i - 1] = holder
  <2> DEFINE seq == pool[p]
  <2>1. /\ seq \in Seq(Session) /\ s # holder
        /\ pool'[p] = Append(Rest(p), s)
    BY <1>1 DEF StandBy, CheckIn, Grants, IInv, TypeOK
  <2>2. i \in 1 .. Len(seq) /\ seq # <<>>
    BY <1>1, <2>1
  <2>3. s = seq[1] /\ Rest(p) = Tail(seq)
    BY <1>1, <2>1, <2>2 DEF StandBy, Checkout, Rest
  <2>4. i > 1 /\ i - 1 \in 1 .. Len(Tail(seq)) /\ Tail(seq)[i - 1] = seq[i]
    BY <1>1, <2>1, <2>2, <2>3
  <2>5. Append(Tail(seq), s)[i - 1] = Tail(seq)[i - 1]
    BY <2>1, <2>2, <2>4
  <2> QED BY <1>1, <2>1, <2>3, <2>4, <2>5
<1>2. IInv /\ [Next]_vars
      => [\A p \in Conductor, s \in Session : StandBy(p, s) =>
             \A i \in DOMAIN pool[p] : pool[p][i] = holder =>
                i > 1 /\ pool'[p][i - 1] = holder]_vars
  BY <1>1
<1> QED BY <1>2, Invariance, PTL DEF Spec, LockComesRound
=============================================================================
