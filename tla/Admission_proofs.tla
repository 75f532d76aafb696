---------------------------- MODULE Admission_proofs ----------------------------
(***************************************************************************)
(* What a pass admits: the rates and the buffer's depth hold, and the      *)
(* slots are split fairly, for any consumers, weights, caps and window.    *)
(***************************************************************************)
EXTENDS Admission, FiniteSetTheorems, TLAPS

(* Induction over the subsets of a finite set: of those that are a           *)
(* counterexample one is minimal.                                            *)

LEMMA Minimal ==
  ASSUME NEW S, IsFiniteSet(S), NEW T, T \subseteq SUBSET S, T # {}
  PROVE  \E x \in T : \A y \in T : y \subseteq x => y = x
<1> DEFINE R == StrictSubsetOrdering(S)
<1>1. IsWellFoundedOn(R, SUBSET S)
  BY FS_FiniteSubsetsOfFinite, FS_StrictSubsetOrderingWellFounded
<1>2. PICK x \in T : \A y \in T : <<y, x>> \notin R
  <2> HIDE DEF R
  <2> QED BY <1>1, WFMin
<1>3. ASSUME NEW y \in T, y \subseteq x PROVE y = x
  <2>1. y # x => <<y, x>> \in R
    BY <1>3 DEF StrictSubsetOrdering
  <2> HIDE DEF R
  <2> QED BY <1>2, <2>1
<1> QED BY <1>3

(* Sums, as the library defines them, one element taken out after another.   *)

Chosen(s) == CHOOSE x \in s : TRUE

Sums(f, S, sum) ==
    sum = [s \in SUBSET S |-> IF s = {} THEN 0 ELSE f[Chosen(s)] + sum[s \ {Chosen(s)}]]

LEMMA ChosenIn == ASSUME NEW s, s # {} PROVE Chosen(s) \in s
BY DEF Chosen

LEMMA SumUnfolds ==
  ASSUME NEW f, NEW S
  PROVE  SumFunctionOnSet(f, S) = (CHOOSE sum : Sums(f, S, sum))[S]
BY DEF SumFunctionOnSet, FoldFunctionOnSet, MapThenFoldSet, Sums, Chosen

\* The function that the definition recurs on is the only one of its kind...
LEMMA SumsAgree ==
  ASSUME NEW f, NEW S, NEW T, IsFiniteSet(S), NEW i, NEW j, Sums(f, S, i), Sums(f, T, j),
         NEW s \in SUBSET S, s \subseteq T
  PROVE  i[s] = j[s]
<1> DEFINE Bad == {u \in SUBSET S : u \subseteq T /\ i[u] # j[u]}
<1> SUFFICES ASSUME Bad # {} PROVE FALSE
  OBVIOUS
<1>1. PICK u \in Bad : \A v \in Bad : v \subseteq u => v = u
  <2> HIDE DEF Bad
  <2>1. Bad \subseteq SUBSET S
    BY DEF Bad
  <2> QED BY <2>1, Minimal
<1>2. /\ i[u] = IF u = {} THEN 0 ELSE f[Chosen(u)] + i[u \ {Chosen(u)}]
      /\ j[u] = IF u = {} THEN 0 ELSE f[Chosen(u)] + j[u \ {Chosen(u)}]
  BY DEF Sums
<1>3. CASE u = {}
  BY <1>2, <1>3
<1>4. CASE u # {}
  <2>1. Chosen(u) \in u
    BY <1>4, ChosenIn
  <2>2. u \ {Chosen(u)} \notin Bad
    BY <1>1, <2>1
  <2>3. i[u \ {Chosen(u)}] = j[u \ {Chosen(u)}]
    BY <1>1, <2>2
  <2> QED BY <1>1, <1>2, <1>4, <2>3
<1> QED BY <1>3, <1>4

\* ...and there is one.
LEMMA SumsExist ==
  ASSUME NEW f, NEW S, IsFiniteSet(S)
  PROVE  \E sum : Sums(f, S, sum)
<1> DEFINE Bad == {u \in SUBSET S : ~\E sum : Sums(f, u, sum)}
<1> SUFFICES ASSUME Bad # {} PROVE FALSE
  OBVIOUS
<1>1. PICK u \in Bad : \A v \in Bad : v \subseteq u => v = u
  <2> HIDE DEF Bad
  <2>1. Bad \subseteq SUBSET S
    BY DEF Bad
  <2> QED BY <2>1, Minimal
<1> DEFINE below(v) == CHOOSE sum : Sums(f, v, sum)
           value(s) == IF s = {} THEN 0 ELSE f[Chosen(s)] + below(s \ {Chosen(s)})[s \ {Chosen(s)}]
           sum == [s \in SUBSET u |-> value(s)]
<1>2. ASSUME NEW v \in SUBSET u, v # u PROVE Sums(f, v, below(v)) /\ IsFiniteSet(v)
  <2>1. v \in SUBSET S /\ v \notin Bad
    BY <1>1, <1>2
  <2>2. \E any : Sums(f, v, any)
    BY <2>1
  <2>3. IsFiniteSet(v)
    BY <2>1, FS_Subset
  <2> HIDE DEF Bad
  <2> QED BY <2>2, <2>3
<1>3. ASSUME NEW s \in SUBSET u, s # {}
      PROVE  sum[s \ {Chosen(s)}] = below(s \ {Chosen(s)})[s \ {Chosen(s)}]
  <2> DEFINE t == s \ {Chosen(s)}
  <2>1. t \in SUBSET u /\ t # u
    BY <1>3, ChosenIn
  <2>2. Sums(f, t, below(t)) /\ IsFiniteSet(t)
    BY <1>2, <2>1
  <2>3. sum[t] = value(t)
    BY <2>1
  <2>4. below(t)[t] = IF t = {} THEN 0 ELSE f[Chosen(t)] + below(t)[t \ {Chosen(t)}]
    <3> HIDE DEF t, below
    <3> QED BY <2>2 DEF Sums
  <2>5. t # {} => below(t)[t \ {Chosen(t)}] = below(t \ {Chosen(t)})[t \ {Chosen(t)}]
    <3> SUFFICES ASSUME t # {}
                 PROVE  below(t)[t \ {Chosen(t)}] = below(t \ {Chosen(t)})[t \ {Chosen(t)}]
      OBVIOUS
    <3> DEFINE r == t \ {Chosen(t)}
    <3>1. r \in SUBSET u /\ r # u /\ r \in SUBSET t
      BY <2>1, ChosenIn
    <3>2. Sums(f, r, below(r)) /\ IsFiniteSet(r)
      BY <1>2, <3>1
    <3> HIDE DEF t, r, below
    <3>3. below(t)[r] = below(r)[r]
      BY <2>2, <3>1, <3>2, SumsAgree
    <3> QED BY <3>3 DEF r
  <2> HIDE DEF below, sum
  <2> QED BY <2>3, <2>4, <2>5
<1>4. Sums(f, u, sum)
  <2>1. \A s \in SUBSET u : sum[s] = IF s = {} THEN 0 ELSE f[Chosen(s)] + sum[s \ {Chosen(s)}]
    <3> HIDE DEF below
    <3> QED BY <1>3
  <2>2. sum = [s \in SUBSET u |-> sum[s]]
    OBVIOUS
  <2> HIDE DEF sum
  <2> QED BY <2>1, <2>2 DEF Sums
<1> QED BY <1>1, <1>4

\* So the sum is what any such function says.
LEMMA SumIs ==
  ASSUME NEW f, NEW S, IsFiniteSet(S), NEW sum, Sums(f, S, sum)
  PROVE  SumFunctionOnSet(f, S) = sum[S]
<1> DEFINE any == CHOOSE i : Sums(f, S, i)
<1>1. Sums(f, S, any)
  BY SumsExist
<1>2. SumFunctionOnSet(f, S) = any[S]
  BY SumUnfolds
<1> HIDE DEF any
<1>3. any[S] = sum[S]
  BY <1>1, SumsAgree
<1> QED BY <1>2, <1>3

\* The sum of a finite set of values: nothing, or that of one of them and of the
\* rest.
LEMMA SumEmpty == ASSUME NEW f PROVE SumFunctionOnSet(f, {}) = 0
<1>1. IsFiniteSet({})
  BY FS_EmptySet
<1>2. PICK sum : Sums(f, {}, sum)
  BY <1>1, SumsExist
<1>3. sum[{}] = 0
  BY <1>2 DEF Sums
<1> QED BY <1>1, <1>2, <1>3, SumIs

LEMMA SumChosen ==
  ASSUME NEW f, NEW S, IsFiniteSet(S), S # {}
  PROVE  SumFunctionOnSet(f, S) = f[Chosen(S)] + SumFunctionOnSet(f, S \ {Chosen(S)})
<1> SUFFICES ASSUME NEW T, T = S \ {Chosen(S)}
             PROVE  SumFunctionOnSet(f, S) = f[Chosen(S)] + SumFunctionOnSet(f, T)
  OBVIOUS
<1>1. T \in SUBSET S /\ T \subseteq T /\ IsFiniteSet(T)
  BY FS_Subset
<1>2. PICK i : Sums(f, S, i)
  BY SumsExist
<1>3. PICK j : Sums(f, T, j)
  BY <1>1, SumsExist
<1>4. i[S] = f[Chosen(S)] + i[S \ {Chosen(S)}]
  BY <1>2 DEF Sums
<1>5. i[T] = j[T]
  <2>1. IsFiniteSet(S) /\ Sums(f, S, i) /\ Sums(f, T, j) /\ T \in SUBSET S /\ T \subseteq T
    BY <1>1, <1>2, <1>3
  <2>2. \A s \in SUBSET S : s \subseteq T => i[s] = j[s]
    BY <2>1, SumsAgree
  <2> QED BY <2>1, <2>2
<1>6. SumFunctionOnSet(f, S) = i[S] /\ SumFunctionOnSet(f, T) = j[T]
  BY <1>1, <1>2, <1>3, SumIs
<1> QED BY <1>4, <1>5, <1>6

LEMMA SumType ==
  ASSUME NEW f, NEW S, IsFiniteSet(S), \A x \in S : f[x] \in Int
  PROVE  SumFunctionOnSet(f, S) \in Int
<1> DEFINE Bad == {T \in SUBSET S : SumFunctionOnSet(f, T) \notin Int}
<1> SUFFICES ASSUME Bad # {} PROVE FALSE
  OBVIOUS
<1>1. PICK T \in Bad : \A U \in Bad : U \subseteq T => U = T
  <2> HIDE DEF Bad
  <2>1. Bad \subseteq SUBSET S
    BY DEF Bad
  <2> QED BY <2>1, Minimal
<1>2. CASE T = {}
  BY <1>1, <1>2, SumEmpty
<1>3. CASE T # {}
  <2>1. Chosen(T) \in T /\ IsFiniteSet(T)
    BY <1>3, ChosenIn, FS_Subset
  <2>2. T \ {Chosen(T)} \in SUBSET S /\ T \ {Chosen(T)} \notin Bad
    BY <1>1, <2>1
  <2>3. SumFunctionOnSet(f, T \ {Chosen(T)}) \in Int
    BY <2>2
  <2> QED BY <1>3, <2>1, <2>3, SumChosen
<1> QED BY <1>2, <1>3

LEMMA SumRest ==
  ASSUME NEW f, NEW S, IsFiniteSet(S), \A x \in S : f[x] \in Int, NEW a \in S
  PROVE  SumFunctionOnSet(f, S) = f[a] + SumFunctionOnSet(f, S \ {a})
<1> DEFINE Bad == {T \in SUBSET S : \E x \in T :
                     SumFunctionOnSet(f, T) # f[x] + SumFunctionOnSet(f, T \ {x})}
<1> SUFFICES ASSUME Bad # {} PROVE FALSE
  OBVIOUS
<1>1. PICK T \in Bad : \A U \in Bad : U \subseteq T => U = T
  <2> HIDE DEF Bad
  <2>1. Bad \subseteq SUBSET S
    BY DEF Bad
  <2> QED BY <2>1, Minimal
<1>2. PICK x \in T : SumFunctionOnSet(f, T) # f[x] + SumFunctionOnSet(f, T \ {x})
  OBVIOUS
<1> DEFINE p == Chosen(T)
<1>3. p \in T /\ IsFiniteSet(T) /\ T \in SUBSET S
  BY ChosenIn, FS_Subset
<1>4. SumFunctionOnSet(f, T) = f[p] + SumFunctionOnSet(f, T \ {p})
  BY <1>3, SumChosen
<1> HIDE DEF p
<1>5. x # p
  BY <1>2, <1>4
<1>6. /\ T \ {p} \in SUBSET S /\ T \ {p} \notin Bad /\ x \in T \ {p}
      /\ T \ {x} \in SUBSET S /\ T \ {x} \notin Bad /\ p \in T \ {x}
  <2>1. \A q \in T : T \ {q} \subseteq T /\ T \ {q} # T
    OBVIOUS
  <2>2. \A q \in T : T \ {q} \notin Bad
    <3> HIDE DEF Bad
    <3> QED BY <1>1, <2>1
  <2> HIDE DEF Bad
  <2> QED BY <1>2, <1>3, <1>5, <2>2
<1> DEFINE Q == (T \ {p}) \ {x}
           P == (T \ {x}) \ {p}
<1>7. /\ SumFunctionOnSet(f, T \ {p}) = f[x] + SumFunctionOnSet(f, Q)
      /\ SumFunctionOnSet(f, T \ {x}) = f[p] + SumFunctionOnSet(f, P)
  BY <1>6
<1>8. P = Q /\ Q \in SUBSET S
  BY <1>3
<1> HIDE DEF Bad, P, Q
<1>9. SumFunctionOnSet(f, Q) \in Int
  <2>1. IsFiniteSet(Q)
    BY <1>8, FS_Subset
  <2> QED BY <1>8, <2>1, SumType
<1>10. f[x] \in Int /\ f[p] \in Int
  BY <1>3
<1> QED BY <1>2, <1>4, <1>7, <1>8, <1>9, <1>10

\* A larger function has a larger sum; and f + g has the sum of both.
LEMMA SumMonotone ==
  ASSUME NEW f, NEW g, NEW S, IsFiniteSet(S),
         \A x \in S : f[x] \in Int /\ g[x] \in Int /\ f[x] <= g[x]
  PROVE  SumFunctionOnSet(f, S) <= SumFunctionOnSet(g, S)
<1> DEFINE Bad == {T \in SUBSET S : ~(SumFunctionOnSet(f, T) <= SumFunctionOnSet(g, T))}
<1> SUFFICES ASSUME Bad # {} PROVE FALSE
  OBVIOUS
<1>1. PICK T \in Bad : \A U \in Bad : U \subseteq T => U = T
  <2> HIDE DEF Bad
  <2>1. Bad \subseteq SUBSET S
    BY DEF Bad
  <2> QED BY <2>1, Minimal
<1>2. CASE T = {}
  <2>1. SumFunctionOnSet(f, T) = 0 /\ SumFunctionOnSet(g, T) = 0
    BY <1>2, SumEmpty
  <2>2. SumFunctionOnSet(f, T) <= SumFunctionOnSet(g, T)
    BY <2>1
  <2> QED BY <2>2
<1>3. CASE T # {}
  <2> DEFINE p == Chosen(T)
             U == T \ {p}
  <2>1. p \in T /\ IsFiniteSet(T) /\ U \in SUBSET S /\ IsFiniteSet(U)
    BY <1>3, ChosenIn, FS_Subset
  <2>2. /\ SumFunctionOnSet(f, T) = f[p] + SumFunctionOnSet(f, U)
        /\ SumFunctionOnSet(g, T) = g[p] + SumFunctionOnSet(g, U)
    BY <1>3, <2>1, SumChosen
  <2>3. SumFunctionOnSet(f, U) <= SumFunctionOnSet(g, U)
    BY <1>1, <2>1
  <2>4. SumFunctionOnSet(f, U) \in Int /\ SumFunctionOnSet(g, U) \in Int
    BY <2>1, SumType
  <2>5. f[p] \in Int /\ g[p] \in Int /\ f[p] <= g[p]
    BY <2>1
  <2> HIDE DEF p, U
  <2> QED BY <2>2, <2>3, <2>4, <2>5
<1> QED BY <1>2, <1>3

LEMMA SumOfBoth ==
  ASSUME NEW f, NEW g, NEW h, NEW S, IsFiniteSet(S),
         \A x \in S : f[x] \in Int /\ g[x] \in Int /\ h[x] = f[x] + g[x]
  PROVE  SumFunctionOnSet(h, S) = SumFunctionOnSet(f, S) + SumFunctionOnSet(g, S)
<1> DEFINE Bad == {T \in SUBSET S : SumFunctionOnSet(h, T)
                                     # SumFunctionOnSet(f, T) + SumFunctionOnSet(g, T)}
<1> SUFFICES ASSUME Bad # {} PROVE FALSE
  OBVIOUS
<1>1. PICK T \in Bad : \A U \in Bad : U \subseteq T => U = T
  <2> HIDE DEF Bad
  <2>1. Bad \subseteq SUBSET S
    BY DEF Bad
  <2> QED BY <2>1, Minimal
<1>2. CASE T = {}
  BY <1>1, <1>2, SumEmpty
<1>3. CASE T # {}
  <2> DEFINE p == Chosen(T)
             U == T \ {p}
  <2>1. p \in T /\ IsFiniteSet(T) /\ U \in SUBSET S /\ IsFiniteSet(U)
    BY <1>3, ChosenIn, FS_Subset
  <2>2. /\ SumFunctionOnSet(f, T) = f[p] + SumFunctionOnSet(f, U)
        /\ SumFunctionOnSet(g, T) = g[p] + SumFunctionOnSet(g, U)
        /\ SumFunctionOnSet(h, T) = h[p] + SumFunctionOnSet(h, U)
    BY <1>3, <2>1, SumChosen
  <2>3. SumFunctionOnSet(h, U) = SumFunctionOnSet(f, U) + SumFunctionOnSet(g, U)
    BY <1>1, <2>1
  <2>4. SumFunctionOnSet(f, U) \in Int /\ SumFunctionOnSet(g, U) \in Int
    BY <2>1, SumType
  <2>5. f[p] \in Int /\ g[p] \in Int /\ h[p] = f[p] + g[p]
    BY <2>1
  <2> HIDE DEF p, U
  <2> QED BY <2>2, <2>3, <2>4, <2>5
<1> QED BY <1>2, <1>3

LEMMA SumSame ==
  ASSUME NEW f, NEW g, NEW S, IsFiniteSet(S), \A x \in S : f[x] \in Int /\ f[x] = g[x]
  PROVE  SumFunctionOnSet(f, S) = SumFunctionOnSet(g, S)
<1>1. /\ SumFunctionOnSet(f, S) <= SumFunctionOnSet(g, S)
      /\ SumFunctionOnSet(g, S) <= SumFunctionOnSet(f, S)
  BY SumMonotone
<1>2. SumFunctionOnSet(f, S) \in Int /\ SumFunctionOnSet(g, S) \in Int
  BY SumType
<1> QED BY <1>1, <1>2

\* Of natural numbers, a part sums to no more than the whole.
LEMMA SumPart ==
  ASSUME NEW f, NEW S, IsFiniteSet(S), \A x \in S : f[x] \in Nat, NEW A \in SUBSET S
  PROVE  SumFunctionOnSet(f, A) <= SumFunctionOnSet(f, S)
<1> DEFINE Bad == {T \in SUBSET S : /\ A \subseteq T
                                    /\ ~(SumFunctionOnSet(f, A) <= SumFunctionOnSet(f, T))}
<1> SUFFICES ASSUME Bad # {} PROVE FALSE
  OBVIOUS
<1>1. PICK T \in Bad : \A U \in Bad : U \subseteq T => U = T
  <2> HIDE DEF Bad
  <2>1. Bad \subseteq SUBSET S
    BY DEF Bad
  <2> QED BY <2>1, Minimal
<1>2. /\ T \in SUBSET S /\ A \subseteq T
      /\ ~(SumFunctionOnSet(f, A) <= SumFunctionOnSet(f, T))
  OBVIOUS
<1>3. SumFunctionOnSet(f, A) \in Int
  <2>1. IsFiniteSet(A)
    BY FS_Subset
  <2> QED BY <2>1, SumType
<1>4. T # A
  BY <1>2, <1>3
<1>5. PICK x \in T : x \notin A
  BY <1>2, <1>4
<1>6. T \ {x} \in SUBSET S /\ A \subseteq T \ {x} /\ T \ {x} # T
  BY <1>2, <1>5
<1>7. T \ {x} \notin Bad
  <2> HIDE DEF Bad
  <2> QED BY <1>1, <1>6
<1>8. SumFunctionOnSet(f, A) <= SumFunctionOnSet(f, T \ {x})
  BY <1>6, <1>7
<1>9. IsFiniteSet(T) /\ IsFiniteSet(T \ {x})
  BY <1>2, <1>6, FS_Subset
<1>10. SumFunctionOnSet(f, T) = f[x] + SumFunctionOnSet(f, T \ {x})
  BY <1>2, <1>9, SumRest
<1>11. SumFunctionOnSet(f, T \ {x}) \in Int /\ f[x] \in Nat
  BY <1>2, <1>6, <1>9, SumType
<1> HIDE DEF Bad
<1> QED BY <1>2, <1>3, <1>8, <1>10, <1>11

LEMMA SumNat ==
  ASSUME NEW f, NEW S, IsFiniteSet(S), \A x \in S : f[x] \in Nat
  PROVE  SumFunctionOnSet(f, S) \in Nat
<1>1. SumFunctionOnSet(f, {}) <= SumFunctionOnSet(f, S)
  BY SumPart
<1>2. SumFunctionOnSet(f, S) \in Int
  BY SumType
<1> QED BY <1>1, <1>2, SumEmpty

\* One value grows by k.
LEMMA SumOneMore ==
  ASSUME NEW f, NEW g, NEW S, IsFiniteSet(S), \A x \in S : f[x] \in Int, NEW a \in S,
         NEW k \in Int, g[a] = f[a] + k, \A x \in S : x # a => g[x] = f[x]
  PROVE  SumFunctionOnSet(g, S) = SumFunctionOnSet(f, S) + k
<1> SUFFICES ASSUME NEW R, R = S \ {a}
             PROVE  SumFunctionOnSet(g, S) = SumFunctionOnSet(f, S) + k
  OBVIOUS
<1>1. IsFiniteSet(R) /\ \A x \in R : x \in S /\ g[x] = f[x]
  BY FS_Subset
<1>2. SumFunctionOnSet(g, R) = SumFunctionOnSet(f, R) /\ SumFunctionOnSet(f, R) \in Int
  BY <1>1, SumSame, SumType
<1>3. \A x \in S : g[x] \in Int
  OBVIOUS
<1>4. /\ SumFunctionOnSet(g, S) = g[a] + SumFunctionOnSet(g, R)
      /\ SumFunctionOnSet(f, S) = f[a] + SumFunctionOnSet(f, R)
  BY <1>3, SumRest
<1> QED BY <1>2, <1>4

\* The same values, each at the next index.
LEMMA SumNextIndex ==
  ASSUME NEW f, NEW g, NEW I, NEW J, IsFiniteSet(I), IsFiniteSet(J),
         \A x \in I : x \in Int /\ x + 1 \in J /\ f[x] \in Int /\ g[x + 1] = f[x],
         \A y \in J : y \in Int /\ y - 1 \in I
  PROVE  SumFunctionOnSet(g, J) = SumFunctionOnSet(f, I)
<1> DEFINE Moved(T) == {x + 1 : x \in T}
<1> DEFINE Bad == {T \in SUBSET I : SumFunctionOnSet(g, Moved(T)) # SumFunctionOnSet(f, T)}
<1>0. J = Moved(I)
  <2>1. \A y \in J : y - 1 \in I /\ y = (y - 1) + 1
    OBVIOUS
  <2> QED BY <2>1
<1> SUFFICES ASSUME Bad # {} PROVE FALSE
  BY <1>0
<1>1. PICK T \in Bad : \A U \in Bad : U \subseteq T => U = T
  <2> HIDE DEF Bad
  <2>1. Bad \subseteq SUBSET I
    BY DEF Bad
  <2> QED BY <2>1, Minimal
<1>2. T \in SUBSET I /\ SumFunctionOnSet(g, Moved(T)) # SumFunctionOnSet(f, T)
  OBVIOUS
<1>3. T # {}
  <2>1. Moved({}) = {}
    OBVIOUS
  <2> QED BY <1>2, <2>1, SumEmpty
<1>4. PICK x \in T : TRUE
  BY <1>3
<1>5. PICK U : U = T \ {x}
  OBVIOUS
<1>6. U \in SUBSET I /\ U \notin Bad
  <2>1. U \subseteq T /\ U # T /\ U \in SUBSET I
    BY <1>2, <1>4, <1>5
  <2> HIDE DEF Bad
  <2> QED BY <1>1, <2>1
<1>7. SumFunctionOnSet(g, Moved(U)) = SumFunctionOnSet(f, U)
  BY <1>6
<1>8. PICK V, z : V = Moved(T) /\ z = x + 1
  OBVIOUS
<1>9. z \in V /\ Moved(U) = V \ {z} /\ V \in SUBSET J /\ g[z] = f[x]
  BY <1>2, <1>4, <1>5, <1>8
<1>10. IsFiniteSet(T) /\ IsFiniteSet(V)
  BY <1>2, <1>9, FS_Subset
<1>11. (\A y \in T : f[y] \in Int) /\ (\A y \in V : g[y] \in Int)
  BY <1>2, <1>8
<1> HIDE DEF Moved, Bad
<1>12. SumFunctionOnSet(f, T) = f[x] + SumFunctionOnSet(f, T \ {x})
  BY <1>10, <1>11, SumRest
<1>13. SumFunctionOnSet(g, V) = g[z] + SumFunctionOnSet(g, V \ {z})
  BY <1>9, <1>10, <1>11, SumRest
<1>14. SumFunctionOnSet(f, T) = f[x] + SumFunctionOnSet(f, U)
  BY <1>5, <1>12
<1>15. SumFunctionOnSet(g, V) = g[z] + SumFunctionOnSet(g, Moved(U))
  BY <1>9, <1>13
<1> QED BY <1>2, <1>7, <1>8, <1>9, <1>14, <1>15

-----------------------------------------------------------------------------
(* allocate: its loop, and what holds of what it has granted so far.         *)

\* A non-empty set of bounded natural numbers has a least one.
LEMMA HasLeast ==
  ASSUME NEW N \in Nat, NEW T, T \subseteq 0 .. N, T # {}
  PROVE  \E n \in T : \A m \in T : n <= m
<1> DEFINE S == 0 .. N
           upTo(n) == {k \in S : k <= n}
           Initial == {upTo(n) : n \in T}
<1>1. IsFiniteSet(S)
  BY FS_Interval
<1>2. Initial \subseteq SUBSET S /\ Initial # {}
  OBVIOUS
<1>3. PICK x \in Initial : \A y \in Initial : y \subseteq x => y = x
  <2> HIDE DEF Initial, S
  <2> QED BY <1>1, <1>2, Minimal
<1>4. PICK n \in T : x = upTo(n)
  BY <1>3
<1>5. ASSUME NEW m \in T, m < n PROVE FALSE
  <2>1. m \in 0 .. N /\ n \in 0 .. N
    OBVIOUS
  <2>2. upTo(m) \subseteq upTo(n) /\ n \in upTo(n) /\ n \notin upTo(m)
    BY <1>5, <2>1
  <2>3. upTo(m) \in Initial
    OBVIOUS
  <2> HIDE DEF upTo, Initial
  <2> QED BY <1>3, <1>4, <2>2, <2>3
<1>6. \A m \in T : m \in Int /\ n \in Int
  OBVIOUS
<1> HIDE DEF upTo, Initial
<1> QED BY <1>5, <1>6

\* What is granted after each slot, up to the n-th.
Run(head, n, g) == g = [m \in 0 .. n |-> IF m = 0 THEN Zero ELSE Grant(head, g[m - 1])]

LEMMA RunsAgree ==
  ASSUME NEW head, NEW n \in Nat, NEW m \in Nat, NEW g, NEW h,
         Run(head, n, g), Run(head, m, h), NEW k \in 0 .. n, k <= m
  PROVE  g[k] = h[k]
<1> DEFINE Bad == {l \in 0 .. n : l <= m /\ g[l] # h[l]}
<1> SUFFICES ASSUME Bad # {} PROVE FALSE
  OBVIOUS
<1>1. PICK l \in Bad : \A j \in Bad : l <= j
  <2>1. Bad \subseteq 0 .. n
    OBVIOUS
  <2> HIDE DEF Bad
  <2> QED BY <2>1, HasLeast
<1>2. l \in 0 .. n /\ l \in 0 .. m /\ g[l] # h[l]
  OBVIOUS
<1>3. /\ g[l] = IF l = 0 THEN Zero ELSE Grant(head, g[l - 1])
      /\ h[l] = IF l = 0 THEN Zero ELSE Grant(head, h[l - 1])
  BY <1>2 DEF Run
<1>4. CASE l # 0
  <2>1. l - 1 \in 0 .. n /\ l - 1 <= m /\ ~(l <= l - 1)
    BY <1>2, <1>4
  <2>2. l - 1 \notin Bad
    <3> HIDE DEF Bad
    <3> QED BY <1>1, <2>1
  <2>3. g[l - 1] = h[l - 1]
    BY <2>1, <2>2
  <2> QED BY <1>2, <1>3, <1>4, <2>3
<1> QED BY <1>2, <1>3, <1>4

LEMMA RunExists ==
  ASSUME NEW head, NEW n \in Nat
  PROVE  \E g : Run(head, n, g)
<1> DEFINE Bad == {m \in 0 .. n : ~\E g : Run(head, m, g)}
<1> SUFFICES ASSUME Bad # {} PROVE FALSE
  OBVIOUS
<1>1. PICK m \in Bad : \A j \in Bad : m <= j
  <2>1. Bad \subseteq 0 .. n
    OBVIOUS
  <2> HIDE DEF Bad
  <2> QED BY <2>1, HasLeast
<1>2. m \in 0 .. n /\ ~\E g : Run(head, m, g)
  OBVIOUS
<1>3. CASE m = 0
  <2>1. Run(head, 0, [k \in 0 .. 0 |-> Zero])
    BY DEF Run
  <2> QED BY <1>2, <1>3, <2>1
<1>4. CASE m # 0
  <2>1. m - 1 \in 0 .. n /\ ~(m <= m - 1)
    BY <1>2, <1>4
  <2>2. m - 1 \notin Bad
    <3> HIDE DEF Bad
    <3> QED BY <1>1, <2>1
  <2>3. PICK g : Run(head, m - 1, g)
    BY <2>1, <2>2
  <2> DEFINE h == [k \in 0 .. m |-> IF k = m THEN Grant(head, g[m - 1]) ELSE g[k]]
  <2>4. ASSUME NEW k \in 0 .. m PROVE h[k] = IF k = 0 THEN Zero ELSE Grant(head, h[k - 1])
    <3>1. CASE k = m
      <4>1. m \in 0 .. m /\ m - 1 \in 0 .. m /\ m - 1 # m
        BY <1>2, <1>4
      <4>2. h[m] = Grant(head, g[m - 1]) /\ h[m - 1] = g[m - 1]
        BY <4>1
      <4> QED BY <1>4, <3>1, <4>2
    <3>2. CASE k # m
      <4>1. k \in 0 .. m - 1 /\ h[k] = g[k]
        BY <1>2, <3>2
      <4>2. g[k] = IF k = 0 THEN Zero ELSE Grant(head, g[k - 1])
        BY <2>3, <4>1 DEF Run
      <4>3. k # 0 => k - 1 \in 0 .. m /\ k - 1 # m
        BY <1>2, <3>2
      <4>4. k # 0 => h[k - 1] = g[k - 1]
        BY <4>3
      <4> HIDE DEF h
      <4> QED BY <4>1, <4>2, <4>4
    <3> QED BY <3>1, <3>2
  <2>5. h = [k \in 0 .. m |-> h[k]]
    OBVIOUS
  <2>6. Run(head, m, h)
    <3> HIDE DEF h
    <3> QED BY <2>4, <2>5 DEF Run
  <2> QED BY <1>2, <2>6
<1> QED BY <1>3, <1>4

LEMMA AllocateRuns ==
  ASSUME NEW head, NEW budget \in Nat
  PROVE  \E g : Run(head, budget, g) /\ Allocate(head, budget) = g[budget]
<1> DEFINE any == CHOOSE g : Run(head, budget, g)
<1>1. Run(head, budget, any)
  BY RunExists
<1>2. Allocate(head, budget) = any[budget]
  BY DEF Allocate, Run
<1> QED BY <1>1, <1>2

\* Behind orders the consumers by what they have for their weight, ties by id.
LEMMA Products ==
  ASSUME NEW a \in Nat, NEW b \in Nat, NEW c \in Nat,
         NEW p \in Nat \ {0}, NEW q \in Nat \ {0}, NEW r \in Nat \ {0}
  PROVE  /\ a * q <= b * p /\ b * r <= c * q => a * r <= c * p
         /\ a * q < b * p /\ b * r <= c * q => a * r < c * p
         /\ a * q <= b * p /\ b * r < c * q => a * r < c * p
<1>1. \A x, y \in Int, z \in Nat \ {0} : /\ x <= y => x * z <= y * z
                                         /\ x < y => x * z < y * z
                                         /\ x * z <= y * z => x <= y
                                         /\ x * z < y * z => x < y
  OBVIOUS
<1>2. /\ (a * q) * r = (a * r) * q /\ (b * p) * r = (b * r) * p /\ (c * q) * p = (c * p) * q
      /\ a * q \in Int /\ b * p \in Int /\ b * r \in Int /\ c * q \in Int
      /\ a * r \in Int /\ c * p \in Int
      /\ (a * r) * q \in Int /\ (b * r) * p \in Int /\ (c * p) * q \in Int
  OBVIOUS
<1>3. /\ a * q <= b * p => (a * r) * q <= (b * r) * p
      /\ a * q < b * p => (a * r) * q < (b * r) * p
      /\ b * r <= c * q => (b * r) * p <= (c * p) * q
      /\ b * r < c * q => (b * r) * p < (c * p) * q
  BY <1>1, <1>2
<1>4. /\ (a * r) * q <= (c * p) * q => a * r <= c * p
      /\ (a * r) * q < (c * p) * q => a * r < c * p
  BY <1>1, <1>2
<1> QED BY <1>2, <1>3, <1>4

LEMMA BehindOrders ==
  ASSUME NEW g \in [ConsumerId -> Nat], NEW c \in ConsumerId, NEW d \in ConsumerId,
         NEW e \in ConsumerId
  PROVE  /\ Behind(g, c, c)
         /\ Behind(g, c, d) \/ Behind(g, d, c)
         /\ Behind(g, c, d) /\ Behind(g, d, e) => Behind(g, c, e)
<1>1. /\ g[c] \in Nat /\ g[d] \in Nat /\ g[e] \in Nat
      /\ Weight[c] \in Nat \ {0} /\ Weight[d] \in Nat \ {0} /\ Weight[e] \in Nat \ {0}
      /\ c \in Int /\ d \in Int /\ e \in Int
  BY RatesAssumption
<1>2. \A x, y \in {c, d, e} : g[x] * Weight[y] \in Int
  BY <1>1
<1>3. /\ g[c] * Weight[d] <= g[d] * Weight[c] /\ g[d] * Weight[e] <= g[e] * Weight[d]
            => g[c] * Weight[e] <= g[e] * Weight[c]
      /\ g[c] * Weight[d] < g[d] * Weight[c] /\ g[d] * Weight[e] <= g[e] * Weight[d]
            => g[c] * Weight[e] < g[e] * Weight[c]
      /\ g[c] * Weight[d] <= g[d] * Weight[c] /\ g[d] * Weight[e] < g[e] * Weight[d]
            => g[c] * Weight[e] < g[e] * Weight[c]
  BY <1>1, Products
<1>4. \A x, y \in Int : x <= y <=> x < y \/ x = y
  OBVIOUS
<1>5. /\ g[c] * Weight[d] \in Int /\ g[d] * Weight[c] \in Int /\ g[c] * Weight[c] \in Int
      /\ g[d] * Weight[e] \in Int /\ g[e] * Weight[d] \in Int
      /\ g[c] * Weight[e] \in Int /\ g[e] * Weight[c] \in Int
  BY <1>2
<1> QED BY <1>1, <1>3, <1>4, <1>5 DEF Behind

LEMMA WinnerFurthestBehind ==
  ASSUME NEW head, NEW g \in [ConsumerId -> Nat], Active(head, g) # {}
  PROVE  /\ Winner(head, g) \in Active(head, g)
         /\ \A d \in Active(head, g) : Behind(g, Winner(head, g), d)
<1> SUFFICES ASSUME NEW A, A = Active(head, g)
             PROVE  \E c \in A : \A d \in A : Behind(g, c, d)
  BY DEF Winner
<1>1. A \subseteq ConsumerId /\ A # {} /\ IsFiniteSet(A)
  BY RatesAssumption, FS_Subset DEF Active
<1> DEFINE ahead(c) == {d \in A : ~Behind(g, c, d)}
           Aheads == {ahead(c) : c \in A}
<1>2. PICK x \in Aheads : \A y \in Aheads : y \subseteq x => y = x
  <2>1. \A c \in A : ahead(c) \in SUBSET A
    OBVIOUS
  <2>2. Aheads \subseteq SUBSET A /\ Aheads # {}
    <3>1. PICK c \in A : TRUE
      BY <1>1
    <3> HIDE DEF ahead
    <3> QED BY <2>1, <3>1
  <2> HIDE DEF Aheads
  <2> QED BY <1>1, <2>2, Minimal
<1>3. PICK c \in A : x = ahead(c)
  BY <1>2
<1>4. ASSUME NEW d \in A, ~Behind(g, c, d) PROVE FALSE
  <2>1. d \in ahead(c) /\ ahead(d) \in Aheads
    BY <1>4
  <2>2. d \notin ahead(d)
    BY <1>1, BehindOrders
  <2>3. ASSUME NEW e \in ahead(d) PROVE e \in ahead(c)
    <3>1. e \in A /\ ~Behind(g, d, e)
      OBVIOUS
    <3>2. Behind(g, e, d)
      BY <1>1, <3>1, BehindOrders
    <3>3. ~Behind(g, c, e)
      BY <1>1, <1>4, <3>1, <3>2, BehindOrders
    <3> QED BY <3>1, <3>3
  <2> HIDE DEF ahead, Aheads
  <2> QED BY <1>2, <1>3, <2>1, <2>2, <2>3
<1> QED BY <1>4

LEMMA HeadSums ==
  ASSUME NEW f \in [ConsumerId -> Nat]
  PROVE  /\ SumFunction(f) = SumFunctionOnSet(f, ConsumerId)
         /\ SumFunction(f) \in Nat
<1>1. SumFunction(f) = SumFunctionOnSet(f, ConsumerId)
  BY DEF SumFunction
<1>2. IsFiniteSet(ConsumerId)
  BY RatesAssumption
<1> QED BY <1>1, <1>2, SumNat

\* One more slot keeps the split a fair one.
LEMMA GrantKeepsFair ==
  ASSUME NEW head \in [ConsumerId -> Nat], NEW n \in Nat, NEW g \in [ConsumerId -> Nat],
         FairSplit(head, n, g)
  PROVE  Grant(head, g) \in [ConsumerId -> Nat] /\ FairSplit(head, n + 1, Grant(head, g))
<1>f. IsFiniteSet(ConsumerId) /\ \A c \in ConsumerId : Weight[c] \in Nat \ {0}
  BY RatesAssumption
<1>s. /\ SumFunction(g) \in Nat /\ SumFunction(g) = SumFunctionOnSet(g, ConsumerId)
      /\ SumFunction(head) \in Nat /\ SumFunction(head) = SumFunctionOnSet(head, ConsumerId)
  BY HeadSums
<1>i. /\ SumFunction(g) = Least(n, SumFunction(head))
      /\ \A c \in ConsumerId : g[c] <= head[c] /\ g[c] \in Nat /\ head[c] \in Nat
      /\ \A c, d \in ConsumerId : g[c] < head[c] /\ g[d] > 0 =>
            (g[d] - 1) * Weight[c] <= g[c] * Weight[d]
  BY DEF FairSplit
<1>1. CASE Active(head, g) = {}
  <2>1. \A c \in ConsumerId : g[c] = head[c]
    BY <1>1, <1>i DEF Active
  <2>2. SumFunction(g) = SumFunction(head)
    BY <1>f, <1>s, <1>i, <2>1, SumSame
  <2>3. SumFunction(g) = Least(n + 1, SumFunction(head))
    BY <1>s, <1>i, <2>2 DEF Least
  <2>4. Grant(head, g) = g
    BY <1>1 DEF Grant
  <2> QED BY <1>i, <2>3, <2>4 DEF FairSplit
<1>2. CASE Active(head, g) # {}
  <2> DEFINE w == Winner(head, g)
             h == [g EXCEPT ![w] = @ + 1]
  <2>1. /\ w \in ConsumerId /\ g[w] < head[w]
        /\ \A d \in ConsumerId : g[d] < head[d] => Behind(g, w, d)
    BY <1>2, WinnerFurthestBehind DEF Active
  <2>2. Grant(head, g) = h
    BY <1>2 DEF Grant
  <2> HIDE DEF w
  <2>3. h[w] = g[w] + 1 /\ h \in [ConsumerId -> Nat] /\ \A c \in ConsumerId : c # w => h[c] = g[c]
    BY <2>1
  <2> HIDE DEF h
  <2>4. \A c \in ConsumerId : h[c] <= head[c] /\ h[c] \in Nat
    BY <1>i, <2>1, <2>3
  <2>5. SumFunction(h) = Least(n + 1, SumFunction(head))
    <3>1. SumFunction(h) = SumFunctionOnSet(h, ConsumerId)
      BY <2>3, HeadSums
    <3>2. SumFunctionOnSet(h, ConsumerId) = SumFunctionOnSet(g, ConsumerId) + 1
      <4>1. PICK k \in Int : k = 1
        OBVIOUS
      <4>2. /\ h[w] = g[w] + k /\ \A c \in ConsumerId : c # w => h[c] = g[c]
            /\ w \in ConsumerId /\ \A c \in ConsumerId : g[c] \in Int
        BY <1>i, <2>1, <2>3, <4>1
      <4>3. SumFunctionOnSet(h, ConsumerId) = SumFunctionOnSet(g, ConsumerId) + k
        BY <1>f, <4>2, SumOneMore
      <4> QED BY <4>1, <4>3
    <3>3. SumFunctionOnSet(h, ConsumerId) <= SumFunctionOnSet(head, ConsumerId)
      BY <1>f, <1>i, <2>4, SumMonotone
    <3>4. /\ SumFunction(h) = SumFunction(g) + 1 /\ SumFunction(h) <= SumFunction(head)
          /\ SumFunction(g) = IF n < SumFunction(head) THEN n ELSE SumFunction(head)
      BY <1>s, <1>i, <3>1, <3>2, <3>3 DEF Least
    <3>5. SumFunction(h) = IF n + 1 < SumFunction(head) THEN n + 1 ELSE SumFunction(head)
      BY <1>s, <3>4
    <3> QED BY <3>5 DEF Least
  <2>6. ASSUME NEW c \in ConsumerId, NEW d \in ConsumerId, h[c] < head[c], h[d] > 0
        PROVE  (h[d] - 1) * Weight[c] <= h[c] * Weight[d]
    <3>1. /\ g[c] \in Nat /\ g[d] \in Nat /\ g[w] \in Nat /\ g[c] < head[c] /\ g[c] <= h[c]
          /\ Weight[c] \in Nat \ {0} /\ Weight[d] \in Nat \ {0} /\ h[c] \in Nat
      BY <1>f, <1>i, <2>1, <2>3, <2>6
    <3>2. g[c] * Weight[d] <= h[c] * Weight[d]
      BY <3>1
    <3>3. CASE d = w
      <4>1. Behind(g, w, c)
        BY <2>1, <3>1
      <4>2. g[w] * Weight[c] <= g[c] * Weight[w]
        BY <3>1, <3>3, <4>1 DEF Behind
      <4>3. h[d] - 1 = g[d]
        BY <2>3, <3>1, <3>3
      <4>4. /\ g[d] * Weight[c] \in Int /\ g[c] * Weight[d] \in Int /\ h[c] * Weight[d] \in Int
        BY <3>1
      <4> QED BY <3>2, <3>3, <4>2, <4>3, <4>4
    <3>4. CASE d # w
      <4>1. h[d] = g[d]
        BY <2>3, <3>4
      <4>2. (g[d] - 1) * Weight[c] <= g[c] * Weight[d]
        BY <1>i, <2>6, <3>1, <4>1
      <4>3. /\ (g[d] - 1) * Weight[c] \in Int /\ g[c] * Weight[d] \in Int
            /\ h[c] * Weight[d] \in Int
        BY <3>1
      <4> QED BY <3>2, <4>1, <4>2, <4>3
    <3> QED BY <3>3, <3>4
  <2>7. FairSplit(head, n + 1, h)
    BY <2>4, <2>5, <2>6 DEF FairSplit
  <2> QED BY <2>2, <2>3, <2>7
<1> QED BY <1>1, <1>2

\* allocate splits any budget fairly, whatever the headrooms: weighted max-min to
\* within a slot, nothing left over while somebody could take it.
THEOREM AllocateIsFair ==
  ASSUME NEW head \in [ConsumerId -> Nat], NEW budget \in Nat
  PROVE  /\ Allocate(head, budget) \in [ConsumerId -> Nat]
         /\ FairSplit(head, budget, Allocate(head, budget))
<1>1. PICK g : Run(head, budget, g) /\ Allocate(head, budget) = g[budget]
  BY AllocateRuns
<1>2. \A m \in 0 .. budget : g[m] = IF m = 0 THEN Zero ELSE Grant(head, g[m - 1])
  BY <1>1 DEF Run
<1> DEFINE Good(m) == g[m] \in [ConsumerId -> Nat] /\ FairSplit(head, m, g[m])
           Bad == {m \in 0 .. budget : ~Good(m)}
<1>3. ASSUME Bad # {} PROVE FALSE
  <2>1. PICK m \in Bad : \A j \in Bad : m <= j
    <3>1. Bad \subseteq 0 .. budget
      OBVIOUS
    <3> HIDE DEF Bad
    <3> QED BY <1>3, <3>1, HasLeast
  <2>2. m \in 0 .. budget /\ ~Good(m)
    OBVIOUS
  <2>3. CASE m = 0
    <3>1. g[m] = Zero
      BY <1>2, <2>2, <2>3
    <3>2. Zero \in [ConsumerId -> Nat] /\ \A c \in ConsumerId : Zero[c] = 0 /\ head[c] \in Nat
      BY DEF Zero
    <3>3. SumFunction(Zero) = 0
      <4>1. IsFiniteSet(ConsumerId)
        BY RatesAssumption
      <4>2. SumFunctionOnSet(Zero, ConsumerId) = SumFunctionOnSet(Zero, ConsumerId) + SumFunctionOnSet(Zero, ConsumerId)
        BY <3>2, <4>1, SumOfBoth
      <4> QED BY <3>2, <4>2, HeadSums
    <3>4. FairSplit(head, 0, Zero)
      <4>1. Least(0, SumFunction(head)) = 0
        BY HeadSums DEF Least
      <4> QED BY <3>2, <3>3, <4>1 DEF FairSplit
    <3> QED BY <2>2, <2>3, <3>1, <3>2, <3>4
  <2>4. CASE m # 0
    <3>1. m - 1 \in 0 .. budget /\ ~(m <= m - 1) /\ m - 1 \in Nat /\ (m - 1) + 1 = m
      BY <2>2, <2>4
    <3>2. m - 1 \notin Bad
      <4> HIDE DEF Bad
      <4> QED BY <2>1, <3>1
    <3>3. Good(m - 1)
      BY <3>1, <3>2
    <3>4. g[m] = Grant(head, g[m - 1])
      BY <1>2, <2>2, <2>4
    <3> QED BY <2>2, <3>1, <3>3, <3>4, GrantKeepsFair
  <2> QED BY <2>3, <2>4
<1>4. budget \in 0 .. budget
  OBVIOUS
<1>5. Good(budget)
  BY <1>3, <1>4
<1> HIDE DEF Bad
<1> QED BY <1>1, <1>5

\* Fair within a pass is not fair across them, which allocate leaves to the window
\* on purpose: the slots of a pass are handed out from nothing granted, so the
\* only slot of a pass goes to the lowest id that can take it, whatever the weights
\* and whoever got the last one.
THEOREM SingleSlotToTheFirst ==
  ASSUME NEW head \in [ConsumerId -> Nat], NEW c \in ConsumerId, head[c] > 0,
         \A d \in ConsumerId : head[d] > 0 => c <= d
  PROVE  Allocate(head, 1) = [Zero EXCEPT ![c] = 1]
<1>1. PICK g : Run(head, 1, g) /\ Allocate(head, 1) = g[1]
  BY AllocateRuns
<1>2. g[0] = Zero /\ g[1] = Grant(head, g[0])
  BY <1>1 DEF Run
<1>3. /\ Active(head, Zero) = {d \in ConsumerId : head[d] > 0}
      /\ \A d \in ConsumerId : Zero[d] = 0
  BY DEF Active, Zero
<1>4. /\ ConsumerId \subseteq Int
      /\ \A a, b \in ConsumerId : Behind(Zero, a, b) <=> a <= b
  <2>1. \A b \in ConsumerId : Weight[b] \in Int /\ 0 * Weight[b] = 0
    BY RatesAssumption
  <2> QED BY <1>3, <2>1, RatesAssumption DEF Behind
<1>5. Winner(head, Zero) = c
  <2>1. c \in Active(head, Zero) /\ \A d \in Active(head, Zero) : Behind(Zero, c, d)
    BY <1>3, <1>4
  <2>2. \A w \in Active(head, Zero) :
          (\A d \in Active(head, Zero) : Behind(Zero, w, d)) => w = c
    BY <1>3, <1>4, <2>1
  <2> QED BY <2>1, <2>2 DEF Winner
<1>6. Grant(head, Zero) = [Zero EXCEPT ![c] = Zero[c] + 1]
  BY <1>3, <1>5 DEF Grant
<1> QED BY <1>1, <1>2, <1>3, <1>6

-----------------------------------------------------------------------------
(* The attempts of a window, and how a claim and the time move them.         *)

Ages == 0 .. Window + PassTicks
WindowSum(st, c, since) == SumFunctionOnSet(st[c], 0 .. Window + since)
AllSum(st, since) == SumFunction([c \in ConsumerId |-> WindowSum(st, c, since)])

LEMMA Finite ==
  /\ IsFiniteSet(ConsumerId)
  /\ \A n \in Int, m \in Int : IsFiniteSet(m .. n)
<1>1. ASSUME NEW n \in Int, NEW m \in Int PROVE IsFiniteSet(m .. n)
  BY FS_Interval
<1> QED BY <1>1, RatesAssumption

LEMMA WindowSums ==
  ASSUME NEW st \in [ConsumerId -> [Ages -> Nat]], NEW since \in 0 .. PassTicks
  PROVE  /\ \A c \in ConsumerId : WindowSum(st, c, since) \in Nat
         /\ \A c \in ConsumerId : WindowSum(st, c, 0) <= WindowSum(st, c, since)
         /\ AllSum(st, since) \in Nat /\ AllSum(st, 0) <= AllSum(st, since)
<1> DEFINE all == 0 .. Window + since
           those == 0 .. Window + 0
<1>0. Window \in Nat /\ PassTicks \in Nat /\ since \in Nat /\ Window + since \in Int
      /\ Window + 0 \in Int
  BY RatesAssumption, BoundsAssumption
<1>1. IsFiniteSet(all) /\ IsFiniteSet(those) /\ those \in SUBSET all
  <2>1. IsFiniteSet(all)
    BY <1>0, Finite
  <2>2. IsFiniteSet(those)
    BY <1>0, Finite
  <2>3. those \in SUBSET all
    BY <1>0
  <2> QED BY <2>1, <2>2, <2>3
<1>2. \A c \in ConsumerId : \A a \in all : st[c][a] \in Nat
  BY <1>0 DEF Ages
<1>3. \A c \in ConsumerId : /\ WindowSum(st, c, since) = SumFunctionOnSet(st[c], all)
                            /\ WindowSum(st, c, 0) = SumFunctionOnSet(st[c], those)
  BY DEF WindowSum
<1> HIDE DEF all, those
<1>4. \A c \in ConsumerId : WindowSum(st, c, since) \in Nat
  BY <1>1, <1>2, <1>3, SumNat
<1>5. \A c \in ConsumerId : WindowSum(st, c, 0) <= WindowSum(st, c, since)
  BY <1>1, <1>2, <1>3, SumPart
<1>6. \A c \in ConsumerId : WindowSum(st, c, 0) \in Nat
  BY <1>1, <1>2, <1>3, SumNat
<1> DEFINE late == [c \in ConsumerId |-> WindowSum(st, c, since)]
           now  == [c \in ConsumerId |-> WindowSum(st, c, 0)]
<1>7. late \in [ConsumerId -> Nat] /\ now \in [ConsumerId -> Nat]
      /\ \A c \in ConsumerId : now[c] <= late[c]
  BY <1>4, <1>5, <1>6
<1>8. AllSum(st, since) = SumFunction(late) /\ AllSum(st, 0) = SumFunction(now)
  BY DEF AllSum
<1> HIDE DEF late, now
<1>9. \A c \in ConsumerId : now[c] \in Int /\ late[c] \in Int /\ now[c] <= late[c]
  BY <1>7
<1>10. SumFunctionOnSet(now, ConsumerId) <= SumFunctionOnSet(late, ConsumerId)
  BY <1>9, Finite, SumMonotone
<1>11. AllSum(st, since) \in Nat /\ AllSum(st, 0) <= AllSum(st, since)
  BY <1>7, <1>8, <1>10, HeadSums
<1> QED BY <1>4, <1>5, <1>11

\* One more or one less of what a consumer has.
LEMMA OneMore ==
  ASSUME NEW f \in [ConsumerId -> Nat], NEW g \in [ConsumerId -> Nat], NEW c \in ConsumerId,
         NEW k \in Int, g[c] = f[c] + k, \A d \in ConsumerId : d # c => g[d] = f[d]
  PROVE  SumFunction(g) = SumFunction(f) + k
<1>1. IsFiniteSet(ConsumerId) /\ \A d \in ConsumerId : f[d] \in Int
  BY Finite
<1>2. SumFunctionOnSet(g, ConsumerId) = SumFunctionOnSet(f, ConsumerId) + k
  BY <1>1, SumOneMore
<1> QED BY <1>2, HeadSums

\* A claim is one attempt more, in every window.
LEMMA WindowClaim ==
  ASSUME NEW st \in [ConsumerId -> [Ages -> Nat]], NEW new \in [ConsumerId -> [Ages -> Nat]],
         NEW c \in ConsumerId, NEW since \in 0 .. PassTicks,
         new[c][0] = st[c][0] + 1, \A a \in Ages : a # 0 => new[c][a] = st[c][a],
         \A d \in ConsumerId : d # c => new[d] = st[d]
  PROVE  /\ WindowSum(new, c, since) = WindowSum(st, c, since) + 1
         /\ \A d \in ConsumerId : d # c => WindowSum(new, d, since) = WindowSum(st, d, since)
         /\ AllSum(new, since) = AllSum(st, since) + 1
<1>0. Window \in Nat /\ PassTicks \in Nat /\ since \in Nat /\ Window + since \in Int
  BY RatesAssumption, BoundsAssumption
<1>1. WindowSum(new, c, since) = WindowSum(st, c, since) + 1
  <2> DEFINE all == 0 .. Window + since
  <2>1. IsFiniteSet(all)
    BY <1>0, Finite
  <2>2. 0 \in all /\ \A a \in all : a \in Ages
    BY <1>0 DEF Ages
  <2>3. WindowSum(new, c, since) = SumFunctionOnSet(new[c], all)
        /\ WindowSum(st, c, since) = SumFunctionOnSet(st[c], all)
    BY DEF WindowSum
  <2> HIDE DEF all
  <2>4. \A a \in all : st[c][a] \in Int
    BY <2>2
  <2>5. \A a \in all : a # 0 => new[c][a] = st[c][a]
    BY <2>2
  <2>6. SumFunctionOnSet(new[c], all) = SumFunctionOnSet(st[c], all) + 1
    <3> SUFFICES ASSUME NEW f, NEW g, f = st[c], g = new[c]
                 PROVE  SumFunctionOnSet(g, all) = SumFunctionOnSet(f, all) + 1
      OBVIOUS
    <3>1. \A a \in all : f[a] \in Int
      BY <2>4
    <3>2. PICK k \in Int : k = 1
      OBVIOUS
    <3>3. g[0] = f[0] + k /\ \A a \in all : a # 0 => g[a] = f[a]
      BY <2>5, <3>2
    <3>4. SumFunctionOnSet(g, all) = SumFunctionOnSet(f, all) + k
      BY <2>1, <2>2, <3>1, <3>3, SumOneMore
    <3> QED BY <3>2, <3>4
  <2> QED BY <2>3, <2>6
<1>2. \A d \in ConsumerId : d # c => WindowSum(new, d, since) = WindowSum(st, d, since)
  BY DEF WindowSum
<1>3. AllSum(new, since) = AllSum(st, since) + 1
  <2>1. PICK f, g : /\ f = [d \in ConsumerId |-> WindowSum(st, d, since)]
                    /\ g = [d \in ConsumerId |-> WindowSum(new, d, since)]
    OBVIOUS
  <2>2. \A d \in ConsumerId : WindowSum(st, d, since) \in Nat /\ WindowSum(new, d, since) \in Nat
    BY WindowSums
  <2>3. /\ f \in [ConsumerId -> Nat] /\ g \in [ConsumerId -> Nat] /\ g[c] = f[c] + 1
        /\ \A d \in ConsumerId : f[d] \in Int
        /\ \A d \in ConsumerId : d # c => g[d] = f[d]
    BY <1>1, <1>2, <2>1, <2>2
  <2>4. PICK k \in Int : k = 1
    OBVIOUS
  <2>5. g[c] = f[c] + k /\ \A d \in ConsumerId : d # c => g[d] = f[d]
    BY <2>3, <2>4
  <2>6. SumFunction(g) = SumFunction(f) + k
    BY <2>3, <2>5, OneMore
  <2> QED BY <2>1, <2>4, <2>6 DEF AllSum
<1> QED BY <1>1, <1>2, <1>3

\* Values that move up by one index, an empty one in front of them.
LEMMA SumShift ==
  ASSUME NEW f, NEW g, NEW n \in Nat, \A a \in 0 .. n : f[a] \in Int /\ g[a] \in Int,
         g[0] = 0, \A a \in 0 .. n - 1 : g[a + 1] = f[a]
  PROVE  SumFunctionOnSet(g, 0 .. n) = SumFunctionOnSet(f, 0 .. n - 1)
<1> DEFINE all == 0 .. n
           old == 0 .. n - 1
           moved == 1 .. n
<1>1. IsFiniteSet(all) /\ IsFiniteSet(old) /\ IsFiniteSet(moved)
  <2>1. n - 1 \in Int /\ n \in Int /\ 0 \in Int /\ 1 \in Int
    OBVIOUS
  <2> QED BY <2>1, Finite
<1>2. \A a \in all : f[a] \in Int /\ g[a] \in Int
  OBVIOUS
<1>3. \A a \in old : a \in Int /\ a + 1 \in moved /\ a \in all
  OBVIOUS
<1>4. \A a \in old : f[a] \in Int /\ g[a + 1] = f[a]
  OBVIOUS
<1>5. \A b \in moved : b \in Int /\ b - 1 \in old
  OBVIOUS
<1>6. 0 \in all /\ moved = all \ {0}
  OBVIOUS
<1> HIDE DEF all, old, moved
<1>7. SumFunctionOnSet(g, moved) = SumFunctionOnSet(f, old)
  BY <1>1, <1>3, <1>4, <1>5, SumNextIndex
<1>8. SumFunctionOnSet(g, all) = g[0] + SumFunctionOnSet(g, all \ {0})
  BY <1>1, <1>2, <1>6, SumRest
<1>9. SumFunctionOnSet(g, all \ {0}) = SumFunctionOnSet(g, moved)
  BY <1>6
<1>10. SumFunctionOnSet(f, old) \in Int
  BY <1>1, <1>4, SumType
<1>11. SumFunctionOnSet(g, all) = SumFunctionOnSet(f, old)
  BY <1>7, <1>8, <1>9, <1>10
<1> QED BY <1>11 DEF all, old

\* Time takes attempts out of the last window, and those of a window that grows
\* with it stay what they are.
LEMMA WindowTick ==
  ASSUME NEW st \in [ConsumerId -> [Ages -> Nat]], NEW new \in [ConsumerId -> [Ages -> Nat]],
         \A c \in ConsumerId : new[c][0] = 0,
         \A c \in ConsumerId : \A a \in 0 .. Window - 1 : new[c][a + 1] = st[c][a]
  PROVE  /\ \A c \in ConsumerId : WindowSum(new, c, 0) <= WindowSum(st, c, 0)
         /\ AllSum(new, 0) <= AllSum(st, 0)
<1>0. Window \in Nat /\ PassTicks \in Nat /\ 0 \in 0 .. PassTicks /\ Window + 0 = Window
  BY RatesAssumption, BoundsAssumption
<1>1. ASSUME NEW c \in ConsumerId PROVE WindowSum(new, c, 0) <= WindowSum(st, c, 0)
  <2>1. \A a \in 0 .. Window : a \in Ages
    BY <1>0 DEF Ages
  <2>2. \A a \in 0 .. Window : st[c][a] \in Nat /\ st[c][a] \in Int /\ new[c][a] \in Int
    BY <2>1
  <2>3. SumFunctionOnSet(new[c], 0 .. Window) = SumFunctionOnSet(st[c], 0 .. Window - 1)
    <3> DEFINE f == st[c]
               g == new[c]
    <3>1. \A a \in 0 .. Window : f[a] \in Int /\ g[a] \in Int
      BY <2>2
    <3>2. g[0] = 0
      OBVIOUS
    <3>3. \A a \in 0 .. Window - 1 : g[a + 1] = f[a]
      OBVIOUS
    <3>4. Window \in Nat
      BY <1>0
    <3> HIDE DEF f, g
    <3>5. SumFunctionOnSet(g, 0 .. Window) = SumFunctionOnSet(f, 0 .. Window - 1)
      BY <3>1, <3>2, <3>3, <3>4, SumShift, Zenon
    <3> QED BY <3>5 DEF f, g
  <2>4. SumFunctionOnSet(st[c], 0 .. Window - 1) <= SumFunctionOnSet(st[c], 0 .. Window)
    <3> DEFINE old == 0 .. Window - 1
               all == 0 .. Window
    <3>1. old \in SUBSET all
      BY <1>0
    <3>2. IsFiniteSet(all)
      <4>1. 0 \in Int /\ Window \in Int
        BY <1>0
      <4> QED BY <4>1, Finite
    <3>3. \A a \in all : st[c][a] \in Nat
      BY <2>2
    <3> HIDE DEF old, all
    <3>4. SumFunctionOnSet(st[c], old) <= SumFunctionOnSet(st[c], all)
      BY <3>1, <3>2, <3>3, SumPart
    <3> QED BY <3>4 DEF old, all
  <2>5. /\ WindowSum(new, c, 0) = SumFunctionOnSet(new[c], 0 .. Window)
        /\ WindowSum(st, c, 0) = SumFunctionOnSet(st[c], 0 .. Window)
    BY <1>0 DEF WindowSum
  <2> QED BY <2>3, <2>4, <2>5
<1> DEFINE f == [c \in ConsumerId |-> WindowSum(st, c, 0)]
           g == [c \in ConsumerId |-> WindowSum(new, c, 0)]
<1>2. /\ f \in [ConsumerId -> Nat] /\ g \in [ConsumerId -> Nat]
      /\ \A c \in ConsumerId : g[c] \in Int /\ f[c] \in Int /\ g[c] <= f[c]
  BY <1>0, <1>1, WindowSums
<1>3. AllSum(new, 0) = SumFunction(g) /\ AllSum(st, 0) = SumFunction(f)
  BY DEF AllSum
<1> HIDE DEF f, g
<1>4. SumFunctionOnSet(g, ConsumerId) <= SumFunctionOnSet(f, ConsumerId)
  BY <1>2, Finite, SumMonotone
<1> QED BY <1>1, <1>2, <1>3, <1>4, HeadSums

LEMMA WindowGrows ==
  ASSUME NEW st \in [ConsumerId -> [Ages -> Nat]], NEW new \in [ConsumerId -> [Ages -> Nat]],
         NEW since \in Nat, since + 1 <= PassTicks,
         \A c \in ConsumerId : new[c][0] = 0,
         \A c \in ConsumerId : \A a \in 0 .. Window + since : new[c][a + 1] = st[c][a]
  PROVE  /\ \A c \in ConsumerId : WindowSum(new, c, since + 1) = WindowSum(st, c, since)
         /\ AllSum(new, since + 1) = AllSum(st, since)
<1>0. Window \in Nat /\ PassTicks \in Nat
  BY RatesAssumption, BoundsAssumption
<1>1. ASSUME NEW c \in ConsumerId PROVE WindowSum(new, c, since + 1) = WindowSum(st, c, since)
  <2>0. PICK n \in Nat : n = Window + (since + 1) /\ n - 1 = Window + since
    <3>1. Window + (since + 1) \in Nat /\ (Window + (since + 1)) - 1 = Window + since
      BY <1>0
    <3> QED BY <3>1
  <2>1. \A a \in 0 .. n : a \in Ages
    BY <1>0, <2>0 DEF Ages
  <2>2. \A a \in 0 .. n : st[c][a] \in Int /\ new[c][a] \in Int
    BY <2>1
  <2>3. \A a \in 0 .. n - 1 : new[c][a + 1] = st[c][a]
    BY <2>0
  <2>4. SumFunctionOnSet(new[c], 0 .. n) = SumFunctionOnSet(st[c], 0 .. n - 1)
    BY <2>2, <2>3, SumShift
  <2>5. /\ WindowSum(new, c, since + 1) = SumFunctionOnSet(new[c], 0 .. n)
        /\ WindowSum(st, c, since) = SumFunctionOnSet(st[c], 0 .. n - 1)
    BY <2>0 DEF WindowSum
  <2> QED BY <2>4, <2>5
<1>2. [c \in ConsumerId |-> WindowSum(new, c, since + 1)]
      = [c \in ConsumerId |-> WindowSum(st, c, since)]
  BY <1>1
<1> QED BY <1>1, <1>2 DEF AllSum

-----------------------------------------------------------------------------
(* The invariant.  What a pass has read stays a safe basis for what it will   *)
(* admit: of the work that it counted none can have become more since, because *)
(* only the pass itself adds to the ready rows, and a claim that takes one     *)
(* away adds an attempt.                                                      *)

TableTypes ==
    /\ pending \in [ConsumerId -> Nat] /\ ready \in [ConsumerId -> Nat]
    /\ inFlight \in [ConsumerId -> Nat] /\ supply \in [ConsumerId -> Nat]
    /\ started \in [ConsumerId -> [Ages -> Nat]]
PassTypes ==
    /\ demand \in [ConsumerId -> Nat] /\ headroom \in [ConsumerId -> Nat]
    /\ allowance \in [ConsumerId -> Nat]
    /\ pc \in {"idle", "gauges", "ready", "window", "demand", "usage", "candidates"}
    /\ elapsed \in 0 .. PassTicks /\ fair \in BOOLEAN
    /\ gauges \in [ConsumerId -> [ready : Nat, inFlight : Nat]]
    /\ readyCount \in Nat /\ slots \in 0 .. BufferTarget

\* compute_budget's ready count is no less than the ready rows that are left ...
Counted == pc = "window" => SumFunction(ready) <= readyCount
\* ... so its slots fit into the rate and the buffer, whatever was claimed since.
Slotted == pc \in {"demand", "usage", "candidates"} =>
    /\ SumFunction(ready) + AllInWindow(elapsed) + slots <= GlobalRate
    /\ SumFunction(ready) + slots <= BufferTarget
\* The gauges are no less than the ready rows of a consumer, ...
Gauged == pc \in {"ready", "window", "demand", "usage"} =>
    \A c \in ConsumerId : ready[c] <= gauges[c].ready
\* ... so what it is allowed fits into its rate.
Allowed == pc = "candidates" =>
    \A c \in ConsumerId :
        allowance[c] = 0 \/ ready[c] + InWindow(c, elapsed) + allowance[c] <= RateCap[c]

IInv ==
    /\ TableTypes /\ PassTypes
    /\ GlobalRateHolds /\ ConsumerRateHolds /\ BufferHolds /\ SharesFair
    /\ Counted /\ Slotted /\ Gauged /\ Allowed

LEMMA TypesApart == TableTypes /\ PassTypes => TypeOK
BY DEF TableTypes, PassTypes, TypeOK, Ages

LEMMA Sizes ==
  ASSUME TableTypes, NEW since \in 0 .. PassTicks
  PROVE  /\ SumFunction(ready) \in Nat
         /\ AllInWindow(since) \in Nat /\ AllInWindow(0) <= AllInWindow(since)
         /\ \A c \in ConsumerId : /\ ready[c] \in Nat /\ InWindow(c, since) \in Nat
                                  /\ InWindow(c, 0) <= InWindow(c, since)
         /\ AllInWindow(0) \in Nat /\ \A c \in ConsumerId : InWindow(c, 0) \in Nat
<1>1. 0 \in 0 .. PassTicks
  BY BoundsAssumption
<1>2. ready \in [ConsumerId -> Nat] /\ started \in [ConsumerId -> [Ages -> Nat]]
  BY DEF TableTypes
<1>3. \A e \in 0 .. PassTicks : AllInWindow(e) = AllSum(started, e)
  BY DEF AllInWindow, InWindow, AllSum, WindowSum
<1>4. \A e \in 0 .. PassTicks, c \in ConsumerId : InWindow(c, e) = WindowSum(started, c, e)
  BY DEF InWindow, WindowSum
<1>5. SumFunction(ready) \in Nat
  BY <1>2, HeadSums
<1>6. AllInWindow(since) \in Nat /\ AllInWindow(0) <= AllInWindow(since)
  BY <1>1, <1>2, <1>3, WindowSums
<1>7. \A c \in ConsumerId : InWindow(c, since) \in Nat /\ InWindow(c, 0) <= InWindow(c, since)
  BY <1>1, <1>2, <1>4, WindowSums
<1>8. AllInWindow(0) \in Nat /\ \A c \in ConsumerId : InWindow(c, 0) \in Nat
  BY <1>1, <1>2, <1>3, <1>4, WindowSums
<1> QED BY <1>2, <1>5, <1>6, <1>7, <1>8

\* A step of the rest of the system that makes no more of the ready rows and of
\* what they and the attempts come to.
LEMMA TableMoves ==
  ASSUME IInv, UNCHANGED passVars, TableTypes',
         SumFunction(ready') <= SumFunction(ready),
         \A e \in 0 .. PassTicks :
            SumFunction(ready') + AllSum(started', e) <= SumFunction(ready) + AllSum(started, e),
         \A c \in ConsumerId : ready'[c] <= ready[c],
         \A c \in ConsumerId, e \in 0 .. PassTicks :
            ready'[c] + WindowSum(started', c, e) <= ready[c] + WindowSum(started, c, e)
  PROVE  IInv'
<1>0. /\ 0 \in 0 .. PassTicks /\ elapsed \in 0 .. PassTicks
      /\ slots \in Nat /\ readyCount \in Nat /\ GlobalRate \in Nat /\ BufferTarget \in Nat
      /\ RateCap \in [ConsumerId -> Nat] /\ allowance \in [ConsumerId -> Nat]
      /\ gauges \in [ConsumerId -> [ready : Nat, inFlight : Nat]]
  BY RatesAssumption, BoundsAssumption DEF IInv, PassTypes
<1>1. /\ pc' = pc /\ elapsed' = elapsed /\ fair' = fair /\ gauges' = gauges
      /\ readyCount' = readyCount /\ slots' = slots /\ demand' = demand
      /\ headroom' = headroom /\ allowance' = allowance
  BY DEF passVars
<1>2. /\ ready \in [ConsumerId -> Nat] /\ started \in [ConsumerId -> [Ages -> Nat]]
      /\ ready' \in [ConsumerId -> Nat] /\ started' \in [ConsumerId -> [Ages -> Nat]]
  BY DEF IInv, TableTypes
<1>3. /\ SumFunction(ready) \in Nat /\ SumFunction(ready') \in Nat
      /\ \A c \in ConsumerId : ready[c] \in Nat /\ ready'[c] \in Nat
  BY <1>2, HeadSums
<1>4. \A e \in 0 .. PassTicks : AllSum(started, e) \in Nat /\ AllSum(started', e) \in Nat
  BY <1>2, WindowSums
<1>5. \A c \in ConsumerId, e \in 0 .. PassTicks :
         WindowSum(started, c, e) \in Nat /\ WindowSum(started', c, e) \in Nat
  BY <1>2, WindowSums
<1>6. /\ AllInWindow(0) = AllSum(started, 0) /\ AllInWindow(0)' = AllSum(started', 0)
      /\ AllInWindow(elapsed) = AllSum(started, elapsed)
      /\ AllInWindow(elapsed)' = AllSum(started', elapsed)
  BY <1>1 DEF AllInWindow, InWindow, AllSum, WindowSum
<1>7. \A c \in ConsumerId :
         /\ InWindow(c, 0) = WindowSum(started, c, 0)
         /\ InWindow(c, 0)' = WindowSum(started', c, 0)
         /\ InWindow(c, elapsed) = WindowSum(started, c, elapsed)
         /\ InWindow(c, elapsed)' = WindowSum(started', c, elapsed)
  BY <1>1 DEF InWindow, WindowSum
<1>8. PassTypes' /\ SharesFair'
  BY <1>1 DEF IInv, PassTypes, SharesFair, FairSplit
<1>9. GlobalRateHolds'
  <2>1. SumFunction(ready) + AllSum(started, 0) <= GlobalRate
    BY <1>6 DEF IInv, GlobalRateHolds
  <2>2. SumFunction(ready') + AllSum(started', 0) <= GlobalRate
    BY <1>0, <1>3, <1>4, <2>1
  <2> QED BY <1>6, <2>2 DEF GlobalRateHolds
<1>10. ConsumerRateHolds'
  <2>1. SUFFICES ASSUME NEW c \in ConsumerId
                 PROVE  ready'[c] + WindowSum(started', c, 0) <= RateCap[c]
    BY <1>7 DEF ConsumerRateHolds
  <2>2. ready[c] + WindowSum(started, c, 0) <= RateCap[c]
    BY <1>7 DEF IInv, ConsumerRateHolds
  <2>3. ready'[c] + WindowSum(started', c, 0) <= ready[c] + WindowSum(started, c, 0)
    BY <1>0
  <2>4. RateCap[c] \in Nat
    BY <1>0
  <2> QED BY <1>0, <1>3, <1>5, <2>2, <2>3, <2>4
<1>11. BufferHolds'
  BY <1>0, <1>3 DEF IInv, BufferHolds
<1>12. Counted'
  BY <1>0, <1>1, <1>3 DEF IInv, Counted
<1>13. Slotted'
  <2>1. SUFFICES ASSUME pc \in {"demand", "usage", "candidates"}
                 PROVE  /\ SumFunction(ready') + AllSum(started', elapsed) + slots <= GlobalRate
                        /\ SumFunction(ready') + slots <= BufferTarget
    BY <1>1, <1>6 DEF Slotted
  <2>2. /\ SumFunction(ready) + AllSum(started, elapsed) + slots <= GlobalRate
        /\ SumFunction(ready) + slots <= BufferTarget
    BY <1>6, <2>1 DEF IInv, Slotted
  <2>3. SumFunction(ready') + AllSum(started', elapsed)
        <= SumFunction(ready) + AllSum(started, elapsed)
    BY <1>0
  <2>4. AllSum(started, elapsed) \in Nat /\ AllSum(started', elapsed) \in Nat
    BY <1>0, <1>4
  <2> QED BY <1>0, <1>3, <2>2, <2>3, <2>4
<1>14. Gauged'
  <2>1. SUFFICES ASSUME pc \in {"ready", "window", "demand", "usage"}, NEW c \in ConsumerId
                 PROVE  ready'[c] <= gauges[c].ready
    BY <1>1 DEF Gauged
  <2>2. ready[c] <= gauges[c].ready /\ gauges[c].ready \in Nat
    BY <1>0, <2>1 DEF IInv, Gauged
  <2> QED BY <1>3, <2>2
<1>15. Allowed'
  <2>1. SUFFICES ASSUME pc = "candidates", NEW c \in ConsumerId, allowance[c] # 0
                 PROVE  ready'[c] + WindowSum(started', c, elapsed) + allowance[c] <= RateCap[c]
    BY <1>1, <1>7 DEF Allowed
  <2>2. ready[c] + WindowSum(started, c, elapsed) + allowance[c] <= RateCap[c]
    BY <1>7, <2>1 DEF IInv, Allowed
  <2>3. ready'[c] + WindowSum(started', c, elapsed) <= ready[c] + WindowSum(started, c, elapsed)
    BY <1>0
  <2>4. RateCap[c] \in Nat /\ allowance[c] \in Nat
    BY <1>0
  <2>5. WindowSum(started, c, elapsed) \in Nat /\ WindowSum(started', c, elapsed) \in Nat
    BY <1>0, <1>5
  <2> QED BY <1>3, <2>2, <2>3, <2>4, <2>5
<1> QED BY <1>8, <1>9, <1>10, <1>11, <1>12, <1>13, <1>14, <1>15 DEF IInv

LEMMA StaysPut ==
  ASSUME IInv, UNCHANGED <<ready, started, passVars>>, TableTypes'
  PROVE  IInv'
<1>1. /\ ready \in [ConsumerId -> Nat] /\ started \in [ConsumerId -> [Ages -> Nat]]
      /\ ready' = ready /\ started' = started
  BY DEF IInv, TableTypes
<1>2. /\ SumFunction(ready) \in Nat /\ \A e \in 0 .. PassTicks : AllSum(started, e) \in Nat
      /\ \A c \in ConsumerId : ready[c] \in Nat
      /\ \A c \in ConsumerId, e \in 0 .. PassTicks : WindowSum(started, c, e) \in Nat
  BY <1>1, HeadSums, WindowSums
<1>3. /\ SumFunction(ready') <= SumFunction(ready)
      /\ \A e \in 0 .. PassTicks :
            SumFunction(ready') + AllSum(started', e) <= SumFunction(ready) + AllSum(started, e)
  BY <1>1, <1>2
<1>4. /\ \A c \in ConsumerId : ready'[c] <= ready[c]
      /\ \A c \in ConsumerId, e \in 0 .. PassTicks :
            ready'[c] + WindowSum(started', c, e) <= ready[c] + WindowSum(started, c, e)
  BY <1>1, <1>2
<1> QED BY <1>3, <1>4, TableMoves

LEMMA ArriveKeeps == ASSUME IInv, NEW c \in ConsumerId, Arrive(c) PROVE IInv'
<1>1. TableTypes'
  BY DEF IInv, TableTypes, Arrive
<1> QED BY <1>1, StaysPut DEF Arrive

LEMMA FinishKeeps == ASSUME IInv, NEW c \in ConsumerId, Finish(c) PROVE IInv'
<1>1. TableTypes'
  BY DEF IInv, TableTypes, Finish
<1> QED BY <1>1, StaysPut DEF Finish

LEMMA ExpireReadyKeeps == ASSUME IInv, NEW c \in ConsumerId, ExpireReady(c) PROVE IInv'
<1>1. TableTypes' /\ UNCHANGED passVars /\ started' = started
  BY DEF IInv, TableTypes, ExpireReady
<1>2. /\ ready \in [ConsumerId -> Nat] /\ started \in [ConsumerId -> [Ages -> Nat]]
      /\ ready' \in [ConsumerId -> Nat]
      /\ ready'[c] = ready[c] + (-1) /\ \A d \in ConsumerId : d # c => ready'[d] = ready[d]
  BY <1>1 DEF IInv, TableTypes, ExpireReady
<1>3. /\ SumFunction(ready) \in Nat /\ \A e \in 0 .. PassTicks : AllSum(started, e) \in Nat
      /\ \A d \in ConsumerId : ready[d] \in Nat
      /\ \A d \in ConsumerId, e \in 0 .. PassTicks : WindowSum(started, d, e) \in Nat
  BY <1>2, HeadSums, WindowSums
<1>4. SumFunction(ready') = SumFunction(ready) + (-1)
  <2>1. PICK k \in Int : k = -1
    OBVIOUS
  <2>2. ready'[c] = ready[c] + k /\ \A d \in ConsumerId : d # c => ready'[d] = ready[d]
    BY <1>2, <2>1
  <2>3. SumFunction(ready') = SumFunction(ready) + k
    BY <1>2, <2>2, OneMore
  <2> QED BY <2>1, <2>3
<1>5. \A d \in ConsumerId : ready'[d] \in Nat /\ ready'[d] <= ready[d]
  BY <1>2, <1>3
<1>6. /\ SumFunction(ready') <= SumFunction(ready)
      /\ \A e \in 0 .. PassTicks :
            SumFunction(ready') + AllSum(started', e) <= SumFunction(ready) + AllSum(started, e)
  BY <1>1, <1>3, <1>4
<1>7. \A d \in ConsumerId, e \in 0 .. PassTicks :
            ready'[d] + WindowSum(started', d, e) <= ready[d] + WindowSum(started, d, e)
  BY <1>1, <1>3, <1>5
<1> QED BY <1>1, <1>5, <1>6, <1>7, TableMoves

\* A claim trades a ready row for an attempt.
LEMMA ClaimKeeps == ASSUME IInv, NEW c \in ConsumerId, Claim(c) PROVE IInv'
<1>1. TableTypes'
  <2>1. 0 \in Ages
    BY RatesAssumption, BoundsAssumption DEF Ages
  <2> QED BY <2>1 DEF IInv, TableTypes, Claim
<1>2. /\ ready \in [ConsumerId -> Nat] /\ started \in [ConsumerId -> [Ages -> Nat]]
      /\ ready' \in [ConsumerId -> Nat] /\ started' \in [ConsumerId -> [Ages -> Nat]]
  BY <1>1 DEF IInv, TableTypes
<1>3. /\ ready'[c] = ready[c] + (-1) /\ \A d \in ConsumerId : d # c => ready'[d] = ready[d]
      /\ UNCHANGED passVars
  BY <1>2 DEF Claim
<1>4. /\ started'[c][0] = started[c][0] + 1
      /\ \A a \in Ages : a # 0 => started'[c][a] = started[c][a]
      /\ \A d \in ConsumerId : d # c => started'[d] = started[d]
  <2>1. 0 \in Ages
    BY RatesAssumption, BoundsAssumption DEF Ages
  <2> QED BY <1>2, <2>1 DEF Claim
<1>5. /\ SumFunction(ready) \in Nat /\ \A e \in 0 .. PassTicks : AllSum(started, e) \in Nat
      /\ \A d \in ConsumerId : ready[d] \in Nat
      /\ \A d \in ConsumerId, e \in 0 .. PassTicks : WindowSum(started, d, e) \in Nat
  BY <1>2, HeadSums, WindowSums
<1>6. SumFunction(ready') = SumFunction(ready) + (-1)
  <2>1. PICK k \in Int : k = -1
    OBVIOUS
  <2>2. ready'[c] = ready[c] + k /\ \A d \in ConsumerId : d # c => ready'[d] = ready[d]
    BY <1>3, <2>1
  <2>3. SumFunction(ready') = SumFunction(ready) + k
    BY <1>2, <2>2, OneMore
  <2> QED BY <2>1, <2>3
<1>7. \A d \in ConsumerId : ready'[d] \in Nat /\ ready'[d] <= ready[d]
  BY <1>2, <1>3, <1>5
<1>8. \A e \in 0 .. PassTicks :
         /\ AllSum(started', e) = AllSum(started, e) + 1
         /\ WindowSum(started', c, e) = WindowSum(started, c, e) + 1
         /\ \A d \in ConsumerId : d # c => WindowSum(started', d, e) = WindowSum(started, d, e)
  <2>1. PICK st, new : st = started /\ new = started'
    OBVIOUS
  <2>2. /\ st \in [ConsumerId -> [Ages -> Nat]] /\ new \in [ConsumerId -> [Ages -> Nat]]
        /\ new[c][0] = st[c][0] + 1 /\ \A a \in Ages : a # 0 => new[c][a] = st[c][a]
        /\ \A d \in ConsumerId : d # c => new[d] = st[d]
    BY <1>2, <1>4, <2>1
  <2>3. \A e \in 0 .. PassTicks :
           /\ WindowSum(new, c, e) = WindowSum(st, c, e) + 1
           /\ \A d \in ConsumerId : d # c => WindowSum(new, d, e) = WindowSum(st, d, e)
           /\ AllSum(new, e) = AllSum(st, e) + 1
    BY <2>2, WindowClaim
  <2> QED BY <2>1, <2>3
<1>9. /\ SumFunction(ready') <= SumFunction(ready)
      /\ \A e \in 0 .. PassTicks :
            SumFunction(ready') + AllSum(started', e) <= SumFunction(ready) + AllSum(started, e)
  BY <1>5, <1>6, <1>8
<1>10. ASSUME NEW d \in ConsumerId, NEW e \in 0 .. PassTicks
       PROVE  ready'[d] + WindowSum(started', d, e) <= ready[d] + WindowSum(started, d, e)
  <2>1. /\ ready[d] \in Nat /\ ready'[d] \in Nat /\ ready'[d] <= ready[d]
        /\ WindowSum(started, d, e) \in Nat
    BY <1>5, <1>7
  <2>2. CASE d = c
    <3>1. WindowSum(started', d, e) = WindowSum(started, d, e) + 1
      BY <1>8, <2>2
    <3> QED BY <1>3, <2>1, <2>2, <3>1
  <2>3. CASE d # c
    <3>1. WindowSum(started', d, e) = WindowSum(started, d, e)
      BY <1>8, <2>3
    <3> QED BY <2>1, <3>1
  <2> QED BY <2>2, <2>3
<1> QED BY <1>1, <1>3, <1>7, <1>9, <1>10, TableMoves

\* Time moves the attempts towards the window's edge; a pass that runs keeps
\* counting those that it counted.
LEMMA TickKeeps == ASSUME IInv, Tick PROVE IInv'
<1>0. /\ Window \in Nat /\ PassTicks \in Nat /\ elapsed \in 0 .. PassTicks /\ 0 \in 0 .. PassTicks
      /\ GlobalRate \in Nat
  BY RatesAssumption, BoundsAssumption DEF IInv, PassTypes
<1>1. /\ ready' = ready /\ pc' = pc /\ fair' = fair /\ gauges' = gauges
      /\ readyCount' = readyCount /\ slots' = slots /\ demand' = demand
      /\ headroom' = headroom /\ allowance' = allowance
      /\ pending' = pending /\ inFlight' = inFlight /\ supply' = supply
  BY DEF Tick
<1>2. ready \in [ConsumerId -> Nat] /\ started \in [ConsumerId -> [Ages -> Nat]]
  BY DEF IInv, TableTypes
<1>3. \A c \in ConsumerId : \A a \in Ages : started'[c][a] =
        IF a = 0 THEN 0 ELSE IF pc = "idle" /\ a > Window THEN 0 ELSE started[c][a - 1]
  BY DEF Tick, Ages
<1>4. /\ 0 \in Ages /\ \A a \in Ages : a # 0 => a - 1 \in Ages
      /\ \A a \in 0 .. Window - 1 : a \in Ages /\ a + 1 \in Ages
  BY <1>0 DEF Ages
<1>5. started' \in [ConsumerId -> [Ages -> Nat]]
  <2>1. \A c \in ConsumerId : \A a \in Ages :
          (IF a = 0 THEN 0 ELSE IF pc = "idle" /\ a > Window THEN 0 ELSE started[c][a - 1]) \in Nat
    BY <1>2, <1>4
  <2>2. started' = [c \in ConsumerId |-> [a \in Ages |->
          IF a = 0 THEN 0 ELSE IF pc = "idle" /\ a > Window THEN 0 ELSE started[c][a - 1]]]
    BY DEF Tick, Ages
  <2> QED BY <2>1, <2>2
<1>6. /\ \A c \in ConsumerId : started'[c][0] = 0
      /\ \A c \in ConsumerId : \A a \in 0 .. Window - 1 : started'[c][a + 1] = started[c][a]
  <2>1. ASSUME NEW c \in ConsumerId, NEW a \in 0 .. Window - 1
        PROVE  started'[c][a + 1] = started[c][a]
    <3>1. a + 1 \in Ages /\ a + 1 # 0 /\ ~(a + 1 > Window) /\ (a + 1) - 1 = a
      BY <1>0, <1>4
    <3> QED BY <1>3, <3>1
  <2> QED BY <1>3, <1>4, <2>1
<1>7. /\ \A c \in ConsumerId : WindowSum(started', c, 0) <= WindowSum(started, c, 0)
      /\ AllSum(started', 0) <= AllSum(started, 0)
  BY <1>2, <1>5, <1>6, WindowTick
<1>8. /\ SumFunction(ready) \in Nat /\ AllSum(started, 0) \in Nat /\ AllSum(started', 0) \in Nat
      /\ \A c \in ConsumerId : /\ ready[c] \in Nat /\ WindowSum(started, c, 0) \in Nat
                               /\ WindowSum(started', c, 0) \in Nat
  BY <1>0, <1>2, <1>5, HeadSums, WindowSums
<1>9. TableTypes'
  BY <1>1, <1>5 DEF IInv, TableTypes
<1>10. PassTypes' /\ SharesFair'
  <2>1. elapsed' \in 0 .. PassTicks
    BY <1>0 DEF Tick
  <2> QED BY <1>1, <2>1 DEF IInv, PassTypes, SharesFair, FairSplit
<1>11. GlobalRateHolds'
  <2>1. AllInWindow(0) = AllSum(started, 0) /\ AllInWindow(0)' = AllSum(started', 0)
    BY DEF AllInWindow, InWindow, AllSum, WindowSum
  <2>2. SumFunction(ready) + AllSum(started, 0) <= GlobalRate
    BY <2>1 DEF IInv, GlobalRateHolds
  <2>3. SumFunction(ready) + AllSum(started', 0) <= GlobalRate
    BY <1>0, <1>7, <1>8, <2>2
  <2> QED BY <1>1, <2>1, <2>3 DEF GlobalRateHolds
<1>12. ConsumerRateHolds'
  <2>1. SUFFICES ASSUME NEW c \in ConsumerId
                 PROVE  ready[c] + WindowSum(started', c, 0) <= RateCap[c]
    BY <1>1 DEF ConsumerRateHolds, InWindow, WindowSum
  <2>2. ready[c] + WindowSum(started, c, 0) <= RateCap[c] /\ RateCap[c] \in Nat
    BY RatesAssumption DEF IInv, ConsumerRateHolds, InWindow, WindowSum
  <2>3. /\ WindowSum(started', c, 0) <= WindowSum(started, c, 0) /\ ready[c] \in Nat
        /\ WindowSum(started', c, 0) \in Nat /\ WindowSum(started, c, 0) \in Nat
    BY <1>7, <1>8
  <2> QED BY <2>2, <2>3
<1>13. BufferHolds' /\ Counted' /\ Gauged'
  BY <1>1 DEF IInv, BufferHolds, Counted, Gauged
<1>14. Slotted' /\ Allowed'
  <2>1. CASE pc = "idle"
    BY <1>1, <2>1 DEF Slotted, Allowed
  <2>2. CASE pc # "idle"
    <3>1. PICK e \in Nat : e = elapsed
      BY <1>0
    <3>2. e + 1 <= PassTicks /\ elapsed' = e + 1
      BY <1>0, <2>2, <3>1 DEF Tick
    <3>3. \A a \in 0 .. Window + e : a + 1 \in Ages /\ a + 1 # 0 /\ (a + 1) - 1 = a
      BY <1>0, <3>1, <3>2 DEF Ages
    <3>4. \A c \in ConsumerId : \A a \in 0 .. Window + e : started'[c][a + 1] = started[c][a]
      BY <1>3, <2>2, <3>3
    <3>5. /\ \A c \in ConsumerId : WindowSum(started', c, e + 1) = WindowSum(started, c, e)
          /\ AllSum(started', e + 1) = AllSum(started, e)
      BY <1>2, <1>5, <1>6, <3>2, <3>4, WindowGrows
    <3>6. AllInWindow(elapsed)' = AllSum(started', e + 1) /\ AllInWindow(elapsed) = AllSum(started, e)
      BY <3>1, <3>2 DEF AllInWindow, InWindow, AllSum, WindowSum
    <3>7. \A c \in ConsumerId : /\ InWindow(c, elapsed)' = WindowSum(started', c, e + 1)
                                /\ InWindow(c, elapsed) = WindowSum(started, c, e)
      BY <3>1, <3>2 DEF InWindow, WindowSum
    <3>8. AllInWindow(elapsed)' = AllInWindow(elapsed)
      BY <3>5, <3>6
    <3>9. \A c \in ConsumerId : InWindow(c, elapsed)' = InWindow(c, elapsed)
      BY <3>5, <3>7
    <3>10. Slotted'
      BY <1>1, <3>8 DEF IInv, Slotted
    <3>11. Allowed'
      BY <1>1, <3>9 DEF IInv, Allowed
    <3> QED BY <3>10, <3>11
  <2> QED BY <2>1, <2>2
<1> QED BY <1>9, <1>10, <1>11, <1>12, <1>13, <1>14 DEF IInv

-----------------------------------------------------------------------------
(* The steps of the pass.                                                    *)

LEMMA TableStays ==
  ASSUME IInv, UNCHANGED tableVars
  PROVE  /\ TableTypes' /\ GlobalRateHolds' /\ ConsumerRateHolds' /\ BufferHolds'
         /\ SumFunction(ready)' = SumFunction(ready)
         /\ elapsed' = elapsed => AllInWindow(elapsed)' = AllInWindow(elapsed)
         /\ elapsed' = elapsed =>
                \A c \in ConsumerId : InWindow(c, elapsed)' = InWindow(c, elapsed)
BY DEF IInv, tableVars, TableTypes, GlobalRateHolds, ConsumerRateHolds, BufferHolds,
       AllInWindow, InWindow

LEMMA IdlePass == ASSUME Idle PROVE PassTypes' /\ SharesFair' /\ Counted' /\ Slotted' /\ Gauged' /\ Allowed'
<1>1. PassTypes'
  BY RatesAssumption, BoundsAssumption DEF Idle, PassTypes, NoGauges, Zero
<1>2. SharesFair' /\ Counted' /\ Slotted' /\ Gauged' /\ Allowed'
  BY DEF Idle, SharesFair, Counted, Slotted, Gauged, Allowed
<1> QED BY <1>1, <1>2

LEMMA IdleKeeps == ASSUME IInv, Idle, UNCHANGED tableVars PROVE IInv'
BY TableStays, IdlePass DEF IInv

LEMMA BeginPassKeeps == ASSUME IInv, NEW arm \in Arms, BeginPass(arm) PROVE IInv'
<1>1. UNCHANGED tableVars /\ arm \in BOOLEAN
  BY RatesAssumption DEF BeginPass
<1>2. PassTypes'
  BY <1>1 DEF IInv, PassTypes, BeginPass
<1>3. SharesFair' /\ Counted' /\ Slotted' /\ Gauged' /\ Allowed'
  BY DEF BeginPass, SharesFair, Counted, Slotted, Gauged, Allowed
<1> QED BY <1>1, <1>2, <1>3, TableStays DEF IInv

LEMMA ReadGaugesKeeps == ASSUME IInv, ReadGauges PROVE IInv'
<1>1. UNCHANGED tableVars
  BY DEF ReadGauges
<1>2. PassTypes'
  BY DEF IInv, TableTypes, PassTypes, ReadGauges
<1>3. SharesFair' /\ Counted' /\ Slotted' /\ Allowed'
  BY DEF ReadGauges, SharesFair, Counted, Slotted, Allowed
<1>4. Gauged'
  <2>1. SUFFICES ASSUME NEW c \in ConsumerId PROVE ready'[c] <= gauges'[c].ready
    BY DEF Gauged
  <2>2. ready'[c] = ready[c] /\ gauges'[c].ready = ready[c] /\ ready[c] \in Nat
    BY DEF IInv, TableTypes, ReadGauges, tableVars
  <2> QED BY <2>2
<1> QED BY <1>1, <1>2, <1>3, <1>4, TableStays DEF IInv

LEMMA CountReadyKeeps == ASSUME IInv, CountReady PROVE IInv'
<1>1. UNCHANGED tableVars
  BY DEF CountReady
<1>2. SumFunction(ready) \in Nat
  BY HeadSums DEF IInv, TableTypes
<1>3. PassTypes'
  BY <1>2 DEF IInv, PassTypes, CountReady
<1>4. SharesFair' /\ Slotted' /\ Allowed'
  BY DEF CountReady, SharesFair, Slotted, Allowed
<1>5. Counted'
  BY <1>1, <1>2, TableStays DEF CountReady, Counted
<1>6. Gauged'
  BY DEF IInv, CountReady, Gauged, tableVars
<1> QED BY <1>1, <1>3, <1>4, <1>5, <1>6, TableStays DEF IInv

LEMMA CountAttemptsKeeps == ASSUME IInv, CountAttempts PROVE IInv'
<1> DEFINE free == BudgetSlots(readyCount, AllInWindow(elapsed))
<1>0. UNCHANGED tableVars /\ pc = "window"
  BY DEF CountAttempts
<1>1. CASE Idle
  BY <1>0, <1>1, IdleKeeps
<1>2. CASE /\ free # 0 /\ slots' = free /\ readyCount' = 0 /\ pc' = "demand"
           /\ UNCHANGED <<elapsed, fair, gauges, demand, headroom, allowance>>
  <2>1. /\ SumFunction(ready) \in Nat /\ AllInWindow(elapsed) \in Nat /\ readyCount \in Nat
        /\ GlobalRate \in Nat /\ BufferTarget \in Nat /\ SumFunction(ready) <= readyCount
    <3>1. elapsed \in 0 .. PassTicks /\ TableTypes
      BY DEF IInv, PassTypes
    <3>2. SumFunction(ready) \in Nat /\ AllInWindow(elapsed) \in Nat
      BY <3>1, Sizes
    <3> QED BY <1>0, <3>2, RatesAssumption DEF IInv, PassTypes, Counted
  <2>2. /\ free \in Nat /\ free <= BufferTarget - readyCount
        /\ free <= GlobalRate - AllInWindow(elapsed) - readyCount
    BY <1>2, <2>1 DEF BudgetSlots, RateSlots, Least, AtLeast0
  <2> HIDE DEF free
  <2>3. PassTypes'
    BY <1>2, <2>1, <2>2 DEF IInv, PassTypes
  <2>4. SharesFair' /\ Counted' /\ Allowed'
    BY <1>2 DEF SharesFair, Counted, Allowed
  <2>5. Slotted'
    <3>1. SumFunction(ready) + AllInWindow(elapsed) + free <= GlobalRate
      BY <2>1, <2>2
    <3>2. SumFunction(ready) + free <= BufferTarget
      BY <2>1, <2>2
    <3>3. SumFunction(ready)' = SumFunction(ready) /\ AllInWindow(elapsed)' = AllInWindow(elapsed)
      BY <1>0, <1>2, TableStays
    <3> QED BY <1>2, <3>1, <3>2, <3>3 DEF Slotted
  <2>6. Gauged'
    BY <1>0, <1>2 DEF IInv, Gauged, tableVars
  <2> QED BY <1>0, <2>3, <2>4, <2>5, <2>6, TableStays DEF IInv
<1> QED BY <1>1, <1>2 DEF CountAttempts

LEMMA ReadDemandKeeps == ASSUME IInv, ReadDemand PROVE IInv'
<1>1. UNCHANGED tableVars /\ elapsed' = elapsed
  BY DEF ReadDemand
<1>2. PassTypes'
  BY DEF IInv, TableTypes, PassTypes, ReadDemand
<1>3. SharesFair' /\ Counted' /\ Allowed'
  BY DEF ReadDemand, SharesFair, Counted, Allowed
<1>4. Slotted'
  <2>1. SumFunction(ready)' = SumFunction(ready) /\ AllInWindow(elapsed)' = AllInWindow(elapsed)
    BY <1>1, TableStays
  <2> QED BY <2>1 DEF IInv, ReadDemand, Slotted
<1>5. Gauged'
  BY DEF IInv, ReadDemand, Gauged, tableVars
<1> QED BY <1>1, <1>2, <1>3, <1>4, <1>5, TableStays DEF IInv

\* What a consumer's headroom was worked out from is no less than what it has.
LEMMA HeadroomFits ==
  ASSUME IInv, pc = "usage", NEW c \in ConsumerId
  PROVE  /\ Headroom(c, InWindow(c, elapsed)) \in Nat
         /\ \/ Headroom(c, InWindow(c, elapsed)) = 0
            \/ ready[c] + InWindow(c, elapsed) + Headroom(c, InWindow(c, elapsed)) <= RateCap[c]
<1>1. /\ InWindow(c, elapsed) \in Nat /\ ready[c] \in Nat /\ RateCap[c] \in Nat
      /\ gauges[c].ready \in Nat /\ ready[c] <= gauges[c].ready /\ demand[c] \in Nat
  <2>1. elapsed \in 0 .. PassTicks /\ TableTypes
    BY DEF IInv, PassTypes
  <2>2. InWindow(c, elapsed) \in Nat /\ ready[c] \in Nat
    BY <2>1, Sizes
  <2> QED BY <2>2, RatesAssumption DEF IInv, PassTypes, Gauged
<1> SUFFICES ASSUME NEW w \in Nat, w = InWindow(c, elapsed)
             PROVE  Headroom(c, w) \in Nat /\ (Headroom(c, w) = 0 \/ ready[c] + w + Headroom(c, w) <= RateCap[c])
  BY <1>1
<1>2. CASE fair /\ gauges[c].inFlight >= ConcurrencyCap[c]
  BY <1>2 DEF Headroom
<1>3. CASE ~(fair /\ gauges[c].inFlight >= ConcurrencyCap[c])
  <2>1. Headroom(c, w) = AtLeast0(Least(demand[c], RateCap[c] - (w + gauges[c].ready)))
    BY <1>3 DEF Headroom
  <2>2. RateCap[c] - (w + gauges[c].ready) \in Int
    BY <1>1
  <2> QED BY <1>1, <2>1, <2>2 DEF AtLeast0, Least
<1> QED BY <1>2, <1>3

LEMMA ReadUsageKeeps == ASSUME IInv, ReadUsage PROVE IInv'
<1> DEFINE head == [c \in ConsumerId |-> Headroom(c, InWindow(c, elapsed))]
           shares == Shares(head)
<1>0. UNCHANGED tableVars /\ pc = "usage"
  BY DEF ReadUsage
<1>1. CASE Idle
  BY <1>0, <1>1, IdleKeeps
<1>2. CASE /\ headroom' = head /\ allowance' = shares /\ pc' = "candidates"
           /\ gauges' = NoGauges /\ demand' = Zero
           /\ UNCHANGED <<elapsed, fair, readyCount, slots>>
  <2>1. /\ head \in [ConsumerId -> Nat]
        /\ \A c \in ConsumerId : head[c] = 0 \/ ready[c] + InWindow(c, elapsed) + head[c] <= RateCap[c]
    BY <1>0, HeadroomFits
  <2> HIDE DEF head
  <2>2. slots \in Nat /\ BufferTarget \in Nat
    BY RatesAssumption DEF IInv, PassTypes
  <2>3. /\ shares \in [ConsumerId -> Nat] /\ \A c \in ConsumerId : shares[c] <= head[c]
        /\ fair => FairSplit(head, slots, shares)
    <3>1. CASE fair
      <4>1. shares = Allocate(head, slots)
        BY <3>1 DEF Shares
      <4> QED BY <2>1, <2>2, <4>1, AllocateIsFair DEF FairSplit
    <3>2. CASE ~fair
      <4>1. shares = [c \in ConsumerId |-> Least(head[c], slots)]
        BY <3>2 DEF Shares, Shared
      <4>2. \A c \in ConsumerId : Least(head[c], slots) \in Nat /\ Least(head[c], slots) <= head[c]
        BY <2>1, <2>2 DEF Least
      <4> HIDE DEF shares
      <4> QED BY <3>2, <4>1, <4>2
    <3> QED BY <3>1, <3>2
  <2> HIDE DEF shares
  <2>4. PassTypes'
    <3>1. NoGauges \in [ConsumerId -> [ready : Nat, inFlight : Nat]] /\ Zero \in [ConsumerId -> Nat]
      BY DEF NoGauges, Zero
    <3> QED BY <1>2, <2>1, <2>3, <3>1 DEF IInv, PassTypes
  <2>5. Counted' /\ Gauged'
    BY <1>2 DEF Counted, Gauged
  <2>6. SharesFair'
    BY <1>2, <2>3 DEF SharesFair, FairSplit
  <2>7. Slotted'
    <3>1. SumFunction(ready)' = SumFunction(ready) /\ AllInWindow(elapsed)' = AllInWindow(elapsed)
      BY <1>0, <1>2, TableStays
    <3> QED BY <1>0, <1>2, <3>1 DEF IInv, Slotted
  <2>8. Allowed'
    <3>1. \A c \in ConsumerId : InWindow(c, elapsed)' = InWindow(c, elapsed) /\ ready'[c] = ready[c]
      BY <1>0, <1>2, TableStays DEF tableVars
    <3>2. ASSUME NEW c \in ConsumerId, shares[c] # 0
          PROVE  ready[c] + InWindow(c, elapsed) + shares[c] <= RateCap[c]
      <4>1. elapsed \in 0 .. PassTicks /\ TableTypes
        BY DEF IInv, PassTypes
      <4>2. InWindow(c, elapsed) \in Nat /\ ready[c] \in Nat
        BY <4>1, Sizes
      <4>3. RateCap[c] \in Nat /\ head[c] \in Nat /\ shares[c] \in Nat /\ shares[c] <= head[c]
        BY <2>1, <2>3, RatesAssumption
      <4>4. ready[c] + InWindow(c, elapsed) + head[c] <= RateCap[c]
        BY <2>1, <3>2, <4>3
      <4> QED BY <4>2, <4>3, <4>4
    <3> QED BY <1>2, <3>1, <3>2 DEF Allowed
  <2> QED BY <1>0, <2>4, <2>5, <2>6, <2>7, <2>8, TableStays DEF IInv
<1> QED BY <1>1, <1>2 DEF ReadUsage

LEMMA CountsAreNatural == ASSUME NEW f \in Counts PROVE f \in [ConsumerId -> Nat]
<1>1. PICK m : f \in [ConsumerId -> 0 .. m]
  BY DEF Counts
<1>2. \A x \in 0 .. m : x \in Nat
  OBVIOUS
<1> QED BY <1>1, <1>2

\* What a commit adds to the ready rows is within the slots and the allowances,
\* and what it takes off the pending ones was pending.
LEMMA CommitMoves ==
  ASSUME IInv, CommitPass
  PROVE  \E admit \in [ConsumerId -> Nat] :
            /\ SumFunction(admit) <= slots
            /\ \A c \in ConsumerId : admit[c] <= allowance[c]
            /\ pending' \in [ConsumerId -> Nat]
            /\ ready' = [c \in ConsumerId |-> ready[c] + admit[c]]
<1>1. PICK fetched \in Counts, survivors \in Counts, admit \in Counts :
        /\ Fetches(fetched)
        /\ \A c \in ConsumerId : survivors[c] <= fetched[c]
        /\ Admits(admit, survivors)
        /\ pending' = [c \in ConsumerId |->
                          pending[c] - (fetched[c] - survivors[c]) - admit[c]]
        /\ ready'   = [c \in ConsumerId |-> ready[c] + admit[c]]
  BY DEF CommitPass
<1>2. /\ fetched \in [ConsumerId -> Nat] /\ survivors \in [ConsumerId -> Nat]
      /\ admit \in [ConsumerId -> Nat]
  BY CountsAreNatural
<1>3. /\ pending \in [ConsumerId -> Nat] /\ allowance \in [ConsumerId -> Nat]
      /\ slots \in Nat
  BY RatesAssumption DEF IInv, TableTypes, PassTypes
<1>4. \A c \in ConsumerId : fetched[c] <= pending[c]
  <2>1. CASE fair
    <3>1. PICK wanted : \A c \in ConsumerId : fetched[c] = Least(pending[c], wanted)
      BY <1>1, <2>1 DEF Fetches
    <3>2. ASSUME NEW c \in ConsumerId PROVE fetched[c] <= pending[c]
      <4>1. fetched[c] \in Nat /\ pending[c] \in Nat
        BY <1>2, <1>3
      <4>2. fetched[c] = IF pending[c] < wanted THEN pending[c] ELSE wanted
        BY <3>1 DEF Least
      <4> QED BY <4>1, <4>2
    <3> QED BY <3>2
  <2>2. CASE ~fair
    BY <1>1, <2>2 DEF Fetches
  <2> QED BY <2>1, <2>2
<1> DEFINE may == [c \in ConsumerId |-> Least(survivors[c], allowance[c])]
<1>5. \A c \in ConsumerId : may[c] \in Nat /\ may[c] <= survivors[c] /\ may[c] <= allowance[c]
  BY <1>2, <1>3 DEF Least
<1>6. may \in [ConsumerId -> Nat]
  BY <1>5
<1>7. /\ \A c \in ConsumerId : admit[c] <= may[c]
      /\ SumFunction(admit) = Least(SumFunction(may), slots)
  BY <1>1 DEF Admits
<1> HIDE DEF may
<1>8. SumFunction(admit) <= slots
  BY <1>3, <1>6, <1>7, HeadSums DEF Least
<1>9. \A c \in ConsumerId :
         /\ admit[c] \in Nat /\ admit[c] <= survivors[c] /\ admit[c] <= allowance[c]
         /\ survivors[c] \in Nat /\ fetched[c] \in Nat /\ pending[c] \in Nat
  <2>1. SUFFICES ASSUME NEW c \in ConsumerId
                 PROVE  admit[c] <= survivors[c] /\ admit[c] <= allowance[c]
    BY <1>2, <1>3
  <2>2. /\ admit[c] \in Nat /\ may[c] \in Nat /\ survivors[c] \in Nat /\ allowance[c] \in Nat
        /\ admit[c] <= may[c] /\ may[c] <= survivors[c] /\ may[c] <= allowance[c]
    BY <1>2, <1>3, <1>5, <1>7
  <2> QED BY <2>2
<1>10. \A c \in ConsumerId : pending[c] - (fetched[c] - survivors[c]) - admit[c] \in Nat
  BY <1>1, <1>4, <1>9
<1>11. pending' \in [ConsumerId -> Nat]
  BY <1>1, <1>10
<1> QED BY <1>1, <1>2, <1>8, <1>9, <1>11

LEMMA CommitPassKeeps == ASSUME IInv, CommitPass PROVE IInv'
<1>1. PICK admit \in [ConsumerId -> Nat] :
        /\ SumFunction(admit) <= slots
        /\ \A c \in ConsumerId : admit[c] <= allowance[c]
        /\ pending' \in [ConsumerId -> Nat]
        /\ ready' = [c \in ConsumerId |-> ready[c] + admit[c]]
  BY CommitMoves
<1>2. pc = "candidates" /\ Idle /\ UNCHANGED <<inFlight, started, supply>>
  BY DEF CommitPass
<1>3. /\ ready \in [ConsumerId -> Nat] /\ ready' \in [ConsumerId -> Nat]
      /\ elapsed \in 0 .. PassTicks /\ TableTypes /\ slots \in Nat
      /\ GlobalRate \in Nat /\ BufferTarget \in Nat
  <2>1. ready \in [ConsumerId -> Nat]
    BY DEF IInv, TableTypes
  <2>2. ready' \in [ConsumerId -> Nat]
    BY <1>1, <2>1
  <2> QED BY <2>1, <2>2, RatesAssumption DEF IInv, PassTypes
<1>4. TableTypes'
  BY <1>1, <1>2, <1>3 DEF TableTypes
<1>5. SumFunction(ready') = SumFunction(ready) + SumFunction(admit)
  <2>1. \A c \in ConsumerId : /\ ready[c] \in Int /\ admit[c] \in Int
                              /\ ready'[c] = ready[c] + admit[c]
    BY <1>1, <1>3
  <2>2. SumFunctionOnSet(ready', ConsumerId)
        = SumFunctionOnSet(ready, ConsumerId) + SumFunctionOnSet(admit, ConsumerId)
    BY <2>1, Finite, SumOfBoth
  <2> QED BY <1>3, <2>2, HeadSums
<1>6. /\ SumFunction(ready) \in Nat /\ SumFunction(admit) \in Nat
      /\ AllInWindow(0) \in Nat /\ AllInWindow(elapsed) \in Nat
      /\ AllInWindow(0) <= AllInWindow(elapsed)
  BY <1>3, Sizes, HeadSums
<1>7. /\ SumFunction(ready) + AllInWindow(elapsed) + slots <= GlobalRate
      /\ SumFunction(ready) + slots <= BufferTarget
  BY <1>2 DEF IInv, Slotted
<1>8. GlobalRateHolds'
  <2>1. SumFunction(ready') + AllInWindow(0) <= GlobalRate
    BY <1>1, <1>3, <1>5, <1>6, <1>7
  <2>2. AllInWindow(0)' = AllInWindow(0)
    BY <1>2 DEF AllInWindow, InWindow
  <2> QED BY <2>1, <2>2 DEF GlobalRateHolds
<1>9. BufferHolds'
  <2>1. SumFunction(ready') <= BufferTarget
    BY <1>1, <1>3, <1>5, <1>6, <1>7
  <2> QED BY <2>1 DEF BufferHolds
<1>10. ConsumerRateHolds'
  <2>1. \A c \in ConsumerId : InWindow(c, 0)' = InWindow(c, 0)
    BY <1>2 DEF InWindow
  <2>2. SUFFICES ASSUME NEW c \in ConsumerId PROVE ready'[c] + InWindow(c, 0) <= RateCap[c]
    BY <2>1 DEF ConsumerRateHolds
  <2>3. /\ ready[c] \in Nat /\ InWindow(c, 0) \in Nat /\ InWindow(c, elapsed) \in Nat
        /\ InWindow(c, 0) <= InWindow(c, elapsed)
    BY <1>3, Sizes
  <2>4. /\ RateCap[c] \in Nat /\ admit[c] \in Nat /\ allowance[c] \in Nat
        /\ admit[c] <= allowance[c] /\ ready'[c] = ready[c] + admit[c]
    BY <1>1, RatesAssumption DEF IInv, PassTypes
  <2>5. CASE allowance[c] = 0
    <3>1. ready[c] + InWindow(c, 0) <= RateCap[c]
      BY DEF IInv, ConsumerRateHolds
    <3> QED BY <2>3, <2>4, <2>5, <3>1
  <2>6. CASE allowance[c] # 0
    <3>1. ready[c] + InWindow(c, elapsed) + allowance[c] <= RateCap[c]
      BY <1>2, <2>6 DEF IInv, Allowed
    <3> QED BY <2>3, <2>4, <3>1
  <2> QED BY <2>5, <2>6
<1>11. PassTypes' /\ SharesFair' /\ Counted' /\ Slotted' /\ Gauged' /\ Allowed'
  BY <1>2, IdlePass
<1> QED BY <1>4, <1>8, <1>9, <1>10, <1>11 DEF IInv

\* A sum that is twice itself is nothing: how the sum over no load is found.
LEMMA Doubled == \A x \in Int : x = x + x => x = 0
OBVIOUS

-----------------------------------------------------------------------------
LEMMA InitHolds == Init => IInv
<1> SUFFICES ASSUME Init PROVE IInv
  OBVIOUS
<1>1. /\ pending = Zero /\ ready = Zero /\ inFlight = Zero /\ supply = Supply
      /\ started = [c \in ConsumerId |-> [a \in Ages |-> 0]]
      /\ pc = "idle" /\ elapsed = 0 /\ fair = TRUE /\ gauges = NoGauges
      /\ readyCount = 0 /\ slots = 0 /\ demand = Zero /\ headroom = Zero /\ allowance = Zero
  BY DEF Init, Ages
<1>2. Zero \in [ConsumerId -> Nat] /\ NoGauges \in [ConsumerId -> [ready : Nat, inFlight : Nat]]
  BY DEF Zero, NoGauges
<1>3. TableTypes
  BY <1>1, <1>2, BoundsAssumption DEF TableTypes
<1>4. PassTypes
  BY <1>1, <1>2, RatesAssumption, BoundsAssumption DEF PassTypes
<1>5. \A f : (f \in [ConsumerId -> Nat] /\ \A c \in ConsumerId : f[c] = 0) => SumFunction(f) = 0
  <2>1. SUFFICES ASSUME NEW f \in [ConsumerId -> Nat], \A c \in ConsumerId : f[c] = 0
                 PROVE  SumFunction(f) = 0
    OBVIOUS
  <2>2. \A c \in ConsumerId : f[c] \in Int /\ f[c] = f[c] + f[c]
    BY <2>1
  <2>3. SumFunctionOnSet(f, ConsumerId) = SumFunctionOnSet(f, ConsumerId) + SumFunctionOnSet(f, ConsumerId)
    BY <2>2, Finite, SumOfBoth
  <2> QED BY <2>3, HeadSums
<1>6. ASSUME NEW c \in ConsumerId PROVE InWindow(c, 0) = 0
  <2>1. PICK all : all = 0 .. Window + 0
    OBVIOUS
  <2>2. IsFiniteSet(all) /\ \A a \in all : a \in Ages
    <3>1. Window + 0 \in Int /\ 0 \in Int /\ PassTicks \in Nat /\ Window \in Nat
      BY RatesAssumption, BoundsAssumption
    <3>2. IsFiniteSet(0 .. Window + 0)
      BY <3>1, Finite
    <3>3. \A a \in 0 .. Window + 0 : a \in Ages
      BY <3>1 DEF Ages
    <3> QED BY <2>1, <3>2, <3>3
  <2>3. PICK f : f = started[c]
    OBVIOUS
  <2>4. \A a \in all : f[a] \in Int /\ f[a] = f[a] + f[a]
    BY <1>1, <2>2, <2>3
  <2>5. SumFunctionOnSet(f, all) = SumFunctionOnSet(f, all) + SumFunctionOnSet(f, all)
    BY <2>2, <2>4, SumOfBoth
  <2>6. SumFunctionOnSet(f, all) \in Int
    BY <2>2, <2>4, SumType
  <2>7. SumFunctionOnSet(f, all) = 0
    BY <2>5, <2>6, Doubled, Zenon
  <2> QED BY <2>1, <2>3, <2>7 DEF InWindow
<1>7. SumFunction(ready) = 0
  BY <1>1, <1>2, <1>5 DEF Zero
<1>8. AllInWindow(0) = 0
  <2>1. PICK f : f = [c \in ConsumerId |-> InWindow(c, 0)]
    OBVIOUS
  <2>2. f \in [ConsumerId -> Nat] /\ \A c \in ConsumerId : f[c] = 0
    BY <1>6, <2>1
  <2>3. SumFunction(f) = 0
    BY <1>5, <2>2
  <2> QED BY <2>1, <2>3 DEF AllInWindow
<1>9. GlobalRateHolds /\ BufferHolds
  BY <1>7, <1>8, RatesAssumption DEF GlobalRateHolds, BufferHolds
<1>10. ConsumerRateHolds
  <2>1. \A c \in ConsumerId : ready[c] = 0 /\ InWindow(c, 0) = 0 /\ RateCap[c] \in Nat
    BY <1>1, <1>6, RatesAssumption DEF Zero
  <2> QED BY <2>1 DEF ConsumerRateHolds
<1>11. SharesFair /\ Counted /\ Slotted /\ Gauged /\ Allowed
  BY <1>1 DEF SharesFair, Counted, Slotted, Gauged, Allowed
<1> QED BY <1>3, <1>4, <1>9, <1>10, <1>11 DEF IInv

LEMMA NextHolds == IInv /\ [Next]_vars => IInv'
<1> SUFFICES ASSUME IInv, [Next]_vars PROVE IInv'
  OBVIOUS
<1>1. ASSUME NEW c \in ConsumerId, Arrive(c) PROVE IInv'
  BY <1>1, ArriveKeeps
<1>2. ASSUME NEW c \in ConsumerId, Claim(c) PROVE IInv'
  BY <1>2, ClaimKeeps
<1>3. ASSUME NEW c \in ConsumerId, ExpireReady(c) PROVE IInv'
  BY <1>3, ExpireReadyKeeps
<1>4. ASSUME NEW c \in ConsumerId, Finish(c) PROVE IInv'
  BY <1>4, FinishKeeps
<1>5. CASE Tick
  BY <1>5, TickKeeps
<1>6. ASSUME NEW arm \in Arms, BeginPass(arm) PROVE IInv'
  BY <1>6, BeginPassKeeps
<1>7. CASE ReadGauges
  BY <1>7, ReadGaugesKeeps
<1>8. CASE HoldForOutage
  BY <1>8, IdleKeeps DEF HoldForOutage
<1>9. CASE CountReady
  BY <1>9, CountReadyKeeps
<1>10. CASE CountAttempts
  BY <1>10, CountAttemptsKeeps
<1>11. CASE ReadDemand
  BY <1>11, ReadDemandKeeps
<1>12. CASE ReadUsage
  BY <1>12, ReadUsageKeeps
<1>13. CASE CommitPass
  BY <1>13, CommitPassKeeps
<1>14. CASE AbortPass
  BY <1>14, IdleKeeps DEF AbortPass
<1>15. CASE UNCHANGED vars
  <2>1. UNCHANGED <<ready, started, passVars>> /\ TableTypes'
    BY <1>15 DEF vars, tableVars, IInv, TableTypes
  <2> QED BY <2>1, StaysPut
<1> QED
  BY <1>1, <1>2, <1>3, <1>4, <1>5, <1>6, <1>7, <1>8, <1>9, <1>10, <1>11, <1>12, <1>13,
     <1>14, <1>15 DEF Next, PassStep

\* What a pass has read never becomes an unsafe basis for what it admits.
THEOREM Invariance == Spec => []IInv
BY InitHolds, NextHolds, PTL DEF Spec

\* Counts stay counts, and no pass is given more slots than the buffer's depth.
THEOREM TypeCorrect == Spec => []TypeOK
<1>1. IInv => TypeOK
  BY TypesApart DEF IInv
<1> QED BY <1>1, Invariance, PTL

\* The provider's rate holds in every window, however claims, completions, time
\* and the statements of a pass interleave, for any consumers and rates.
THEOREM GlobalRateIsKept == Spec => []GlobalRateHolds
<1>1. IInv => GlobalRateHolds
  BY DEF IInv
<1> QED BY <1>1, Invariance, PTL

\* And so does each consumer's own rate, on either arm.
THEOREM ConsumerRateIsKept == Spec => []ConsumerRateHolds
<1>1. IInv => ConsumerRateHolds
  BY DEF IInv
<1> QED BY <1>1, Invariance, PTL

\* The ready buffer is never deeper than its target.
THEOREM BufferIsKept == Spec => []BufferHolds
<1>1. IInv => BufferHolds
  BY DEF IInv
<1> QED BY <1>1, Invariance, PTL

\* Every pass of the fair arm splits its slots weighted max-min fairly.
THEOREM SharesAreFair == Spec => []SharesFair
<1>1. IInv => SharesFair
  BY DEF IInv
<1> QED BY <1>1, Invariance, PTL

\* Where the promise that backlogs drain ends: a consumer whose rate times the
\* window truncates to nothing is never sent anything, and its rows wait until
\* policy drops them.  Every rate that is seeded lies above that edge.
NeverServed(c) == ready[c] = 0 /\ inFlight[c] = 0

THEOREM TruncatedRateStarves ==
  ASSUME NEW c \in ConsumerId, RateCap[c] = 0
  PROVE  Spec => []NeverServed(c)
<1>1. IInv => ready[c] = 0
  <2> SUFFICES ASSUME IInv PROVE ready[c] = 0
    OBVIOUS
  <2>1. ready[c] \in Nat /\ InWindow(c, 0) \in Nat
    <3>1. 0 \in 0 .. PassTicks
      BY BoundsAssumption
    <3>2. InWindow(c, 0) = WindowSum(started, c, 0)
      BY DEF InWindow, WindowSum
    <3> QED BY <3>1, <3>2, WindowSums DEF IInv, TableTypes
  <2>2. ready[c] + InWindow(c, 0) <= 0
    BY DEF IInv, ConsumerRateHolds
  <2> QED BY <2>1, <2>2
<1>2. Init => inFlight[c] = 0
  BY DEF Init, Zero
<1>3. IInv /\ inFlight[c] = 0 /\ [Next]_vars => (inFlight[c] = 0)'
  <2> SUFFICES ASSUME IInv, inFlight[c] = 0, [Next]_vars PROVE inFlight'[c] = 0
    OBVIOUS
  <2>1. ready[c] = 0 /\ inFlight \in [ConsumerId -> Nat]
    BY <1>1 DEF IInv, TableTypes
  <2>2. ASSUME NEW d \in ConsumerId, Claim(d) \/ Finish(d) PROVE inFlight'[c] = 0
    BY <2>1, <2>2 DEF Claim, Finish
  <2>3. ASSUME NEW d \in ConsumerId, Arrive(d) \/ ExpireReady(d) PROVE inFlight' = inFlight
    BY <2>3 DEF Arrive, ExpireReady
  <2>4. CASE Tick \/ CommitPass \/ UNCHANGED vars
    BY <2>4 DEF Tick, CommitPass, vars, tableVars
  <2>5. ASSUME NEW arm \in Arms, BeginPass(arm) PROVE inFlight' = inFlight
    BY <2>5 DEF BeginPass, tableVars
  <2>6. CASE ReadGauges \/ HoldForOutage \/ CountReady \/ ReadDemand \/ AbortPass
    BY <2>6 DEF ReadGauges, HoldForOutage, CountReady, ReadDemand, AbortPass, tableVars
  <2>7. CASE CountAttempts \/ ReadUsage
    BY <2>7 DEF CountAttempts, ReadUsage, tableVars
  <2> QED BY <2>2, <2>3, <2>4, <2>5, <2>6, <2>7 DEF Next, PassStep
<1> QED BY <1>1, <1>2, <1>3, Invariance, PTL DEF Spec, NeverServed

-----------------------------------------------------------------------------
(* Why a backlog drains.  A pass that admits nobody had a reason to, and on   *)
(* the fair arm a pass that comes to its commit takes rows off the queue: the *)
(* rows it counted are still there, and it fetches some of each consumer's.   *)

\* What a pass knows once it has slots to give: there is a slot, the rows it has
\* counted are still pending, and somebody may be admitted some.
Waiting ==
    /\ pc \in {"demand", "usage", "candidates"} => slots > 0
    /\ pc = "usage" => \A c \in ConsumerId : demand[c] <= pending[c]
    /\ pc = "candidates" =>
          /\ \A c \in ConsumerId : allowance[c] <= pending[c]
          /\ \E c \in ConsumerId : allowance[c] > 0

\* Why c gets nothing: no demand, its concurrency gate is shut, or its rate is spent.
Barred(c) ==
    \/ demand[c] = 0
    \/ fair /\ gauges[c].inFlight >= ConcurrencyCap[c]
    \/ gauges[c].ready + InWindow(c, elapsed) >= RateCap[c]

\* A sum of nothing is nothing, and no consumer has more than the sum.
LEMMA NoneSums ==
  ASSUME NEW f \in [ConsumerId -> Nat], \A c \in ConsumerId : f[c] = 0
  PROVE  SumFunction(f) = 0
<1>1. \A c \in ConsumerId : f[c] \in Int /\ f[c] = f[c] + f[c]
  OBVIOUS
<1>2. SumFunctionOnSet(f, ConsumerId) = SumFunctionOnSet(f, ConsumerId) + SumFunctionOnSet(f, ConsumerId)
  BY <1>1, Finite, SumOfBoth
<1> QED BY <1>2, HeadSums

LEMMA OneOfSum ==
  ASSUME NEW f \in [ConsumerId -> Nat], NEW c \in ConsumerId
  PROVE  f[c] <= SumFunction(f)
<1>1. PICK rest : rest = ConsumerId \ {c}
  OBVIOUS
<1>2. IsFiniteSet(ConsumerId) /\ IsFiniteSet(rest)
  BY <1>1, Finite, FS_Subset
<1>3. SumFunctionOnSet(f, ConsumerId) = f[c] + SumFunctionOnSet(f, rest)
  BY <1>1, <1>2, SumRest
<1>4. SumFunctionOnSet(f, rest) \in Nat
  BY <1>1, <1>2, SumNat
<1> QED BY <1>3, <1>4, HeadSums

\* With a slot to give, a consumer is given none only if nobody has any headroom.
LEMMA SharesUsed ==
  ASSUME slots \in Nat, slots > 0, NEW head \in [ConsumerId -> Nat],
         \A c \in ConsumerId : Shares(head)[c] = 0
  PROVE  \A c \in ConsumerId : head[c] = 0
<1>1. CASE fair
  <2>1. PICK g : g = Allocate(head, slots)
    OBVIOUS
  <2>2. Shares(head) = g
    BY <1>1, <2>1 DEF Shares
  <2>3. g \in [ConsumerId -> Nat] /\ FairSplit(head, slots, g)
    BY <2>1, AllocateIsFair
  <2>4. SumFunction(g) = 0
    BY <2>2, <2>3, NoneSums
  <2>5. Least(slots, SumFunction(head)) = 0
    BY <2>3, <2>4 DEF FairSplit
  <2>6. SumFunction(head) = 0
    BY <2>5, HeadSums DEF Least
  <2>7. ASSUME NEW c \in ConsumerId PROVE head[c] = 0
    BY <2>6, OneOfSum
  <2> QED BY <2>7
<1>2. CASE ~fair
  <2>1. \A c \in ConsumerId : Least(head[c], slots) = 0
    BY <1>2 DEF Shares, Shared
  <2> QED BY <2>1 DEF Least
<1> QED BY <1>1, <1>2

\* No headroom, no way in: the three terms of ConsumerState.headroom.
LEMMA NoHeadroom ==
  ASSUME IInv, NEW c \in ConsumerId, Headroom(c, InWindow(c, elapsed)) = 0
  PROVE  Barred(c)
<1>1. /\ InWindow(c, elapsed) \in Nat /\ RateCap[c] \in Nat
      /\ gauges[c].ready \in Nat /\ demand[c] \in Nat
  <2>1. elapsed \in 0 .. PassTicks /\ TableTypes
    BY DEF IInv, PassTypes
  <2>2. InWindow(c, elapsed) \in Nat
    BY <2>1, Sizes
  <2> QED BY <2>2, RatesAssumption DEF IInv, PassTypes
<1> SUFFICES ASSUME NEW w \in Nat, w = InWindow(c, elapsed), ~(fair /\ gauges[c].inFlight >= ConcurrencyCap[c])
             PROVE  demand[c] = 0 \/ gauges[c].ready + w >= RateCap[c]
  BY <1>1 DEF Barred
<1>2. AtLeast0(Least(demand[c], RateCap[c] - (w + gauges[c].ready))) = 0
  BY DEF Headroom
<1> QED BY <1>1, <1>2 DEF AtLeast0, Least

\* Nobody is allowed more than its demand.
LEMMA SharesWithinDemand ==
  ASSUME IInv, slots \in Nat, NEW head \in [ConsumerId -> Nat], NEW c \in ConsumerId,
         head[c] = Headroom(c, InWindow(c, elapsed))
  PROVE  Shares(head)[c] \in Nat /\ Shares(head)[c] <= head[c] /\ head[c] <= demand[c]
<1>1. head[c] \in Nat
  OBVIOUS
<1>2. Shares(head)[c] \in Nat /\ Shares(head)[c] <= head[c]
  <2>1. CASE fair
    <3>1. PICK g : g = Allocate(head, slots)
      OBVIOUS
    <3>2. g \in [ConsumerId -> Nat] /\ FairSplit(head, slots, g)
      BY <3>1, AllocateIsFair
    <3> QED BY <2>1, <3>1, <3>2 DEF Shares, FairSplit
  <2>2. CASE ~fair
    BY <1>1, <2>2 DEF Shares, Shared, Least
  <2> QED BY <2>1, <2>2
<1>3. head[c] <= demand[c]
  <2>1. /\ InWindow(c, elapsed) \in Nat /\ RateCap[c] \in Nat
        /\ gauges[c].ready \in Nat /\ demand[c] \in Nat
    <3>1. elapsed \in 0 .. PassTicks /\ TableTypes
      BY DEF IInv, PassTypes
    <3>2. InWindow(c, elapsed) \in Nat
      BY <3>1, Sizes
    <3> QED BY <3>2, RatesAssumption DEF IInv, PassTypes
  <2> SUFFICES ASSUME NEW w \in Nat PROVE Headroom(c, w) <= demand[c]
    BY <2>1
  <2>2. CASE fair /\ gauges[c].inFlight >= ConcurrencyCap[c]
    BY <2>1, <2>2 DEF Headroom
  <2>3. CASE ~(fair /\ gauges[c].inFlight >= ConcurrencyCap[c])
    <3>1. Headroom(c, w) = AtLeast0(Least(demand[c], RateCap[c] - (w + gauges[c].ready)))
      BY <2>3 DEF Headroom
    <3> QED BY <2>1, <3>1 DEF AtLeast0, Least
  <2> QED BY <2>2, <2>3
<1> QED BY <1>2, <1>3

\* Only a commit takes rows off the queue, and it ends the pass.
LEMMA WaitingInductive == (Init => Waiting) /\ (IInv /\ Waiting /\ [Next]_vars => Waiting')
<1>1. Init => Waiting
  BY DEF Init, Waiting
<1>2. ASSUME IInv, Waiting, [Next]_vars PROVE Waiting'
  <2>t. /\ pending \in [ConsumerId -> Nat] /\ demand \in [ConsumerId -> Nat]
        /\ slots \in Nat /\ allowance \in [ConsumerId -> Nat]
    BY <1>2, RatesAssumption DEF IInv, TableTypes, PassTypes
  <2>1. ASSUME NEW c \in ConsumerId, Arrive(c) PROVE Waiting'
    <3>1. UNCHANGED passVars /\ \A d \in ConsumerId : pending'[d] \in Nat /\ pending[d] <= pending'[d]
      BY <2>t, <2>1 DEF Arrive
    <3>2. \A d \in ConsumerId : pending[d] \in Nat /\ demand[d] \in Nat /\ allowance[d] \in Nat
      BY <2>t
    <3> QED BY <1>2, <3>1, <3>2 DEF Waiting, passVars
  <2>2. ASSUME NEW c \in ConsumerId, Claim(c) \/ ExpireReady(c) \/ Finish(c) PROVE Waiting'
    BY <1>2, <2>2 DEF Claim, ExpireReady, Finish, Waiting, passVars
  <2>3. CASE Tick
    BY <1>2, <2>3 DEF Tick, Waiting
  <2>4. ASSUME NEW arm \in Arms, BeginPass(arm) PROVE Waiting'
    BY <2>4 DEF BeginPass, Waiting
  <2>5. CASE ReadGauges \/ CountReady
    BY <2>5 DEF ReadGauges, CountReady, Waiting
  <2>6. CASE Idle
    BY <2>6 DEF Idle, Waiting
  <2>7. CASE CountAttempts
    <3>1. PICK free : /\ free = BudgetSlots(readyCount, AllInWindow(elapsed))
                      /\ IF free = 0 THEN Idle ELSE slots' = free /\ pc' = "demand"
      BY <2>7 DEF CountAttempts
    <3>2. CASE free = 0
      BY <2>6, <3>1, <3>2
    <3>3. CASE free # 0
      <4>1. readyCount \in Nat /\ AllInWindow(elapsed) \in Nat
        BY <1>2, Sizes DEF IInv, PassTypes
      <4>2. free \in Nat
        BY <3>1, <4>1, RatesAssumption DEF BudgetSlots, RateSlots, AtLeast0, Least
      <4> QED BY <3>1, <3>3, <4>2 DEF Waiting
    <3> QED BY <3>2, <3>3
  <2>8. CASE ReadDemand
    BY <1>2, <2>t, <2>8 DEF ReadDemand, Waiting, tableVars
  <2>9. CASE ReadUsage
    <3>1. PICK head : head = [c \in ConsumerId |-> Headroom(c, InWindow(c, elapsed))]
      OBVIOUS
    <3>2. CASE Idle
      BY <2>6, <3>2
    <3>3. CASE ~Idle
      <4>1. /\ pc = "usage" /\ pc' = "candidates" /\ allowance' = Shares(head)
            /\ ~ \A c \in ConsumerId : Shares(head)[c] = 0
            /\ slots' = slots /\ pending' = pending
        BY <2>9, <3>1, <3>3 DEF ReadUsage, tableVars
      <4>2. head \in [ConsumerId -> Nat]
        BY <1>2, <3>1, <4>1, HeadroomFits
      <4>3. \A c \in ConsumerId :
              Shares(head)[c] \in Nat /\ Shares(head)[c] <= head[c] /\ head[c] <= demand[c]
        BY <1>2, <2>t, <3>1, <4>2, SharesWithinDemand
      <4>4. \A c \in ConsumerId : Shares(head)[c] <= pending[c]
        <5> SUFFICES ASSUME NEW c \in ConsumerId PROVE Shares(head)[c] <= pending[c]
          OBVIOUS
        <5>1. demand[c] <= pending[c]
          BY <1>2, <4>1 DEF Waiting
        <5>2. head[c] \in Nat /\ demand[c] \in Nat /\ pending[c] \in Nat
          BY <2>t, <4>2
        <5> QED BY <4>3, <5>1, <5>2
      <4>5. \E c \in ConsumerId : Shares(head)[c] > 0
        BY <4>1, <4>3
      <4>6. slots > 0
        BY <1>2, <4>1 DEF Waiting
      <4> QED BY <4>1, <4>4, <4>5, <4>6 DEF Waiting
    <3> QED BY <3>2, <3>3
  <2>10. CASE HoldForOutage \/ CommitPass \/ AbortPass
    BY <2>6, <2>10 DEF HoldForOutage, CommitPass, AbortPass
  <2>11. CASE UNCHANGED vars
    BY <1>2, <2>11 DEF vars, tableVars, passVars, Waiting
  <2> QED BY <1>2, <2>1, <2>2, <2>3, <2>4, <2>5, <2>7, <2>8, <2>9, <2>10, <2>11
          DEF Next, PassStep
<1> QED BY <1>1, <1>2

\* A pass that decides to admit nobody, on either arm, had no consumer to admit:
\* each one has no demand, a shut gate, or its rate spent.  No slot goes begging
\* because of how the statements of the pass interleave with the workers.
THEOREM NobodyPassedOver ==
  Spec => [][ReadUsage /\ pc' = "idle" => \A c \in ConsumerId : Barred(c)]_vars
<1>1. IInv /\ Waiting /\ [Next]_vars =>
        [ReadUsage /\ pc' = "idle" => \A c \in ConsumerId : Barred(c)]_vars
  <2> SUFFICES ASSUME IInv, Waiting, ReadUsage, pc' = "idle", NEW c \in ConsumerId
               PROVE  Barred(c)
    OBVIOUS
  <2>1. PICK head : head = [d \in ConsumerId |-> Headroom(d, InWindow(d, elapsed))]
    OBVIOUS
  <2>2. pc = "usage" /\ \A d \in ConsumerId : Shares(head)[d] = 0
    BY <2>1 DEF ReadUsage
  <2>3. head \in [ConsumerId -> Nat]
    BY <2>1, <2>2, HeadroomFits
  <2>4. slots \in Nat /\ slots > 0
    BY <2>2, RatesAssumption DEF IInv, PassTypes, Waiting
  <2>5. head[c] = 0
    BY <2>2, <2>3, <2>4, SharesUsed
  <2> QED BY <2>1, <2>5, NoHeadroom
<1> QED BY <1>1, InitHolds, NextHolds, WaitingInductive, PTL DEF Spec

\* Some consumer has the largest allowance, on which the fair arm's fetch is based.
LEMMA HasLargest ==
  ASSUME NEW f \in [ConsumerId -> Nat], ConsumerId # {}
  PROVE  \E m \in {f[c] : c \in ConsumerId} : \A c \in ConsumerId : f[c] <= m
<1>1. PICK n \in Nat : n = SumFunction(f) /\ \A c \in ConsumerId : f[c] <= n
  BY HeadSums, OneOfSum
<1>2. PICK T : T = {n - f[c] : c \in ConsumerId}
  OBVIOUS
<1>3. T \subseteq 0 .. n /\ T # {}
  BY <1>1, <1>2
<1>4. PICK k \in T : \A j \in T : k <= j
  BY <1>3, HasLeast
<1>5. PICK b \in ConsumerId : k = n - f[b]
  BY <1>2, <1>4
<1>6. ASSUME NEW c \in ConsumerId PROVE f[c] <= f[b]
  <2>1. n - f[b] <= n - f[c]
    BY <1>2, <1>4, <1>5
  <2>2. f[b] \in Nat /\ f[c] \in Nat
    OBVIOUS
  <2> QED BY <2>1, <2>2
<1> QED BY <1>6

\* On the fair arm a pass that comes to its commit takes something off the queue,
\* by admitting it or by policy, whatever fell due, was claimed or ended while the
\* pass was reading: the fetch reaches into every consumer's backlog, so that a
\* neighbour's older rows cannot crowd out those that may be admitted.  (On the
\* other arm they can: when the oldest rows are those of a consumer that is at its
\* rate, or whose rows fell due in mid-pass, the commit may well write nothing.)
THEOREM FairPassTakesRows ==
  ASSUME Overfetch > 0
  PROVE  Spec => [][CommitPass /\ fair =>
                       /\ \A c \in ConsumerId : pending'[c] <= pending[c]
                       /\ \E c \in ConsumerId : pending'[c] < pending[c]]_vars
<1>1. ASSUME IInv, Waiting, CommitPass, fair
      PROVE  /\ \A c \in ConsumerId : pending'[c] <= pending[c]
             /\ \E c \in ConsumerId : pending'[c] < pending[c]
  <2>1. PICK fetched \in Counts, survivors \in Counts, admit \in Counts :
          /\ Fetches(fetched)
          /\ \A c \in ConsumerId : survivors[c] <= fetched[c]
          /\ Admits(admit, survivors)
          /\ pending' = [c \in ConsumerId |->
                            pending[c] - (fetched[c] - survivors[c]) - admit[c]]
    BY <1>1 DEF CommitPass
  <2>2. /\ fetched \in [ConsumerId -> Nat] /\ survivors \in [ConsumerId -> Nat]
        /\ admit \in [ConsumerId -> Nat] /\ pending \in [ConsumerId -> Nat]
        /\ allowance \in [ConsumerId -> Nat] /\ slots \in Nat /\ Overfetch \in Nat
    BY <1>1, CountsAreNatural, RatesAssumption DEF IInv, TableTypes, PassTypes
  <2>3. /\ slots > 0 /\ \A c \in ConsumerId : allowance[c] <= pending[c]
        /\ \E c \in ConsumerId : allowance[c] > 0
    BY <1>1 DEF Waiting, CommitPass
  <2>4. ASSUME NEW c \in ConsumerId
        PROVE  /\ pending'[c] = pending[c] - (fetched[c] - survivors[c]) - admit[c]
               /\ pending[c] \in Nat /\ fetched[c] \in Nat /\ survivors[c] \in Nat
               /\ admit[c] \in Nat /\ survivors[c] <= fetched[c]
    BY <2>1, <2>2
  <2>5. \A c \in ConsumerId : pending'[c] <= pending[c]
    <3> SUFFICES ASSUME NEW c \in ConsumerId PROVE pending'[c] <= pending[c]
      OBVIOUS
    <3> QED BY <2>4
  <2>6. PICK c \in ConsumerId : allowance[c] > 0
    BY <2>3
  <2>7. fetched[c] > 0
    <3>1. PICK m : /\ m = CHOOSE n \in {allowance[d] : d \in ConsumerId} :
                                \A d \in ConsumerId : allowance[d] <= n
                   /\ m \in {allowance[d] : d \in ConsumerId}
                   /\ \A d \in ConsumerId : allowance[d] <= m
      BY <2>2, <2>6, HasLargest
    <3>2. fetched[c] = Least(pending[c], Overfetch * m)
      BY <1>1, <2>1, <3>1 DEF Fetches
    <3>3. m \in Nat /\ m > 0
      <4>1. PICK b \in ConsumerId : m = allowance[b]
        BY <3>1
      <4>2. allowance[b] \in Nat /\ allowance[c] \in Nat /\ allowance[c] <= allowance[b]
        BY <2>2, <3>1, <4>1
      <4> QED BY <2>6, <4>1, <4>2
    <3>4. Overfetch * m \in Nat /\ Overfetch * m > 0
      <4>1. \A x, y \in Int, z \in Nat \ {0} : x < y => x * z < y * z
        OBVIOUS
      <4>2. 0 * m < Overfetch * m
        BY <2>2, <3>3, <4>1
      <4>3. 0 * m = 0 /\ Overfetch * m \in Nat
        BY <2>2, <3>3
      <4> QED BY <4>2, <4>3
    <3>5. pending[c] \in Nat /\ pending[c] > 0
      BY <2>2, <2>3, <2>6
    <3> QED BY <3>2, <3>4, <3>5 DEF Least
  <2>8. CASE survivors[c] = 0
    <3>1. pending'[c] < pending[c]
      BY <2>4, <2>7, <2>8
    <3> QED BY <2>5, <3>1
  <2>9. CASE survivors[c] # 0
    <3>1. PICK may : may = [d \in ConsumerId |-> Least(survivors[d], allowance[d])]
      OBVIOUS
    <3>2. may \in [ConsumerId -> Nat] /\ may[c] > 0
      <4>1. \A d \in ConsumerId : Least(survivors[d], allowance[d]) \in Nat
        BY <2>2 DEF Least
      <4>2. Least(survivors[c], allowance[c]) > 0
        BY <2>2, <2>6, <2>9 DEF Least
      <4> QED BY <3>1, <4>1, <4>2
    <3>3. SumFunction(admit) = Least(SumFunction(may), slots)
      BY <2>1, <3>1 DEF Admits
    <3>4. SumFunction(may) > 0
      BY <3>2, OneOfSum, HeadSums
    <3>5. SumFunction(admit) # 0
      BY <2>2, <2>3, <3>2, <3>3, <3>4, HeadSums DEF Least
    <3>6. PICK d \in ConsumerId : admit[d] # 0
      BY <2>2, <3>5, NoneSums
    <3>7. pending'[d] < pending[d]
      BY <2>4, <3>6
    <3> QED BY <2>5, <3>7
  <2> QED BY <2>8, <2>9
<1>2. IInv /\ Waiting /\ [Next]_vars =>
        [CommitPass /\ fair =>
            /\ \A c \in ConsumerId : pending'[c] <= pending[c]
            /\ \E c \in ConsumerId : pending'[c] < pending[c]]_vars
  BY <1>1
<1> QED BY <1>2, InitHolds, NextHolds, WaitingInductive, PTL DEF Spec
=============================================================================
