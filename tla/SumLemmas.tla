----------------------------- MODULE SumLemmas ------------------------------
(***************************************************************************)
(* Sums over finite sets.  Total is a fold of the community modules, that  *)
(* is, the value of a function that is defined recursively on the subsets  *)
(* of the set: that such a function exists is shown first.  Induction over *)
(* finite sets is done by looking at a smallest set without the property.  *)
(***************************************************************************)
EXTENDS Sums, FiniteSetTheorems, TLAPS

(* the element the fold takes out of a set, and what is left of the set *)
Pick(s) == CHOOSE x \in s : TRUE
Left(s) == s \ {Pick(s)}

(* g[s] is the sum over s, for every subset s of S *)
SumsUp(f, S, g) ==
  g = [s \in SUBSET S |-> IF s = {} THEN 0 ELSE f[Pick(s)] + g[Left(s)]]

Summation(f, S) == CHOOSE g : SumsUp(f, S, g)

-----------------------------------------------------------------------------
(* A set of subsets of a finite set has a smallest member. *)
LEMMA SmallestSet ==
  ASSUME NEW S, IsFiniteSet(S), NEW C, C \subseteq SUBSET S, C # {}
  PROVE  \E T \in C : IsFiniteSet(T) /\ \A U \in C : U \subseteq T => U = T
PROOF
  <1>1. IsWellFoundedOn(StrictSubsetOrdering(S), SUBSET S)
    BY FS_StrictSubsetOrderingWellFounded, FS_FiniteSubsetsOfFinite
  <1>2. PICK T \in C : \A U \in C : <<U, T>> \notin StrictSubsetOrdering(S)
    BY <1>1, WFMin
  <1>3. IsFiniteSet(T)
    BY FS_Subset
  <1>4. ASSUME NEW U \in C, U \subseteq T
        PROVE  U = T
    BY <1>2, <1>4 DEF StrictSubsetOrdering
  <1> QED
    BY <1>3, <1>4

LEMMA PickIn ==
  ASSUME NEW s, s # {}
  PROVE  Pick(s) \in s
  BY DEF Pick

LEMMA TotalIsSummation ==
  ASSUME NEW f, NEW S
  PROVE  Total(f, S) = Summation(f, S)[S]
  BY DEF Total, MapThenSumSet, MapThenFoldSet, Summation, SumsUp, Pick, Left

(* Two summations agree on the sets both are about. *)
LEMMA SummationsAgree ==
  ASSUME NEW f, NEW S, NEW T, NEW g, NEW h, SumsUp(f, S, g), SumsUp(f, T, h),
         NEW s, s \subseteq S, s \subseteq T, IsFiniteSet(s)
  PROVE  g[s] = h[s]
PROOF
  <1> SUFFICES ASSUME g[s] # h[s]
               PROVE  FALSE
    OBVIOUS
  <1> DEFINE C == {u \in SUBSET s : g[u] # h[u]}
  <1>1. C \subseteq SUBSET s /\ C # {}
    OBVIOUS
  <1>2. PICK u \in C : \A v \in C : v \subseteq u => v = u
    <2> HIDE DEF C
    <2> QED
      BY <1>1, SmallestSet
  <1>3. u \in SUBSET S /\ u \in SUBSET T
    OBVIOUS
  <1>4. CASE u = {}
    <2>1. g[u] = 0 /\ h[u] = 0
      BY <1>3, <1>4 DEF SumsUp
    <2> QED
      BY <2>1
  <1>5. CASE u # {}
    <2>1. Left(u) \subseteq u /\ Left(u) # u
      BY <1>5, PickIn DEF Left
    <2>2. g[Left(u)] = h[Left(u)]
      BY <1>2, <2>1
    <2>3. g[u] = f[Pick(u)] + g[Left(u)] /\ h[u] = f[Pick(u)] + h[Left(u)]
      BY <1>3, <1>5 DEF SumsUp
    <2> QED
      BY <2>2, <2>3
  <1> QED
    BY <1>4, <1>5

(* The recursive definition of a sum defines a function. *)
LEMMA SummationExists ==
  ASSUME NEW f, NEW S, IsFiniteSet(S)
  PROVE  SumsUp(f, S, Summation(f, S))
PROOF
  <1> SUFFICES ASSUME ~SumsUp(f, S, Summation(f, S))
               PROVE  FALSE
    OBVIOUS
  <1> DEFINE C == {u \in SUBSET S : ~SumsUp(f, u, Summation(f, u))}
  <1>1. C \subseteq SUBSET S /\ C # {}
    OBVIOUS
  <1>2. PICK T \in C : IsFiniteSet(T) /\ \A u \in C : u \subseteq T => u = T
    <2> HIDE DEF C
    <2> QED
      BY <1>1, SmallestSet
  <1>3. \A u \in SUBSET T : u # T => SumsUp(f, u, Summation(f, u))
    BY <1>2
  <1> DEFINE sum(u) == Summation(f, u)[u]
             g == [u \in SUBSET T |->
                     IF u = {} THEN 0 ELSE f[Pick(u)] + sum(Left(u))]
  <1>4. \A u \in SUBSET T : u # {} => Left(u) \in SUBSET T /\ Left(u) # T /\ Left(u) \subseteq u
    BY PickIn DEF Left
  <1>5. ASSUME NEW u \in SUBSET T, u # T
        PROVE  g[u] = sum(u)
    <2>1. SumsUp(f, u, Summation(f, u))
      BY <1>3, <1>5
    <2>2. CASE u = {}
      BY <2>1, <2>2 DEF SumsUp
    <2>3. CASE u # {}
      <3>1. sum(u) = f[Pick(u)] + Summation(f, u)[Left(u)]
        BY <2>1, <2>3 DEF SumsUp
      <3>2. SumsUp(f, Left(u), Summation(f, Left(u)))
        BY <1>3, <1>4, <2>3
      <3>3. IsFiniteSet(Left(u))
        BY <1>2, <1>4, <2>3, FS_Subset
      <3>4. Summation(f, u)[Left(u)] = sum(Left(u))
        BY <2>1, <2>3, <3>2, <3>3, <1>4, SummationsAgree
      <3> QED
        BY <3>1, <3>4, <2>3
    <2> QED
      BY <2>2, <2>3
  <1>6. SumsUp(f, T, g)
    <2>1. \A u \in SUBSET T : u # {} => sum(Left(u)) = g[Left(u)]
      BY <1>4, <1>5
    <2>2. g = [u \in SUBSET T |-> IF u = {} THEN 0 ELSE f[Pick(u)] + g[Left(u)]]
      BY <2>1
    <2> HIDE DEF g
    <2> QED
      BY <2>2 DEF SumsUp
  <1>7. SumsUp(f, T, Summation(f, T))
    <2> HIDE DEF g
    <2> QED
      BY <1>6 DEF Summation
  <1> QED
    BY <1>2, <1>7

(* How a fold goes through a finite set. *)
LEMMA TotalStep ==
  ASSUME NEW f
  PROVE  /\ Total(f, {}) = 0
         /\ \A S : IsFiniteSet(S) /\ S # {}
                     => Total(f, S) = f[Pick(S)] + Total(f, Left(S))
PROOF
  <1>1. Total(f, {}) = 0
    <2>1. SumsUp(f, {}, Summation(f, {}))
      BY SummationExists, FS_EmptySet
    <2> QED
      BY <2>1, TotalIsSummation DEF SumsUp
  <1>2. ASSUME NEW S, IsFiniteSet(S), S # {}
        PROVE  Total(f, S) = f[Pick(S)] + Total(f, Left(S))
    <2>1. Left(S) \subseteq S /\ IsFiniteSet(Left(S))
      BY <1>2, FS_Subset DEF Left
    <2>2. /\ SumsUp(f, S, Summation(f, S))
          /\ SumsUp(f, Left(S), Summation(f, Left(S)))
      BY <1>2, <2>1, SummationExists
    <2>3. Summation(f, S)[S] = f[Pick(S)] + Summation(f, S)[Left(S)]
      BY <1>2, <2>2 DEF SumsUp
    <2>4. Summation(f, S)[Left(S)] = Summation(f, Left(S))[Left(S)]
      BY <2>1, <2>2, SummationsAgree
    <2> QED
      BY <2>3, <2>4, TotalIsSummation
  <1> QED
    BY <1>1, <1>2

-----------------------------------------------------------------------------
(* Sums of integers are integers, of naturals naturals. *)
LEMMA TotalInt ==
  ASSUME NEW f, NEW S, IsFiniteSet(S), \A x \in S : f[x] \in Int
  PROVE  Total(f, S) \in Int
PROOF
  <1> SUFFICES ASSUME Total(f, S) \notin Int
               PROVE  FALSE
    OBVIOUS
  <1> DEFINE C == {u \in SUBSET S : Total(f, u) \notin Int}
  <1>1. C \subseteq SUBSET S /\ C # {}
    OBVIOUS
  <1>2. PICK T \in C : IsFiniteSet(T) /\ \A u \in C : u \subseteq T => u = T
    <2> HIDE DEF C
    <2> QED
      BY <1>1, SmallestSet
  <1>3. T # {}
    BY TotalStep
  <1>4. Pick(T) \in T /\ Left(T) \subseteq T /\ Left(T) # T
    BY <1>3, PickIn DEF Left
  <1>5. Total(f, Left(T)) \in Int /\ f[Pick(T)] \in Int
    BY <1>2, <1>4
  <1>6. Total(f, T) = f[Pick(T)] + Total(f, Left(T))
    BY <1>2, <1>3, TotalStep
  <1> QED
    BY <1>5, <1>6

LEMMA TotalNat ==
  ASSUME NEW f, NEW S, IsFiniteSet(S), \A x \in S : f[x] \in Nat
  PROVE  Total(f, S) \in Nat
PROOF
  <1> SUFFICES ASSUME Total(f, S) \notin Nat
               PROVE  FALSE
    OBVIOUS
  <1> DEFINE C == {u \in SUBSET S : Total(f, u) \notin Nat}
  <1>1. C \subseteq SUBSET S /\ C # {}
    OBVIOUS
  <1>2. PICK T \in C : IsFiniteSet(T) /\ \A u \in C : u \subseteq T => u = T
    <2> HIDE DEF C
    <2> QED
      BY <1>1, SmallestSet
  <1>3. T # {}
    BY TotalStep
  <1>4. Pick(T) \in T /\ Left(T) \subseteq T /\ Left(T) # T
    BY <1>3, PickIn DEF Left
  <1>5. Total(f, Left(T)) \in Nat /\ f[Pick(T)] \in Nat
    BY <1>2, <1>4
  <1>6. Total(f, T) = f[Pick(T)] + Total(f, Left(T))
    BY <1>2, <1>3, TotalStep
  <1> QED
    BY <1>5, <1>6

(* Any element may be taken out of a sum. *)
LEMMA TotalRemove ==
  ASSUME NEW f, NEW S, IsFiniteSet(S), \A y \in S : f[y] \in Int, NEW x \in S
  PROVE  Total(f, S) = f[x] + Total(f, S \ {x})
PROOF
  <1> DEFINE Wrong(u) == \E y \in u : Total(f, u) # f[y] + Total(f, u \ {y})
             C == {u \in SUBSET S : Wrong(u)}
  <1> SUFFICES ASSUME Total(f, S) # f[x] + Total(f, S \ {x})
               PROVE  FALSE
    OBVIOUS
  <1>1. C \subseteq SUBSET S /\ C # {}
    OBVIOUS
  <1>2. PICK T \in C : IsFiniteSet(T) /\ \A u \in C : u \subseteq T => u = T
    <2> HIDE DEF C
    <2> QED
      BY <1>1, SmallestSet
  <1>3. PICK y \in T : Total(f, T) # f[y] + Total(f, T \ {y})
    OBVIOUS
  <1> DEFINE p == Pick(T)
             rest == T \ {p, y}
  <1>4. p \in T /\ Total(f, T) = f[p] + Total(f, T \ {p})
    BY <1>2, <1>3, PickIn, TotalStep DEF Left
  <1>5. p # y
    BY <1>3, <1>4
  <1>6. /\ Total(f, T \ {p}) = f[y] + Total(f, (T \ {p}) \ {y})
        /\ Total(f, T \ {y}) = f[p] + Total(f, (T \ {y}) \ {p})
    <2> HIDE DEF p
    <2>1. T \ {p} \notin C /\ T \ {y} \notin C
      BY <1>2, <1>3, <1>4
    <2> QED
      BY <2>1, <1>3, <1>4, <1>5
  <1>7. (T \ {p}) \ {y} = rest /\ (T \ {y}) \ {p} = rest
    OBVIOUS
  <1>8. f[p] \in Int /\ f[y] \in Int /\ Total(f, rest) \in Int
    <2> HIDE DEF p
    <2>1. IsFiniteSet(rest) /\ \A z \in rest : f[z] \in Int
      BY <1>2, FS_Subset
    <2> QED
      BY <2>1, <1>3, <1>4, TotalInt
  <1> HIDE DEF p, rest
  <1>9. Total(f, T) = f[p] + (f[y] + Total(f, rest))
    BY <1>4, <1>6, <1>7
  <1>10. f[y] + Total(f, T \ {y}) = f[y] + (f[p] + Total(f, rest))
    BY <1>6, <1>7
  <1> QED
    BY <1>3, <1>8, <1>9, <1>10

LEMMA TotalAdd ==
  ASSUME NEW f, NEW S, IsFiniteSet(S), NEW x, x \notin S, f[x] \in Int,
         \A y \in S : f[y] \in Int
  PROVE  Total(f, S \cup {x}) = Total(f, S) + f[x]
PROOF
  <1> DEFINE U == S \cup {x}
  <1>1. IsFiniteSet(U) /\ x \in U /\ \A y \in U : f[y] \in Int
    BY FS_AddElement
  <1>2. U \ {x} = S
    OBVIOUS
  <1> HIDE DEF U
  <1>3. Total(f, U) = f[x] + Total(f, S)
    BY <1>1, <1>2, TotalRemove
  <1>4. Total(f, S) \in Int
    BY TotalInt
  <1> QED
    BY <1>3, <1>4 DEF U

(* Only the values on the set matter. *)
LEMMA TotalSame ==
  ASSUME NEW f, NEW g, NEW S, IsFiniteSet(S), \A x \in S : f[x] = g[x]
  PROVE  Total(f, S) = Total(g, S)
PROOF
  <1> DEFINE C == {u \in SUBSET S : Total(f, u) # Total(g, u)}
  <1> SUFFICES ASSUME Total(f, S) # Total(g, S)
               PROVE  FALSE
    OBVIOUS
  <1>1. C \subseteq SUBSET S /\ C # {}
    OBVIOUS
  <1>2. PICK T \in C : IsFiniteSet(T) /\ \A u \in C : u \subseteq T => u = T
    <2> HIDE DEF C
    <2> QED
      BY <1>1, SmallestSet
  <1>3. T # {}
    BY TotalStep
  <1>4. Pick(T) \in T /\ Left(T) \subseteq T /\ Left(T) # T
    BY <1>3, PickIn DEF Left
  <1>5. Total(f, Left(T)) = Total(g, Left(T)) /\ f[Pick(T)] = g[Pick(T)]
    BY <1>2, <1>4
  <1>6. /\ Total(f, T) = f[Pick(T)] + Total(f, Left(T))
        /\ Total(g, T) = g[Pick(T)] + Total(g, Left(T))
    BY <1>2, <1>3, TotalStep
  <1> QED
    BY <1>5, <1>6

(* A larger set of naturals has no smaller sum. *)
LEMMA TotalMonotone ==
  ASSUME NEW f, NEW S, IsFiniteSet(S), \A x \in S : f[x] \in Nat, NEW T, T \subseteq S
  PROVE  Total(f, T) <= Total(f, S)
PROOF
  <1> DEFINE C == {u \in SUBSET S : T \subseteq u /\ ~(Total(f, T) <= Total(f, u))}
  <1> SUFFICES ASSUME ~(Total(f, T) <= Total(f, S))
               PROVE  FALSE
    OBVIOUS
  <1>1. C \subseteq SUBSET S /\ C # {}
    OBVIOUS
  <1>2. PICK U \in C : IsFiniteSet(U) /\ \A u \in C : u \subseteq U => u = U
    <2> HIDE DEF C
    <2> QED
      BY <1>1, SmallestSet
  <1>3. Total(f, T) \in Nat
    <2>1. IsFiniteSet(T)
      BY FS_Subset
    <2> QED
      BY <2>1, TotalNat
  <1>4. PICK x \in U : x \notin T
    BY <1>3
  <1> DEFINE rest == U \ {x}
  <1>5. Total(f, U) = f[x] + Total(f, rest)
    BY <1>2, TotalRemove
  <1>6. Total(f, T) <= Total(f, rest)
    <2>1. rest \notin C
      BY <1>2, <1>4
    <2>2. rest \in SUBSET S /\ T \subseteq rest
      BY <1>4
    <2> QED
      BY <2>1, <2>2
  <1>7. Total(f, rest) \in Nat /\ f[x] \in Nat
    <2>1. IsFiniteSet(rest)
      BY <1>2, FS_Subset
    <2> QED
      BY <2>1, TotalNat
  <1> HIDE DEF rest
  <1> QED
    BY <1>2, <1>3, <1>5, <1>6, <1>7

(* A function that is changed at one place. *)
LEMMA TotalExcept ==
  ASSUME NEW f, NEW S, IsFiniteSet(S), \A y \in S : f[y] \in Int, NEW x \in S,
         NEW g, \A y \in S \ {x} : g[y] = f[y], g[x] \in Int
  PROVE  Total(g, S) = Total(f, S) - f[x] + g[x]
PROOF
  <1> DEFINE rest == S \ {x}
  <1>1. IsFiniteSet(rest)
    BY FS_Subset
  <1>2. Total(f, S) = f[x] + Total(f, rest) /\ Total(f, rest) \in Int
    BY <1>1, TotalRemove, TotalInt
  <1>3. \A y \in S : g[y] \in Int
    OBVIOUS
  <1>4. Total(g, S) = g[x] + Total(g, rest)
    BY <1>3, TotalRemove
  <1>5. Total(g, rest) = Total(f, rest)
    BY <1>1, TotalSame
  <1> HIDE DEF rest
  <1> QED
    BY <1>2, <1>4, <1>5

(* A function that is 0 adds nothing. *)
LEMMA TotalZero ==
  ASSUME NEW f, NEW S, IsFiniteSet(S), \A x \in S : f[x] = 0
  PROVE  Total(f, S) = 0
PROOF
  <1> DEFINE C == {u \in SUBSET S : Total(f, u) # 0}
  <1> SUFFICES ASSUME Total(f, S) # 0
               PROVE  FALSE
    OBVIOUS
  <1>1. C \subseteq SUBSET S /\ C # {}
    OBVIOUS
  <1>2. PICK T \in C : IsFiniteSet(T) /\ \A u \in C : u \subseteq T => u = T
    <2> HIDE DEF C
    <2> QED
      BY <1>1, SmallestSet
  <1>3. T # {}
    BY TotalStep
  <1>4. Pick(T) \in T /\ Left(T) \subseteq T /\ Left(T) # T
    BY <1>3, PickIn DEF Left
  <1>5. Total(f, Left(T)) = 0 /\ f[Pick(T)] = 0
    BY <1>2, <1>4
  <1>6. Total(f, T) = f[Pick(T)] + Total(f, Left(T))
    BY <1>2, <1>3, TotalStep
  <1> QED
    BY <1>5, <1>6

(* Elements of value 0 may be left out. *)
LEMMA TotalSupport ==
  ASSUME NEW f, NEW S, IsFiniteSet(S), \A x \in S : f[x] \in Int,
         NEW T, T \subseteq S, \A x \in S \ T : f[x] = 0
  PROVE  Total(f, T) = Total(f, S)
PROOF
  <1> DEFINE C == {u \in SUBSET S : T \subseteq u /\ Total(f, T) # Total(f, u)}
  <1> SUFFICES ASSUME Total(f, T) # Total(f, S)
               PROVE  FALSE
    OBVIOUS
  <1>1. C \subseteq SUBSET S /\ C # {}
    OBVIOUS
  <1>2. PICK U \in C : IsFiniteSet(U) /\ \A u \in C : u \subseteq U => u = U
    <2> HIDE DEF C
    <2> QED
      BY <1>1, SmallestSet
  <1>3. PICK x \in U : x \notin T
    <2>1. U # T
      OBVIOUS
    <2> QED
      BY <2>1
  <1> DEFINE rest == U \ {x}
  <1>4. Total(f, U) = f[x] + Total(f, rest) /\ f[x] = 0
    BY <1>2, <1>3, TotalRemove
  <1>5. Total(f, T) = Total(f, rest)
    <2>1. rest \notin C
      BY <1>2, <1>3
    <2>2. rest \in SUBSET S /\ T \subseteq rest
      BY <1>3
    <2> QED
      BY <2>1, <2>2
  <1>6. Total(f, rest) \in Int
    <2>1. IsFiniteSet(rest)
      BY <1>2, FS_Subset
    <2> QED
      BY <2>1, TotalInt
  <1> HIDE DEF rest
  <1> QED
    BY <1>2, <1>4, <1>5, <1>6

=============================================================================
