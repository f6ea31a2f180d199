----------------------------- MODULE FiniteSums -----------------------------
(***************************************************************************)
(* Sums over finite sets, for the proofs of the modules that add up        *)
(* balances, caps and spends with the folds of the community modules.      *)
(*                                                                         *)
(* The induction is over the finite subsets of a set, as a statement about *)
(* a set of subsets: a family that contains every set whose proper subsets *)
(* it contains leaves out no minimal one.                                  *)
(***************************************************************************)
EXTENDS Integers, FiniteSets, FiniteSetsExt, FiniteSetTheorems, TLAPS

\* The sum of F[x] over the x of S, as the models write it.
SumOver(F, S) == MapThenSumSet(LAMBDA x : F[x], S)

\* The function the fold computes it with.
Pick(S) == CHOOSE x \in S : TRUE
SumsOf(F, S, g) ==
  g = [T \in SUBSET S |-> IF T = {} THEN 0
                          ELSE F[Pick(T)] + g[T \ {Pick(T)}]]

-----------------------------------------------------------------------------
\* A family of subsets that contains each set all of whose proper subsets it
\* contains, contains them all.
LEMMA SubsetInduction ==
  ASSUME NEW S, IsFiniteSet(S), NEW Good,
         \A T \in SUBSET S : (\A U \in SUBSET T : U # T => U \in Good) => T \in Good
  PROVE  \A T \in SUBSET S : T \in Good
<1> DEFINE Bad == {T \in SUBSET S : T \notin Good}
           R   == StrictSubsetOrdering(S)
<1> SUFFICES ASSUME Bad # {} PROVE FALSE
  OBVIOUS
<1>1. FiniteSubsetsOf(S) = SUBSET S
  BY FS_FiniteSubsetsOfFinite
<1>2. IsWellFoundedOn(R, SUBSET S)
  <2>1. IsWellFoundedOn(StrictSubsetOrdering(S), FiniteSubsetsOf(S))
    BY FS_StrictSubsetOrderingWellFounded
  <2> QED BY <1>1, <2>1
<1>3. Bad \subseteq SUBSET S
  OBVIOUS
<1> HIDE DEF Bad, R
<1>4. PICK T \in Bad : \A U \in Bad : ~(<<U, T>> \in R)
  BY <1>2, <1>3, WFMin
<1>5. \A U \in SUBSET T : U # T => U \in Good
  BY <1>3, <1>4 DEF Bad, R, StrictSubsetOrdering
<1> QED BY <1>3, <1>4, <1>5 DEF Bad

\* The choice of an element is one of the set.
LEMMA PickIn == ASSUME NEW S, S # {} PROVE Pick(S) \in S
BY DEF Pick

\* What computes the sums of a set computes those of its subsets.
LEMMA SumsRestrict ==
  ASSUME NEW F, NEW S, NEW g, SumsOf(F, S, g), NEW T \in SUBSET S
  PROVE  SumsOf(F, T, [U \in SUBSET T |-> g[U]])
<1> DEFINE h == [U \in SUBSET T |-> g[U]]
<1>1. \A U \in SUBSET S : g[U] = IF U = {} THEN 0 ELSE F[Pick(U)] + g[U \ {Pick(U)}]
  BY DEF SumsOf
<1>2. \A U \in SUBSET T : h[U] = IF U = {} THEN 0 ELSE F[Pick(U)] + h[U \ {Pick(U)}]
  BY <1>1
<1> QED BY <1>2 DEF SumsOf

\* The recursive definition of a fold has exactly one solution on a finite set.
LEMMA SumsExist ==
  ASSUME NEW F, NEW S, IsFiniteSet(S)
  PROVE  \A T \in SUBSET S :
           \E g : SumsOf(F, T, g) /\ \A h : SumsOf(F, T, h) => h = g
<1> DEFINE Only(T) == \E g : SumsOf(F, T, g) /\ \A h : SumsOf(F, T, h) => h = g
           Good == {T \in SUBSET S : Only(T)}
<1>1. ASSUME NEW T \in SUBSET S, \A U \in SUBSET T : U # T => U \in Good
      PROVE  Only(T)
  <2> DEFINE of  == [U \in SUBSET T |-> CHOOSE g : SumsOf(F, U, g)]
             val == [U \in SUBSET T |-> of[U][U]]
             p   == Pick(T)
             g   == [U \in SUBSET T |->
                       IF U = T THEN IF T = {} THEN 0 ELSE F[p] + val[T \ {p}]
                       ELSE val[U]]
  <2>1. ASSUME NEW U \in SUBSET T, U # T
        PROVE  SumsOf(F, U, of[U]) /\ \A h : SumsOf(F, U, h) => h = of[U]
    <3>1. Only(U)
      BY <1>1, <2>1
    <3> QED BY <3>1
  <2> HIDE DEF of
  <2>2. ASSUME NEW U \in SUBSET T, U # T, NEW W \in SUBSET U
        PROVE  of[U][W] = val[W]
    <3>1. SumsOf(F, W, [X \in SUBSET W |-> of[U][X]])
      <4>1. SumsOf(F, U, of[U])
        BY <2>1, <2>2
      <4> QED BY <4>1, SumsRestrict
    <3>2. W \in SUBSET T /\ W # T
      BY <2>2
    <3>3. [X \in SUBSET W |-> of[U][X]] = of[W]
      BY <2>1, <3>1, <3>2
    <3>4. [X \in SUBSET W |-> of[U][X]][W] = of[U][W]
      OBVIOUS
    <3> QED BY <3>2, <3>3, <3>4
  <2>3. ASSUME NEW U \in SUBSET T, U # T
        PROVE  val[U] = IF U = {} THEN 0 ELSE F[Pick(U)] + val[U \ {Pick(U)}]
    <3>1. of[U][U] = IF U = {} THEN 0 ELSE F[Pick(U)] + of[U][U \ {Pick(U)}]
      <4>1. of[U] = [X \in SUBSET U |-> IF X = {} THEN 0
                          ELSE F[Pick(X)] + of[U][X \ {Pick(X)}]]
        BY <2>1, <2>3 DEF SumsOf
      <4> QED BY <4>1
    <3>2. of[U][U] = val[U] /\ of[U][U \ {Pick(U)}] = val[U \ {Pick(U)}]
      BY <2>2, <2>3
    <3> QED BY <3>1, <3>2
  <2> HIDE DEF val
  <2>4. ASSUME NEW U \in SUBSET T
        PROVE  g[U] = IF U = {} THEN 0 ELSE F[Pick(U)] + g[U \ {Pick(U)}]
    <3>1. CASE U # T
      <4>1. U \ {Pick(U)} \in SUBSET T /\ U \ {Pick(U)} # T
        BY <3>1
      <4> QED BY <2>3, <3>1, <4>1
    <3>2. CASE U = T
      <4>1. T # {} => T \ {p} # T
        BY PickIn
      <4> QED BY <3>2, <4>1
    <3> QED BY <3>1, <3>2
  <2>5. SumsOf(F, T, g)
    BY <2>4 DEF SumsOf
  <2>6. ASSUME NEW h, SumsOf(F, T, h)
        PROVE  h = g
    <3>1. ASSUME NEW U \in SUBSET T, U # T PROVE h[U] = g[U]
      <4>1. SumsOf(F, U, [X \in SUBSET U |-> h[X]])
        BY <2>6, SumsRestrict
      <4>2. SumsOf(F, U, [X \in SUBSET U |-> g[X]])
        BY <2>5, SumsRestrict
      <4>3. [X \in SUBSET U |-> h[X]] = [X \in SUBSET U |-> g[X]]
        BY <2>1, <3>1, <4>1, <4>2
      <4>4. [X \in SUBSET U |-> h[X]][U] = h[U] /\ [X \in SUBSET U |-> g[X]][U] = g[U]
        OBVIOUS
      <4> QED BY <4>3, <4>4
    <3>2. h[T] = g[T]
      <4>1. h[T] = IF T = {} THEN 0 ELSE F[p] + h[T \ {p}]
        BY <2>6 DEF SumsOf
      <4>2. g[T] = IF T = {} THEN 0 ELSE F[p] + g[T \ {p}]
        BY <2>4
      <4>3. T # {} => h[T \ {p}] = g[T \ {p}]
        <5>1. T # {} => T \ {p} \in SUBSET T /\ T \ {p} # T
          BY PickIn
        <5> QED BY <3>1, <5>1
      <4> QED BY <4>1, <4>2, <4>3
    <3>3. h = [U \in SUBSET T |-> h[U]]
      BY <2>6 DEF SumsOf
    <3>4. g = [U \in SUBSET T |-> g[U]]
      OBVIOUS
    <3> HIDE DEF g
    <3>5. \A U \in SUBSET T : h[U] = g[U]
      BY <3>1, <3>2
    <3> QED BY <3>3, <3>4, <3>5
  <2> QED BY <2>5, <2>6
<1>2. \A T \in SUBSET S : T \in Good
  <2> HIDE DEF Only
  <2>1. ASSUME NEW T \in SUBSET S, \A U \in SUBSET T : U # T => U \in Good
        PROVE  T \in Good
    BY <1>1, <2>1
  <2> HIDE DEF Good
  <2> QED BY <2>1, SubsetInduction
<1> QED BY <1>2

\* The fold of the community modules is that solution.
LEMMA SumOverIs ==
  ASSUME NEW F, NEW S, IsFiniteSet(S), NEW g, SumsOf(F, S, g)
  PROVE  SumOver(F, S) = g[S]
<1>1. SumOver(F, S) = (CHOOSE h : SumsOf(F, S, h))[S]
  BY DEF SumOver, MapThenSumSet, MapThenFoldSet, SumsOf, Pick
<1>2. \A h : SumsOf(F, S, h) => h = g
  BY SumsExist
<1> QED BY <1>1, <1>2

\* The sum of a function's values, as the contracts' invariants write it.
LEMMA FoldIsSum ==
  ASSUME NEW F
  PROVE  FoldFunction(+, 0, F) = SumOver(F, DOMAIN F)
BY DEF FoldFunction, FoldFunctionOnSet, MapThenFoldSet, SumOver, MapThenSumSet

-----------------------------------------------------------------------------
\* The sum over nothing is zero.
LEMMA SumEmpty == ASSUME NEW F PROVE SumOver(F, {}) = 0
<1>1. IsFiniteSet({})
  BY FS_EmptySet
<1>2. PICK g : SumsOf(F, {}, g)
  BY <1>1, SumsExist
<1>3. g[{}] = 0
  BY <1>2 DEF SumsOf
<1> QED BY <1>1, <1>2, <1>3, SumOverIs

\* One step of the recursion.
LEMMA SumPick ==
  ASSUME NEW F, NEW S, IsFiniteSet(S), S # {}
  PROVE  SumOver(F, S) = F[Pick(S)] + SumOver(F, S \ {Pick(S)})
<1> DEFINE U == S \ {Pick(S)}
<1>1. PICK g : SumsOf(F, S, g)
  BY SumsExist
<1>2. g[S] = F[Pick(S)] + g[U]
  BY <1>1 DEF SumsOf
<1>3. IsFiniteSet(U)
  BY FS_RemoveElement
<1>4. SumsOf(F, U, [X \in SUBSET U |-> g[X]])
  BY <1>1, SumsRestrict
<1>5. SumOver(F, U) = [X \in SUBSET U |-> g[X]][U]
  <2> HIDE DEF U
  <2> QED BY <1>3, <1>4, SumOverIs
<1> QED BY <1>1, <1>2, <1>5, SumOverIs

\* A sum of integers is one.
LEMMA SumInt ==
  ASSUME NEW F, NEW S, IsFiniteSet(S), \A x \in S : F[x] \in Int
  PROVE  SumOver(F, S) \in Int
<1> DEFINE Good == {T \in SUBSET S : SumOver(F, T) \in Int}
<1>1. ASSUME NEW T \in SUBSET S, \A U \in SUBSET T : U # T => U \in Good
      PROVE  T \in Good
  <2>1. CASE T = {}
    BY <2>1, SumEmpty
  <2>2. CASE T # {}
    <3>1. IsFiniteSet(T) /\ Pick(T) \in T
      BY <2>2, FS_Subset, PickIn
    <3>2. SumOver(F, T) = F[Pick(T)] + SumOver(F, T \ {Pick(T)})
      BY <2>2, <3>1, SumPick
    <3>3. SumOver(F, T \ {Pick(T)}) \in Int
      BY <1>1, <3>1
    <3> QED BY <3>1, <3>2, <3>3
  <2> QED BY <2>1, <2>2
<1>2. S \in Good
  <2> HIDE DEF Good
  <2> QED BY <1>1, SubsetInduction
<1> QED BY <1>2

\* Which element is added first does not matter.
LEMMA SumRemove ==
  ASSUME NEW F, NEW S, IsFiniteSet(S), \A x \in S : F[x] \in Int, NEW e \in S
  PROVE  SumOver(F, S) = F[e] + SumOver(F, S \ {e})
<1> DEFINE Any(T) == \A x \in T : SumOver(F, T) = F[x] + SumOver(F, T \ {x})
           Good == {T \in SUBSET S : Any(T)}
<1>1. ASSUME NEW T \in SUBSET S, \A U \in SUBSET T : U # T => U \in Good
      PROVE  Any(T)
  <2> SUFFICES ASSUME NEW x \in T PROVE SumOver(F, T) = F[x] + SumOver(F, T \ {x})
    OBVIOUS
  <2> DEFINE p == Pick(T)
             P == T \ {p}
             X == T \ {x}
             B == P \ {x}
  <2>1. IsFiniteSet(T) /\ p \in T
    BY FS_Subset, PickIn
  <2>2. SumOver(F, T) = F[p] + SumOver(F, P)
    BY <2>1, SumPick
  <2>3. CASE x # p
    <3>1. P \in Good /\ x \in P
      BY <1>1, <2>1, <2>3
    <3>2. X \in Good /\ p \in X /\ X \ {p} = B
      BY <1>1, <2>1, <2>3
    <3>3. SumOver(F, P) = F[x] + SumOver(F, B)
      BY <3>1
    <3>4. SumOver(F, X) = F[p] + SumOver(F, B)
      BY <3>2
    <3>5. SumOver(F, B) \in Int /\ F[x] \in Int /\ F[p] \in Int
      <4>1. IsFiniteSet(B) /\ \A y \in B : F[y] \in Int
        BY <2>1, FS_Subset
      <4> QED BY <2>1, <4>1, SumInt
    <3> QED BY <2>2, <3>3, <3>4, <3>5
  <2> QED BY <2>2, <2>3
<1>2. S \in Good
  <2> HIDE DEF Any
  <2>1. ASSUME NEW T \in SUBSET S, \A U \in SUBSET T : U # T => U \in Good
        PROVE  T \in Good
    BY <1>1, <2>1
  <2> HIDE DEF Good
  <2> QED BY <2>1, SubsetInduction
<1> QED BY <1>2

\* A new element adds its value.
LEMMA SumAdd ==
  ASSUME NEW F, NEW S, IsFiniteSet(S), NEW e, e \notin S,
         \A x \in S \cup {e} : F[x] \in Int
  PROVE  SumOver(F, S \cup {e}) = F[e] + SumOver(F, S)
<1>1. IsFiniteSet(S \cup {e}) /\ (S \cup {e}) \ {e} = S
  BY FS_AddElement
<1> QED BY <1>1, SumRemove

\* Only the values on the set count.
LEMMA SumEqual ==
  ASSUME NEW F, NEW G, NEW S, IsFiniteSet(S), \A x \in S : F[x] = G[x]
  PROVE  SumOver(F, S) = SumOver(G, S)
<1>1. PICK g : SumsOf(F, S, g)
  BY SumsExist
<1>2. \A T \in SUBSET S : T # {} => F[Pick(T)] = G[Pick(T)]
  BY PickIn
<1>3. \A T \in SUBSET S : g[T] = IF T = {} THEN 0 ELSE F[Pick(T)] + g[T \ {Pick(T)}]
  BY <1>1 DEF SumsOf
<1>4. \A T \in SUBSET S : g[T] = IF T = {} THEN 0 ELSE G[Pick(T)] + g[T \ {Pick(T)}]
  BY <1>2, <1>3
<1>5. g = [T \in SUBSET S |-> g[T]]
  BY <1>1 DEF SumsOf
<1>6. SumsOf(G, S, g)
  BY <1>4, <1>5 DEF SumsOf
<1> QED BY <1>1, <1>6, SumOverIs

\* A change of one value changes the sum by as much.
LEMMA SumChange ==
  ASSUME NEW F, NEW G, NEW S, IsFiniteSet(S), NEW e \in S,
         \A x \in S : F[x] \in Int /\ G[x] \in Int,
         \A x \in S : x # e => F[x] = G[x]
  PROVE  SumOver(G, S) = SumOver(F, S) + (G[e] - F[e])
<1>1. IsFiniteSet(S \ {e})
  BY FS_RemoveElement
<1>2. SumOver(F, S \ {e}) = SumOver(G, S \ {e})
  BY <1>1, SumEqual
<1>3. SumOver(F, S \ {e}) \in Int
  BY <1>1, SumInt
<1>4. /\ SumOver(F, S) = F[e] + SumOver(F, S \ {e})
      /\ SumOver(G, S) = G[e] + SumOver(G, S \ {e})
  BY SumRemove
<1> QED BY <1>2, <1>3, <1>4

LEMMA SumShift ==
  ASSUME NEW F, NEW G, NEW S, IsFiniteSet(S), NEW e \in S, NEW v,
         \A x \in S : F[x] \in Int /\ G[x] \in Int,
         \A x \in S : x # e => F[x] = G[x],
         G[e] - F[e] = v
  PROVE  SumOver(G, S) = SumOver(F, S) + v
BY SumChange

\* A sum of zeros.
LEMMA SumZero ==
  ASSUME NEW F, NEW S, IsFiniteSet(S), \A x \in S : F[x] = 0
  PROVE  SumOver(F, S) = 0
<1> DEFINE Good == {T \in SUBSET S : SumOver(F, T) = 0}
<1>1. ASSUME NEW T \in SUBSET S, \A U \in SUBSET T : U # T => U \in Good
      PROVE  T \in Good
  <2>1. CASE T = {}
    BY <2>1, SumEmpty
  <2>2. CASE T # {}
    <3>1. IsFiniteSet(T) /\ Pick(T) \in T
      BY <2>2, FS_Subset, PickIn
    <3>2. SumOver(F, T) = F[Pick(T)] + SumOver(F, T \ {Pick(T)})
      BY <2>2, <3>1, SumPick
    <3> QED BY <1>1, <3>1, <3>2
  <2> QED BY <2>1, <2>2
<1>2. S \in Good
  <2> HIDE DEF Good
  <2> QED BY <1>1, SubsetInduction
<1> QED BY <1>2

\* A sum of smaller numbers is smaller.
LEMMA SumSmaller ==
  ASSUME NEW F, NEW G, NEW S, IsFiniteSet(S),
         \A x \in S : F[x] \in Int /\ G[x] \in Int /\ F[x] <= G[x]
  PROVE  SumOver(F, S) <= SumOver(G, S)
<1> DEFINE Good == {T \in SUBSET S : SumOver(F, T) <= SumOver(G, T)}
<1>1. ASSUME NEW T \in SUBSET S, \A U \in SUBSET T : U # T => U \in Good
      PROVE  T \in Good
  <2>1. CASE T = {}
    BY <2>1, SumEmpty
  <2>2. CASE T # {}
    <3> DEFINE e == Pick(T)
               U == T \ {e}
    <3>1. IsFiniteSet(T) /\ e \in T /\ U \in SUBSET T /\ U # T /\ IsFiniteSet(U)
      BY <2>2, FS_Subset, PickIn
    <3>2. SumOver(F, T) = F[e] + SumOver(F, U) /\ SumOver(G, T) = G[e] + SumOver(G, U)
      BY <2>2, <3>1, SumPick
    <3>3. SumOver(F, U) \in Int /\ SumOver(G, U) \in Int
      BY <3>1, SumInt
    <3>4. SumOver(F, U) <= SumOver(G, U)
      BY <1>1, <3>1
    <3>5. F[e] \in Int /\ G[e] \in Int /\ F[e] <= G[e]
      BY <3>1
    <3> HIDE DEF e, U
    <3> QED BY <3>2, <3>3, <3>4, <3>5
  <2> QED BY <2>1, <2>2
<1>2. S \in Good
  <2> HIDE DEF Good
  <2> QED BY <1>1, SubsetInduction
<1> QED BY <1>2

\* Sums of naturals grow with the set.
LEMMA SumMonotone ==
  ASSUME NEW F, NEW S, IsFiniteSet(S), \A x \in S : F[x] \in Nat,
         NEW T \in SUBSET S
  PROVE  SumOver(F, T) \in Nat /\ SumOver(F, T) <= SumOver(F, S)
<1> DEFINE Fine(U) == /\ SumOver(F, U) \in Nat
                      /\ \A V \in SUBSET U : SumOver(F, V) <= SumOver(F, U)
           Good == {U \in SUBSET S : Fine(U)}
<1>1. ASSUME NEW U \in SUBSET S, \A V \in SUBSET U : V # U => V \in Good
      PROVE  Fine(U)
  <2>1. IsFiniteSet(U)
    BY FS_Subset
  <2>2. CASE U = {}
    BY <2>2, SumEmpty
  <2>3. CASE U # {}
    <3>1. \A x \in U : SumOver(F, U) = F[x] + SumOver(F, U \ {x})
      BY <2>1, SumRemove
    <3>2. \A x \in U : U \ {x} \in Good
      BY <1>1
    <3>3. SumOver(F, U) \in Nat
      <4>1. PICK x \in U : TRUE
        BY <2>3
      <4>2. F[x] \in Nat /\ SumOver(F, U \ {x}) \in Nat
        BY <3>2
      <4> QED BY <3>1, <4>2
    <3>4. ASSUME NEW V \in SUBSET U PROVE SumOver(F, V) <= SumOver(F, U)
      <4>1. CASE V # U
        <5>1. PICK x \in U : V \in SUBSET (U \ {x})
          BY <4>1
        <5>2. /\ SumOver(F, V) <= SumOver(F, U \ {x}) /\ SumOver(F, U \ {x}) \in Nat
              /\ SumOver(F, V) \in Nat
          BY <1>1, <3>2, <4>1, <5>1
        <5> QED BY <3>1, <5>1, <5>2
      <4>2. CASE V = U
        BY <3>3, <4>2
      <4> QED BY <4>1, <4>2
    <3> QED BY <3>3, <3>4
  <2> QED BY <2>2, <2>3
<1>2. \A U \in SUBSET S : U \in Good
  <2> HIDE DEF Fine
  <2>1. ASSUME NEW U \in SUBSET S, \A V \in SUBSET U : V # U => V \in Good
        PROVE  U \in Good
    BY <1>1, <2>1
  <2> HIDE DEF Good
  <2> QED BY <2>1, SubsetInduction
<1> QED BY <1>2

\* Elements that count for nothing may be left out.
LEMMA SumSupport ==
  ASSUME NEW F, NEW S, IsFiniteSet(S), \A x \in S : F[x] \in Int,
         NEW T \in SUBSET S, \A x \in S \ T : F[x] = 0
  PROVE  SumOver(F, S) = SumOver(F, T)
<1> DEFINE Good == {U \in SUBSET S : T \subseteq U => SumOver(F, U) = SumOver(F, T)}
<1>1. ASSUME NEW U \in SUBSET S, \A V \in SUBSET U : V # U => V \in Good
      PROVE  U \in Good
  <2> SUFFICES ASSUME T \subseteq U, U # T PROVE SumOver(F, U) = SumOver(F, T)
    OBVIOUS
  <2>1. PICK x \in U : x \notin T
    OBVIOUS
  <2>2. SumOver(F, U \ {x}) = SumOver(F, T)
    BY <1>1, <2>1
  <2>3. IsFiniteSet(U)
    BY FS_Subset
  <2>4. SumOver(F, U) = F[x] + SumOver(F, U \ {x})
    BY <2>3, SumRemove
  <2>5. F[x] = 0
    BY <2>1
  <2>6. SumOver(F, U \ {x}) \in Int
    <3>1. IsFiniteSet(U \ {x})
      BY <2>3, FS_RemoveElement
    <3> QED BY <3>1, SumInt
  <2> QED BY <2>2, <2>4, <2>5, <2>6
<1>2. S \in Good
  <2> HIDE DEF Good
  <2> QED BY <1>1, SubsetInduction
<1> QED BY <1>2

\* A sum carried over by an injection into a larger set is at most the sum there.
LEMMA SumInjected ==
  ASSUME NEW F, NEW A, IsFiniteSet(A), NEW G, NEW B, IsFiniteSet(B), NEW m,
         \A x \in A : m[x] \in B /\ G[m[x]] = F[x],
         \A x, y \in A : m[x] = m[y] => x = y,
         \A y \in B : G[y] \in Nat
  PROVE  SumOver(F, A) <= SumOver(G, B)
<1> DEFINE Img(T) == {m[x] : x \in T}
           Good   == {T \in SUBSET A : SumOver(F, T) = SumOver(G, Img(T))}
<1>0. \A x \in A : F[x] \in Nat
  OBVIOUS
<1>1. ASSUME NEW T \in SUBSET A, \A U \in SUBSET T : U # T => U \in Good
      PROVE  T \in Good
  <2>1. CASE T = {}
    <3>1. Img(T) = {}
      BY <2>1
    <3> HIDE DEF Img
    <3> QED BY <2>1, <3>1, SumEmpty
  <2>2. CASE T # {}
    <3>1. PICK x \in T : TRUE
      BY <2>2
    <3>2. IsFiniteSet(T) /\ Img(T) \subseteq B /\ m[x] \in Img(T)
      BY <3>1, FS_Subset
    <3>3. IsFiniteSet(Img(T))
      BY <3>2, FS_Subset
    <3>4. Img(T) \ {m[x]} = Img(T \ {x})
      BY <3>1
    <3>5. SumOver(F, T \ {x}) = SumOver(G, Img(T \ {x}))
      BY <1>1, <3>1
    <3>6. SumOver(F, T) = F[x] + SumOver(F, T \ {x})
      BY <1>0, <3>1, <3>2, SumRemove
    <3>7. SumOver(G, Img(T)) = G[m[x]] + SumOver(G, Img(T) \ {m[x]})
      <4> HIDE DEF Img
      <4> QED BY <3>2, <3>3, SumRemove
    <3>8. G[m[x]] = F[x]
      BY <3>1
    <3> HIDE DEF Img
    <3>9. SumOver(F, T) = SumOver(G, Img(T))
      BY <3>4, <3>5, <3>6, <3>7, <3>8
    <3> QED BY <3>9
  <2> QED BY <2>1, <2>2
<1>2. A \in Good
  <2> HIDE DEF Good
  <2> QED BY <1>1, SubsetInduction
<1>3. Img(A) \in SUBSET B
  OBVIOUS
<1>4. SumOver(G, Img(A)) <= SumOver(G, B)
  <2> HIDE DEF Img
  <2> QED BY <1>3, SumMonotone
<1> QED BY <1>2, <1>4
=============================================================================
