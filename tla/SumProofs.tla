------------------------------ MODULE SumProofs ------------------------------
(***************************************************************************)
(* Facts about the sum of a function over a finite set, for the accounts   *)
(* of units and points that the components keep.  The community modules    *)
(* define SumFunctionOnSet by recursion over the subsets of the set, each  *)
(* of which gives up the element that CHOOSE names: the proofs below show  *)
(* that this recursion has a solution, that there is only one, and that    *)
(* the order in which elements are given up does not matter.               *)
(*                                                                         *)
(* Induction is over a set of sets (SubsetInduction), which needs no       *)
(* operator as a parameter and follows from the well-foundedness of the    *)
(* strict subset order on finite sets.  At the end the same is said of     *)
(* numbers: a set that has 0, and n + 1 with n, has all of them, and a set *)
(* of numbers has a least one.                                             *)
(***************************************************************************)
EXTENDS Integers, Functions, FiniteSetsExt, FiniteSetTheorems, TLAPS

\* A collection that has each set whose proper subsets it has holds them all.
LEMMA SubsetInduction ==
  ASSUME NEW S, IsFiniteSet(S), NEW G,
         \A U \in SUBSET S : (\A V \in SUBSET U : V # U => V \in G) => U \in G
  PROVE  \A U \in SUBSET S : U \in G
<1>. DEFINE Bad == {U \in SUBSET S : U \notin G}
            R == StrictSubsetOrdering(S)
<1>1. SUFFICES ASSUME Bad # {} PROVE FALSE
  OBVIOUS
<1>2. IsWellFoundedOn(R, FiniteSubsetsOf(S))
  BY FS_StrictSubsetOrderingWellFounded
<1>3. Bad \subseteq FiniteSubsetsOf(S)
  BY FS_Subset DEF FiniteSubsetsOf
<1>4. PICK U \in Bad : \A V \in Bad : <<V, U>> \notin R
  <2>. HIDE DEF Bad, R
  <2>. QED BY <1>1, <1>2, <1>3, WFMin
<1>5. \A V \in SUBSET U : V # U => V \in G
  BY <1>4 DEF StrictSubsetOrdering
<1>. QED
  BY <1>4, <1>5

-----------------------------------------------------------------------------
\* The element a set gives up, and what solves the recursion on the subsets of S.
Pick(s) == CHOOSE x \in s : TRUE

Solves(it, f, S) ==
  it = [s \in SUBSET S |-> IF s = {} THEN 0 ELSE f[Pick(s)] + it[s \ {Pick(s)}]]

LEMMA PickIn == \A s : s # {} => Pick(s) \in s
  BY DEF Pick

\* Two solutions agree wherever both are defined.
LEMMA SolutionsAgree ==
  ASSUME NEW f, NEW S, IsFiniteSet(S), NEW T, S \in SUBSET T,
         NEW it, Solves(it, f, S), NEW jt, Solves(jt, f, T)
  PROVE  it[S] = jt[S]
<1>. DEFINE G == {U \in SUBSET S : it[U] = jt[U]}
<1>1. ASSUME NEW U \in SUBSET S, \A V \in SUBSET U : V # U => V \in G
      PROVE  U \in G
  <2>1. it[U] = IF U = {} THEN 0 ELSE f[Pick(U)] + it[U \ {Pick(U)}]
    BY DEF Solves
  <2>2. jt[U] = IF U = {} THEN 0 ELSE f[Pick(U)] + jt[U \ {Pick(U)}]
    BY DEF Solves
  <2>3. CASE U = {}
    BY <2>1, <2>2, <2>3
  <2>4. CASE U # {}
    <3>1. U \ {Pick(U)} \in G
      BY <1>1, <2>4, PickIn
    <3>. QED BY <2>1, <2>2, <2>4, <3>1
  <2>. QED BY <2>3, <2>4
<1>2. S \in G
  <2>. HIDE DEF G
  <2>. QED BY <1>1, SubsetInduction
<1>. QED BY <1>2

Solution(f, U) == CHOOSE it : Solves(it, f, U)

LEMMA PartsAgree ==
  ASSUME NEW f, NEW V, NEW W, IsFiniteSet(W), W \subseteq V,
         Solves(Solution(f, W), f, W), Solves(Solution(f, V), f, V)
  PROVE  Solution(f, V)[W] = Solution(f, W)[W]
<1>1. PICK it : it = Solution(f, W)
  OBVIOUS
<1>2. PICK jt : jt = Solution(f, V)
  OBVIOUS
<1>3. Solves(it, f, W) /\ Solves(jt, f, V)
  BY <1>1, <1>2
<1>4. it[W] = jt[W]
  BY <1>3, SolutionsAgree
<1>. QED BY <1>1, <1>2, <1>4

\* Every finite set has a solution on its subsets.
LEMMA SolutionExists ==
  ASSUME NEW f, NEW S, IsFiniteSet(S)
  PROVE  Solves(Solution(f, S), f, S)
<1>. DEFINE G == {U \in SUBSET S : Solves(Solution(f, U), f, U)}
<1>1. ASSUME NEW U \in SUBSET S, \A V \in SUBSET U : V # U => V \in G
      PROVE  U \in G
  <2>. DEFINE Rest(s) == s \ {Pick(s)}
              Part(s) == Solution(f, s)[s]
              jt == [s \in SUBSET U |-> IF s = {} THEN 0 ELSE f[Pick(s)] + Part(Rest(s))]
  <2>1. ASSUME NEW V \in SUBSET U, V # U
        PROVE  Part(V) = IF V = {} THEN 0 ELSE f[Pick(V)] + Part(Rest(V))
    <3>1. Solves(Solution(f, V), f, V)
      BY <1>1, <2>1
    <3>2. Part(V) = IF V = {} THEN 0 ELSE f[Pick(V)] + Solution(f, V)[Rest(V)]
      BY <3>1 DEF Solves
    <3>3. ASSUME V # {} PROVE Solution(f, V)[Rest(V)] = Part(Rest(V))
      <4>1. Rest(V) \in SUBSET U /\ Rest(V) # U /\ Rest(V) \subseteq V
        BY <2>1, <3>3, PickIn
      <4>2. Solves(Solution(f, Rest(V)), f, Rest(V))
        BY <1>1, <4>1
      <4>3. IsFiniteSet(Rest(V))
        BY <4>1, FS_Subset
      <4>4. Solution(f, V)[Rest(V)] = Solution(f, Rest(V))[Rest(V)]
        <5>1. Rest(V) \subseteq V
          BY <4>1
        <5>. HIDE DEF Rest, Part, jt, G
        <5>. QED BY <3>1, <4>2, <4>3, <5>1, PartsAgree
      <4>. QED BY <4>4
    <3>. HIDE DEF Rest, Part
    <3>. QED BY <3>2, <3>3
  <2>2. ASSUME NEW s \in SUBSET U
        PROVE  jt[s] = IF s = {} THEN 0 ELSE f[Pick(s)] + jt[Rest(s)]
    <3>1. CASE s = {}
      BY <3>1
    <3>2. CASE s # {}
      <4>1. Rest(s) \in SUBSET U /\ Rest(s) # U
        BY <3>2, PickIn
      <4>2. jt[Rest(s)] = Part(Rest(s))
        <5>. HIDE DEF Part
        <5>1. jt[Rest(s)] = IF Rest(s) = {} THEN 0 ELSE f[Pick(Rest(s))] + Part(Rest(Rest(s)))
          BY <4>1
        <5>. QED BY <4>1, <5>1, <2>1
      <4>. HIDE DEF Part
      <4>. QED BY <3>2, <4>2
    <3>. QED BY <3>1, <3>2
  <2>3. Solves(jt, f, U)
    <3>1. jt = [s \in SUBSET U |-> jt[s]]
      OBVIOUS
    <3>. HIDE DEF jt
    <3>. QED BY <2>2, <3>1 DEF Solves
  <2>4. Solves(Solution(f, U), f, U)
    <3>. HIDE DEF jt
    <3>. QED BY <2>3 DEF Solution
  <2>. QED BY <2>4
<1>2. S \in G
  <2>. HIDE DEF G
  <2>. QED BY <1>1, SubsetInduction
<1>. QED BY <1>2

LEMMA SumSolves ==
  ASSUME NEW f, NEW S
  PROVE  SumFunctionOnSet(f, S) = Solution(f, S)[S]
BY DEF SumFunctionOnSet, FoldFunctionOnSet, MapThenFoldSet, Solution, Solves, Pick

-----------------------------------------------------------------------------
LEMMA SumEmpty == \A f : SumFunctionOnSet(f, {}) = 0
<1>. SUFFICES ASSUME NEW f PROVE SumFunctionOnSet(f, {}) = 0
  OBVIOUS
<1>1. Solves(Solution(f, {}), f, {})
  BY SolutionExists, FS_EmptySet
<1>. QED BY <1>1, SumSolves DEF Solves

LEMMA SumPick ==
  ASSUME NEW f, NEW S, IsFiniteSet(S), S # {}
  PROVE  SumFunctionOnSet(f, S) = f[Pick(S)] + SumFunctionOnSet(f, S \ {Pick(S)})
<1>. DEFINE W == S \ {Pick(S)}
<1>1. IsFiniteSet(W) /\ W \in SUBSET S
  BY FS_Subset
<1>2. Solves(Solution(f, S), f, S) /\ Solves(Solution(f, W), f, W)
  BY <1>1, SolutionExists
<1>3. Solution(f, S)[S] = f[Pick(S)] + Solution(f, S)[W]
  BY <1>2 DEF Solves
<1>4. Solution(f, S)[W] = Solution(f, W)[W]
  <2>. HIDE DEF W
  <2>. QED BY <1>1, <1>2, PartsAgree
<1>5. SumFunctionOnSet(f, S) = Solution(f, S)[S] /\ SumFunctionOnSet(f, W) = Solution(f, W)[W]
  BY SumSolves
<1>. HIDE DEF W
<1>6. SumFunctionOnSet(f, S) = f[Pick(S)] + SumFunctionOnSet(f, W)
  BY <1>3, <1>4, <1>5
<1>. QED BY <1>6 DEF W

\* A sum of integers is an integer.
LEMMA SumInt ==
  ASSUME NEW S, IsFiniteSet(S), NEW f, \A x \in S : f[x] \in Int
  PROVE  SumFunctionOnSet(f, S) \in Int
<1>. DEFINE G == {U \in SUBSET S : SumFunctionOnSet(f, U) \in Int}
<1>1. ASSUME NEW U \in SUBSET S, \A V \in SUBSET U : V # U => V \in G
      PROVE  U \in G
  <2>1. CASE U = {}
    BY <2>1, SumEmpty
  <2>2. CASE U # {}
    <3>1. Pick(U) \in U /\ U \ {Pick(U)} \in G
      BY <1>1, <2>2, PickIn
    <3>2. SumFunctionOnSet(f, U) = f[Pick(U)] + SumFunctionOnSet(f, U \ {Pick(U)})
      BY <2>2, SumPick, FS_Subset
    <3>. QED BY <3>1, <3>2
  <2>. QED BY <2>1, <2>2
<1>2. S \in G
  <2>. HIDE DEF G
  <2>. QED BY <1>1, SubsetInduction
<1>. QED BY <1>2

\* Any element may be given up first.
LEMMA SumRemove ==
  ASSUME NEW S, IsFiniteSet(S), NEW f, \A x \in S : f[x] \in Int, NEW y \in S
  PROVE  SumFunctionOnSet(f, S) = f[y] + SumFunctionOnSet(f, S \ {y})
<1>. DEFINE Total(U) == SumFunctionOnSet(f, U)
            G == {U \in SUBSET S : \A z \in U : Total(U) = f[z] + Total(U \ {z})}
<1>1. ASSUME NEW U \in SUBSET S, \A V \in SUBSET U : V # U => V \in G
      PROVE  U \in G
  <2>. SUFFICES ASSUME NEW z \in U PROVE Total(U) = f[z] + Total(U \ {z})
    OBVIOUS
  <2>. DEFINE x == Pick(U)
  <2>1. x \in U
    BY PickIn
  <2>2. Total(U) = f[x] + Total(U \ {x})
    BY SumPick, FS_Subset
  <2>3. CASE z = x
    BY <2>2, <2>3
  <2>4. CASE z # x
    <3>1. U \ {x} \in G /\ U \ {z} \in G
      BY <1>1, <2>1
    <3>2. z \in U \ {x} /\ x \in U \ {z}
      BY <2>1, <2>4
    <3>. DEFINE Both == U \ {x, z}
    <3>3. (U \ {x}) \ {z} = Both /\ (U \ {z}) \ {x} = Both
      OBVIOUS
    <3>4. /\ Total(U \ {x}) = f[z] + Total(Both)
          /\ Total(U \ {z}) = f[x] + Total(Both)
      <4>. HIDE DEF x, Both, Total
      <4>. QED BY <3>1, <3>2, <3>3
    <3>5. Total(Both) \in Int /\ f[x] \in Int /\ f[z] \in Int
      BY <2>1, SumInt, FS_Subset
    <3>. HIDE DEF x, Both, Total
    <3>. QED BY <2>2, <3>4, <3>5
  <2>. QED BY <2>3, <2>4
<1>2. S \in G
  <2>. HIDE DEF G
  <2>. QED BY <1>1, SubsetInduction
<1>. QED BY <1>2

\* A function that is nowhere greater has no greater sum.
LEMMA SumAtMost ==
  ASSUME NEW S, IsFiniteSet(S), NEW f, NEW g,
         \A x \in S : f[x] \in Int /\ g[x] \in Int /\ f[x] <= g[x]
  PROVE  SumFunctionOnSet(f, S) <= SumFunctionOnSet(g, S)
<1>. DEFINE G == {U \in SUBSET S : SumFunctionOnSet(f, U) <= SumFunctionOnSet(g, U)}
<1>1. ASSUME NEW U \in SUBSET S, \A V \in SUBSET U : V # U => V \in G
      PROVE  U \in G
  <2>1. CASE U = {}
    BY <2>1, SumEmpty
  <2>2. CASE U # {}
    <3>. DEFINE x == Pick(U)  W == U \ {x}
    <3>1. x \in S /\ W \in G /\ W \in SUBSET S
      BY <1>1, <2>2, PickIn
    <3>2. /\ SumFunctionOnSet(f, U) = f[x] + SumFunctionOnSet(f, W)
          /\ SumFunctionOnSet(g, U) = g[x] + SumFunctionOnSet(g, W)
      BY <2>2, SumPick, FS_Subset
    <3>3. SumFunctionOnSet(f, W) \in Int /\ SumFunctionOnSet(g, W) \in Int
      <4>. HIDE DEF x, W
      <4>1. IsFiniteSet(W)
        BY <3>1, FS_Subset
      <4>. QED BY <3>1, <4>1, SumInt
    <3>. HIDE DEF x, W
    <3>. QED BY <3>1, <3>2, <3>3
  <2>. QED BY <2>1, <2>2
<1>2. S \in G
  <2>. HIDE DEF G
  <2>. QED BY <1>1, SubsetInduction
<1>. QED BY <1>2

-----------------------------------------------------------------------------
(***************************************************************************)
(* The forms the accounts use: the sum of a function over its domain.      *)
(***************************************************************************)
LEMMA TotalInt ==
  ASSUME NEW S, IsFiniteSet(S), NEW f \in [S -> Int]
  PROVE  SumFunction(f) \in Int
BY SumInt DEF SumFunction

LEMMA TotalAtMost ==
  ASSUME NEW S, IsFiniteSet(S), NEW f \in [S -> Int], NEW g \in [S -> Int],
         \A x \in S : f[x] <= g[x]
  PROVE  SumFunction(f) <= SumFunction(g)
BY SumAtMost DEF SumFunction

\* A function that is zero everywhere adds up to zero.
LEMMA TotalZero ==
  ASSUME NEW S, IsFiniteSet(S)
  PROVE  SumFunction([x \in S |-> 0]) = 0
<1>. DEFINE f == [x \in S |-> 0]
            G == {U \in SUBSET S : SumFunctionOnSet(f, U) = 0}
<1>1. ASSUME NEW U \in SUBSET S, \A V \in SUBSET U : V # U => V \in G
      PROVE  U \in G
  <2>1. CASE U = {}
    BY <2>1, SumEmpty
  <2>2. CASE U # {}
    <3>1. Pick(U) \in U /\ U \ {Pick(U)} \in G
      BY <1>1, <2>2, PickIn
    <3>2. SumFunctionOnSet(f, U) = f[Pick(U)] + SumFunctionOnSet(f, U \ {Pick(U)})
      BY <2>2, SumPick, FS_Subset
    <3>. QED BY <3>1, <3>2
  <2>. QED BY <2>1, <2>2
<1>2. S \in G
  <2>. HIDE DEF G
  <2>. QED BY <1>1, SubsetInduction
<1>. QED BY <1>2 DEF SumFunction

\* A change in one place changes the sum by as much.
THEOREM TotalChange ==
  ASSUME NEW S, IsFiniteSet(S), NEW f \in [S -> Int], NEW g \in [S -> Int],
         NEW x \in S, \A y \in S \ {x} : g[y] = f[y]
  PROVE  SumFunction(g) = SumFunction(f) - f[x] + g[x]
<1>. DEFINE W == S \ {x}
<1>1. IsFiniteSet(W)
  BY FS_Subset
<1>2. /\ SumFunctionOnSet(f, S) = f[x] + SumFunctionOnSet(f, W)
      /\ SumFunctionOnSet(g, S) = g[x] + SumFunctionOnSet(g, W)
  BY SumRemove
<1>3. /\ SumFunctionOnSet(f, W) <= SumFunctionOnSet(g, W)
      /\ SumFunctionOnSet(g, W) <= SumFunctionOnSet(f, W)
  BY <1>1, SumAtMost
<1>4. SumFunctionOnSet(f, W) \in Int /\ SumFunctionOnSet(g, W) \in Int
  BY <1>1, SumInt
<1>. HIDE DEF W
<1>5. SumFunctionOnSet(g, S) = SumFunctionOnSet(f, S) - f[x] + g[x]
  BY <1>2, <1>3, <1>4
<1>. QED BY <1>5 DEF SumFunction

-----------------------------------------------------------------------------
(***************************************************************************)
(* Numbers: the least of a set, and induction up to a number, as a set of  *)
(* numbers that holds each one whose predecessor it holds.                 *)
(***************************************************************************)
LEMMA NatOrder ==
  \E R : /\ IsWellFoundedOn(R, Nat)
         /\ \A a, b \in Nat : a < b => <<a, b>> \in R
<1> DEFINE R == OpToRel(<, Nat)
<1>1. IsWellFoundedOn(R, Nat)
  BY NatLessThanWellFounded
<1>2. ASSUME NEW a \in Nat, NEW b \in Nat, a < b PROVE <<a, b>> \in R
  BY <1>2, Zenon DEF OpToRel
<1> HIDE DEF R
<1> QED BY <1>1, <1>2

\* A set of numbers that is not empty has a least one.
LEMMA LeastNumber ==
  ASSUME NEW S, S \subseteq Nat, S # {}
  PROVE  \E x \in S : \A y \in S : x <= y
<1>1. PICK R : IsWellFoundedOn(R, Nat) /\ \A a, b \in Nat : a < b => <<a, b>> \in R
  BY NatOrder
<1>2. \E x \in S : \A y \in S : ~(<<y, x>> \in R)
  <2>1. IsWellFoundedOn(R, Nat)
    BY <1>1
  <2>2. PICK z \in S : TRUE
    OBVIOUS
  <2> QED BY <2>1, <2>2, WFMin, Zenon
<1>3. PICK x \in S : \A y \in S : ~(<<y, x>> \in R)
  BY <1>2
<1>4. ASSUME NEW y \in S PROVE x <= y
  <2>1. ~(y < x)
    BY <1>1, <1>3
  <2>2. x \in Nat /\ y \in Nat
    OBVIOUS
  <2> QED BY <2>1, <2>2
<1> QED BY <1>4

LEMMA MinOfNumbers ==
  ASSUME NEW S, S \subseteq Nat, S # {}
  PROVE  Min(S) \in S /\ \A y \in S : Min(S) <= y
BY LeastNumber DEF Min

\* Induction over the numbers up to N, as a set of numbers.
LEMMA NumbersUpTo ==
  ASSUME NEW N \in Nat, NEW G, 0 \in G, \A n \in 0..N : n # 0 /\ n - 1 \in G => n \in G
  PROVE  N \in G
<1> DEFINE Bad == {n \in 0..N : n \notin G}
<1>1. SUFFICES ASSUME Bad # {} PROVE FALSE
  OBVIOUS
<1>2. Bad \subseteq Nat
  OBVIOUS
<1>3. PICK n \in Bad : \A m \in Bad : n <= m
  <2> HIDE DEF Bad
  <2> QED BY <1>1, <1>2, LeastNumber
<1>4. n \in 0..N /\ n \notin G /\ n # 0
  BY <1>3
<1>5. n - 1 \in 0..N /\ ~(n <= n - 1)
  BY <1>4
<1>6. n - 1 \notin G
  BY <1>4
<1> QED BY <1>3, <1>5, <1>6

=============================================================================
