----------------------------- MODULE SumTheorems -----------------------------
(***************************************************************************)
(* What SumFunction returns, for functions with a finite domain: the facts  *)
(* about sums of amounts that the proofs about ledgers and balances need.   *)
(* SumFunction takes the elements of the domain in an order of its own;     *)
(* the lemmas show that the order does not matter.                          *)
(***************************************************************************)
EXTENDS Functions, FiniteSetTheorems, WellFoundedInduction, TLAPS

\* The element that SumFunction adds first.
First(T) == CHOOSE x \in T : TRUE

Rest(T) == T \ {First(T)}

\* g is the table of the sums of f over the subsets of S, as SumFunction computes it.
SumTable(g, f, S) ==
  g = [T \in SUBSET S |-> IF T = {} THEN 0 ELSE f[First(T)] + g[Rest(T)]]

LEMMA FirstIsElement == \A T : T # {} => First(T) \in T /\ Rest(T) \subseteq T /\ Rest(T) # T
BY DEF First, Rest

\* A nonempty set of subsets of a finite set has a smallest one by inclusion.
LEMMA SmallestSubset ==
  ASSUME NEW S, IsFiniteSet(S), NEW Sets, Sets \subseteq SUBSET S, Sets # {}
  PROVE  \E T \in Sets : \A U \in Sets : U \subseteq T => U = T
<1>1. IsWellFoundedOn(StrictSubsetOrdering(S), SUBSET S)
  BY FS_StrictSubsetOrderingWellFounded, FS_FiniteSubsetsOfFinite
<1>2. PICK T \in Sets : \A U \in Sets : ~(<<U, T>> \in StrictSubsetOrdering(S))
  BY <1>1, WFMin, Zenon
<1>3. ASSUME NEW U \in Sets, U \subseteq T  PROVE U = T
  BY <1>2, <1>3 DEF StrictSubsetOrdering
<1> QED BY <1>3

LEMMA SumIsEntry ==
  ASSUME NEW f
  PROVE  SumFunction(f) = (CHOOSE g : SumTable(g, f, DOMAIN f))[DOMAIN f]
BY DEF SumFunction, SumFunctionOnSet, FoldFunctionOnSet, MapThenFoldSet, SumTable, First, Rest

\* What the entries of a table are, without the function that holds them.
LEMMA TableEntries ==
  ASSUME NEW f, NEW S, NEW g, SumTable(g, f, S)
  PROVE  /\ g[{}] = 0
         /\ \A T \in SUBSET S : T # {} => g[T] = f[First(T)] + g[Rest(T)]
BY DEF SumTable

\* Two tables agree on the subsets that they have in common.
LEMMA TablesAgree ==
  ASSUME NEW f, NEW S, IsFiniteSet(S),
         NEW A \in SUBSET S, NEW B \in SUBSET S, NEW g, NEW h,
         SumTable(g, f, A), SumTable(h, f, B)
  PROVE  \A T \in SUBSET (A \intersect B) : g[T] = h[T]
<1> DEFINE Differ == {T \in SUBSET (A \intersect B) : g[T] # h[T]}
<1> SUFFICES ASSUME Differ # {} PROVE FALSE
  OBVIOUS
<1>1. PICK T \in Differ : \A U \in Differ : U \subseteq T => U = T
  <2>1. Differ \subseteq SUBSET S
    OBVIOUS
  <2> HIDE DEF Differ
  <2> QED BY <2>1, SmallestSubset
<1>2. CASE T = {}
  BY <1>2 DEF SumTable
<1>3. CASE T # {}
  <2>1. First(T) \in T /\ Rest(T) \subseteq T /\ Rest(T) # T
    BY <1>3, FirstIsElement
  <2>2. g[Rest(T)] = h[Rest(T)]
    BY <1>1, <2>1
  <2>3. g[T] = f[First(T)] + g[Rest(T)] /\ h[T] = f[First(T)] + h[Rest(T)]
    BY <1>3 DEF SumTable
  <2> QED BY <2>2, <2>3
<1> QED BY <1>2, <1>3

\* Every finite set has a table.
LEMMA TableExists ==
  ASSUME NEW f, NEW S, IsFiniteSet(S)
  PROVE  \E g : SumTable(g, f, S)
<1> DEFINE None == {T \in SUBSET S : ~\E g : SumTable(g, f, T)}
<1> SUFFICES ASSUME None # {} PROVE FALSE
  OBVIOUS
<1>1. PICK T \in None : \A U \in None : U \subseteq T => U = T
  <2>1. None \subseteq SUBSET S
    OBVIOUS
  <2> HIDE DEF None
  <2> QED BY <2>1, SmallestSubset
<1> DEFINE table(U) == CHOOSE g : SumTable(g, f, U)
           sum == [U \in SUBSET T |->
                     IF U = {} THEN 0 ELSE f[First(U)] + table(Rest(U))[Rest(U)]]
<1>1a. /\ sum[{}] = 0
      /\ \A U \in SUBSET T : U # {} => sum[U] = f[First(U)] + table(Rest(U))[Rest(U)]
  <2> HIDE DEF table
  <2> QED OBVIOUS
<1>2. ASSUME NEW U \in SUBSET T, U # {}
      PROVE  SumTable(table(Rest(U)), f, Rest(U)) /\ Rest(U) \in SUBSET T
  <2>1. Rest(U) \in SUBSET T /\ Rest(U) # T
    BY <1>2, FirstIsElement
  <2>2. \E g : SumTable(g, f, Rest(U))
    BY <1>1, <2>1
  <2> QED BY <2>1, <2>2, Zenon
<1>3. ASSUME NEW U \in SUBSET T, U # {}
      PROVE  sum[Rest(U)] = table(Rest(U))[Rest(U)]
  <2> DEFINE V == Rest(U)
  <2>1. V \in SUBSET T /\ SumTable(table(V), f, V)
    BY <1>2, <1>3
  <2> HIDE DEF V
  <2>2. CASE V = {}
    <3>1. table(V)[V] = 0
      BY <2>1, <2>2, TableEntries
    <3> HIDE DEF table, sum
    <3> QED BY <1>1a, <2>2, <3>1 DEF V
  <2>3. CASE V # {}
    <3>1. Rest(V) \subseteq V /\ Rest(V) \in SUBSET T /\ SumTable(table(Rest(V)), f, Rest(V))
      BY <1>2, <2>1, <2>3, FirstIsElement
    <3>2. table(V)[V] = f[First(V)] + table(V)[Rest(V)]
      BY <2>1, <2>3, TableEntries
    <3>3. table(V)[Rest(V)] = table(Rest(V))[Rest(V)]
      <4> HIDE DEF table
      <4>1. V \in SUBSET S /\ Rest(V) \in SUBSET S /\ Rest(V) \in SUBSET (V \intersect Rest(V))
        BY <2>1, <3>1
      <4> QED BY <2>1, <3>1, <4>1, TablesAgree
    <3>4. sum[V] = f[First(V)] + table(Rest(V))[Rest(V)]
      <4> HIDE DEF table, sum
      <4> QED BY <1>1a, <2>1, <2>3
    <3> HIDE DEF table, sum
    <3> QED BY <3>2, <3>3, <3>4 DEF V
  <2> QED BY <2>2, <2>3 DEF V
<1>4. SumTable(sum, f, T)
  <2>1. \A U \in SUBSET T : sum[U] = IF U = {} THEN 0 ELSE f[First(U)] + sum[Rest(U)]
    <3> HIDE DEF table, sum
    <3> QED BY <1>1a, <1>3
  <2>2. sum = [U \in SUBSET T |-> sum[U]]
    <3> HIDE DEF table
    <3> QED OBVIOUS
  <2> HIDE DEF table, sum
  <2> QED BY <2>1, <2>2 DEF SumTable
<1> QED BY <1>1, <1>4

\* The sum of f over a part of its domain.
Part(f, S, T) == (CHOOSE g : SumTable(g, f, S))[T]

LEMMA PartUnfolds ==
  ASSUME NEW f, NEW S, IsFiniteSet(S)
  PROVE  /\ Part(f, S, {}) = 0
         /\ \A T \in SUBSET S : T # {} => Part(f, S, T) = f[First(T)] + Part(f, S, Rest(T))
<1> DEFINE g == CHOOSE g : SumTable(g, f, S)
<1>1. SumTable(g, f, S)
  BY TableExists, Zenon
<1> HIDE DEF g
<1>2. /\ g[{}] = 0
      /\ \A T \in SUBSET S : T # {} => g[T] = f[First(T)] + g[Rest(T)]
  BY <1>1, TableEntries
<1> QED BY <1>2 DEF Part, g

LEMMA PartIsInteger ==
  ASSUME NEW S, IsFiniteSet(S), NEW f, \A x \in S : f[x] \in Int
  PROVE  \A T \in SUBSET S : Part(f, S, T) \in Int
<1> DEFINE Wrong == {T \in SUBSET S : Part(f, S, T) \notin Int}
<1> SUFFICES ASSUME Wrong # {} PROVE FALSE
  OBVIOUS
<1>1. PICK T \in Wrong : \A U \in Wrong : U \subseteq T => U = T
  <2>1. Wrong \subseteq SUBSET S
    OBVIOUS
  <2> HIDE DEF Wrong
  <2> QED BY <2>1, SmallestSubset
<1>2. T # {}
  <2>1. Part(f, S, {}) = 0
    BY PartUnfolds
  <2> QED BY <2>1
<1>3. First(T) \in S /\ Rest(T) \in SUBSET S /\ Part(f, S, Rest(T)) \in Int
  BY <1>1, <1>2, FirstIsElement
<1>4. Part(f, S, T) = f[First(T)] + Part(f, S, Rest(T))
  BY <1>2, PartUnfolds
<1> QED BY <1>3, <1>4

\* Any element may be taken first.
LEMMA PartWithout ==
  ASSUME NEW S, IsFiniteSet(S), NEW f, \A x \in S : f[x] \in Int
  PROVE  \A T \in SUBSET S : \A x \in T : Part(f, S, T) = f[x] + Part(f, S, T \ {x})
<1> DEFINE Wrong == {T \in SUBSET S : \E x \in T : Part(f, S, T) # f[x] + Part(f, S, T \ {x})}
<1> SUFFICES ASSUME Wrong # {} PROVE FALSE
  OBVIOUS
<1>1. PICK T \in Wrong : \A U \in Wrong : U \subseteq T => U = T
  <2>1. Wrong \subseteq SUBSET S
    OBVIOUS
  <2> HIDE DEF Wrong
  <2> QED BY <2>1, SmallestSubset
<1>2. PICK x \in T : Part(f, S, T) # f[x] + Part(f, S, T \ {x})
  OBVIOUS
<1> DEFINE y == First(T)
           U == T \ {x, y}
<1>3. y \in T /\ Rest(T) = T \ {y} /\ Part(f, S, T) = f[y] + Part(f, S, T \ {y})
  <2>1. T \in SUBSET S /\ T # {}
    OBVIOUS
  <2>2. Part(f, S, T) = f[y] + Part(f, S, Rest(T))
    BY <2>1, PartUnfolds
  <2> QED BY <2>1, <2>2, FirstIsElement DEF Rest
<1>4. x # y
  BY <1>2, <1>3
<1>5. Part(f, S, T \ {y}) = f[x] + Part(f, S, U)
  <2>1. T \ {y} \in SUBSET S /\ T \ {y} # T /\ x \in T \ {y}
    BY <1>3, <1>4
  <2>2. T \ {y} \notin Wrong
    BY <1>1, <2>1
  <2>3. (T \ {y}) \ {x} = U
    OBVIOUS
  <2> QED BY <2>1, <2>2, <2>3
<1>6. Part(f, S, T \ {x}) = f[y] + Part(f, S, U)
  <2>1. T \ {x} \in SUBSET S /\ T \ {x} # T /\ y \in T \ {x}
    BY <1>3, <1>4
  <2>2. T \ {x} \notin Wrong
    BY <1>1, <2>1
  <2>3. (T \ {x}) \ {y} = U
    OBVIOUS
  <2> QED BY <2>1, <2>2, <2>3
<1>7. f[x] \in Int /\ f[y] \in Int /\ Part(f, S, U) \in Int
  BY <1>3, PartIsInteger
<1> QED BY <1>2, <1>3, <1>5, <1>6, <1>7

\* Only the values on the part matter.
LEMMA PartsAgree ==
  ASSUME NEW S, IsFiniteSet(S), NEW f, NEW R, IsFiniteSet(R), NEW g
  PROVE  \A T \in SUBSET (S \intersect R) :
           (\A x \in T : f[x] = g[x]) => Part(f, S, T) = Part(g, R, T)
<1> DEFINE Wrong == {T \in SUBSET (S \intersect R) :
                       (\A x \in T : f[x] = g[x]) /\ Part(f, S, T) # Part(g, R, T)}
<1> SUFFICES ASSUME Wrong # {} PROVE FALSE
  OBVIOUS
<1>1. PICK T \in Wrong : \A U \in Wrong : U \subseteq T => U = T
  <2>1. Wrong \subseteq SUBSET S
    OBVIOUS
  <2> HIDE DEF Wrong
  <2> QED BY <2>1, SmallestSubset
<1>2. T # {}
  BY PartUnfolds
<1>3. First(T) \in T /\ Rest(T) \subseteq T /\ Part(f, S, Rest(T)) = Part(g, R, Rest(T))
  BY <1>1, <1>2, FirstIsElement
<1>4. /\ Part(f, S, T) = f[First(T)] + Part(f, S, Rest(T))
      /\ Part(g, R, T) = g[First(T)] + Part(g, R, Rest(T))
  BY <1>2, PartUnfolds
<1> QED BY <1>3, <1>4

LEMMA SumIsPart == \A f : SumFunction(f) = Part(f, DOMAIN f, DOMAIN f)
BY SumIsEntry, Zenon DEF Part

-----------------------------------------------------------------------------
(* The facts that other modules cite *)

\* A sum of nothing is zero.
THEOREM SumOfNothing == ASSUME NEW f, DOMAIN f = {} PROVE SumFunction(f) = 0
BY SumIsPart, PartUnfolds, FS_EmptySet

\* A sum of integers is an integer.
THEOREM SumIsInteger ==
  ASSUME NEW S, IsFiniteSet(S), NEW f \in [S -> Int]
  PROVE  SumFunction(f) \in Int
BY SumIsPart, PartIsInteger

\* Adding one element to the domain adds its value.
THEOREM SumWithOneMore ==
  ASSUME NEW S, IsFiniteSet(S), NEW x, x \notin S,
         NEW f \in [S -> Int], NEW g \in [S \union {x} -> Int], \A y \in S : g[y] = f[y]
  PROVE  SumFunction(g) = SumFunction(f) + g[x]
<1> DEFINE R == S \union {x}
<1>1. IsFiniteSet(R)
  BY FS_AddElement
<1>2. SumFunction(f) = Part(f, S, S) /\ SumFunction(g) = Part(g, R, R)
  BY SumIsPart
<1>3. Part(g, R, R) = g[x] + Part(g, R, S)
  <2>1. R \ {x} = S /\ x \in R
    OBVIOUS
  <2> QED BY <1>1, <2>1, PartWithout
<1>4. Part(f, S, S) = Part(g, R, S)
  BY <1>1, PartsAgree
<1>5. SumFunction(f) \in Int /\ g[x] \in Int
  BY SumIsInteger
<1> QED BY <1>2, <1>3, <1>4, <1>5

\* Taking one element out of the domain subtracts its value.
THEOREM SumWithOneLess ==
  ASSUME NEW S, IsFiniteSet(S), NEW x, x \notin S,
         NEW f \in [S \union {x} -> Int], NEW g \in [S -> Int], \A y \in S : g[y] = f[y]
  PROVE  SumFunction(g) = SumFunction(f) - f[x]
<1>1. SumFunction(f) = SumFunction(g) + f[x]
  BY SumWithOneMore
<1>2. SumFunction(g) \in Int /\ f[x] \in Int
  BY SumIsInteger
<1> QED BY <1>1, <1>2

\* A sum of natural numbers is a natural number and none of them exceeds it.
THEOREM SumOfNaturals ==
  ASSUME NEW S, IsFiniteSet(S), NEW f \in [S -> Nat]
  PROVE  SumFunction(f) \in Nat /\ \A x \in S : f[x] <= SumFunction(f)
<1>1. \A T \in SUBSET S : Part(f, S, T) \in Nat
  <2> DEFINE Wrong == {T \in SUBSET S : Part(f, S, T) \notin Nat}
  <2> SUFFICES ASSUME Wrong # {} PROVE FALSE
    OBVIOUS
  <2>1. PICK T \in Wrong : \A U \in Wrong : U \subseteq T => U = T
    <3>1. Wrong \subseteq SUBSET S
      OBVIOUS
    <3> HIDE DEF Wrong
    <3> QED BY <3>1, SmallestSubset
  <2>2. T # {}
    <3>1. Part(f, S, {}) = 0
      BY PartUnfolds
    <3> QED BY <3>1
  <2>3. First(T) \in S /\ Part(f, S, Rest(T)) \in Nat
    BY <2>1, <2>2, FirstIsElement
  <2>4. Part(f, S, T) = f[First(T)] + Part(f, S, Rest(T))
    BY <2>2, PartUnfolds
  <2> QED BY <2>3, <2>4
<1>2. SumFunction(f) = Part(f, S, S)
  BY SumIsPart
<1>3. ASSUME NEW x \in S PROVE f[x] <= SumFunction(f)
  <2>1. SumFunction(f) = f[x] + Part(f, S, S \ {x})
    BY <1>2, PartWithout
  <2>2. Part(f, S, S \ {x}) \in Nat /\ f[x] \in Nat
    BY <1>1
  <2> QED BY <2>1, <2>2
<1> QED BY <1>1, <1>2, <1>3
==============================================================================
