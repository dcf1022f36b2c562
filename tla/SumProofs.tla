------------------------------ MODULE SumProofs ------------------------------
(***************************************************************************)
(* Facts about SumFunctionOnSet of the community modules, with which the   *)
(* books are stated.  They are by induction on finite sets; as a predicate *)
(* cannot be handed to a theorem here, the induction is on membership in a *)
(* set of sets.                                                            *)
(***************************************************************************)
EXTENDS FiniteSetTheorems, TLAPS

-----------------------------------------------------------------------------
(* Induction *)

\* If a set has whatever all its proper subsets have, all subsets of a finite set have it.
LEMMA SubsetInduction ==
    ASSUME NEW S, IsFiniteSet(S), NEW Good,
           \A T \in SUBSET S : (\A U \in SUBSET T : U # T => U \in Good) => T \in Good
    PROVE  SUBSET S \subseteq Good
<1> DEFINE Bad == {T \in SUBSET S : T \notin Good}
<1> SUFFICES ASSUME Bad # {} PROVE FALSE
  OBVIOUS
<1>1. IsWellFoundedOn(StrictSubsetOrdering(S), SUBSET S)
  <2>1. IsWellFoundedOn(StrictSubsetOrdering(S), FiniteSubsetsOf(S))
    BY FS_StrictSubsetOrderingWellFounded, Zenon
  <2>2. FiniteSubsetsOf(S) = SUBSET S
    BY FS_FiniteSubsetsOfFinite, Zenon
  <2> QED BY <2>1, <2>2, Zenon
<1>2. PICK T \in Bad : \A U \in Bad : ~ (<<U, T>> \in StrictSubsetOrdering(S))
  <2>1. Bad \subseteq SUBSET S
    OBVIOUS
  <2> HIDE DEF Bad
  <2> QED BY <1>1, <2>1, WFMin
<1>3. \A U \in SUBSET T : U # T => U \in Good
  BY <1>2 DEF StrictSubsetOrdering
<1> QED BY <1>3

-----------------------------------------------------------------------------
(* The function behind a sum is well defined *)

Chosen(U) == CHOOSE x \in U : TRUE

\* What g, the function that SumFunctionOnSet(f, S) evaluates, gives on U.
Added(f, g, U) == IF U = {} THEN 0 ELSE f[Chosen(U)] + g[U \ {Chosen(U)}]
Adds(f, S, g) == g = [U \in SUBSET S |-> Added(f, g, U)]

\* The element that is chosen from a nonempty set is in it.
LEMMA ChosenIn == ASSUME NEW U, U # {} PROVE Chosen(U) \in U
BY DEF Chosen

\* SumFunctionOnSet applies such a function, if there is one.
LEMMA SumIs ==
    ASSUME NEW f, NEW S
    PROVE  SumFunctionOnSet(f, S) = (CHOOSE g : Adds(f, S, g))[S]
BY Zenon DEF SumFunctionOnSet, FoldFunctionOnSet, MapThenFoldSet, Adds, Added, Chosen

\* Functions that add over two sets agree on the subsets of both.
LEMMA AddsAgree ==
    ASSUME NEW f, NEW S, NEW T \in SUBSET S, IsFiniteSet(T), NEW g, NEW h,
           Adds(f, S, g), Adds(f, T, h)
    PROVE  \A U \in SUBSET T : g[U] = h[U]
<1> DEFINE Good == {U \in SUBSET T : g[U] = h[U]}
<1>1. ASSUME NEW U \in SUBSET T, \A V \in SUBSET U : V # U => V \in Good
      PROVE  U \in Good
  <2>1. g[U] = Added(f, g, U) /\ h[U] = Added(f, h, U)
    BY DEF Adds
  <2>2. CASE U = {}
    BY <2>1, <2>2 DEF Added
  <2>3. CASE U # {}
    <3>1. g[U \ {Chosen(U)}] = h[U \ {Chosen(U)}]
      BY <1>1, <2>3, ChosenIn
    <3> QED BY <2>1, <3>1 DEF Added
  <2> QED BY <2>2, <2>3
<1>2. SUBSET T \subseteq Good
  <2> HIDE DEF Good
  <2> QED BY <1>1, SubsetInduction
<1> QED BY <1>2

\* There is such a function on the subsets of any finite set.
LEMMA AddsExists ==
    ASSUME NEW f, NEW S, IsFiniteSet(S)
    PROVE  \E g : Adds(f, S, g)
<1> DEFINE Good == {T \in SUBSET S : \E g : Adds(f, T, g)}
<1>1. ASSUME NEW T \in SUBSET S, \A U \in SUBSET T : U # T => U \in Good
      PROVE  T \in Good
  <2> DEFINE Below(U) == CHOOSE g : Adds(f, U, g)
  <2> DEFINE h == [U \in SUBSET T |->
                     IF U = {} THEN 0
                     ELSE f[Chosen(U)] + Below(U \ {Chosen(U)})[U \ {Chosen(U)}]]
  <2>1. ASSUME NEW U \in SUBSET T, U # T PROVE Adds(f, U, Below(U))
    BY <1>1, <2>1
  <2>2. ASSUME NEW U \in SUBSET T, U # T PROVE h[U] = Below(U)[U]
    <3>1. Below(U)[U] = Added(f, Below(U), U)
      BY <2>1, <2>2 DEF Adds
    <3>2. CASE U = {}
      BY <3>1, <3>2 DEF Added
    <3>3. CASE U # {}
      <4> DEFINE V == U \ {Chosen(U)}
      <4>1. V \in SUBSET U /\ V \in SUBSET T /\ V # T
        BY <2>2, <3>3, ChosenIn
      <4>2. Adds(f, V, Below(V)) /\ Adds(f, U, Below(U))
        BY <2>1, <2>2, <4>1
      <4>3. IsFiniteSet(V)
        BY <4>1, FS_Subset
      <4>4. Below(U)[V] = Below(V)[V]
        <5> HIDE DEF Below, V
        <5> QED BY <4>1, <4>2, <4>3, AddsAgree
      <4> QED BY <3>1, <3>3, <4>4 DEF Added
    <3> QED BY <3>2, <3>3
  <2>3. ASSUME NEW U \in SUBSET T PROVE h[U] = Added(f, h, U)
    <3>1. CASE U = {}
      BY <3>1 DEF Added
    <3>2. CASE U # {}
      <4>1. U \ {Chosen(U)} \in SUBSET T /\ U \ {Chosen(U)} # T
        BY <3>2, ChosenIn
      <4>2. h[U \ {Chosen(U)}] = Below(U \ {Chosen(U)})[U \ {Chosen(U)}]
        BY <2>2, <4>1
      <4> QED BY <3>2, <4>2 DEF Added
    <3> QED BY <3>1, <3>2
  <2>4. h = [U \in SUBSET T |-> h[U]]
    OBVIOUS
  <2>5. Adds(f, T, h)
    <3> HIDE DEF h
    <3> QED BY <2>3, <2>4 DEF Adds
  <2> QED BY <2>5
<1>2. SUBSET S \subseteq Good
  <2> HIDE DEF Good
  <2> QED BY <1>1, SubsetInduction
<1> QED BY <1>2

\* What SumFunctionOnSet evaluates, as an equation.
LEMMA SumEquation ==
    ASSUME NEW f, NEW S, IsFiniteSet(S)
    PROVE  SumFunctionOnSet(f, S) =
             IF S = {} THEN 0
             ELSE f[Chosen(S)] + SumFunctionOnSet(f, S \ {Chosen(S)})
<1> DEFINE Adder(T) == CHOOSE g : Adds(f, T, g)
<1>1. ASSUME NEW T \in SUBSET S PROVE Adds(f, T, Adder(T)) /\ IsFiniteSet(T)
  BY <1>1, AddsExists, FS_Subset
<1>2. \A T : SumFunctionOnSet(f, T) = Adder(T)[T]
  BY SumIs
<1>3. Adder(S)[S] = Added(f, Adder(S), S)
  <2>1. Adds(f, S, Adder(S))
    BY <1>1
  <2> HIDE DEF Adder
  <2> QED BY <2>1 DEF Adds
<1>4. CASE S = {}
  BY <1>2, <1>3, <1>4 DEF Added
<1>5. CASE S # {}
  <2> DEFINE T == S \ {Chosen(S)}
  <2>1. Adder(S)[T] = Adder(T)[T]
    <3>1. Adds(f, S, Adder(S)) /\ Adds(f, T, Adder(T)) /\ IsFiniteSet(T)
      BY <1>1
    <3> HIDE DEF Adder
    <3> QED BY <3>1, AddsAgree
  <2> QED BY <1>2, <1>3, <1>5, <2>1 DEF Added
<1> QED BY <1>4, <1>5

-----------------------------------------------------------------------------
(* Sums of integers *)

\* The sum over no element is 0.
LEMMA SumEmpty == ASSUME NEW f PROVE SumFunctionOnSet(f, {}) = 0
BY SumEquation, FS_EmptySet

\* A sum of integers is an integer.
LEMMA SumTyped ==
    ASSUME NEW f, NEW S, IsFiniteSet(S), \A x \in S : f[x] \in Int
    PROVE  SumFunctionOnSet(f, S) \in Int
<1> DEFINE Good == {T \in SUBSET S : SumFunctionOnSet(f, T) \in Int}
<1>1. ASSUME NEW T \in SUBSET S, \A U \in SUBSET T : U # T => U \in Good
      PROVE  T \in Good
  <2>1. IsFiniteSet(T)
    BY FS_Subset
  <2>2. CASE T = {}
    BY <2>2, SumEmpty
  <2>3. CASE T # {}
    <3>1. Chosen(T) \in T /\ SumFunctionOnSet(f, T \ {Chosen(T)}) \in Int
      BY <1>1, <2>3, ChosenIn
    <3> QED BY <2>1, <2>3, <3>1, SumEquation
  <2> QED BY <2>2, <2>3
<1>2. SUBSET S \subseteq Good
  <2> HIDE DEF Good
  <2> QED BY <1>1, SubsetInduction
<1> QED BY <1>2

\* Any term may be taken out of a sum, not only the one that is chosen first.
LEMMA SumSplit ==
    ASSUME NEW f, NEW S, IsFiniteSet(S), \A x \in S : f[x] \in Int
    PROVE  \A x \in S : SumFunctionOnSet(f, S) = f[x] + SumFunctionOnSet(f, S \ {x})
<1> DEFINE Sum(T) == SumFunctionOnSet(f, T)
<1> DEFINE Good == {T \in SUBSET S : \A x \in T : Sum(T) = f[x] + Sum(T \ {x})}
<1>1. ASSUME NEW T \in SUBSET S, \A U \in SUBSET T : U # T => U \in Good
      PROVE  T \in Good
  <2>1. SUFFICES ASSUME NEW x \in T PROVE Sum(T) = f[x] + Sum(T \ {x})
    OBVIOUS
  <2> DEFINE c == Chosen(T)
  <2>2. c \in T
    BY ChosenIn
  <2>3. Sum(T) = f[c] + Sum(T \ {c})
    BY FS_Subset, SumEquation
  <2>4. CASE x # c
    <3> DEFINE R == (T \ {c}) \ {x}
    <3>1. Sum(T \ {c}) = f[x] + Sum(R)
      BY <1>1, <2>2, <2>4
    <3>2. Sum(T \ {x}) = f[c] + Sum(R)
      <4>1. (T \ {x}) \ {c} = R
        OBVIOUS
      <4> QED BY <1>1, <2>2, <2>4, <4>1
    <3>3. Sum(R) \in Int /\ f[x] \in Int /\ f[c] \in Int
      <4>1. IsFiniteSet(R) /\ R \subseteq S
        BY FS_Subset
      <4> QED BY <2>2, <4>1, SumTyped
    <3> HIDE DEF Sum, R, c
    <3> QED BY <2>3, <3>1, <3>2, <3>3
  <2> QED BY <2>3, <2>4
<1>2. SUBSET S \subseteq Good
  <2> HIDE DEF Good
  <2> QED BY <1>1, SubsetInduction
<1> QED BY <1>2

\* Equal terms make equal sums.
LEMMA SumSame ==
    ASSUME NEW f, NEW g, NEW S, IsFiniteSet(S), \A x \in S : f[x] = g[x]
    PROVE  SumFunctionOnSet(f, S) = SumFunctionOnSet(g, S)
<1> DEFINE Good == {T \in SUBSET S : SumFunctionOnSet(f, T) = SumFunctionOnSet(g, T)}
<1>1. ASSUME NEW T \in SUBSET S, \A U \in SUBSET T : U # T => U \in Good
      PROVE  T \in Good
  <2>1. IsFiniteSet(T)
    BY FS_Subset
  <2>2. CASE T = {}
    BY <2>2, SumEmpty
  <2>3. CASE T # {}
    <3> DEFINE R == T \ {Chosen(T)}
    <3>1. f[Chosen(T)] = g[Chosen(T)] /\ SumFunctionOnSet(f, R) = SumFunctionOnSet(g, R)
      BY <1>1, <2>3, ChosenIn
    <3> QED BY <2>1, <2>3, <3>1, SumEquation
  <2> QED BY <2>2, <2>3
<1>2. SUBSET S \subseteq Good
  <2> HIDE DEF Good
  <2> QED BY <1>1, SubsetInduction
<1> QED BY <1>2

\* A sum of nothing but zeros.
LEMMA SumZero ==
    ASSUME NEW f, NEW S, IsFiniteSet(S), \A x \in S : f[x] = 0
    PROVE  SumFunctionOnSet(f, S) = 0
<1> DEFINE Good == {T \in SUBSET S : SumFunctionOnSet(f, T) = 0}
<1>1. ASSUME NEW T \in SUBSET S, \A U \in SUBSET T : U # T => U \in Good
      PROVE  T \in Good
  <2>1. IsFiniteSet(T)
    BY FS_Subset
  <2>2. CASE T = {}
    BY <2>2, SumEmpty
  <2>3. CASE T # {}
    <3>1. f[Chosen(T)] = 0 /\ SumFunctionOnSet(f, T \ {Chosen(T)}) = 0
      BY <1>1, <2>3, ChosenIn
    <3> QED BY <2>1, <2>3, <3>1, SumEquation
  <2> QED BY <2>2, <2>3
<1>2. SUBSET S \subseteq Good
  <2> HIDE DEF Good
  <2> QED BY <1>1, SubsetInduction
<1> QED BY <1>2

\* If one term changes, the sum changes by as much.
LEMMA SumChanged ==
    ASSUME NEW f, NEW g, NEW S, IsFiniteSet(S),
           \A x \in S : f[x] \in Int /\ g[x] \in Int,
           NEW x \in S, \A y \in S \ {x} : f[y] = g[y]
    PROVE  SumFunctionOnSet(g, S) = SumFunctionOnSet(f, S) + (g[x] - f[x])
<1>1. SumFunctionOnSet(f, S) = f[x] + SumFunctionOnSet(f, S \ {x})
  BY SumSplit
<1>2. SumFunctionOnSet(g, S) = g[x] + SumFunctionOnSet(g, S \ {x})
  BY SumSplit
<1>3. IsFiniteSet(S \ {x})
  BY FS_Subset
<1>4. SumFunctionOnSet(g, S \ {x}) = SumFunctionOnSet(f, S \ {x})
  BY <1>3, SumSame
<1>5. SumFunctionOnSet(f, S \ {x}) \in Int
  BY <1>3, SumTyped
<1> QED BY <1>1, <1>2, <1>4, <1>5

\* A sum of natural numbers is one.
LEMMA SumNonNegative ==
    ASSUME NEW f, NEW S, IsFiniteSet(S), \A x \in S : f[x] \in Nat
    PROVE  SumFunctionOnSet(f, S) \in Nat
<1> DEFINE Good == {T \in SUBSET S : SumFunctionOnSet(f, T) \in Nat}
<1>1. ASSUME NEW T \in SUBSET S, \A U \in SUBSET T : U # T => U \in Good
      PROVE  T \in Good
  <2>1. IsFiniteSet(T)
    BY FS_Subset
  <2>2. CASE T = {}
    BY <2>2, SumEmpty
  <2>3. CASE T # {}
    <3>1. Chosen(T) \in T /\ SumFunctionOnSet(f, T \ {Chosen(T)}) \in Nat
      BY <1>1, <2>3, ChosenIn
    <3>2. SumFunctionOnSet(f, T) = f[Chosen(T)] + SumFunctionOnSet(f, T \ {Chosen(T)})
      BY <2>1, <2>3, SumEquation
    <3> QED BY <3>1, <3>2
  <2> QED BY <2>2, <2>3
<1>2. SUBSET S \subseteq Good
  <2> HIDE DEF Good
  <2> QED BY <1>1, SubsetInduction
<1> QED BY <1>2

\* It is at least any of its terms, if the others are not negative.
LEMMA SumCovers ==
    ASSUME NEW f, NEW S, IsFiniteSet(S), \A y \in S : f[y] \in Int,
           NEW x \in S, \A y \in S \ {x} : f[y] \in Nat
    PROVE  SumFunctionOnSet(f, S) >= f[x]
<1>1. SumFunctionOnSet(f, S) = f[x] + SumFunctionOnSet(f, S \ {x})
  BY SumSplit
<1>2. IsFiniteSet(S \ {x}) /\ \A y \in S \ {x} : f[y] \in Nat
  BY FS_Subset
<1>3. SumFunctionOnSet(f, S \ {x}) \in Nat
  BY <1>2, SumNonNegative
<1> QED BY <1>1, <1>3
=============================================================================
