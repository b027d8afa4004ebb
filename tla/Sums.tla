-------------------------------- MODULE Sums --------------------------------
(***************************************************************************)
(* Sums over finite sets, for proofs.  MapThenSumSet is a recursive        *)
(* function on the subsets of a set; the lemmas say that the recursion     *)
(* defines it, and what it does with a change of the summands.             *)
(*                                                                         *)
(* Every induction over a set is a least counterexample (Least): the       *)
(* strict subset ordering of the subsets of a finite set is well founded.  *)
(***************************************************************************)
EXTENDS Integers, FiniteSets, FiniteSetsExt, FiniteSetTheorems, TLAPS

SumOver(f, S) == MapThenSumSet(LAMBDA x : f[x], S)

\* The element a sum takes next, and the function SumOver is defined by.
Pick(s) == CHOOSE x \in s : TRUE
Rest(s) == s \ {Pick(s)}
IsSum(g, f, S) ==
  g = [s \in SUBSET S |-> IF s = {} THEN 0 ELSE f[Pick(s)] + g[Rest(s)]]
-----------------------------------------------------------------------------
\* A set of subsets of a finite set has a member none of whose strict
\* subsets is a member.
LEMMA Least ==
  ASSUME NEW S, IsFiniteSet(S), NEW B, B \subseteq SUBSET S, B # {}
  PROVE  \E T \in B : \A U \in B : U \subseteq T => U = T
<1>1. IsWellFoundedOn(StrictSubsetOrdering(S), SUBSET S)
  BY FS_StrictSubsetOrderingWellFounded, FS_FiniteSubsetsOfFinite
<1>2. \E T \in B : \A U \in B : ~ (<<U, T>> \in StrictSubsetOrdering(S))
  BY <1>1, WFMin
<1> QED BY <1>2 DEF StrictSubsetOrdering

LEMMA PickIn ==
  ASSUME NEW s, s # {}
  PROVE  Pick(s) \in s /\ Rest(s) \subseteq s /\ Rest(s) # s
  BY DEF Pick, Rest

(***************************************************************************)
(* The recursion defines a function.                                       *)
(***************************************************************************)
LEMMA SumEquation ==
  ASSUME NEW f, NEW S, NEW g, IsSum(g, f, S), NEW s \in SUBSET S
  PROVE  g[s] = IF s = {} THEN 0 ELSE f[Pick(s)] + g[Rest(s)]
  BY DEF IsSum

\* Two functions that satisfy the equation agree where both are defined.
LEMMA SumUnique ==
  ASSUME NEW f, NEW S, NEW T, IsFiniteSet(S), NEW g, NEW h,
         IsSum(g, f, S), IsSum(h, f, T),
         NEW s \in SUBSET S, s \subseteq T
  PROVE  g[s] = h[s]
<1> DEFINE B == {u \in SUBSET s : g[u] # h[u]}
<1> SUFFICES ASSUME B # {} PROVE FALSE
  OBVIOUS
<1>1. IsFiniteSet(s)
  BY FS_Subset
<1>2. PICK u \in B : \A v \in B : v \subseteq u => v = u
  <2>1. B \subseteq SUBSET s
    OBVIOUS
  <2> HIDE DEF B
  <2> QED BY <1>1, <2>1, Least
<1>3. g[u] = IF u = {} THEN 0 ELSE f[Pick(u)] + g[Rest(u)]
  BY SumEquation
<1>4. h[u] = IF u = {} THEN 0 ELSE f[Pick(u)] + h[Rest(u)]
  BY SumEquation
<1>5. u # {} => Rest(u) \notin B /\ Rest(u) \subseteq s
  BY <1>2, PickIn
<1> QED BY <1>3, <1>4, <1>5

LEMMA SumExists ==
  ASSUME NEW f, NEW S, IsFiniteSet(S)
  PROVE  \E g : IsSum(g, f, S)
<1> DEFINE B == {s \in SUBSET S : ~ \E g : IsSum(g, f, s)}
           Own(s) == CHOOSE g : IsSum(g, f, s)
<1> SUFFICES ASSUME B # {} PROVE FALSE
  OBVIOUS
<1>1. PICK T \in B : \A U \in B : U \subseteq T => U = T
  <2>1. B \subseteq SUBSET S
    OBVIOUS
  <2> HIDE DEF B
  <2> QED BY <2>1, Least
<1>2. ASSUME NEW s \in SUBSET T, s # T PROVE IsSum(Own(s), f, s)
  BY <1>1, <1>2
<1>3. ASSUME NEW s \in SUBSET T, s # T
      PROVE  Own(s)[s] = IF s = {} THEN 0 ELSE f[Pick(s)] + Own(Rest(s))[Rest(s)]
  <2>1. Own(s)[s] = IF s = {} THEN 0 ELSE f[Pick(s)] + Own(s)[Rest(s)]
    <3>1. IsSum(Own(s), f, s)
      BY <1>2, <1>3
    <3> HIDE DEF Own
    <3> QED BY <3>1, SumEquation
  <2>2. ASSUME s # {} PROVE Own(s)[Rest(s)] = Own(Rest(s))[Rest(s)]
    <3>1. Rest(s) \subseteq s /\ Rest(s) \in SUBSET T /\ Rest(s) # T
      BY <1>3, <2>2, PickIn
    <3>2. IsSum(Own(s), f, s) /\ IsSum(Own(Rest(s)), f, Rest(s))
      BY <1>2, <1>3, <3>1
    <3>3. IsFiniteSet(s)
      BY FS_Subset
    <3> HIDE DEF Own
    <3> QED BY <3>1, <3>2, <3>3, SumUnique
  <2> HIDE DEF Own
  <2> QED BY <2>1, <2>2
<1> DEFINE V(s) == IF s = T /\ s # {} THEN f[Pick(s)] + Own(Rest(s))[Rest(s)] 
                   ELSE IF s = {} THEN 0 ELSE Own(s)[s]
           h == [s \in SUBSET T |-> V(s)]
<1>4. ASSUME NEW s \in SUBSET T
      PROVE  h[s] = IF s = {} THEN 0 ELSE f[Pick(s)] + h[Rest(s)]
  <2>1. CASE s = {}
    BY <2>1
  <2>2. CASE s # {}
    <3>1. h[s] = f[Pick(s)] + Own(Rest(s))[Rest(s)]
      BY <1>3, <2>2
    <3>2. Rest(s) \in SUBSET T /\ Rest(s) # T
      BY <2>2, PickIn
    <3>3. h[Rest(s)] = Own(Rest(s))[Rest(s)]
      BY <1>3, <3>2
    <3> HIDE DEF h, Own
    <3> QED BY <2>2, <3>1, <3>3
  <2> QED BY <2>1, <2>2
<1>5. IsSum(h, f, T)
  <2> HIDE DEF V
  <2>1. h = [s \in SUBSET T |-> h[s]]
    OBVIOUS
  <2> HIDE DEF h
  <2> QED BY <1>4, <2>1 DEF IsSum
<1> QED BY <1>1, <1>5

\* How a sum is computed: nothing for the empty set, otherwise one element
\* and the sum over the others.
LEMMA SumStep ==
  ASSUME NEW f, NEW S, IsFiniteSet(S)
  PROVE  SumOver(f, S) = IF S = {} THEN 0 ELSE f[Pick(S)] + SumOver(f, Rest(S))
<1> DEFINE Own(s) == CHOOSE g : IsSum(g, f, s)
<1>1. \A s : SumOver(f, s) = Own(s)[s]
  BY DEF SumOver, MapThenSumSet, MapThenFoldSet, IsSum, Pick, Rest
<1>2. \A s \in SUBSET S : IsFiniteSet(s) /\ IsSum(Own(s), f, s)
  BY FS_Subset, SumExists
<1> HIDE DEF Own
<1>3. Own(S)[S] = IF S = {} THEN 0 ELSE f[Pick(S)] + Own(S)[Rest(S)]
  BY <1>2, SumEquation
<1>4. ASSUME S # {} PROVE Own(S)[Rest(S)] = Own(Rest(S))[Rest(S)]
  <2>1. Rest(S) \in SUBSET S
    BY <1>4, PickIn
  <2> QED BY <1>2, <2>1, SumUnique
<1> QED BY <1>1, <1>3, <1>4

(***************************************************************************)
(* What a sum is.                                                          *)
(***************************************************************************)
LEMMA SumType ==
  ASSUME NEW S, IsFiniteSet(S), NEW f, \A x \in S : f[x] \in Int
  PROVE  SumOver(f, S) \in Int
<1> DEFINE B == {T \in SUBSET S : SumOver(f, T) \notin Int}
<1> SUFFICES ASSUME B # {} PROVE FALSE
  OBVIOUS
<1>1. PICK T \in B : \A U \in B : U \subseteq T => U = T
  <2>1. B \subseteq SUBSET S
    OBVIOUS
  <2> HIDE DEF B
  <2> QED BY <2>1, Least
<1>2. SumOver(f, T) = IF T = {} THEN 0 ELSE f[Pick(T)] + SumOver(f, Rest(T))
  BY FS_Subset, SumStep
<1>3. T # {} => Pick(T) \in T /\ Rest(T) \in SUBSET S /\ Rest(T) \notin B
  BY <1>1, PickIn
<1> QED BY <1>2, <1>3

\* A sum of naturals is one, and 0 only if every summand is.
LEMMA SumNatural ==
  ASSUME NEW S, IsFiniteSet(S), NEW f, \A x \in S : f[x] \in Nat
  PROVE  SumOver(f, S) \in Nat /\ (SumOver(f, S) = 0 <=> \A x \in S : f[x] = 0)
<1> DEFINE OK(T) == SumOver(f, T) \in Nat /\ (SumOver(f, T) = 0 <=> \A x \in T : f[x] = 0)
           B == {T \in SUBSET S : ~ OK(T)}
<1> SUFFICES ASSUME B # {} PROVE FALSE
  OBVIOUS
<1>1. PICK T \in B : \A U \in B : U \subseteq T => U = T
  <2>1. B \subseteq SUBSET S
    OBVIOUS
  <2> HIDE DEF B
  <2> QED BY <2>1, Least
<1>2. SumOver(f, T) = IF T = {} THEN 0 ELSE f[Pick(T)] + SumOver(f, Rest(T))
  BY FS_Subset, SumStep
<1>3. T # {} => Pick(T) \in T /\ Rest(T) \in SUBSET S /\ OK(Rest(T))
  BY <1>1, PickIn
<1>4. T # {} => T = Rest(T) \union {Pick(T)} /\ f[Pick(T)] \in Nat
  BY <1>3 DEF Rest
<1> QED BY <1>2, <1>3, <1>4

\* Adding d to one summand adds d to the sum.
LEMMA SumAdd ==
  ASSUME NEW S, IsFiniteSet(S), NEW x \in S, NEW d \in Int, NEW f, NEW g,
         \A y \in S : f[y] \in Int,
         g[x] = f[x] + d, \A y \in S \ {x} : g[y] = f[y]
  PROVE  SumOver(g, S) = SumOver(f, S) + d
<1> DEFINE OK(T) == SumOver(g, T) = SumOver(f, T) + (IF x \in T THEN d ELSE 0)
           B == {T \in SUBSET S : ~ OK(T)}
<1> SUFFICES ASSUME B # {} PROVE FALSE
  OBVIOUS
<1>1. PICK T \in B : \A U \in B : U \subseteq T => U = T
  <2>1. B \subseteq SUBSET S
    OBVIOUS
  <2> HIDE DEF B
  <2> QED BY <2>1, Least
<1>2. /\ SumOver(f, T) = IF T = {} THEN 0 ELSE f[Pick(T)] + SumOver(f, Rest(T))
      /\ SumOver(g, T) = IF T = {} THEN 0 ELSE g[Pick(T)] + SumOver(g, Rest(T))
  BY FS_Subset, SumStep
<1>3. T # {} => Pick(T) \in T /\ Rest(T) \in SUBSET S /\ OK(Rest(T))
  BY <1>1, PickIn
<1>4. T # {} => f[Pick(T)] \in Int /\ SumOver(f, Rest(T)) \in Int
  BY <1>3, FS_Subset, SumType
<1>5. T # {} => (x \in T <=> x \in Rest(T) \/ x = Pick(T)) /\ Pick(T) \notin Rest(T)
  BY <1>3 DEF Rest
<1>6. CASE T = {}
  BY <1>2, <1>6
<1>7. CASE T # {}
  <2>1. SumOver(g, T) = g[Pick(T)] + SumOver(f, Rest(T)) + (IF x \in Rest(T) THEN d ELSE 0)
    BY <1>2, <1>3, <1>4, <1>7
  <2>2. g[Pick(T)] = f[Pick(T)] + (IF Pick(T) = x THEN d ELSE 0)
    BY <1>3, <1>7
  <2>3. SumOver(f, T) = f[Pick(T)] + SumOver(f, Rest(T))
    BY <1>2, <1>7
  <2> QED BY <1>4, <1>5, <1>7, <2>1, <2>2, <2>3
<1> QED BY <1>6, <1>7
=============================================================================
