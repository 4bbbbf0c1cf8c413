------------------------------ MODULE SetFacts ------------------------------
(***************************************************************************)
(* Facts about numbers and finite sets that several proofs rest on.        *)
(***************************************************************************)
EXTENDS Naturals, FiniteSets, FiniteSetsExt, FiniteSetTheorems,
        WellFoundedInduction, TLAPS

\* A set of natural numbers that is not empty has a least element, and Min
\* returns it.
LEMMA MinExists ==
  ASSUME NEW S, S \subseteq Nat, S # {}
  PROVE  Min(S) \in S /\ \A y \in S : Min(S) <= y
<1> DEFINE less == {ss \in Nat \X Nat : ss[1] < ss[2]}
<1>1. OpToRel(<, Nat) = less
  BY Zenon DEF OpToRel
<1>2. PICK z \in S : \A y \in S : <<y, z>> \notin OpToRel(<, Nat)
  BY NatLessThanWellFounded, WFMin
<1>3. ASSUME NEW y \in S, y < z PROVE FALSE
  <2>1. <<y, z>> \in Nat \X Nat /\ <<y, z>>[1] < <<y, z>>[2]
    BY <1>3
  <2>2. <<y, z>> \in less
    BY <2>1, Zenon
  <2>3. QED
    BY <1>1, <1>2, <2>2, Zenon
<1>4. \A y \in S : z <= y
  BY <1>3
<1>5. QED
  BY <1>4 DEF Min

\* Adding one element, or taking one away.
LEMMA CountAdd ==
  ASSUME NEW S, IsFiniteSet(S), NEW x, x \notin S
  PROVE  /\ IsFiniteSet(S \cup {x})
         /\ Cardinality(S \cup {x}) = Cardinality(S) + 1
         /\ Cardinality(S) \in Nat
  BY FS_AddElement, FS_CardinalityType

LEMMA CountRemove ==
  ASSUME NEW S, IsFiniteSet(S), NEW x \in S
  PROVE  /\ IsFiniteSet(S \ {x})
         /\ Cardinality(S \ {x}) = Cardinality(S) - 1
         /\ Cardinality(S) \in Nat \ {0}
         /\ Cardinality(S \ {x}) \in Nat
<1>1. Cardinality(S) \in Nat /\ Cardinality(S) # 0
  BY FS_CardinalityType, FS_EmptySet
<1>2. QED
  BY <1>1, FS_RemoveElement, FS_CardinalityType

\* A part of a finite set has no more elements than the whole.
LEMMA CountPart ==
  ASSUME NEW S, IsFiniteSet(S), NEW T, T \subseteq S
  PROVE  /\ IsFiniteSet(T)
         /\ Cardinality(T) <= Cardinality(S)
         /\ Cardinality(T) \in Nat /\ Cardinality(S) \in Nat
  BY FS_Subset, FS_CardinalityType

\* Names that differ whenever their keys do are no more than the keys.
LEMMA CountKeys ==
  ASSUME NEW S, NEW T, IsFiniteSet(T), NEW f \in [S -> T],
         \A x, y \in S : f[x] = f[y] => x = y
  PROVE  /\ IsFiniteSet(S)
         /\ Cardinality(S) <= Cardinality(T)
<1>1. f \in Injection(S, T)
  BY DEF Injection, IsInjective
<1>2. QED
  BY <1>1, FS_Injection

\* A set of at most one element.
LEMMA CountOne ==
  ASSUME NEW S, \A x, y \in S : x = y
  PROVE  IsFiniteSet(S) /\ Cardinality(S) <= 1
<1>1. CASE S = {}
  BY <1>1, FS_EmptySet
<1>2. CASE S # {}
  <2>1. PICK x : x \in S
    BY <1>2
  <2>2. S = {x}
    BY <2>1
  <2>3. IsFiniteSet({x}) /\ Cardinality({x}) = 1
    BY FS_Singleton
  <2>4. QED
    BY <2>2, <2>3
<1>3. QED
  BY <1>1, <1>2

\* How a count changes with the membership of one element.
Gain(was, is) == (IF is THEN 1 ELSE 0) - (IF was THEN 1 ELSE 0)

LEMMA CountMove ==
  ASSUME NEW S, NEW T, IsFiniteSet(S), NEW a, \A x : x # a => (x \in S <=> x \in T)
  PROVE  /\ IsFiniteSet(T)
         /\ Cardinality(S) \in Nat /\ Cardinality(T) \in Nat
         /\ Cardinality(T) = Cardinality(S) + Gain(a \in S, a \in T)
<1>1. Cardinality(S) \in Nat
  BY FS_CardinalityType
<1>2. CASE a \in S <=> a \in T
  <2>1. S = T
    BY <1>2
  <2>2. QED
    BY <1>1, <2>1 DEF Gain
<1>3. CASE a \in S /\ a \notin T
  <2>1. T = S \ {a}
    BY <1>3
  <2>2. QED
    BY <1>3, <2>1, CountRemove DEF Gain
<1>4. CASE a \notin S /\ a \in T
  <2>1. T = S \cup {a}
    BY <1>4
  <2>2. QED
    BY <1>1, <1>4, <2>1, CountAdd DEF Gain
<1>5. QED
  BY <1>2, <1>3, <1>4

\* Two sets together have no more elements than one after the other.
LEMMA CountUnion ==
  ASSUME NEW S, IsFiniteSet(S), NEW T, IsFiniteSet(T)
  PROVE  /\ IsFiniteSet(S \cup T)
         /\ Cardinality(S \cup T) <= Cardinality(S) + Cardinality(T)
         /\ Cardinality(S) \in Nat /\ Cardinality(T) \in Nat /\ Cardinality(S \cup T) \in Nat
<1>1. IsFiniteSet(S \cap T)
  BY FS_Intersection
<1>2. /\ IsFiniteSet(S \cup T)
      /\ Cardinality(S \cup T) = Cardinality(S) + Cardinality(T) - Cardinality(S \cap T)
  BY FS_Union
<1>3. /\ Cardinality(S) \in Nat /\ Cardinality(T) \in Nat /\ Cardinality(S \cap T) \in Nat
      /\ Cardinality(S \cup T) \in Nat
  BY <1>1, <1>2, FS_CardinalityType
<1>4. QED
  BY <1>2, <1>3

\* A multiple of a larger number is larger.
LEMMA Multiples ==
  ASSUME NEW k \in Nat, NEW m \in Nat, NEW n \in Nat
  PROVE  /\ k * m \in Nat
         /\ m <= n => k * m <= k * n
         /\ k * (m + n) = k * m + k * n
  OBVIOUS
-----------------------------------------------------------------------------
(* The sum of a function with a finite domain.                              *)

FirstOf(s) == CHOOSE x \in s : TRUE

\* g sums f over every set of D.
SumsUp(f, D, g) ==
  \A s \in D : g[s] = IF s = {} THEN 0 ELSE f[FirstOf(s)] + g[s \ {FirstOf(s)}]

\* Of the parts of a finite set that differ from what they should be, one is a
\* smallest; without its first element it is as it should be.
LEMMA SmallestPart ==
  ASSUME NEW S, IsFiniteSet(S), NEW U, U \subseteq SUBSET S, U # {}, {} \notin U
  PROVE  \E s \in U : /\ s \in SUBSET S /\ s # {} /\ FirstOf(s) \in s
                      /\ s \ {FirstOf(s)} \in (SUBSET S) \ U
<1> DEFINE sizes == {Cardinality(s) : s \in U}
<1>1. \A s \in SUBSET S : IsFiniteSet(s) /\ Cardinality(s) \in Nat
  BY CountPart
<1>2. sizes \subseteq Nat /\ sizes # {}
  BY <1>1
<1>3. PICK m \in sizes : \A y \in sizes : m <= y
  <2> HIDE DEF sizes
  <2>1. QED
    BY <1>2, MinExists
<1>4. PICK s \in U : Cardinality(s) = m
  BY <1>3
<1>5. s # {} /\ FirstOf(s) \in s
  BY DEF FirstOf
<1> DEFINE less == s \ {FirstOf(s)}
<1>6. less \in SUBSET S /\ Cardinality(less) = m - 1 /\ m \in Nat
  BY <1>1, <1>4, <1>5, CountRemove
<1> HIDE DEF less
<1>7. less \notin U
  BY <1>3, <1>6
<1>8. QED
  BY <1>5, <1>6, <1>7 DEF less

\* The recursion that sums f has a solution.
LEMMA SumsExist ==
  ASSUME NEW S, IsFiniteSet(S), NEW f \in [S -> Nat]
  PROVE  \E g \in [SUBSET S -> Nat] : SumsUp(f, SUBSET S, g)
<1> DEFINE Upto(n) == {s \in SUBSET S : Cardinality(s) <= n}
           Solved(n) == \E g \in [Upto(n) -> Nat] : SumsUp(f, Upto(n), g)
           unsolved == {n \in Nat : ~Solved(n)}
<1>1. \A s \in SUBSET S : IsFiniteSet(s) /\ Cardinality(s) \in Nat
  BY CountPart
<1>2. \A s \in SUBSET S : s # {} =>
        /\ FirstOf(s) \in s
        /\ s \ {FirstOf(s)} \in SUBSET S
        /\ Cardinality(s \ {FirstOf(s)}) = Cardinality(s) - 1
        /\ Cardinality(s) # 0
  BY <1>1, CountRemove DEF FirstOf
<1>3. Solved(0)
  <2> DEFINE g == [s \in Upto(0) |-> 0]
  <2>1. ASSUME NEW s \in Upto(0)
        PROVE  s = {}
    <3>1. s \in SUBSET S /\ Cardinality(s) <= 0
      OBVIOUS
    <3>2. Cardinality(s) = 0
      BY <1>1, <3>1
    <3>3. s # {} => Cardinality(s) # 0
      BY <1>2, <3>1
    <3>4. QED
      BY <3>2, <3>3
  <2>2. g \in [Upto(0) -> Nat] /\ SumsUp(f, Upto(0), g)
    BY <2>1 DEF SumsUp
  <2>3. QED
    BY <2>2
<1>4. ASSUME NEW n \in Nat, Solved(n)
      PROVE  Solved(n + 1)
  <2>1. PICK g \in [Upto(n) -> Nat] : SumsUp(f, Upto(n), g)
    BY <1>4
  <2> DEFINE h == [s \in Upto(n + 1) |->
                     IF s = {} THEN 0 ELSE f[FirstOf(s)] + g[s \ {FirstOf(s)}]]
  <2>2. \A s \in Upto(n + 1) : s # {} => s \ {FirstOf(s)} \in Upto(n) /\ FirstOf(s) \in S
    BY <1>1, <1>2
  <2>3. \A s \in Upto(n) : s \in Upto(n + 1) /\ h[s] = g[s]
    BY <1>1, <2>1 DEF SumsUp
  <2>4. h \in [Upto(n + 1) -> Nat]
    <3>1. \A s \in Upto(n + 1) : s # {} => f[FirstOf(s)] \in Nat /\ g[s \ {FirstOf(s)}] \in Nat
      BY <2>1, <2>2
    <3> HIDE DEF Upto
    <3>2. QED
      BY <3>1
  <2>5. SumsUp(f, Upto(n + 1), h)
    <3> SUFFICES ASSUME NEW s \in Upto(n + 1), s # {}
                 PROVE  h[s] = f[FirstOf(s)] + h[s \ {FirstOf(s)}]
      BY DEF SumsUp
    <3>1. h[s] = f[FirstOf(s)] + g[s \ {FirstOf(s)}]
      OBVIOUS
    <3>2. h[s \ {FirstOf(s)}] = g[s \ {FirstOf(s)}]
      BY <2>2, <2>3
    <3>3. QED
      BY <3>1, <3>2
  <2> HIDE DEF h
  <2>6. QED
    BY <2>4, <2>5
<1>5. Solved(Cardinality(S))
  <2> HIDE DEF Solved
  <2>1. ASSUME unsolved # {}
        PROVE  FALSE
    <3>1. PICK m \in unsolved : \A y \in unsolved : m <= y
      BY <2>1, MinExists
    <3>2. m \in Nat /\ ~Solved(m) /\ m # 0
      BY <1>3
    <3>3. m - 1 \in Nat /\ m - 1 \notin unsolved
      BY <3>1, <3>2
    <3>4. Solved(m - 1) /\ (m - 1) + 1 = m
      BY <3>2, <3>3
    <3>5. QED
      BY <1>4, <3>2, <3>3, <3>4
  <2>2. QED
    BY <1>1, <2>1
<1>6. Upto(Cardinality(S)) = SUBSET S
  BY CountPart
<1>7. QED
  BY <1>5, <1>6

LEMMA SumIs ==
  ASSUME NEW S, IsFiniteSet(S), NEW f \in [S -> Nat]
  PROVE  \E g \in [SUBSET S -> Nat] : SumsUp(f, SUBSET S, g) /\ SumFunction(f) = g[S]
<1> DEFINE Solves(g) == g = [s \in SUBSET S |-> IF s = {} THEN 0
                               ELSE f[CHOOSE x \in s : TRUE] + g[s \ {CHOOSE x \in s : TRUE}]]
           iter == CHOOSE g : Solves(g)
<1>1. SumFunction(f) = iter[S]
  <2>1. DOMAIN f = S
    OBVIOUS
  <2>2. QED
    BY <2>1 DEF SumFunction, SumFunctionOnSet, FoldFunctionOnSet, MapThenFoldSet
<1>2. PICK g \in [SUBSET S -> Nat] : SumsUp(f, SUBSET S, g)
  BY SumsExist
<1>3. Solves(g)
  BY <1>2 DEF SumsUp, FirstOf
<1>4. Solves(iter)
  BY <1>3
<1> HIDE DEF iter
<1>5. SumsUp(f, SUBSET S, iter)
  BY <1>4 DEF SumsUp, FirstOf
<1>6. \A s \in SUBSET S : iter[s] = g[s]
  <2> DEFINE apart == {s \in SUBSET S : iter[s] # g[s]}
  <2>1. apart \subseteq SUBSET S /\ {} \notin apart
    BY <1>2, <1>5 DEF SumsUp
  <2>2. ASSUME apart # {}
        PROVE  FALSE
    <3>1. PICK s \in apart : /\ s \in SUBSET S /\ s # {}
                             /\ s \ {FirstOf(s)} \in (SUBSET S) \ apart
      <4> HIDE DEF apart
      <4>1. QED
        BY <2>1, <2>2, SmallestPart
    <3>2. iter[s] # g[s] /\ iter[s \ {FirstOf(s)}] = g[s \ {FirstOf(s)}]
      BY <3>1
    <3>3. QED
      BY <1>2, <1>5, <3>1, <3>2 DEF SumsUp
  <2>3. QED
    BY <2>2
<1>7. QED
  BY <1>1, <1>2, <1>6

LEMMA SumType ==
  ASSUME NEW S, IsFiniteSet(S), NEW f \in [S -> Nat]
  PROVE  SumFunction(f) \in Nat
<1>1. PICK g \in [SUBSET S -> Nat] : SumsUp(f, SUBSET S, g) /\ SumFunction(f) = g[S]
  BY SumIs
<1>2. QED
  BY <1>1

\* A sum moves with each of its terms, and that of zeros is zero.
LEMMA SumMove ==
  ASSUME NEW S, IsFiniteSet(S), NEW f \in [S -> Nat], NEW h \in [S -> Nat], NEW q \in S,
         \A x \in S \ {q} : h[x] = f[x]
  PROVE  /\ SumFunction(f) \in Nat /\ SumFunction(h) \in Nat
         /\ SumFunction(h) + f[q] = SumFunction(f) + h[q]
<1>1. PICK F \in [SUBSET S -> Nat] : SumsUp(f, SUBSET S, F) /\ SumFunction(f) = F[S]
  BY SumIs
<1>2. PICK H \in [SUBSET S -> Nat] : SumsUp(h, SUBSET S, H) /\ SumFunction(h) = H[S]
  BY SumIs
<1> DEFINE Moves(s) == H[s] = F[s] + (IF q \in s THEN h[q] - f[q] ELSE 0)
           apart == {s \in SUBSET S : ~Moves(s)}
<1>3. apart \subseteq SUBSET S /\ {} \notin apart
  <2>1. F[{}] = 0 /\ H[{}] = 0
    BY <1>1, <1>2 DEF SumsUp
  <2>2. QED
    BY <2>1
<1>4. ASSUME apart # {}
      PROVE  FALSE
  <2>1. PICK s \in apart : /\ s \in SUBSET S /\ s # {} /\ FirstOf(s) \in s
                           /\ s \ {FirstOf(s)} \in (SUBSET S) \ apart
    <3> HIDE DEF apart
    <3>1. QED
      BY <1>3, <1>4, SmallestPart
  <2> DEFINE first == FirstOf(s)
             less == s \ {first}
  <2>2. first \in s /\ first \in S /\ less \in SUBSET S
    BY <2>1
  <2>3. ~Moves(s) /\ Moves(less)
    BY <2>1
  <2>4. F[s] = f[first] + F[less] /\ H[s] = h[first] + H[less]
    BY <1>1, <1>2, <2>1 DEF SumsUp
  <2>5. /\ f[first] \in Nat /\ h[first] \in Nat /\ f[q] \in Nat /\ h[q] \in Nat
        /\ F[less] \in Nat /\ H[less] \in Nat
    BY <2>2
  <2>6. /\ q \in less <=> q \in s /\ q # first
        /\ first # q => h[first] = f[first]
    BY <2>2
  <2> HIDE DEF less, first
  <2>7. QED
    BY <2>2, <2>3, <2>4, <2>5, <2>6
<1>5. Moves(S)
  BY <1>4
<1>6. QED
  BY <1>1, <1>2, <1>5

LEMMA SumZero ==
  ASSUME NEW S, IsFiniteSet(S), NEW f, f = [x \in S |-> 0]
  PROVE  SumFunction(f) = 0
<1>1. f \in [S -> Nat]
  OBVIOUS
<1>2. PICK F \in [SUBSET S -> Nat] : SumsUp(f, SUBSET S, F) /\ SumFunction(f) = F[S]
  BY <1>1, SumIs
<1> DEFINE apart == {s \in SUBSET S : F[s] # 0}
<1>3. apart \subseteq SUBSET S /\ {} \notin apart
  BY <1>2 DEF SumsUp
<1>4. ASSUME apart # {}
      PROVE  FALSE
  <2>1. PICK s \in apart : /\ s \in SUBSET S /\ s # {} /\ FirstOf(s) \in s
                           /\ s \ {FirstOf(s)} \in (SUBSET S) \ apart
    <3> HIDE DEF apart
    <3>1. QED
      BY <1>3, <1>4, SmallestPart
  <2>2. F[s] # 0 /\ F[s \ {FirstOf(s)}] = 0 /\ f[FirstOf(s)] = 0
    BY <2>1
  <2>3. QED
    BY <1>2, <2>1, <2>2 DEF SumsUp
<1>5. QED
  BY <1>2, <1>4
=============================================================================
