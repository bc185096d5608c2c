----------------------------- MODULE ProofBasics ------------------------------
(***************************************************************************)
(* Facts about numbers, segments and iteration that the proofs about the   *)
(* components rest on.                                                     *)
(*                                                                         *)
(* The library states induction for an operator, which the provers cannot  *)
(* instantiate.  Here a property of numbers is a set of numbers, and an    *)
(* iterated step is a function.                                            *)
(***************************************************************************)
EXTENDS Integers, Sequences, FiniteSets, FiniteSetsExt, FiniteSetTheorems,
        FunctionTheorems, SequenceTheorems, WellFoundedInduction, TLAPS

-----------------------------------------------------------------------------
(***************************************************************************)
(* Numbers and segments.                                                   *)
(***************************************************************************)
\* Every set of naturals with a member has a least one.
LEMMA LeastNat ==
    ASSUME NEW T \in SUBSET Nat, T # {}
    PROVE  \E x \in T : \A y \in T : x <= y
<1> DEFINE R == {p \in Nat \X Nat : p[1] < p[2]}
<1>1. IsWellFoundedOn(R, Nat)
  BY NatLessThanWellFounded DEF OpToRel
<1>2. PICK x \in T : \A y \in T : ~(<<y, x>> \in R)
  <2> HIDE DEF R
  <2> QED BY <1>1, WFMin
<1>3. ASSUME NEW y \in T PROVE x <= y
  <2>1. <<y, x>> \in Nat \X Nat /\ <<y, x>>[1] = y /\ <<y, x>>[2] = x
    OBVIOUS
  <2>2. ~(<<y, x>>[1] < <<y, x>>[2])
    BY <1>2, <2>1
  <2> QED BY <2>1, <2>2
<1> QED BY <1>3

\* A set of positions that holds, with a position, all those before it is as
\* long as it has members.
LEMMA Segment ==
    ASSUME NEW L \in Nat, NEW S \in SUBSET (1 .. L),
           \A n \in S : \A i \in 1 .. n : i \in S
    PROVE  Cardinality(S) \in 0 .. L /\ S = 1 .. Cardinality(S)
<1> DEFINE c == Cardinality(S)
<1>1. IsFiniteSet(1 .. L) /\ Cardinality(1 .. L) = L
  BY FS_Interval
<1>2. IsFiniteSet(S) /\ c <= L
  BY <1>1, FS_Subset
<1>3. c \in Nat
  BY <1>2, FS_CardinalityType
<1>4. \A n \in S : n <= c
  <2>1. SUFFICES ASSUME NEW n \in S PROVE n <= c
    OBVIOUS
  <2>2. 1 .. n \in SUBSET S /\ n \in Nat
    OBVIOUS
  <2>3. Cardinality(1 .. n) <= c
    BY <1>2, <2>2, FS_Subset
  <2>4. Cardinality(1 .. n) = n
    BY <2>2, FS_Interval
  <2> QED BY <2>3, <2>4
<1>5. S \in SUBSET (1 .. c)
  BY <1>3, <1>4
<1>6. IsFiniteSet(1 .. c) /\ Cardinality(1 .. c) = c
  BY <1>3, FS_Interval
<1>7. S = 1 .. c
  BY <1>5, <1>6, FS_Subset
<1> QED BY <1>2, <1>3, <1>7

\* A segment that starts at one ends at its length.
LEMMA MaxSegment ==
    ASSUME NEW n \in Nat
    PROVE  Max({0} \cup (1 .. n)) = n
<1>1. n \in {0} \cup (1 .. n) /\ \A y \in {0} \cup (1 .. n) : n >= y
  OBVIOUS
<1>2. \A x \in {0} \cup (1 .. n) :
         (\A y \in {0} \cup (1 .. n) : x >= y) => x = n
  OBVIOUS
<1> QED BY <1>1, <1>2 DEF Max

\* Max picks a member of a segment's part.
LEMMA MaxInSet ==
    ASSUME NEW L \in Nat, NEW S \in SUBSET (1 .. L), S # {}
    PROVE  Max(S) \in S /\ \A y \in S : Max(S) >= y
<1> DEFINE T == {L - y : y \in S}
<1>1. T \in SUBSET Nat /\ T # {}
  <2>1. \A y \in S : L - y \in Nat
    OBVIOUS
  <2>2. PICK y \in S : TRUE
    OBVIOUS
  <2>3. L - y \in T
    BY <2>2
  <2> QED BY <2>1, <2>3
<1>2. PICK z \in T : \A t \in T : z <= t
  <2> HIDE DEF T
  <2> QED BY <1>1, LeastNat
<1>3. PICK x \in S : z = L - x
  BY <1>2
<1>4. \A y \in S : x >= y
  <2>1. SUFFICES ASSUME NEW y \in S PROVE x >= y
    OBVIOUS
  <2>2. L - x <= L - y
    BY <1>2, <1>3
  <2> QED BY <2>2
<1> QED BY <1>3, <1>4 DEF Max

\* Min and Max of two numbers, which the model takes everywhere.
LEMMA MinOfTwo ==
    ASSUME NEW a \in Int, NEW b \in Int
    PROVE  Min({a, b}) = IF a <= b THEN a ELSE b
  BY DEF Min

\* The same for the larger of the two.
LEMMA MaxOfTwo ==
    ASSUME NEW a \in Int, NEW b \in Int
    PROVE  Max({a, b}) = IF a >= b THEN a ELSE b
  BY DEF Max

-----------------------------------------------------------------------------
(***************************************************************************)
(* Counting.                                                               *)
(***************************************************************************)
\* Two disjoint sets count together what they count apart.
LEMMA DisjointUnion ==
  ASSUME NEW S, NEW T, IsFiniteSet(S), IsFiniteSet(T), S \cap T = {}
  PROVE  Cardinality(S \cup T) = Cardinality(S) + Cardinality(T)
<1>1. Cardinality(S) \in Nat /\ Cardinality(T) \in Nat /\ Cardinality(S \cap T) = 0
  BY FS_EmptySet, FS_CardinalityType
<1>2. Cardinality(S \cup T) = Cardinality(S) + Cardinality(T) - Cardinality(S \cap T)
  BY FS_Union
<1> QED
  BY <1>1, <1>2

\* What is left of a set when a part of it is taken away.
LEMMA SubsetRemoval ==
  ASSUME NEW S, NEW T, IsFiniteSet(S), T \subseteq S
  PROVE  Cardinality(S \ T) = Cardinality(S) - Cardinality(T)
<1>1. S \cap T = T
  OBVIOUS
<1> QED
  BY <1>1, FS_Difference

\* A finite set can be numbered by another one that is no smaller.
LEMMA InjectionExists ==
  ASSUME NEW S, NEW T, IsFiniteSet(S), IsFiniteSet(T), Cardinality(S) <= Cardinality(T)
  PROVE  \E f \in Injection(S, T) : TRUE
<1> DEFINE A == 1 .. Cardinality(S)
           B == 1 .. Cardinality(T)
<1>1. /\ Cardinality(S) \in Nat /\ Cardinality(T) \in Nat
      /\ ExistsBijection(A, S) /\ ExistsBijection(B, T)
  BY FS_CardinalityType
<1>2. ExistsInjection(A, B)
  <2>1. [x \in A |-> x] \in Injection(A, B)
    BY <1>1 DEF Injection, IsInjective
  <2> QED BY <2>1 DEF ExistsInjection
<1> HIDE DEF A, B
<1>3. ExistsInjection(S, A)
  <2>1. ExistsBijection(S, A)
    BY <1>1, Fun_ExistsBijSymmetric
  <2> QED BY <2>1 DEF ExistsBijection, ExistsInjection, Bijection
<1>4. ExistsInjection(B, T)
  BY <1>1 DEF ExistsBijection, ExistsInjection, Bijection
<1>5. ExistsInjection(S, B)
  BY <1>2, <1>3, Fun_ExistsInjTransitive
<1>6. ExistsInjection(S, T)
  BY <1>4, <1>5, Fun_ExistsInjTransitive
<1> QED BY <1>6 DEF ExistsInjection

\* What it numbers it with are as many.
LEMMA InjectionImage ==
  ASSUME NEW S, NEW T, IsFiniteSet(S), NEW f \in Injection(S, T)
  PROVE  /\ IsFiniteSet(Range(f)) /\ Cardinality(Range(f)) = Cardinality(S)
         /\ Range(f) \in SUBSET T
<1>1. f \in Bijection(S, Range(f))
  BY Fun_InjMeansBijImage
<1>2. ExistsBijection(S, Range(f))
  BY <1>1 DEF ExistsBijection
<1>3. Range(f) \in SUBSET T
  BY DEF Injection, Range
<1> QED BY <1>2, <1>3, FS_Bijection

-----------------------------------------------------------------------------
(***************************************************************************)
(* Induction and iteration.                                                *)
(***************************************************************************)
\* What holds of zero, and of a number when it holds of the one before it,
\* holds of all numbers up to a bound.
LEMMA UpTo ==
    ASSUME NEW L \in Nat, NEW P, 0 \in P,
           \A n \in 1 .. L : n - 1 \in P => n \in P
    PROVE  0 .. L \subseteq P
<1> DEFINE T == {n \in 0 .. L : n \notin P}
<1>1. SUFFICES ASSUME T # {} PROVE FALSE
  OBVIOUS
<1>2. PICK x \in T : \A y \in T : x <= y
  <2>1. T \in SUBSET Nat
    OBVIOUS
  <2> HIDE DEF T
  <2> QED BY <1>1, <2>1, LeastNat
<1>3. x # 0 /\ x \in 1 .. L
  BY <1>2
<1>4. x - 1 \in 0 .. L /\ ~(x <= x - 1)
  BY <1>3
<1>5. x - 1 \in P
  BY <1>2, <1>4
<1> QED BY <1>2, <1>3, <1>5

\* A step g, taken L times from x on, passes through these values.
Iterates(f, x, g, L) ==
    /\ f[0] = x
    /\ \A n \in 1 .. L : f[n] = g[<<n, f[n - 1]>>]

\* Any step can be taken any number of times.
LEMMA IterationExists ==
    ASSUME NEW S, NEW x \in S, NEW L \in Nat, NEW g \in [(1 .. L) \X S -> S]
    PROVE  \E f \in [0 .. L -> S] : Iterates(f, x, g, L)
<1> DEFINE P == {m \in 0 .. L : \E f \in [0 .. m -> S] : Iterates(f, x, g, m)}
<1>1. 0 \in P
  <2>1. [n \in 0 .. 0 |-> x] \in [0 .. 0 -> S]
    OBVIOUS
  <2>2. Iterates([n \in 0 .. 0 |-> x], x, g, 0)
    BY DEF Iterates
  <2> QED BY <2>1, <2>2
<1>2. ASSUME NEW m \in 1 .. L, m - 1 \in P PROVE m \in P
  <2>1. PICK f \in [0 .. m - 1 -> S] : Iterates(f, x, g, m - 1)
    BY <1>2
  <2> DEFINE y == g[<<m, f[m - 1]>>]
             h == [n \in 0 .. m |-> IF n = m THEN y ELSE f[n]]
  <2>2. y \in S
    <3>1. m - 1 \in 0 .. m - 1
      OBVIOUS
    <3>2. <<m, f[m - 1]>> \in (1 .. L) \X S
      BY <3>1
    <3> QED BY <3>2
  <2>3. h \in [0 .. m -> S]
    <3>1. \A n \in 0 .. m : n # m => n \in 0 .. m - 1
      OBVIOUS
    <3> HIDE DEF y
    <3> QED BY <2>2, <3>1
  <2>4. h[0] = x
    BY <2>1 DEF Iterates
  <2>5. ASSUME NEW n \in 1 .. m PROVE h[n] = g[<<n, h[n - 1]>>]
    <3>1. n - 1 \in 0 .. m /\ n - 1 # m /\ h[n - 1] = f[n - 1]
      OBVIOUS
    <3>2. CASE n = m
      BY <3>1, <3>2
    <3>3. CASE n # m
      <4>1. n \in 1 .. m - 1 /\ n \in 0 .. m /\ h[n] = f[n]
        BY <3>3
      <4>2. f[n] = g[<<n, f[n - 1]>>]
        BY <2>1, <4>1 DEF Iterates
      <4> QED BY <3>1, <4>1, <4>2
    <3> QED BY <3>2, <3>3
  <2>6. Iterates(h, x, g, m)
    <3> HIDE DEF h
    <3> QED BY <2>4, <2>5 DEF Iterates
  <2> HIDE DEF h
  <2>7. m \in 0 .. L
    OBVIOUS
  <2> QED BY <2>3, <2>6, <2>7
<1> HIDE DEF P
<1>3. 0 .. L \subseteq P
  BY <1>1, <1>2, UpTo
<1> QED BY <1>3 DEF P
=============================================================================
