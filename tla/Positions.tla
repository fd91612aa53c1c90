------------------------------ MODULE Positions ------------------------------
(***************************************************************************)
(* What the proofs need to know of sets of positions: rows of a journal or *)
(* of a log, entries of a manifest.                                        *)
(***************************************************************************)
EXTENDS FiniteSetsExt, FiniteSetTheorems, WellFoundedInduction, TLAPS

\* There is a first one.
LEMMA LeastMember ==
    ASSUME NEW S, S \subseteq Nat, S # {}
    PROVE  Min(S) \in S /\ \A x \in S : Min(S) <= x
<1> DEFINE R == OpToRel(<, Nat)
<1>1. IsWellFoundedOn(R, Nat)
  BY NatLessThanWellFounded
<1>2. \A x, y \in Nat : x < y => <<x, y>> \in R
  BY DEF OpToRel
<1> HIDE DEF R
<1>3. PICK x \in S : \A y \in S : ~(<<y, x>> \in R)
  BY <1>1, WFMin
<1>4. \A y \in S : x <= y
  <2> SUFFICES ASSUME NEW y \in S PROVE x <= y
    OBVIOUS
  <2>1. x \in Nat /\ y \in Nat /\ ~(y < x)
    BY <1>2, <1>3
  <2> QED BY <2>1
<1> QED BY <1>3, <1>4 DEF Min

\* A bounded set has a last one.
LEMMA GreatestMember ==
    ASSUME NEW n \in Nat, NEW S, S \subseteq 1..n, S # {}
    PROVE  Max(S) \in S /\ \A x \in S : x <= Max(S)
<1> DEFINE Bounds == {k \in Nat : \A x \in S : x <= k}
           m == Min(Bounds)
<1>1. n \in Bounds /\ \A x \in S : x \in Nat /\ x >= 1
  OBVIOUS
<1>2. m \in Bounds /\ \A k \in Bounds : m <= k
  BY <1>1, LeastMember
<1> HIDE DEF m
<1>3. m \in Nat /\ \A x \in S : x <= m
  BY <1>2
<1>4. m \in S
  <2> SUFFICES ASSUME m \notin S PROVE FALSE
    OBVIOUS
  <2>1. \A x \in S : x \in Nat /\ x >= 1 /\ x # m /\ x <= m
    BY <1>1, <1>3
  <2>2. m - 1 \in Nat /\ \A x \in S : x <= m - 1
    <3>1. PICK x \in S : TRUE
      OBVIOUS
    <3>2. m - 1 \in Nat
      BY <1>3, <2>1, <3>1
    <3> QED BY <1>3, <2>1, <3>2
  <2>3. m - 1 \in Bounds
    BY <2>2
  <2> QED BY <1>2, <1>3, <2>3
<1>5. \A x \in S : m >= x
  BY <1>1, <1>3
<1>6. Max(S) \in S /\ \A x \in S : Max(S) >= x
  BY <1>4, <1>5 DEF Max
<1> QED BY <1>1, <1>6

\* The oldest few: whoever takes a position takes all earlier ones of the set too.
LEMMA OldestClosed ==
    ASSUME NEW n \in Nat, NEW S, S \subseteq 1..n, NEW limit \in Nat,
           NEW i \in S, NEW j \in S, i < j, Cardinality({l \in S : l < j}) < limit
    PROVE  Cardinality({l \in S : l < i}) < limit
<1> DEFINE before(m) == {l \in S : l < m}
<1>1. before(i) \subseteq before(j) /\ before(j) \subseteq 1..n
  <2>1. 1..n \subseteq Nat
    OBVIOUS
  <2>2. i \in Nat /\ j \in Nat /\ \A l \in S : l \in Nat
    BY <2>1
  <2>3. \A l \in S : l < i => l < j
    BY <2>2
  <2> QED BY <2>3
<1>2. IsFiniteSet(before(j))
  <2>1. IsFiniteSet(1..n)
    BY FS_Interval
  <2> HIDE DEF before
  <2> QED BY <1>1, <2>1, FS_Subset
<1>3. Cardinality(before(i)) <= Cardinality(before(j)) /\ IsFiniteSet(before(i))
  BY <1>1, <1>2, FS_Subset
<1>4. Cardinality(before(i)) \in Nat /\ Cardinality(before(j)) \in Nat
  BY <1>2, <1>3, FS_CardinalityType
<1>5. Cardinality(before(j)) < limit
  OBVIOUS
<1> HIDE DEF before
<1>6. Cardinality(before(i)) < limit
  BY <1>3, <1>4, <1>5
<1> QED BY <1>6 DEF before
==============================================================================
