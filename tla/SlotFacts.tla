------------------------------ MODULE SlotFacts ------------------------------
(***************************************************************************)
(* The tables of the stack are searched from their first place on, and     *)
(* gone through as a whole: what a search finds is the least of the places *)
(* that match, what is sent for a table is one message for each, and what  *)
(* holds before a loop and after each turn holds in the end.               *)
(***************************************************************************)
EXTENDS Integers, FiniteSetTheorems, TLAPS

\* A nonempty set of naturals has a least element.
LEMMA LeastOfNat ==
  ASSUME NEW S \in SUBSET Nat, S # {}
  PROVE  \E x \in S : \A y \in S : x <= y
<1> DEFINE R == OpToRel(<, Nat)
<1>1. \A x, y \in Nat : y < x => <<y, x>> \in R
  BY DEF OpToRel
<1>2. IsWellFoundedOn(R, Nat)
  BY NatLessThanWellFounded
<1> HIDE DEF R
<1>3. PICK x \in S : \A y \in S : ~ (<<y, x>> \in R)
  BY <1>2, WFMin
<1>4. \A y \in S : ~ (y < x)
  BY <1>1, <1>3
<1>5. \A y \in S : x <= y
  BY <1>4
<1>6. QED
  BY <1>5

\* What holds at 0 and goes on to the next number holds up to the last.
LEMMA StepByStep ==
  ASSUME NEW n \in Nat, NEW S \in SUBSET (0 .. n),
         0 \in S, \A m \in S : m < n => m + 1 \in S
  PROVE  S = 0 .. n
<1>1. SUFFICES ASSUME (0 .. n) \ S # {}
               PROVE  FALSE
  OBVIOUS
<1>2. PICK m \in (0 .. n) \ S : \A k \in (0 .. n) \ S : m <= k
  BY <1>1, LeastOfNat, (0 .. n) \ S \in SUBSET Nat
<1>3. m # 0 /\ m - 1 \in 0 .. n /\ m - 1 < m
  BY <1>2
<1>4. m - 1 \in S
  BY <1>2, <1>3
<1>. QED  BY <1>2, <1>3, <1>4

\* Cardinality once more, for modules in which the prover takes that of FiniteSets
\* and that of FiniteSetTheorems for two: both are this.
Count(S) ==
  LET CS[T \in SUBSET S] == IF T = {} THEN 0 ELSE 1 + CS[T \ {CHOOSE x : x \in T}]
  IN  CS[S]

LEMMA CountIsCardinality == ASSUME NEW S PROVE Count(S) = Cardinality(S)
BY DEF Count, Cardinality

\* The number of some places of a table.
LEMMA CountOfPlaces ==
  ASSUME NEW n \in Nat, NEW S \in SUBSET (1 .. n)
  PROVE  Count(S) \in Nat /\ (Count(S) = 0 <=> S = {})
<1>1. IsFiniteSet(S)
  <2>1. IsFiniteSet(1 .. n)
    BY FS_Interval, 1 \in Int, n \in Int
  <2>. QED  BY <2>1, FS_Subset
<1>. QED  BY <1>1, CountIsCardinality, FS_CardinalityType, FS_EmptySet

LEMMA CountOfOne ==
  ASSUME NEW S, \A x, y \in S : x = y
  PROVE  Count(S) = IF S = {} THEN 0 ELSE 1
<1>1. CASE S = {}
  BY <1>1, CountIsCardinality, FS_EmptySet
<1>2. CASE S # {}
  <2>1. PICK x : S = {x}
    BY <1>2
  <2>2. Cardinality({x}) = 1
    BY FS_Singleton
  <2>. QED  BY <1>2, <2>1, <2>2, CountIsCardinality
<1>. QED  BY <1>1, <1>2
=============================================================================
