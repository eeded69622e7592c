------------------------------- MODULE SetLemmas -------------------------------
(***************************************************************************)
(* Facts about sets of numbers that the proofs of the other modules cite.  *)
(* Each rests on the well-foundedness of < on the natural numbers.         *)
(***************************************************************************)
EXTENDS Integers, FiniteSets, FiniteSetsExt, FiniteSetTheorems, WellFoundedInduction, TLAPS

\* A nonempty set of natural numbers has a least element.
LEMMA LeastExists ==
  ASSUME NEW S \in SUBSET Nat, S # {}
  PROVE  \E x \in S : \A y \in S : x <= y
<1> DEFINE Less == {p \in Nat \X Nat : p[1] < p[2]}
<1>1. IsWellFoundedOn(Less, Nat)
  BY NatLessThanWellFounded DEF OpToRel
<1>2. \A x, y \in S : <<y, x>> \in Less <=> y < x
  OBVIOUS
<1>3. \E x \in S : \A y \in S : ~ (<<y, x>> \in Less)
  <2> HIDE DEF Less
  <2> QED BY <1>1, WFMin
<1>4. PICK x \in S : \A y \in S : ~ (<<y, x>> \in Less)
  BY <1>3
<1>5. \A y \in S : ~ (y < x)
  <2> HIDE DEF Less
  <2> QED BY <1>2, <1>4
<1> HIDE DEF Less
<1>6. QED BY <1>5

\* Min of a nonempty set of natural numbers is its least element.
LEMMA MinIsLeast ==
  ASSUME NEW S \in SUBSET Nat, S # {}
  PROVE  Min(S) \in S /\ \A y \in S : Min(S) <= y
BY LeastExists DEF Min

\* Max of a nonempty bounded set of natural numbers is its greatest element.
LEMMA MaxIsGreatest ==
  ASSUME NEW N \in Nat, NEW S \in SUBSET (0..N), S # {}
  PROVE  Max(S) \in S /\ \A y \in S : y <= Max(S)
<1> DEFINE Mirror == {n \in 0..N : N - n \in S}
<1>1. PICK x \in Mirror : \A y \in Mirror : x <= y
  <2>1. Mirror # {}
    <3>1. PICK s \in S : TRUE
      OBVIOUS
    <3>2. N - s \in Mirror
      OBVIOUS
    <3> QED BY <3>2
  <2>2. Mirror \in SUBSET Nat
    OBVIOUS
  <2> HIDE DEF Mirror
  <2>3. QED BY <2>1, <2>2, LeastExists
<1>2. N - x \in S /\ \A y \in S : y <= N - x
  <2>1. \A y \in S : N - y \in Mirror
    OBVIOUS
  <2> QED BY <1>1, <2>1
<1>3. QED BY <1>2 DEF Max

\* Induction on 0..N, over the set of the numbers that have the property.
LEMMA SetInduction ==
  ASSUME NEW N \in Nat, NEW P,
         0 \in P,
         \A i \in 0..N : i # N /\ i \in P => i + 1 \in P
  PROVE  0..N \subseteq P
<1> DEFINE Bad == {i \in 0..N : i \notin P}
<1> SUFFICES ASSUME Bad # {} PROVE FALSE
  OBVIOUS
<1>1. PICK m \in Bad : \A y \in Bad : m <= y
  <2>1. Bad \in SUBSET Nat
    OBVIOUS
  <2> HIDE DEF Bad
  <2>2. QED BY <2>1, LeastExists
<1>2. m # 0 /\ m - 1 \in 0..N
  BY <1>1
<1>3. m - 1 \in P
  BY <1>1, <1>2
<1>4. QED BY <1>1, <1>2, <1>3

\* A subset of a finite set is finite, no larger, and has 0 elements if empty.
LEMMA SubsetCardinality ==
  ASSUME NEW T, IsFiniteSet(T), NEW S \in SUBSET T
  PROVE  /\ IsFiniteSet(S)
         /\ Cardinality(S) \in Nat
         /\ Cardinality(S) <= Cardinality(T)
         /\ Cardinality(S) = 0 <=> S = {}
BY FS_Subset, FS_CardinalityType, FS_EmptySet
=============================================================================
