----------------------------- MODULE NumberTheorems -----------------------------
(***************************************************************************)
(* Facts about natural numbers and finite sets that the proofs of several  *)
(* components need: the induction over numbers, as the least number of a   *)
(* set, and the greatest one.                                              *)
(***************************************************************************)
EXTENDS Integers, FiniteSets, FiniteSetTheorems, WellFoundedInduction, TLAPS

Lesser == OpToRel(<, Nat)

\* A set of natural numbers that has a member has a least one.
LEMMA LeastNumber ==
  ASSUME NEW S, S \subseteq Nat, S # {}
  PROVE  \E n \in S : \A m \in S : n <= m
<1>1. IsWellFoundedOn(Lesser, Nat)
  BY NatLessThanWellFounded DEF Lesser, OpToRel
<1>2. PICK n \in S : \A m \in S : <<m, n>> \notin Lesser
  BY <1>1, WFMin
<1>3. \A m \in S : ~(m < n)
  BY <1>2 DEF Lesser, OpToRel
<1> QED
  BY <1>3

\* And one that has a bound has a greatest one.
LEMMA GreatestNumber ==
  ASSUME NEW S, S \subseteq Nat, S # {}, NEW b \in Nat, \A x \in S : x <= b
  PROVE  \E n \in S : \A m \in S : m <= n
<1> DEFINE Below == {b - x : x \in S}
<1>1. Below \subseteq Nat /\ Below # {}
  <2>1. \A x \in S : b - x \in Nat
    OBVIOUS
  <2>2. Below \subseteq Nat
    BY <2>1
  <2>3. Below # {}
    OBVIOUS
  <2> QED
    BY <2>2, <2>3
<1>2. PICK k \in Below : \A m \in Below : k <= m
  BY <1>1, LeastNumber
<1>3. PICK n \in S : k = b - n
  OBVIOUS
<1>4. ASSUME NEW m \in S PROVE m <= n
  <2>1. k <= b - m
    BY <1>2
  <2>2. m \in Nat /\ n \in Nat
    OBVIOUS
  <2> QED
    BY <1>3, <2>1, <2>2
<1> QED
  BY <1>4

\* Finitely many numbers have a bound: the least index without one has one.
LEMMA NumbersBounded ==
  ASSUME NEW n \in Nat, NEW s \in [1..n -> Nat]
  PROVE  \E b \in Nat : \A j \in 1..n : s[j] <= b
<1> DEFINE Bounded(k) == \E b \in Nat : \A j \in 1..k : s[j] <= b
           Bad == {k \in 0..n : ~Bounded(k)}
<1>1. SUFFICES ASSUME Bad # {} PROVE FALSE
  <2>1. CASE Bad = {}
    <3>1. n \in 0..n
      OBVIOUS
    <3>2. ~Bounded(n) => n \in Bad
      BY <3>1
    <3>3. Bounded(n)
      <4> HIDE DEF Bad, Bounded
      <4> QED
        BY <2>1, <3>2
    <3> HIDE DEF Bad
    <3> QED
      BY <3>3
  <2> QED
    BY <2>1
<1>2. PICK k \in Bad : \A m \in Bad : k <= m
  <2>1. Bad \subseteq Nat
    OBVIOUS
  <2> QED
    BY <1>1, <2>1, LeastNumber
<1>3. k # 0
  <2>1. Bounded(0)
    <3>1. \A j \in 1..0 : s[j] <= 0
      OBVIOUS
    <3> QED
      BY <3>1
  <2> QED
    BY <2>1
<1>4. k \in 1..n /\ k - 1 \in 0..n
  BY <1>3
<1>5. k - 1 \notin Bad
  <2>1. ~(k <= k - 1)
    BY <1>4
  <2> QED
    BY <1>2, <2>1
<1>6. PICK b \in Nat : \A j \in 1..(k - 1) : s[j] <= b
  BY <1>4, <1>5
<1>7. Bounded(k)
  <2>1. s[k] \in Nat
    BY <1>4
  <2>2. CASE b <= s[k]
    <3>1. \A j \in 1..k : s[j] <= s[k]
      <4> TAKE j \in 1..k
      <4>1. s[j] \in Nat
        BY <1>4
      <4>2. CASE j = k
        BY <4>1, <4>2
      <4>3. CASE j # k
        BY <1>4, <1>6, <2>1, <2>2, <4>1, <4>3
      <4> QED
        BY <4>2, <4>3
    <3> QED
      BY <2>1, <3>1
  <2>3. CASE s[k] <= b
    <3>1. \A j \in 1..k : s[j] <= b
      BY <1>4, <1>6, <2>3
    <3> QED
      BY <3>1
  <2> QED
    BY <2>1, <2>2, <2>3
<1> QED
  BY <1>7

\* A finite set of numbers that has a member has a greatest one.
LEMMA GreatestOfFinite ==
  ASSUME NEW S, S \subseteq Nat, S # {}, IsFiniteSet(S)
  PROVE  \E n \in S : \A m \in S : m <= n
<1>1. PICK n \in Nat : ExistsSurjection(1..n, S)
  BY FS_NatSurjection
<1>2. PICK s \in Surjection(1..n, S) : TRUE
  BY <1>1 DEF ExistsSurjection
<1>3. s \in [1..n -> S] /\ \A x \in S : \E i \in 1..n : s[i] = x
  BY <1>2 DEF Surjection
<1>4. s \in [1..n -> Nat]
  BY <1>3
<1>5. PICK b \in Nat : \A j \in 1..n : s[j] <= b
  BY <1>4, NumbersBounded
<1>6. \A x \in S : x <= b
  BY <1>3, <1>5
<1> QED
  BY <1>6, GreatestNumber

\* A finite set and its finite part, one member more: how the tallies below are kept.
LEMMA OneMore ==
  ASSUME NEW S, IsFiniteSet(S), NEW T \in SUBSET S, NEW U \in SUBSET S, T \subseteq U
  PROVE  /\ Cardinality(T) \in Nat /\ Cardinality(U) \in Nat /\ Cardinality(T) <= Cardinality(U)
         /\ \A x \in U : x \notin T => Cardinality(T) + 1 <= Cardinality(U)
<1>1. IsFiniteSet(T) /\ IsFiniteSet(U) /\ Cardinality(T) \in Nat /\ Cardinality(U) \in Nat
  BY FS_Subset, FS_CardinalityType
<1>2. Cardinality(T) <= Cardinality(U)
  BY <1>1, FS_Subset
<1>3. ASSUME NEW x \in U, x \notin T PROVE Cardinality(T) + 1 <= Cardinality(U)
  <2>1. IsFiniteSet(T \cup {x}) /\ Cardinality(T \cup {x}) = Cardinality(T) + 1
    BY <1>1, <1>3, FS_AddElement
  <2>2. T \cup {x} \in SUBSET U
    BY <1>3
  <2> QED
    BY <1>1, <2>1, <2>2, FS_Subset
<1> QED
  BY <1>1, <1>2, <1>3
=================================================================================
