------------------------- MODULE FreeNumbers_proofs -------------------------
EXTENDS FreeNumbers, FiniteSetTheorems, WellFoundedInduction, TLAPS

(* A nonempty set of naturals has a least element. *)
LEMMA LeastElement ==
  ASSUME NEW T \in SUBSET Nat, T # {}
  PROVE  \E x \in T : \A y \in T : x <= y
<1> DEFINE Below == {0 .. x : x \in T}
<1>1. Below \subseteq FiniteSubsetsOf(Nat) /\ Below # {}
  <2>1. \A x \in T : 0 .. x \in SUBSET Nat /\ IsFiniteSet(0 .. x)
    BY FS_Interval
  <2>2. QED
    BY <2>1 DEF FiniteSubsetsOf
<1>2. PICK b \in Below : \A c \in Below : <<c, b>> \notin StrictSubsetOrdering(Nat)
  <2> HIDE DEF Below
  <2>1. QED
    BY <1>1, FS_StrictSubsetOrderingWellFounded, WFMin
<1>3. PICK x \in T : b = 0 .. x
  OBVIOUS
<1>4. ASSUME NEW y \in T PROVE x <= y
  <2>1. SUFFICES ASSUME y < x PROVE FALSE
    OBVIOUS
  <2>2. 0 .. y \in SUBSET Nat /\ 0 .. x \in SUBSET Nat /\ 0 .. y \subseteq 0 .. x
        /\ x \in 0 .. x /\ x \notin 0 .. y
    BY <2>1
  <2>3. <<0 .. y, 0 .. x>> \in StrictSubsetOrdering(Nat)
    BY <2>2 DEF StrictSubsetOrdering
  <2>4. QED
    BY <2>3, <1>2, <1>3
<1>5. QED
  BY <1>4

LEMMA SetInduction ==
  ASSUME NEW S, 0 \in S, \A k \in Nat : k \in S => k + 1 \in S
  PROVE  Nat \subseteq S
<1>1. SUFFICES ASSUME Nat \ S # {} PROVE FALSE
  OBVIOUS
<1>2. PICK x \in Nat \ S : \A y \in Nat \ S : x <= y
  BY <1>1, LeastElement
<1>3. x # 0 /\ x - 1 \in Nat /\ x - 1 \notin Nat \ S
  BY <1>2
<1>4. QED
  BY <1>2, <1>3

(* There are free numbers above any number. *)
LEMMA FreeAbove ==
  ASSUME NEW used \in SUBSET Nat, IsFiniteSet(used), NEW n \in Nat
  PROVE  \E j \in Nat : j >= n /\ j \notin used
<1>1. SUFFICES ASSUME \A j \in Nat : j >= n => j \in used PROVE FALSE
  OBVIOUS
<1> DEFINE c == Cardinality(used)
<1>2. c \in Nat
  BY FS_CardinalityType
<1>3. n .. (n + c) \in SUBSET used
  BY <1>1, <1>2
<1>4. Cardinality(n .. (n + c)) <= c
  BY <1>3, FS_Subset
<1>5. Cardinality(n .. (n + c)) = c + 1
  BY <1>2, FS_Interval
<1>6. QED
  BY <1>2, <1>4, <1>5

(* The least free number from n on. *)
LEMMA LeastFreeAbove ==
  ASSUME NEW used \in SUBSET Nat, IsFiniteSet(used), NEW n \in Nat
  PROVE  \E j \in Nat : /\ j >= n
                        /\ j \notin used
                        /\ \A i \in Nat : n <= i /\ i < j => i \in used
<1> DEFINE T == {j \in Nat : j >= n /\ j \notin used}
<1>1. T \in SUBSET Nat /\ T # {}
  BY FreeAbove
<1>2. PICK x \in T : \A y \in T : x <= y
  <2> HIDE DEF T
  <2>1. QED BY <1>1, LeastElement
<1>3. \A i \in Nat : n <= i /\ i < x => i \in used
  BY <1>2
<1>4. QED
  BY <1>2, <1>3

(* For every k there is a free number with exactly k free numbers below. *)
LEMMA NthFreeExists ==
  ASSUME NEW used \in SUBSET Nat, IsFiniteSet(used), NEW k \in Nat
  PROVE  \E j \in Nat : /\ j \notin used
                        /\ Cardinality((0 .. (j-1)) \ used) = k
<1> DEFINE Free(j) == (0 .. (j-1)) \ used
           S == {m \in Nat : \E j \in Nat : j \notin used /\ Cardinality(Free(j)) = m}
<1>1. 0 \in S
  <2>1. PICK j \in Nat : /\ j >= 0
                         /\ j \notin used
                         /\ \A i \in Nat : 0 <= i /\ i < j => i \in used
    BY LeastFreeAbove
  <2>2. Free(j) = {}
    BY <2>1
  <2>3. QED
    BY <2>1, <2>2, FS_EmptySet
<1>2. ASSUME NEW m \in Nat, m \in S
      PROVE  m + 1 \in S
  <2>1. PICK i \in Nat : i \notin used /\ Cardinality(Free(i)) = m
    BY <1>2
  <2>2. PICK j \in Nat : /\ j >= i + 1
                         /\ j \notin used
                         /\ \A x \in Nat : i + 1 <= x /\ x < j => x \in used
    BY LeastFreeAbove
  <2>3. Free(j) = Free(i) \cup {i}
    BY <2>1, <2>2
  <2>4. IsFiniteSet(Free(i))
    <3>1. IsFiniteSet(0 .. (i - 1))
      BY FS_Interval
    <3>2. Free(i) \in SUBSET (0 .. (i - 1))
      OBVIOUS
    <3>3. QED
      BY <3>1, <3>2, FS_Subset
  <2>5. i \notin Free(i)
    OBVIOUS
  <2>6. Cardinality(Free(j)) = m + 1
    <3> HIDE DEF Free
    <3>1. QED
      BY <2>1, <2>3, <2>4, <2>5, FS_AddElement
  <2>7. QED
    <3> HIDE DEF Free
    <3>1. QED BY <2>2, <2>6
<1>3. Nat \subseteq S
  <2> HIDE DEF S
  <2>1. QED BY <1>1, <1>2, SetInduction
<1>4. QED
  BY <1>3

(* What the search returns: a free number, and for different calls of one
   loop different ones. *)
LEMMA NthFreeSpec ==
  ASSUME NEW used \in SUBSET Nat, IsFiniteSet(used), NEW k \in Nat
  PROVE  /\ NthFree(used, k) \in Nat
         /\ NthFree(used, k) \notin used
         /\ Cardinality((0 .. (NthFree(used, k) - 1)) \ used) = k
<1>1. PICK j \in Nat : /\ j \notin used
                       /\ Cardinality((0 .. (j-1)) \ used) = k
  BY NthFreeExists
<1>2. Cardinality(used) \in Nat
  BY FS_CardinalityType
<1>3. j <= Cardinality(used) + k
  <2> DEFINE I == 0 .. (j - 1)
  <2>1. IsFiniteSet(I) /\ Cardinality(I) = j
    BY FS_Interval
  <2>2. Cardinality(I \ used) = j - Cardinality(I \cap used)
    <3> HIDE DEF I
    <3>1. QED BY <2>1, FS_Difference
  <2>3. Cardinality(used \cap I) <= Cardinality(used) /\ I \cap used = used \cap I
    BY FS_Intersection
  <2>4. Cardinality(I \cap used) \in Nat
    BY <2>1, FS_Intersection, FS_CardinalityType
  <2>5. Cardinality(I \ used) = k
    BY <1>1
  <2>6. Cardinality(I \cap used) <= Cardinality(used)
    BY <2>3
  <2>7. QED
    <3> HIDE DEF I
    <3>1. QED BY <1>2, <2>2, <2>4, <2>5, <2>6
<1>4. j \in 0 .. (Cardinality(used) + k)
  BY <1>2, <1>3
<1>5. QED
  <2> DEFINE P(i) == i \notin used /\ Cardinality((0 .. (i-1)) \ used) = k
             D == 0 .. (Cardinality(used) + k)
  <2>1. \E i \in D : P(i)
    BY <1>1, <1>4
  <2>2. NthFree(used, k) = CHOOSE i \in D : P(i)
    BY DEF NthFree
  <2>3. D \subseteq Nat
    BY <1>2
  <2>4. NthFree(used, k) \in D /\ P(NthFree(used, k))
    <3> HIDE DEF D, P
    <3>1. QED BY <2>1, <2>2
  <2>5. QED
    BY <2>3, <2>4

LEMMA NthFreeInjective ==
  ASSUME NEW used \in SUBSET Nat, IsFiniteSet(used),
         NEW k \in Nat, NEW l \in Nat, NthFree(used, k) = NthFree(used, l)
  PROVE  k = l
BY NthFreeSpec
=============================================================================
