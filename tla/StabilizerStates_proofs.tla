----------------------- MODULE StabilizerStates_proofs -----------------------
(***************************************************************************)
(* The stabilizer engine, for any engines and bounds: the rows of _group   *)
(* are generators of a state, gates conjugate it, measurements collapse    *)
(* it, merges join it, and contains and __eq__ tell states apart.          *)
(*                                                                         *)
(* The argument.  Pauli operators as terms i^k X^x Z^z form a group, and   *)
(* what the code computes row by row (Multiply, the gates) is what the     *)
(* definitions of Paulis say.  Rows that commute generate a group of       *)
(* commuting operators, Span, which Gaussian elimination does not change   *)
(* and of which it finds the one reduced tableau.  Gates, the columns that *)
(* move up or behind, are symmetries that carry groups to groups.  So      *)
(* every call keeps StatesKept, and the properties follow from it.         *)
(***************************************************************************)
EXTENDS StabilizerStates, FreeNumbers_proofs, SequenceTheorems

-----------------------------------------------------------------------------
(* Counting.                                                               *)

FinSets == {S \in SUBSET Nat : IsFiniteSet(S)}

LEMMA CountIsNat ==
  ASSUME NEW S \in FinSets
  PROVE  Cardinality(S) \in Nat
BY FS_CardinalityType DEF FinSets

LEMMA FiniteParts ==
  ASSUME NEW A \in FinSets, NEW B \in FinSets
  PROVE  /\ A \cap B \in FinSets /\ A \cup B \in FinSets /\ A \ B \in FinSets
         /\ SymDiff(A, B) \in FinSets
<1>1. IsFiniteSet(A \cap B) /\ IsFiniteSet(A \ B) /\ IsFiniteSet(B \ A) /\ IsFiniteSet(A \cup B)
  BY FS_Subset, FS_Union DEF FinSets
<1>2. IsFiniteSet(SymDiff(A, B))
  BY <1>1, FS_Union DEF SymDiff
<1>3. QED
  BY <1>1, <1>2 DEF FinSets, SymDiff

LEMMA CountDisjoint ==
  ASSUME NEW A, NEW B, IsFiniteSet(A), IsFiniteSet(B), A \cap B = {}
  PROVE  Cardinality(A \cup B) = Cardinality(A) + Cardinality(B)
<1>1. Cardinality(A \cup B) = Cardinality(A) + Cardinality(B) - Cardinality(A \cap B)
  BY FS_Union
<1>2. Cardinality(A \cap B) = 0
  BY FS_EmptySet
<1>3. Cardinality(A) \in Nat /\ Cardinality(B) \in Nat
  BY FS_CardinalityType
<1>4. QED
  BY <1>1, <1>2, <1>3

LEMMA CountSymDiff ==
  ASSUME NEW A \in FinSets, NEW B \in FinSets
  PROVE  Cardinality(SymDiff(A, B)) = Cardinality(A) + Cardinality(B) - 2 * Cardinality(A \cap B)
<1> DEFINE C == A \cap B
           D == A \ B
           E == B \ A
<1>1. C \in FinSets /\ D \in FinSets /\ E \in FinSets
  BY FiniteParts
<1>2. IsFiniteSet(C) /\ IsFiniteSet(D) /\ IsFiniteSet(E)
  BY <1>1 DEF FinSets
<1>3. Cardinality(C) \in Nat /\ Cardinality(D) \in Nat /\ Cardinality(E) \in Nat
  BY <1>2, FS_CardinalityType
<1>4. A = C \cup D /\ B = C \cup E /\ SymDiff(A, B) = D \cup E
      /\ C \cap D = {} /\ C \cap E = {} /\ D \cap E = {}
  BY DEF SymDiff
<1> HIDE DEF C, D, E
<1>5. Cardinality(C \cup D) = Cardinality(C) + Cardinality(D)
  BY ONLY <1>2, <1>4, CountDisjoint
<1>6. Cardinality(C \cup E) = Cardinality(C) + Cardinality(E)
  BY ONLY <1>2, <1>4, CountDisjoint
<1>7. Cardinality(D \cup E) = Cardinality(D) + Cardinality(E)
  BY ONLY <1>2, <1>4, CountDisjoint
<1>8. /\ Cardinality(A) = Cardinality(C) + Cardinality(D)
      /\ Cardinality(B) = Cardinality(C) + Cardinality(E)
      /\ Cardinality(SymDiff(A, B)) = Cardinality(D) + Cardinality(E)
  BY ONLY <1>4, <1>5, <1>6, <1>7
<1>9. Cardinality(SymDiff(A, B)) = Cardinality(A) + Cardinality(B) - 2 * Cardinality(C)
  BY ONLY <1>3, <1>8
<1>10. QED
  BY <1>9 DEF C

\* a name for the empty set
NoQubits == {}

LEMMA SymDiffGroup ==
  ASSUME NEW A, NEW B, NEW C
  PROVE  /\ SymDiff(SymDiff(A, B), C) = SymDiff(A, SymDiff(B, C))
         /\ SymDiff(A, B) = SymDiff(B, A)
         /\ SymDiff(A, A) = NoQubits
         /\ SymDiff(A, NoQubits) = A /\ SymDiff(NoQubits, A) = A
BY DEF SymDiff, NoQubits

LEMMA SymDiffIn ==
  ASSUME NEW A \in FinSets, NEW B \in FinSets
  PROVE  SymDiff(A, B) \in FinSets
BY FiniteParts

LEMMA SymDiffDistributes ==
  ASSUME NEW A, NEW B, NEW C
  PROVE  SymDiff(A, B) \cap C = SymDiff(A \cap C, B \cap C)
BY DEF SymDiff

\* the number of qubits in both sets
Meet(A, B) == Cardinality(A \cap B)

LEMMA MeetIsNat ==
  ASSUME NEW A \in FinSets, NEW B \in FinSets
  PROVE  Meet(A, B) \in Nat /\ Meet(A, B) = Meet(B, A)
<1>1. A \cap B = B \cap A
  OBVIOUS
<1>2. A \cap B \in FinSets
  BY FiniteParts
<1>3. QED
  BY <1>1, <1>2, CountIsNat DEF Meet

(* Counting the common elements is linear, modulo 2. *)
LEMMA MeetIsLinear ==
  ASSUME NEW A \in FinSets, NEW B \in FinSets, NEW C \in FinSets
  PROVE  (Meet(SymDiff(A, B), C) + Meet(A, C) + Meet(B, C)) % 2 = 0
<1> DEFINE D == A \cap C
           E == B \cap C
           d == Cardinality(D)
           e == Cardinality(E)
           f == Cardinality(D \cap E)
<1>1. D \in FinSets /\ E \in FinSets
  BY FiniteParts
<1>2. SymDiff(A, B) \cap C = SymDiff(D, E)
  BY ONLY SymDiffDistributes
<1>3. D \cap E \in FinSets
  BY <1>1, FiniteParts
<1>4. f \in Nat /\ d \in Nat /\ e \in Nat
  BY <1>1, <1>3, CountIsNat
<1> HIDE DEF D, E
<1>5. Cardinality(SymDiff(D, E)) = d + e - 2 * f
  BY <1>1, CountSymDiff
<1>6. Meet(SymDiff(A, B), C) = Cardinality(SymDiff(D, E)) /\ Meet(A, C) = d /\ Meet(B, C) = e
  BY <1>2 DEF Meet, D, E
<1> HIDE DEF d, e, f
<1>7. Meet(SymDiff(A, B), C) = d + e - 2 * f
  BY <1>5, <1>6
<1>8. ((d + e - 2 * f) + d + e) % 2 = 0
  BY ONLY <1>4
<1>9. QED
  BY ONLY <1>6, <1>7, <1>8

LEMMA MeetIsLinearToo ==
  ASSUME NEW A \in FinSets, NEW B \in FinSets, NEW C \in FinSets
  PROVE  (Meet(C, SymDiff(A, B)) + Meet(C, A) + Meet(C, B)) % 2 = 0
BY MeetIsLinear, MeetIsNat, SymDiffIn

LEMMA MeetNothing ==
  ASSUME NEW A
  PROVE  Meet(A, NoQubits) = 0 /\ Meet(NoQubits, A) = 0
<1>1. A \cap {} = {} /\ {} \cap A = {}
  OBVIOUS
<1>2. QED
  BY <1>1, FS_EmptySet DEF Meet, NoQubits

-----------------------------------------------------------------------------
(* Terms: a group.                                                         *)

Terms == [x : FinSets, z : FinSets, k : 0 .. 3]

\* Pauli operators on some of the qubits
Ops == [x : FinSets, z : FinSets, neg : BOOLEAN]

LEMMA TimesIs ==
  ASSUME NEW s, NEW t
  PROVE  Times(s, t) = [x |-> SymDiff(s.x, t.x), z |-> SymDiff(s.z, t.z),
                        k |-> (s.k + t.k + 2 * Meet(s.z, t.x)) % 4]
BY DEF Times, Meet

LEMMA TimesIsTerm ==
  ASSUME NEW s \in Terms, NEW t \in Terms
  PROVE  Times(s, t) \in Terms
<1> DEFINE m == Meet(s.z, t.x)
<1>1. /\ s.x \in FinSets /\ s.z \in FinSets /\ t.x \in FinSets /\ t.z \in FinSets
      /\ s.k \in Int /\ t.k \in Int
  BY DEF Terms
<1>2. SymDiff(s.x, t.x) \in FinSets /\ SymDiff(s.z, t.z) \in FinSets /\ m \in Nat
  BY <1>1, SymDiffIn, MeetIsNat
<1> HIDE DEF m
<1>3. (s.k + t.k + 2 * m) % 4 \in 0 .. 3
  BY ONLY <1>1, <1>2
<1>4. QED
  BY <1>2, <1>3, TimesIs DEF Terms, m

LEMMA PhasesAdd ==
  ASSUME NEW i \in Int, NEW j \in Int, NEW k \in Int, NEW a \in Int, NEW b \in Int, NEW c \in Int,
         NEW d \in Int, NEW e \in Int, (b + e + c) % 2 = 0, (d + a + e) % 2 = 0
  PROVE  (((i + j + 2 * a) % 4) + k + 2 * b) % 4 = (i + ((j + k + 2 * c) % 4) + 2 * d) % 4
OBVIOUS

LEMMA TimesAssociates ==
  ASSUME NEW s \in Terms, NEW t \in Terms, NEW u \in Terms
  PROVE  Times(Times(s, t), u) = Times(s, Times(t, u))
<1> DEFINE a == Meet(s.z, t.x)
           b == Meet(SymDiff(s.z, t.z), u.x)
           c == Meet(t.z, u.x)
           d == Meet(s.z, SymDiff(t.x, u.x))
           e == Meet(s.z, u.x)
           i == s.k
           j == t.k
           k == u.k
           xs == SymDiff(SymDiff(s.x, t.x), u.x)
           zs == SymDiff(SymDiff(s.z, t.z), u.z)
<1>1. /\ s.x \in FinSets /\ s.z \in FinSets /\ t.x \in FinSets /\ t.z \in FinSets
      /\ u.x \in FinSets /\ u.z \in FinSets
      /\ i \in Int /\ j \in Int /\ k \in Int
  BY DEF Terms
<1>2. a \in Int /\ b \in Int /\ c \in Int /\ d \in Int /\ e \in Int
  BY <1>1, SymDiffIn, MeetIsNat
<1>3. (b + e + c) % 2 = 0
  BY <1>1, MeetIsLinear
<1>4. (d + a + e) % 2 = 0
  BY <1>1, MeetIsLinearToo
<1>5. Times(Times(s, t), u) = [x |-> xs, z |-> zs, k |-> (((i + j + 2 * a) % 4) + k + 2 * b) % 4]
  BY TimesIs
<1>6. xs = SymDiff(s.x, SymDiff(t.x, u.x)) /\ zs = SymDiff(s.z, SymDiff(t.z, u.z))
  BY SymDiffGroup
<1>7. Times(s, Times(t, u)) = [x |-> SymDiff(s.x, SymDiff(t.x, u.x)), z |-> SymDiff(s.z, SymDiff(t.z, u.z)),
                               k |-> (i + ((j + k + 2 * c) % 4) + 2 * d) % 4]
  BY TimesIs
<1> HIDE DEF a, b, c, d, e, i, j, k, xs, zs
<1>8. (((i + j + 2 * a) % 4) + k + 2 * b) % 4 = (i + ((j + k + 2 * c) % 4) + 2 * d) % 4
  BY ONLY <1>1, <1>2, <1>3, <1>4, PhasesAdd
<1>9. QED
  BY ONLY <1>5, <1>6, <1>7, <1>8

\* Whether two terms, or two operators, commute
LEMMA CommuteIs ==
  ASSUME NEW s, NEW t
  PROVE  Commute(s, t) <=> (Meet(s.x, t.z) + Meet(s.z, t.x)) % 2 = 0
BY DEF Commute, Meet

LEMMA TimesCommutes ==
  ASSUME NEW s \in Terms, NEW t \in Terms, Commute(s, t)
  PROVE  Times(s, t) = Times(t, s)
<1> DEFINE a == Meet(s.z, t.x)
           b == Meet(t.z, s.x)
           i == s.k
           j == t.k
<1>1. /\ s.x \in FinSets /\ s.z \in FinSets /\ t.x \in FinSets /\ t.z \in FinSets
      /\ i \in Int /\ j \in Int
  BY DEF Terms
<1>2. a \in Nat /\ b \in Nat /\ (b + a) % 2 = 0
  BY <1>1, MeetIsNat, CommuteIs
<1>3. Times(s, t) = [x |-> SymDiff(s.x, t.x), z |-> SymDiff(s.z, t.z), k |-> (i + j + 2 * a) % 4]
  BY TimesIs
<1>4. Times(t, s) = [x |-> SymDiff(t.x, s.x), z |-> SymDiff(t.z, s.z), k |-> (j + i + 2 * b) % 4]
  BY TimesIs
<1> HIDE DEF a, b, i, j
<1>5. (i + j + 2 * a) % 4 = (j + i + 2 * b) % 4
  BY ONLY <1>1, <1>2
<1>6. QED
  BY <1>3, <1>4, <1>5, SymDiffGroup

-----------------------------------------------------------------------------
(* Operators and their terms.                                              *)

\* The terms of operators: i appears for each Y.
Real(t) == t \in Terms /\ (t.k + Meet(t.x, t.z)) % 2 = 0

LEMMA OpFields ==
  ASSUME NEW P \in Ops
  PROVE  P.x \in FinSets /\ P.z \in FinSets /\ P.neg \in BOOLEAN
BY DEF Ops

LEMMA TermIs ==
  ASSUME NEW P
  PROVE  Term(P) = [x |-> P.x, z |-> P.z, k |-> (Meet(P.x, P.z) + IF P.neg THEN 2 ELSE 0) % 4]
BY DEF Term, Meet

LEMMA TermIsReal ==
  ASSUME NEW P \in Ops
  PROVE  Real(Term(P)) /\ Term(P).x = P.x /\ Term(P).z = P.z
<1> DEFINE m == Meet(P.x, P.z)
           k == (m + IF P.neg THEN 2 ELSE 0) % 4
<1>1. P.x \in FinSets /\ P.z \in FinSets
  BY OpFields
<1>2. m \in Nat
  BY <1>1, MeetIsNat
<1>3. Term(P) = [x |-> P.x, z |-> P.z, k |-> k]
  BY TermIs
<1>4. k \in 0 .. 3 /\ (k + m) % 2 = 0
  <2> HIDE DEF m
  <2>1. CASE P.neg
    BY <1>2, <2>1
  <2>2. CASE ~P.neg
    BY <1>2, <2>2
  <2>3. QED
    BY <2>1, <2>2
<1>5. QED
  BY <1>1, <1>3, <1>4 DEF Real, Terms

LEMMA OfTermIs ==
  ASSUME NEW t
  PROVE  OfTerm(t) = [x |-> t.x, z |-> t.z, neg |-> t.k # Meet(t.x, t.z) % 4]
BY DEF OfTerm, Meet

LEMMA OfTermOfOp ==
  ASSUME NEW P \in Ops
  PROVE  OfTerm(Term(P)) = P
<1> DEFINE m == Meet(P.x, P.z)
           k == (m + IF P.neg THEN 2 ELSE 0) % 4
<1>1. P.x \in FinSets /\ P.z \in FinSets /\ P.neg \in BOOLEAN
  BY OpFields
<1>2. m \in Nat
  BY <1>1, MeetIsNat
<1>3. OfTerm(Term(P)) = [x |-> P.x, z |-> P.z, neg |-> k # m % 4]
  BY TermIs, OfTermIs
<1> HIDE DEF m
<1>4. (k # m % 4) <=> P.neg
  <2>1. m % 4 # (m + 2) % 4 /\ (m + 0) % 4 = m % 4
    BY <1>2
  <2>2. QED
    BY <2>1
<1>5. QED
  BY <1>3, <1>4 DEF Ops

LEMMA TermOfReal ==
  ASSUME NEW t, Real(t)
  PROVE  /\ OfTerm(t) \in Ops
         /\ OfTerm(t).x = t.x /\ OfTerm(t).z = t.z
         /\ Term(OfTerm(t)) = t
<1> DEFINE m == Meet(t.x, t.z)
           neg == t.k # m % 4
<1>1. t.x \in FinSets /\ t.z \in FinSets /\ t.k \in 0 .. 3 /\ (t.k + m) % 2 = 0
  BY DEF Real, Terms
<1>2. m \in Nat
  BY <1>1, MeetIsNat
<1>3. OfTerm(t) = [x |-> t.x, z |-> t.z, neg |-> neg]
  BY OfTermIs
<1>4. neg \in BOOLEAN
  OBVIOUS
<1> HIDE DEF neg
<1>5. Term(OfTerm(t)) = [x |-> t.x, z |-> t.z, k |-> (m + IF neg THEN 2 ELSE 0) % 4]
  <2>1. OfTerm(t).x = t.x /\ OfTerm(t).z = t.z /\ OfTerm(t).neg = neg
    BY <1>3
  <2>2. QED
    BY ONLY <2>1, TermIs
<1>6. (m + IF neg THEN 2 ELSE 0) % 4 = t.k
  <2> DEFINE k == t.k
  <2>0. k \in 0 .. 3 /\ (k + m) % 2 = 0
    BY <1>1
  <2> HIDE DEF m, k
  <2>1. (m + 0) % 4 = m % 4 /\ (k # m % 4 => (m + 2) % 4 = k)
    BY ONLY <1>2, <2>0
  <2>2. QED
    BY <2>1 DEF k, neg
<1>7. OfTerm(t) \in Ops
  BY <1>1, <1>3, <1>4 DEF Ops
<1>8. Term(OfTerm(t)) = t
  BY <1>5, <1>6 DEF Real, Terms
<1>9. QED
  BY <1>3, <1>7, <1>8

LEMMA CommuteSymmetric ==
  ASSUME NEW P, NEW R, P.x \in FinSets, P.z \in FinSets, R.x \in FinSets, R.z \in FinSets
  PROVE  Commute(P, R) <=> Commute(R, P)
<1>1. /\ Meet(P.x, R.z) = Meet(R.z, P.x) /\ Meet(P.z, R.x) = Meet(R.x, P.z)
      /\ Meet(P.x, R.z) \in Nat /\ Meet(P.z, R.x) \in Nat
  BY MeetIsNat
<1>2. QED
  BY <1>1, CommuteIs

LEMMA CommuteLinear ==
  ASSUME NEW P, NEW R, NEW S, NEW T,
         P.x \in FinSets, P.z \in FinSets, R.x \in FinSets, R.z \in FinSets,
         S.x \in FinSets, S.z \in FinSets,
         T.x = SymDiff(R.x, S.x), T.z = SymDiff(R.z, S.z)
  PROVE  Commute(P, T) <=> (Commute(P, R) <=> Commute(P, S))
<1> DEFINE a == Meet(P.x, T.z)
           b == Meet(P.z, T.x)
           c == Meet(P.x, R.z)
           d == Meet(P.z, R.x)
           e == Meet(P.x, S.z)
           f == Meet(P.z, S.x)
<1>1. T.x \in FinSets /\ T.z \in FinSets
  BY SymDiffIn
<1>2. a \in Nat /\ b \in Nat /\ c \in Nat /\ d \in Nat /\ e \in Nat /\ f \in Nat
  BY <1>1, MeetIsNat
<1>3. (a + c + e) % 2 = 0 /\ (b + d + f) % 2 = 0
  BY MeetIsLinearToo
<1>4. /\ Commute(P, T) <=> (a + b) % 2 = 0
      /\ Commute(P, R) <=> (c + d) % 2 = 0
      /\ Commute(P, S) <=> (e + f) % 2 = 0
  BY CommuteIs
<1> HIDE DEF a, b, c, d, e, f
<1>5. (a + b) % 2 = 0 <=> ((c + d) % 2 = 0 <=> (e + f) % 2 = 0)
  BY ONLY <1>2, <1>3
<1>6. QED
  BY ONLY <1>4, <1>5

LEMMA TermsCommuteToo ==
  ASSUME NEW P \in Ops, NEW R \in Ops
  PROVE  Commute(Term(P), Term(R)) <=> Commute(P, R)
BY TermIsReal, CommuteIs

LEMMA TimesIsReal ==
  ASSUME NEW s, NEW t, Real(s), Real(t), Commute(s, t)
  PROVE  Real(Times(s, t))
<1> DEFINE a == Meet(s.z, t.x)
           b == Meet(s.x, t.z)
           c == Meet(s.x, s.z)
           d == Meet(t.x, t.z)
           e == Meet(SymDiff(s.x, t.x), SymDiff(s.z, t.z))
           f == Meet(SymDiff(s.x, t.x), s.z)
           g == Meet(SymDiff(s.x, t.x), t.z)
           i == s.k
           j == t.k
           k == (i + j + 2 * a) % 4
<1>1. /\ s.x \in FinSets /\ s.z \in FinSets /\ t.x \in FinSets /\ t.z \in FinSets
      /\ i \in Int /\ j \in Int /\ (i + c) % 2 = 0 /\ (j + d) % 2 = 0
      /\ s \in Terms /\ t \in Terms
  BY DEF Real, Terms
<1>2. SymDiff(s.x, t.x) \in FinSets /\ SymDiff(s.z, t.z) \in FinSets
  BY <1>1, SymDiffIn
<1>3. /\ a \in Nat /\ b \in Nat /\ c \in Nat /\ d \in Nat /\ e \in Nat /\ f \in Nat /\ g \in Nat
      /\ Meet(t.x, s.z) = a
  BY <1>1, <1>2, MeetIsNat
<1>4. (e + f + g) % 2 = 0
  BY <1>1, <1>2, MeetIsLinearToo
<1>5. (f + c + a) % 2 = 0
  BY <1>1, <1>3, MeetIsLinear
<1>6. (g + b + d) % 2 = 0
  BY <1>1, MeetIsLinear
<1>7. (b + a) % 2 = 0
  BY CommuteIs
<1>8. Times(s, t) = [x |-> SymDiff(s.x, t.x), z |-> SymDiff(s.z, t.z), k |-> k]
  BY TimesIs
<1>9. Times(s, t) \in Terms
  BY <1>1, TimesIsTerm
<1>10. (k + e) % 2 = 0
  <2> HIDE DEF a, b, c, d, e, f, g, i, j
  <2>1. QED
    BY ONLY <1>1, <1>3, <1>4, <1>5, <1>6, <1>7
<1> HIDE DEF k
<1>11. QED
  BY <1>8, <1>9, <1>10 DEF Real

LEMMA ProductFields ==
  ASSUME NEW P, NEW R
  PROVE  Product(P, R).x = SymDiff(P.x, R.x) /\ Product(P, R).z = SymDiff(P.z, R.z)
BY TermIs, TimesIs, OfTermIs DEF Product

(* Commuting operators multiply as their terms do. *)
LEMMA ProductIsOp ==
  ASSUME NEW P \in Ops, NEW R \in Ops, Commute(P, R)
  PROVE  Product(P, R) \in Ops /\ Term(Product(P, R)) = Times(Term(P), Term(R))
BY TermIsReal, TermsCommuteToo, TimesIsReal, TermOfReal DEF Product

LEMMA ProductCommutes ==
  ASSUME NEW P \in Ops, NEW R \in Ops, Commute(P, R)
  PROVE  Product(P, R) = Product(R, P)
BY TermIsReal, TermsCommuteToo, TimesCommutes DEF Product, Real

LEMMA CommutesWithProduct ==
  ASSUME NEW P \in Ops, NEW R \in Ops, NEW S \in Ops
  PROVE  Commute(P, Product(R, S)) <=> (Commute(P, R) <=> Commute(P, S))
BY OpFields, ProductFields, CommuteLinear

LEMMA CommuteBoth ==
  ASSUME NEW P \in Ops, NEW R \in Ops
  PROVE  Commute(P, R) <=> Commute(R, P)
BY OpFields, CommuteSymmetric

LEMMA ProductAssociates ==
  ASSUME NEW P \in Ops, NEW R \in Ops, NEW S \in Ops,
         Commute(P, R), Commute(P, S), Commute(R, S)
  PROVE  Product(Product(P, R), S) = Product(P, Product(R, S))
<1>1. /\ Product(P, R) \in Ops /\ Term(Product(P, R)) = Times(Term(P), Term(R))
      /\ Product(R, S) \in Ops /\ Term(Product(R, S)) = Times(Term(R), Term(S))
  BY ProductIsOp
<1>2. Times(Times(Term(P), Term(R)), Term(S)) = Times(Term(P), Times(Term(R), Term(S)))
  BY TermIsReal, TimesAssociates DEF Real
<1>3. QED
  BY <1>1, <1>2 DEF Product

LEMMA IdentityIsOp ==
  /\ Identity \in Ops /\ Minus(Identity) \in Ops
  /\ Identity # Minus(Identity)
  /\ Identity.x = NoQubits /\ Identity.z = NoQubits /\ Identity.neg = FALSE
<1>1. NoQubits \in FinSets
  BY FS_EmptySet DEF FinSets, NoQubits
<1>2. Identity = [x |-> NoQubits, z |-> NoQubits, neg |-> FALSE]
  BY DEF Identity, NoQubits
<1>3. QED
  BY <1>1, <1>2 DEF Minus, Ops

LEMMA ProductWithIdentity ==
  ASSUME NEW P \in Ops
  PROVE  /\ Product(Identity, P) = P /\ Product(P, Identity) = P
         /\ Commute(P, Identity) /\ Commute(Identity, P)
<1> DEFINE k == Term(P).k
<1>1. k \in 0 .. 3 /\ Term(P) = [x |-> P.x, z |-> P.z, k |-> k]
  BY TermIsReal, TermIs DEF Real, Terms
<1>2. Term(Identity) = [x |-> NoQubits, z |-> NoQubits, k |-> 0]
  BY TermIs, IdentityIsOp, MeetNothing
<1>3. Times(Term(Identity), Term(P)) = [x |-> P.x, z |-> P.z, k |-> (0 + k + 2 * 0) % 4]
  BY <1>1, <1>2, TimesIs, MeetNothing, SymDiffGroup
<1>4. Times(Term(P), Term(Identity)) = [x |-> P.x, z |-> P.z, k |-> (k + 0 + 2 * 0) % 4]
  BY <1>1, <1>2, TimesIs, MeetNothing, SymDiffGroup
<1>5. (0 + k + 2 * 0) % 4 = k /\ (k + 0 + 2 * 0) % 4 = k
  BY <1>1
<1>6. Product(Identity, P) = P /\ Product(P, Identity) = P
  BY <1>1, <1>3, <1>4, <1>5, OfTermOfOp DEF Product
<1>7. Commute(P, Identity) /\ Commute(Identity, P)
  BY CommuteIs, IdentityIsOp, MeetNothing
<1>8. QED
  BY <1>6, <1>7

LEMMA CommutesWithItself ==
  ASSUME NEW P \in Ops
  PROVE  Commute(P, P)
<1>1. Meet(P.x, P.z) = Meet(P.z, P.x) /\ Meet(P.x, P.z) \in Nat
  BY OpFields, MeetIsNat
<1>2. QED
  BY <1>1, CommuteIs

LEMMA ProductWithItself ==
  ASSUME NEW P \in Ops
  PROVE  Product(P, P) = Identity
<1> DEFINE m == Meet(P.x, P.z)
           k == Term(P).k
<1>1. m \in Nat /\ m = Meet(P.z, P.x)
  BY OpFields, MeetIsNat
<1>2. k \in 0 .. 3 /\ (k + m) % 2 = 0 /\ Term(P) = [x |-> P.x, z |-> P.z, k |-> k]
  BY TermIsReal, TermIs DEF Real, Terms
<1>3. Times(Term(P), Term(P)) = [x |-> NoQubits, z |-> NoQubits, k |-> (k + k + 2 * m) % 4]
  <2>1. Term(P).x = P.x /\ Term(P).z = P.z
    BY TermIsReal
  <2>2. Times(Term(P), Term(P)) = [x |-> SymDiff(P.x, P.x), z |-> SymDiff(P.z, P.z),
                                   k |-> (k + k + 2 * Meet(P.z, P.x)) % 4]
    BY <2>1, TimesIs
  <2>3. QED
    BY ONLY <1>1, <2>2, SymDiffGroup
<1>4. (k + k + 2 * m) % 4 = 0
  <2> HIDE DEF k, m
  <2>1. QED
    BY ONLY <1>1, <1>2
<1>5. OfTerm([x |-> NoQubits, z |-> NoQubits, k |-> 0]) = [x |-> NoQubits, z |-> NoQubits, neg |-> FALSE]
  BY ONLY OfTermIs, MeetNothing, 0 % 4 = 0
<1>6. QED
  BY <1>3, <1>4, <1>5 DEF Product, Identity, NoQubits

LEMMA MinusIs ==
  ASSUME NEW P \in Ops
  PROVE  /\ Minus(P) \in Ops /\ Minus(P).x = P.x /\ Minus(P).z = P.z /\ Minus(P).neg = ~P.neg
         /\ Minus(Minus(P)) = P /\ Minus(P) # P
         /\ Term(Minus(P)).k = (Term(P).k + 2) % 4
<1>1. /\ Minus(P) \in Ops /\ Minus(P).x = P.x /\ Minus(P).z = P.z /\ Minus(P).neg = ~P.neg
      /\ Minus(Minus(P)) = P /\ Minus(P) # P
  BY DEF Minus, Ops
<1> DEFINE m == Meet(P.x, P.z)
<1>2. m \in Nat
  BY OpFields, MeetIsNat
<1>3. /\ Term(P).k = (m + IF P.neg THEN 2 ELSE 0) % 4
      /\ Term(Minus(P)).k = (m + IF ~P.neg THEN 2 ELSE 0) % 4
  BY <1>1, TermIs
<1> HIDE DEF m
<1>4. (m + IF ~P.neg THEN 2 ELSE 0) % 4 = (((m + IF P.neg THEN 2 ELSE 0) % 4) + 2) % 4
  <2>1. CASE P.neg
    BY <1>2, <2>1
  <2>2. CASE ~P.neg
    BY <1>2, <2>2
  <2>3. QED
    BY <2>1, <2>2
<1>5. QED
  BY <1>1, <1>3, <1>4

LEMMA CommutesWithMinus ==
  ASSUME NEW P \in Ops, NEW R \in Ops
  PROVE  Commute(P, Minus(R)) <=> Commute(P, R)
BY MinusIs, CommuteIs

LEMMA SameUpToSign ==
  ASSUME NEW P \in Ops, NEW R \in Ops, P.x = R.x, P.z = R.z
  PROVE  P = R \/ P = Minus(R)
BY DEF Ops, Minus

LEMMA ProductOfMinus ==
  ASSUME NEW P \in Ops, NEW R \in Ops, Commute(P, R)
  PROVE  Product(P, Minus(R)) = Minus(Product(P, R))
<1>1. Minus(R) \in Ops /\ Commute(P, Minus(R))
  BY MinusIs, CommutesWithMinus
<1>2. Product(P, R) \in Ops /\ Product(P, Minus(R)) \in Ops
  BY <1>1, ProductIsOp
<1>3. Product(P, Minus(R)).x = Product(P, R).x /\ Product(P, Minus(R)).z = Product(P, R).z
  BY <1>1, MinusIs, ProductFields
<1>4. Term(Product(P, R)).k # Term(Product(P, Minus(R))).k
  <2> DEFINE i == Term(P).k
             j == Term(R).k
             k == Term(Minus(R)).k
             m == Meet(P.z, R.x)
  <2>1. i \in 0 .. 3 /\ j \in 0 .. 3 /\ k = (j + 2) % 4
    BY TermIsReal, MinusIs DEF Real, Terms
  <2>2. m \in Nat
    BY OpFields, MeetIsNat
  <2>3. Term(Product(P, R)).k = (i + j + 2 * m) % 4
    BY ProductIsOp, TimesIs, TermIsReal
  <2>4. Term(Product(P, Minus(R))).k = (i + k + 2 * m) % 4
    BY <1>1, ProductIsOp, TimesIs, TermIsReal, MinusIs
  <2> HIDE DEF i, j, k, m
  <2>5. (i + j + 2 * m) % 4 # (i + k + 2 * m) % 4
    BY ONLY <2>1, <2>2
  <2>6. QED
    BY ONLY <2>3, <2>4, <2>5
<1>5. Product(P, Minus(R)) = Minus(Product(P, R))
  <2>1. Product(P, Minus(R)) # Product(P, R)
    BY <1>4
  <2>2. QED
    BY <1>2, <1>3, <2>1, SameUpToSign
<1>6. QED
  BY <1>5

-----------------------------------------------------------------------------
(* What an operator does at one qubit, and elsewhere.  Bits are numbers.   *)

Bits == {0, 1}
Xor(a, b) == IF a = b THEN 0 ELSE 1
And(a, b) == IF a = 1 /\ b = 1 THEN 1 ELSE 0
BitOf(on) == IF on THEN 1 ELSE 0

LEMMA BitsAreClosed ==
  ASSUME NEW a \in Bits, NEW b \in Bits
  PROVE  Xor(a, b) \in Bits /\ And(a, b) \in Bits
BY DEF Xor, And, Bits

LEMMA BitOfIsBit ==
  ASSUME NEW on
  PROVE  BitOf(on) \in Bits /\ (BitOf(on) = 1 <=> on)
BY DEF BitOf, Bits

With(X, q, a) == IF a = 1 THEN X \cup {q} ELSE X

\* X and Z are the places away from q, a and b whether X and Z are at q.
OpAt(q, X, Z, a, b, s) == [x |-> With(X, q, a), z |-> With(Z, q, b), neg |-> s = 1]
TermAt(q, X, Z, a, b, k) == [x |-> With(X, q, a), z |-> With(Z, q, b), k |-> k]

Apart(q, X) == X \in FinSets /\ q \notin X

LEMMA WithIsFinite ==
  ASSUME NEW q \in Nat, NEW a, NEW X \in FinSets
  PROVE  With(X, q, a) \in FinSets
<1>1. {q} \in FinSets
  BY FS_Singleton DEF FinSets
<1>2. X \cup {q} \in FinSets
  BY <1>1, FiniteParts
<1>3. QED
  BY <1>2 DEF With

LEMMA InWith ==
  ASSUME NEW q, NEW X, q \notin X, NEW a
  PROVE  /\ q \in With(X, q, a) <=> a = 1
         /\ \A r : r # q => (r \in With(X, q, a) <=> r \in X)
BY DEF With

LEMMA SymDiffApart ==
  ASSUME NEW q, NEW X, NEW Y, Apart(q, X), Apart(q, Y)
  PROVE  Apart(q, SymDiff(X, Y))
<1>1. SymDiff(X, Y) \in FinSets
  BY SymDiffIn DEF Apart
<1>2. q \notin SymDiff(X, Y)
  BY DEF SymDiff, Apart
<1>3. QED
  BY <1>1, <1>2 DEF Apart

LEMMA SymDiffWith ==
  ASSUME NEW q, NEW X, NEW Y, Apart(q, X), Apart(q, Y), NEW a \in Bits, NEW b \in Bits
  PROVE  SymDiff(With(X, q, a), With(Y, q, b)) = With(SymDiff(X, Y), q, Xor(a, b))
<1>1. q \notin X /\ q \notin Y
  BY DEF Apart
<1>3. SymDiff(With(X, q, a), With(Y, q, b)) = With(SymDiff(X, Y), q, Xor(a, b))
  <2>1. CASE a = 1 /\ b = 1
    BY <1>1, <2>1 DEF SymDiff, With, Xor
  <2>2. CASE a = 1 /\ b = 0
    BY <1>1, <2>2 DEF SymDiff, With, Xor
  <2>3. CASE a = 0 /\ b = 1
    BY <1>1, <2>3 DEF SymDiff, With, Xor
  <2>4. CASE a = 0 /\ b = 0
    BY <1>1, <2>4 DEF SymDiff, With, Xor
  <2>5. (a = 1 /\ b = 1) \/ (a = 1 /\ b = 0) \/ (a = 0 /\ b = 1) \/ (a = 0 /\ b = 0)
    BY DEF Bits
  <2>6. QED
    BY ONLY <2>1, <2>2, <2>3, <2>4, <2>5
<1>4. QED
  BY ONLY <1>3

LEMMA MeetWith ==
  ASSUME NEW q, NEW X, NEW Z, Apart(q, X), Apart(q, Z), NEW a \in Bits, NEW b \in Bits
  PROVE  Meet(With(X, q, a), With(Z, q, b)) = Meet(X, Z) + And(a, b) /\ Meet(X, Z) \in Nat
<1> DEFINE M == X \cap Z
<1>1. IsFiniteSet(M) /\ q \notin M /\ Cardinality(M) \in Nat
  BY FiniteParts, CountIsNat DEF FinSets, Apart
<1>2. CASE a = 1 /\ b = 1
  <2>1. With(X, q, a) \cap With(Z, q, b) = M \cup {q}
    BY <1>2 DEF With
  <2> HIDE DEF M
  <2>2. Cardinality(M \cup {q}) = Cardinality(M) + 1
    BY <1>1, FS_AddElement
  <2>3. QED
    BY <1>1, <1>2, <2>1, <2>2 DEF Meet, And, M
<1>3. CASE ~(a = 1 /\ b = 1)
  <2>1. With(X, q, a) \cap With(Z, q, b) = M
    BY <1>3 DEF With, Apart
  <2>2. Cardinality(M) = Cardinality(M) + 0
    BY <1>1
  <2>3. QED
    BY <1>1, <1>3, <2>1, <2>2 DEF Meet, And
<1>4. QED
  BY <1>2, <1>3

LEMMA SplitAt ==
  ASSUME NEW q \in Nat, NEW S \in FinSets
  PROVE  Apart(q, S \ {q}) /\ S = With(S \ {q}, q, BitOf(q \in S))
<1>1. S \ {q} \in FinSets /\ q \notin S \ {q}
  BY FS_RemoveElement DEF FinSets
<1>2. CASE q \in S
  <2>1. BitOf(q \in S) = 1
    BY <1>2 DEF BitOf
  <2>2. QED
    BY <1>1, <1>2, <2>1 DEF With, Apart
<1>3. CASE q \notin S
  <2>1. BitOf(q \in S) # 1
    BY <1>3 DEF BitOf
  <2>2. QED
    BY <1>1, <1>3, <2>1 DEF With, Apart
<1>4. QED
  BY <1>2, <1>3

LEMMA OpIsAt ==
  ASSUME NEW q \in Nat, NEW P \in Ops
  PROVE  /\ Apart(q, P.x \ {q}) /\ Apart(q, P.z \ {q})
         /\ P = OpAt(q, P.x \ {q}, P.z \ {q}, BitOf(q \in P.x), BitOf(q \in P.z), BitOf(P.neg))
         /\ BitOf(q \in P.x) \in Bits /\ BitOf(q \in P.z) \in Bits /\ BitOf(P.neg) \in Bits
<1>1. P = [x |-> P.x, z |-> P.z, neg |-> P.neg]
  BY DEF Ops
<1>2. /\ Apart(q, P.x \ {q}) /\ P.x = With(P.x \ {q}, q, BitOf(q \in P.x))
      /\ Apart(q, P.z \ {q}) /\ P.z = With(P.z \ {q}, q, BitOf(q \in P.z))
  BY OpFields, SplitAt
<1>3. P.neg = (BitOf(P.neg) = 1)
  BY OpFields, BitOfIsBit
<1>4. QED
  BY <1>1, <1>2, <1>3, BitOfIsBit DEF OpAt

LEMMA OpAtIsOp ==
  ASSUME NEW q \in Nat, NEW X, NEW Z, Apart(q, X), Apart(q, Z), NEW a, NEW b, NEW s
  PROVE  OpAt(q, X, Z, a, b, s) \in Ops
BY WithIsFinite DEF OpAt, Ops, Apart

LEMMA TermOfAt ==
  ASSUME NEW q, NEW X, NEW Z, Apart(q, X), Apart(q, Z),
         NEW a \in Bits, NEW b \in Bits, NEW s \in Bits
  PROVE  Term(OpAt(q, X, Z, a, b, s)) =
           TermAt(q, X, Z, a, b, (Meet(X, Z) + And(a, b) + 2 * s) % 4)
<1> DEFINE P == OpAt(q, X, Z, a, b, s)
<1>1. P.x = With(X, q, a) /\ P.z = With(Z, q, b) /\ (P.neg <=> s = 1)
  BY DEF OpAt
<1>2. Meet(With(X, q, a), With(Z, q, b)) = Meet(X, Z) + And(a, b)
  BY MeetWith
<1> HIDE DEF P
<1>3. Term(P) = [x |-> With(X, q, a), z |-> With(Z, q, b),
                 k |-> (Meet(With(X, q, a), With(Z, q, b)) + IF P.neg THEN 2 ELSE 0) % 4]
  BY ONLY <1>1, TermIs
<1>4. (IF P.neg THEN 2 ELSE 0) = 2 * s
  BY <1>1 DEF Bits
<1>5. QED
  BY ONLY <1>2, <1>3, <1>4 DEF TermAt, P

SignOf(k, m) == IF k = m % 4 THEN 0 ELSE 1

LEMMA OfTermAt ==
  ASSUME NEW q, NEW X, NEW Z, Apart(q, X), Apart(q, Z), NEW a \in Bits, NEW b \in Bits, NEW k
  PROVE  OfTerm(TermAt(q, X, Z, a, b, k)) =
           OpAt(q, X, Z, a, b, SignOf(k, Meet(X, Z) + And(a, b)))
<1> DEFINE t == TermAt(q, X, Z, a, b, k)
<1>1. t.x = With(X, q, a) /\ t.z = With(Z, q, b) /\ t.k = k
  BY DEF TermAt
<1>2. Meet(With(X, q, a), With(Z, q, b)) = Meet(X, Z) + And(a, b)
  BY MeetWith
<1> HIDE DEF t
<1>3. OfTerm(t) = [x |-> With(X, q, a), z |-> With(Z, q, b),
                   neg |-> k # Meet(With(X, q, a), With(Z, q, b)) % 4]
  BY ONLY <1>1, OfTermIs
<1>4. (k # (Meet(X, Z) + And(a, b)) % 4) = (SignOf(k, Meet(X, Z) + And(a, b)) = 1)
  BY DEF SignOf
<1>5. QED
  BY ONLY <1>2, <1>3, <1>4 DEF OpAt, t

PhaseSum(k, l, m, n) == (k + l + 2 * (m + n)) % 4

\* the parts of a term
IsLocal(q, X, Z, a, b, k) ==
  q \in Nat /\ Apart(q, X) /\ Apart(q, Z) /\ a \in Bits /\ b \in Bits /\ k \in Int

LEMMA TimesAt ==
  ASSUME NEW q, NEW X, NEW Z, NEW a, NEW b, NEW k, IsLocal(q, X, Z, a, b, k),
         NEW U, NEW V, NEW c, NEW d, NEW l, IsLocal(q, U, V, c, d, l)
  PROVE  Times(TermAt(q, X, Z, a, b, k), TermAt(q, U, V, c, d, l)) =
           TermAt(q, SymDiff(X, U), SymDiff(Z, V), Xor(a, c), Xor(b, d),
                  PhaseSum(k, l, Meet(Z, U), And(b, c)))
<1>7. /\ q \in Nat /\ Apart(q, X) /\ Apart(q, Z) /\ Apart(q, U) /\ Apart(q, V)
      /\ a \in Bits /\ b \in Bits /\ c \in Bits /\ d \in Bits /\ k \in Int /\ l \in Int
  BY DEF IsLocal
<1> DEFINE s == TermAt(q, X, Z, a, b, k)
           t == TermAt(q, U, V, c, d, l)
<1>1. /\ s.x = With(X, q, a) /\ s.z = With(Z, q, b) /\ s.k = k
      /\ t.x = With(U, q, c) /\ t.z = With(V, q, d) /\ t.k = l
  BY DEF TermAt
<1>2. Meet(With(Z, q, b), With(U, q, c)) = Meet(Z, U) + And(b, c)
  BY <1>7, MeetWith
<1>3. SymDiff(With(X, q, a), With(U, q, c)) = With(SymDiff(X, U), q, Xor(a, c))
  BY <1>7, SymDiffWith
<1>6. SymDiff(With(Z, q, b), With(V, q, d)) = With(SymDiff(Z, V), q, Xor(b, d))
  BY <1>7, SymDiffWith
<1> HIDE DEF s, t
<1>4. Times(s, t) = [x |-> SymDiff(With(X, q, a), With(U, q, c)),
                     z |-> SymDiff(With(Z, q, b), With(V, q, d)),
                     k |-> (k + l + 2 * Meet(With(Z, q, b), With(U, q, c))) % 4]
  BY ONLY <1>1, TimesIs
<1>5. QED
  BY ONLY <1>2, <1>3, <1>4, <1>6 DEF TermAt, PhaseSum, s, t

LEMMA CommuteAt ==
  ASSUME NEW q, NEW X, NEW Z, NEW U, NEW V,
         Apart(q, X), Apart(q, Z), Apart(q, U), Apart(q, V),
         NEW a \in Bits, NEW b \in Bits, NEW c \in Bits, NEW d \in Bits, NEW s, NEW t
  PROVE  Commute(OpAt(q, X, Z, a, b, s), OpAt(q, U, V, c, d, t)) <=>
           (Meet(X, V) + Meet(Z, U) + And(a, d) + And(b, c)) % 2 = 0
<1> DEFINE P == OpAt(q, X, Z, a, b, s)
           R == OpAt(q, U, V, c, d, t)
           m == Meet(X, V)
           n == Meet(Z, U)
           i == And(a, d)
           j == And(b, c)
<1>1. P.x = With(X, q, a) /\ P.z = With(Z, q, b) /\ R.x = With(U, q, c) /\ R.z = With(V, q, d)
  BY DEF OpAt
<1>2. /\ Meet(With(X, q, a), With(V, q, d)) = m + i
      /\ Meet(With(Z, q, b), With(U, q, c)) = n + j
      /\ m \in Nat /\ n \in Nat
  BY MeetWith
<1>3. i \in Int /\ j \in Int
  BY DEF And
<1> HIDE DEF P, R, m, n, i, j
<1>4. Commute(P, R) <=> (m + i + n + j) % 2 = 0
  <2>1. Commute(P, R) <=> (Meet(P.x, R.z) + Meet(P.z, R.x)) % 2 = 0
    BY ONLY CommuteIs
  <2>2. (Meet(P.x, R.z) + Meet(P.z, R.x)) = (m + i) + (n + j)
    BY ONLY <1>1, <1>2
  <2>3. QED
    BY <1>2, <1>3, <2>1, <2>2
<1>5. m + i + n + j = m + n + i + j
  BY <1>2, <1>3
<1>6. QED
  BY <1>4, <1>5 DEF P, R, m, n, i, j

-----------------------------------------------------------------------------
(* Gates on one qubit.                                                     *)

\* where X and Z are after a gate if they were there before for a and b, and
\* whether the sign changes
NewX(name, a, b) ==
  IF name = "H" THEN b ELSE IF name \in {"K", "sqrt_minIX"} THEN Xor(a, b) ELSE a
NewZ(name, a, b) ==
  IF name = "H" THEN a ELSE IF name \in {"S", "sqrt_IZ"} THEN Xor(a, b) ELSE b
Flips(name, a, b) ==
  CASE name = "X" -> b
    [] name = "Y" -> Xor(a, b)
    [] name = "Z" -> a
    [] name \in {"H", "S"} -> And(a, b)
    [] name \in {"K", "sqrt_IZ"} -> And(a, 1 - b)
    [] name = "sqrt_minIX" -> And(1 - a, b)

LEMMA ToggleWith ==
  ASSUME NEW q, NEW X, q \notin X, NEW a \in Bits
  PROVE  SymDiff(With(X, q, a), {q}) = With(X, q, Xor(a, 1)) /\ Xor(a, 0) = a
<1>1. CASE a = 1
  BY <1>1 DEF With, SymDiff, Xor
<1>2. CASE a = 0
  BY <1>2 DEF With, SymDiff, Xor
<1>3. QED
  BY <1>1, <1>2 DEF Bits

LEMMA PutWith ==
  ASSUME NEW q, NEW X, q \notin X, NEW a \in Bits
  PROVE  /\ With(X, q, a) \cup {q} = With(X, q, 1)
         /\ With(X, q, a) \ {q} = With(X, q, 0)
BY DEF With

LEMMA SameFields ==
  ASSUME NEW P \in Ops, NEW R \in Ops, P.x = R.x, P.z = R.z, P.neg = R.neg
  PROVE  P = R
BY DEF Ops

LEMMA MinusAt ==
  ASSUME NEW q \in Nat, NEW X, NEW Z, Apart(q, X), Apart(q, Z), NEW a, NEW b, NEW s \in Bits
  PROVE  Minus(OpAt(q, X, Z, a, b, s)) = OpAt(q, X, Z, a, b, Xor(s, 1))
<1> DEFINE P == OpAt(q, X, Z, a, b, s)
           R == OpAt(q, X, Z, a, b, Xor(s, 1))
<1>1. P \in Ops /\ R \in Ops
  BY OpAtIsOp
<1>2. P.x = R.x /\ P.z = R.z /\ P.neg = (s = 1) /\ R.neg = (Xor(s, 1) = 1)
  BY DEF OpAt
<1>3. ~(s = 1) <=> (Xor(s, 1) = 1)
  BY DEF Bits, Xor
<1> HIDE DEF P, R
<1>4. Minus(P) \in Ops /\ Minus(P).x = P.x /\ Minus(P).z = P.z /\ Minus(P).neg = ~P.neg
  BY <1>1, MinusIs
<1>5. Minus(P).neg = R.neg
  BY <1>2, <1>3, <1>4
<1>6. Minus(P) = R
  BY <1>1, <1>2, <1>4, <1>5, SameFields
<1>7. QED
  BY <1>6 DEF P, R

\* P, or its opposite if f is 1
Times1(P, f) == IF f = 1 THEN Minus(P) ELSE P

LEMMA FlipAt ==
  ASSUME NEW q \in Nat, NEW X, NEW Z, Apart(q, X), Apart(q, Z), NEW a, NEW b, NEW s \in Bits, NEW f \in Bits
  PROVE  Times1(OpAt(q, X, Z, a, b, s), f) = OpAt(q, X, Z, a, b, Xor(s, f))
<1>1. CASE f = 1
  BY <1>1, MinusAt DEF Times1
<1>2. CASE f = 0
  <2>1. Xor(s, 0) = s
    BY DEF Bits, Xor
  <2>2. QED
    BY <1>2, <2>1 DEF Times1
<1>3. QED
  BY <1>1, <1>2 DEF Bits

LEMMA FieldsAt ==
  ASSUME NEW q \in Nat, NEW X, NEW Z, Apart(q, X), Apart(q, Z), NEW a, NEW b, NEW s
  PROVE  LET P == OpAt(q, X, Z, a, b, s) IN
         /\ P \in Ops
         /\ P.x = With(X, q, a) /\ P.z = With(Z, q, b)
         /\ P = [x |-> P.x, z |-> P.z, neg |-> P.neg]
         /\ P.neg = (s = 1)
         /\ q \in P.x <=> a = 1
         /\ q \in P.z <=> b = 1
BY OpAtIsOp, InWith DEF OpAt, Apart

LEMMA XAndYAndZAt ==
  ASSUME NEW q \in Nat, NEW X, NEW Z, Apart(q, X), Apart(q, Z),
         NEW a \in Bits, NEW b \in Bits, NEW s \in Bits
  PROVE  LET P == OpAt(q, X, Z, a, b, s) IN
         /\ ApplyX(P, q) = OpAt(q, X, Z, a, b, Xor(s, b))
         /\ ApplyY(P, q) = OpAt(q, X, Z, a, b, Xor(s, Xor(a, b)))
         /\ ApplyZ(P, q) = OpAt(q, X, Z, a, b, Xor(s, a))
<1> DEFINE P == OpAt(q, X, Z, a, b, s)
           c == Xor(a, b)
<1>1. P \in Ops
      /\ (q \in P.x <=> a = 1)
      /\ (q \in P.z <=> b = 1)
  BY FieldsAt
<1>2. c \in Bits /\ (((q \in P.x) # (q \in P.z)) <=> c = 1)
  BY <1>1 DEF Xor, Bits
<1> HIDE DEF P, c
<1>3. ApplyX(P, q) = Times1(P, b)
  BY <1>1 DEF ApplyX, FlipIf, Times1, Minus, Ops
<1>4. ApplyZ(P, q) = Times1(P, a)
  BY <1>1 DEF ApplyZ, FlipIf, Times1, Minus, Ops
<1>5. ApplyY(P, q) = Times1(P, c)
  BY <1>1, <1>2 DEF ApplyY, FlipIf, Times1, Minus, Ops
<1>6. QED
  BY <1>2, <1>3, <1>4, <1>5, FlipAt DEF P, c

LEMMA HAt ==
  ASSUME NEW q \in Nat, NEW X, NEW Z, Apart(q, X), Apart(q, Z),
         NEW a \in Bits, NEW b \in Bits, NEW s \in Bits
  PROVE  ApplyH(OpAt(q, X, Z, a, b, s), q) = OpAt(q, X, Z, b, a, Xor(s, And(a, b)))
<1> DEFINE P == OpAt(q, X, Z, a, b, s)
           R == OpAt(q, X, Z, b, a, s)
           c == And(a, b)
<1>1. /\ P \in Ops /\ R \in Ops
      /\ P.x = With(X, q, a) /\ P.z = With(Z, q, b)
      /\ P.neg = R.neg
      /\ R.x = With(X, q, b) /\ R.z = With(Z, q, a)
      /\ (q \in P.x <=> a = 1)
      /\ (q \in P.z <=> b = 1)
  BY FieldsAt
<1>2. c \in Bits /\ (q \in P.x \cap P.z <=> c = 1)
  BY <1>1 DEF And, Bits
<1> HIDE DEF P, R, c
<1>3. Put(P.x, q, q \in P.z) = R.x
  <2>1. q \notin X /\ b \in Bits
    BY DEF Apart
  <2>2. QED
    BY <1>1, <2>1, PutWith DEF Put, Bits
<1>4. Put(P.z, q, q \in P.x) = R.z
  <2>1. q \notin Z /\ a \in Bits
    BY DEF Apart
  <2>2. QED
    BY <1>1, <2>1, PutWith DEF Put, Bits
<1>5. [P EXCEPT !.x = Put(@, q, q \in P.z), !.z = Put(@, q, q \in P.x)] = R
  BY <1>1, <1>3, <1>4 DEF Ops
<1>6. ApplyH(P, q) = Times1(R, c)
  <2>1. ApplyH(P, q) = FlipIf(R, q \in P.x \cap P.z)
    BY <1>5 DEF ApplyH
  <2>2. FlipIf(R, q \in P.x \cap P.z) = Times1(R, c)
    BY <1>1, <1>2 DEF FlipIf, Times1, Minus, Ops
  <2>3. QED
    BY <2>1, <2>2
<1>7. QED
  BY <1>2, <1>6, FlipAt DEF P, R, c

LEMMA KAt ==
  ASSUME NEW q \in Nat, NEW X, NEW Z, Apart(q, X), Apart(q, Z),
         NEW a \in Bits, NEW b \in Bits, NEW s \in Bits
  PROVE  ApplyK(OpAt(q, X, Z, a, b, s), q) = OpAt(q, X, Z, Xor(a, b), b, Xor(s, And(a, 1 - b)))
<1> DEFINE P == OpAt(q, X, Z, a, b, s)
           R == OpAt(q, X, Z, Xor(a, b), b, s)
           c == And(a, 1 - b)
<1>1. /\ P \in Ops /\ R \in Ops
      /\ P.x = With(X, q, a) /\ P.z = R.z
      /\ P.neg = R.neg
      /\ R.x = With(X, q, Xor(a, b))
      /\ (q \in P.z <=> b = 1)
      /\ (q \in R.x <=> Xor(a, b) = 1)
  BY FieldsAt
<1>2. c \in Bits /\ (q \in R.x \ R.z <=> c = 1)
  BY <1>1 DEF And, Bits, Xor
<1> HIDE DEF P, R, c
<1>3. Toggle(P.x, q, q \in P.z) = R.x
  <2>1. q \notin X
    BY DEF Apart
  <2>2. QED
    BY <1>1, <2>1, ToggleWith DEF Toggle, Bits
<1>4. [P EXCEPT !.x = Toggle(@, q, q \in P.z)] = R
  BY <1>1, <1>3 DEF Ops
<1>5. ApplyK(P, q) = Times1(R, c)
  <2>1. ApplyK(P, q) = FlipIf(R, q \in R.x \ R.z)
    BY <1>4 DEF ApplyK
  <2>2. FlipIf(R, q \in R.x \ R.z) = Times1(R, c)
    BY <1>1, <1>2 DEF FlipIf, Times1, Minus, Ops
  <2>3. QED
    BY <2>1, <2>2
<1>6. QED
  BY <1>2, <1>5, FlipAt DEF P, R, c

LEMMA SAt ==
  ASSUME NEW q \in Nat, NEW X, NEW Z, Apart(q, X), Apart(q, Z),
         NEW a \in Bits, NEW b \in Bits, NEW s \in Bits
  PROVE  ApplyS(OpAt(q, X, Z, a, b, s), q) = OpAt(q, X, Z, a, Xor(a, b), Xor(s, And(a, b)))
<1> DEFINE P == OpAt(q, X, Z, a, b, s)
           R == OpAt(q, X, Z, a, Xor(a, b), s)
           c == And(a, b)
<1>1. /\ P \in Ops /\ R \in Ops
      /\ P.x = R.x /\ P.z = With(Z, q, b)
      /\ P.neg = R.neg
      /\ R.z = With(Z, q, Xor(a, b))
      /\ (q \in P.x <=> a = 1)
      /\ (q \in R.z <=> Xor(a, b) = 1)
  BY FieldsAt
<1>2. c \in Bits /\ (q \in R.x \ R.z <=> c = 1) /\ Xor(a, b) = Xor(b, a)
  BY <1>1 DEF And, Bits, Xor
<1> HIDE DEF P, R, c
<1>3. Toggle(P.z, q, q \in P.x) = R.z
  <2>1. q \notin Z
    BY DEF Apart
  <2>2. QED
    BY <1>1, <1>2, <2>1, ToggleWith DEF Toggle, Bits
<1>4. [P EXCEPT !.z = Toggle(@, q, q \in P.x)] = R
  BY <1>1, <1>3 DEF Ops
<1>5. ApplyS(P, q) = Times1(R, c)
  <2>1. ApplyS(P, q) = FlipIf(R, q \in R.x \ R.z)
    BY <1>4 DEF ApplyS
  <2>2. FlipIf(R, q \in R.x \ R.z) = Times1(R, c)
    BY <1>1, <1>2 DEF FlipIf, Times1, Minus, Ops
  <2>3. QED
    BY <2>1, <2>2
<1>6. QED
  BY <1>2, <1>5, FlipAt DEF P, R, c

IsOneGate(g, q) == g.name \in OneQubitGates /\ g.on = <<q>>

LEMMA OneGateAt ==
  ASSUME NEW g, NEW q \in Nat, IsOneGate(g, q), NEW X, NEW Z, Apart(q, X), Apart(q, Z),
         NEW a \in Bits, NEW b \in Bits, NEW s \in Bits
  PROVE  Apply(g, OpAt(q, X, Z, a, b, s)) =
           OpAt(q, X, Z, NewX(g.name, a, b), NewZ(g.name, a, b), Xor(s, Flips(g.name, a, b)))
<1> DEFINE P == OpAt(q, X, Z, a, b, s)
<1>0. g.on[1] = q
  BY DEF IsOneGate
<1>1. /\ ApplyX(P, q) = OpAt(q, X, Z, a, b, Xor(s, b))
      /\ ApplyY(P, q) = OpAt(q, X, Z, a, b, Xor(s, Xor(a, b)))
      /\ ApplyZ(P, q) = OpAt(q, X, Z, a, b, Xor(s, a))
  BY XAndYAndZAt
<1>2. /\ ApplyH(P, q) = OpAt(q, X, Z, b, a, Xor(s, And(a, b)))
      /\ ApplyK(P, q) = OpAt(q, X, Z, Xor(a, b), b, Xor(s, And(a, 1 - b)))
      /\ ApplyS(P, q) = OpAt(q, X, Z, a, Xor(a, b), Xor(s, And(a, b)))
  BY HAt, KAt, SAt
<1>3. ApplyZ(ApplyK(P, q), q) = OpAt(q, X, Z, Xor(a, b), b, Xor(s, And(1 - a, b)))
  <2> DEFINE t == Xor(s, And(a, 1 - b))
             c == Xor(a, b)
  <2>1. t \in Bits /\ c \in Bits /\ Xor(t, c) = Xor(s, And(1 - a, b))
    BY DEF Xor, And, Bits
  <2> HIDE DEF t, c
  <2>2. ApplyZ(OpAt(q, X, Z, c, b, t), q) = OpAt(q, X, Z, c, b, Xor(t, c))
    BY <2>1, XAndYAndZAt
  <2>3. QED
    BY <1>2, <2>1, <2>2 DEF t, c
<1>4. ApplyS(ApplyZ(P, q), q) = OpAt(q, X, Z, a, Xor(a, b), Xor(s, And(a, 1 - b)))
  <2> DEFINE t == Xor(s, a)
  <2>1. t \in Bits /\ Xor(t, And(a, b)) = Xor(s, And(a, 1 - b))
    BY DEF Xor, And, Bits
  <2> HIDE DEF t
  <2>2. ApplyS(OpAt(q, X, Z, a, b, t), q) = OpAt(q, X, Z, a, Xor(a, b), Xor(t, And(a, b)))
    BY <2>1, SAt
  <2>3. QED
    BY <1>1, <2>1, <2>2 DEF t
<1>5. g.name \in OneQubitGates
  BY DEF IsOneGate
<1> HIDE DEF P
<1> USE DEF Apply, NewX, NewZ, Flips
<1>6. CASE g.name = "X"
  BY <1>0, <1>1, <1>6 DEF P
<1>7. CASE g.name = "Y"
  BY <1>0, <1>1, <1>7 DEF P
<1>8. CASE g.name = "Z"
  BY <1>0, <1>1, <1>8 DEF P
<1>9. CASE g.name = "H"
  BY <1>0, <1>2, <1>9 DEF P
<1>10. CASE g.name = "K"
  BY <1>0, <1>2, <1>10 DEF P
<1>11. CASE g.name = "S"
  BY <1>0, <1>2, <1>11 DEF P
<1>12. CASE g.name = "sqrt_minIX"
  BY <1>0, <1>3, <1>12 DEF P
<1>13. CASE g.name = "sqrt_IZ"
  BY <1>0, <1>4, <1>13 DEF P
<1>14. QED
  BY <1>5, <1>6, <1>7, <1>8, <1>9, <1>10, <1>11, <1>12, <1>13 DEF OneQubitGates

-----------------------------------------------------------------------------
(* Conjugation by a gate on one qubit, from the images of X and Z.         *)

LEMMA NothingApart ==
  ASSUME NEW q
  PROVE  Apart(q, NoQubits) /\ With(NoQubits, q, 1) = {q} /\ With(NoQubits, q, 0) = NoQubits
BY FS_EmptySet DEF Apart, FinSets, NoQubits, With

LEMMA LettersAt ==
  ASSUME NEW q
  PROVE  /\ XAt(q) = OpAt(q, NoQubits, NoQubits, 1, 0, 0)
         /\ YAt(q) = OpAt(q, NoQubits, NoQubits, 1, 1, 0)
         /\ ZAt(q) = OpAt(q, NoQubits, NoQubits, 0, 1, 0)
         /\ Identity = OpAt(q, NoQubits, NoQubits, 0, 0, 0)
<1>1. With(NoQubits, q, 1) = {q} /\ With(NoQubits, q, 0) = {} /\ (0 = 1) = FALSE
  BY NothingApart DEF NoQubits
<1>2. QED
  BY <1>1 DEF XAt, YAt, ZAt, Identity, OpAt

LEMMA MinusLettersAt ==
  ASSUME NEW q \in Nat
  PROVE  /\ Minus(XAt(q)) = OpAt(q, NoQubits, NoQubits, 1, 0, 1)
         /\ Minus(YAt(q)) = OpAt(q, NoQubits, NoQubits, 1, 1, 1)
         /\ Minus(ZAt(q)) = OpAt(q, NoQubits, NoQubits, 0, 1, 1)
<1>1. Xor(0, 1) = 1 /\ 0 \in Bits
  BY DEF Xor, Bits
<1>2. QED
  BY <1>1, LettersAt, MinusAt, NothingApart

LEMMA ImagesAt ==
  ASSUME NEW g, NEW q \in Nat, IsOneGate(g, q)
  PROVE  /\ ImageOfX(g, q) = OpAt(q, NoQubits, NoQubits, NewX(g.name, 1, 0), NewZ(g.name, 1, 0),
                                  Flips(g.name, 1, 0))
         /\ ImageOfZ(g, q) = OpAt(q, NoQubits, NoQubits, NewX(g.name, 0, 1), NewZ(g.name, 0, 1),
                                  Flips(g.name, 0, 1))
<1>1. g.name \in OneQubitGates
  BY DEF IsOneGate
<1>2. Xor(0, 1) = 1 /\ Xor(1, 0) = 1
  BY DEF Xor
<1>3. And(1, 0) = 0 /\ And(0, 1) = 0 /\ And(1, 1 - 0) = 1 /\ And(0, 1 - 1) = 0
      /\ And(1 - 1, 0) = 0 /\ And(1 - 0, 1) = 1
  BY DEF And
<1> USE LettersAt, MinusLettersAt DEF ImageOfX, ImageOfZ, NewX, NewZ, Flips
<1>4. CASE g.name = "X"
  BY <1>4
<1>5. CASE g.name = "Y"
  BY <1>2, <1>5
<1>6. CASE g.name = "Z"
  BY <1>6
<1>7. CASE g.name = "H"
  BY <1>3, <1>7
<1>8. CASE g.name = "K"
  BY <1>2, <1>3, <1>8
<1>9. CASE g.name = "S"
  BY <1>2, <1>3, <1>9
<1>10. CASE g.name = "sqrt_minIX"
  BY <1>2, <1>3, <1>10
<1>11. CASE g.name = "sqrt_IZ"
  BY <1>2, <1>3, <1>11
<1>12. QED
  BY <1>1, <1>4, <1>5, <1>6, <1>7, <1>8, <1>9, <1>10, <1>11 DEF OneQubitGates

\* the phase of the image, to the power a
ImagePhase(a, x, z, s) == IF a = 1 THEN (0 + And(x, z) + 2 * s) % 4 ELSE 0

LEMMA PowerAt ==
  ASSUME NEW q, NEW x \in Bits, NEW z \in Bits, NEW s \in Bits, NEW a \in Bits
  PROVE  Term(IF a = 1 THEN OpAt(q, NoQubits, NoQubits, x, z, s) ELSE Identity)
           = TermAt(q, NoQubits, NoQubits, And(a, x), And(a, z), ImagePhase(a, x, z, s))
<1>1. Apart(q, NoQubits) /\ Meet(NoQubits, NoQubits) = 0
  BY NothingApart, MeetNothing
<1>2. CASE a = 1
  <2>1. Term(OpAt(q, NoQubits, NoQubits, x, z, s)) =
          TermAt(q, NoQubits, NoQubits, x, z, (0 + And(x, z) + 2 * s) % 4)
    BY ONLY <1>1, TermOfAt, x \in Bits, z \in Bits, s \in Bits
  <2>2. And(a, x) = x /\ And(a, z) = z
    BY <1>2 DEF And, Bits
  <2>3. QED
    BY <1>2, <2>1, <2>2 DEF ImagePhase
<1>3. CASE a = 0
  <2>1. Term(Identity) = TermAt(q, NoQubits, NoQubits, 0, 0, (0 + And(0, 0) + 2 * 0) % 4)
    <3>1. 0 \in Bits
      BY DEF Bits
    <3>2. QED
      BY ONLY <1>1, <3>1, LettersAt, TermOfAt
  <2>2. And(a, x) = 0 /\ And(a, z) = 0 /\ (0 + And(0, 0) + 2 * 0) % 4 = 0
    BY <1>3 DEF And
  <2>3. QED
    BY <1>3, <2>1, <2>2 DEF ImagePhase
<1>4. QED
  BY <1>2, <1>3 DEF Bits

LEMMA TimesLocal ==
  ASSUME NEW q \in Nat, NEW X, NEW Z, Apart(q, X), Apart(q, Z),
         NEW a \in Bits, NEW b \in Bits, NEW c \in Bits, NEW d \in Bits, NEW k \in Int, NEW l \in Int
  PROVE  Times(TermAt(q, X, Z, a, b, k), TermAt(q, NoQubits, NoQubits, c, d, l)) =
           TermAt(q, X, Z, Xor(a, c), Xor(b, d), (k + l + 2 * And(b, c)) % 4)
<1>1. Apart(q, NoQubits) /\ Meet(Z, NoQubits) = 0 /\ SymDiff(X, NoQubits) = X /\ SymDiff(Z, NoQubits) = Z
  BY NothingApart, MeetNothing, SymDiffGroup
<1>2. 0 + And(b, c) = And(b, c)
  BY DEF And
<1>3. Times(TermAt(q, X, Z, a, b, k), TermAt(q, NoQubits, NoQubits, c, d, l)) =
        TermAt(q, SymDiff(X, NoQubits), SymDiff(Z, NoQubits), Xor(a, c), Xor(b, d),
               PhaseSum(k, l, Meet(Z, NoQubits), And(b, c)))
  <2>1. IsLocal(q, X, Z, a, b, k) /\ IsLocal(q, NoQubits, NoQubits, c, d, l)
    BY <1>1 DEF IsLocal
  <2>2. QED
    BY ONLY <2>1, TimesAt
<1>4. QED
  BY ONLY <1>1, <1>2, <1>3 DEF PhaseSum

LEMMA OneGateTable ==
  ASSUME NEW name \in OneQubitGates, NEW a \in Bits, NEW b \in Bits, NEW s \in Bits, NEW m \in Nat
  PROVE  LET x1 == NewX(name, 1, 0)
             z1 == NewZ(name, 1, 0)
             s1 == Flips(name, 1, 0)
             x2 == NewX(name, 0, 1)
             z2 == NewZ(name, 0, 1)
             s2 == Flips(name, 0, 1)
             k == (((((m + And(a, b) + 2 * s) % 4) + ImagePhase(a, x1, z1, s1)) % 4)
                     + ImagePhase(b, x2, z2, s2) + 2 * And(And(a, z1), And(b, x2))) % 4
         IN  /\ Xor(And(a, x1), And(b, x2)) = NewX(name, a, b)
             /\ Xor(And(a, z1), And(b, z2)) = NewZ(name, a, b)
             /\ SignOf(k, m + And(NewX(name, a, b), NewZ(name, a, b))) = Xor(s, Flips(name, a, b))
<1> USE DEF NewX, NewZ, Flips, ImagePhase, And, Xor, SignOf, Bits
<1>1. CASE name = "X"
  BY <1>1
<1>2. CASE name = "Y"
  BY <1>2
<1>3. CASE name = "Z"
  BY <1>3
<1>4. CASE name = "H"
  BY <1>4
<1>5. CASE name = "K"
  <2>1. CASE a = 0
    <3>1. CASE b = 0
      BY <1>5, <2>1, <3>1
    <3>2. CASE b = 1
      BY <1>5, <2>1, <3>2
    <3>3. b = 0 \/ b = 1
      OBVIOUS
    <3>4. QED
      BY ONLY <3>1, <3>2, <3>3
  <2>2. CASE a = 1
    <3>1. CASE b = 0
      BY <1>5, <2>2, <3>1
    <3>2. CASE b = 1
      BY <1>5, <2>2, <3>2
    <3>3. b = 0 \/ b = 1
      OBVIOUS
    <3>4. QED
      BY ONLY <3>1, <3>2, <3>3
  <2>3. a = 0 \/ a = 1
    OBVIOUS
  <2>4. QED
    BY ONLY <2>1, <2>2, <2>3
<1>6. CASE name = "S"
  BY <1>6
<1>7. CASE name = "sqrt_minIX"
  BY <1>7
<1>8. CASE name = "sqrt_IZ"
  BY <1>8
<1>9. QED
  BY ONLY <1>1, <1>2, <1>3, <1>4, <1>5, <1>6, <1>7, <1>8, name \in OneQubitGates DEF OneQubitGates

(* A one-qubit gate does to an operator what conjugation by it does. *)
LEMMA OneGateConjugates ==
  ASSUME NEW g, NEW q \in Nat, IsOneGate(g, q), NEW P \in Ops
  PROVE  Apply(g, P) = Conjugate(g, P)
<1> DEFINE X == P.x \ {q}
           Z == P.z \ {q}
           a == BitOf(q \in P.x)
           b == BitOf(q \in P.z)
           s == BitOf(P.neg)
           m == Meet(X, Z)
           n == g.name
           x1 == NewX(n, 1, 0)
           z1 == NewZ(n, 1, 0)
           s1 == Flips(n, 1, 0)
           x2 == NewX(n, 0, 1)
           z2 == NewZ(n, 0, 1)
           s2 == Flips(n, 0, 1)
           k0 == (m + And(a, b) + 2 * s) % 4
           p1 == ImagePhase(a, x1, z1, s1)
           p2 == ImagePhase(b, x2, z2, s2)
           k1 == (k0 + p1) % 4
           k == (k1 + p2 + 2 * And(And(a, z1), And(b, x2))) % 4
           rest == TermAt(q, X, Z, 0, 0, k0)
           t1 == TermAt(q, NoQubits, NoQubits, And(a, x1), And(a, z1), p1)
           t2 == TermAt(q, NoQubits, NoQubits, And(b, x2), And(b, z2), p2)
<1>1. /\ Apart(q, X) /\ Apart(q, Z)
      /\ P = OpAt(q, X, Z, a, b, s)
      /\ a \in Bits /\ b \in Bits /\ s \in Bits
  BY OpIsAt
<1>2. m \in Nat
  BY <1>1, MeetIsNat DEF Apart
<1>3. n \in OneQubitGates /\ g.on = <<q>> /\ Len(g.on) = 1 /\ g.on[1] = q
  BY DEF IsOneGate
<1>4. ToSet(g.on) = {q}
  BY <1>3 DEF ToSet
<1>5. (q \in P.x <=> a = 1) /\ (q \in P.z <=> b = 1)
  BY DEF BitOf
<1>6. x1 \in Bits /\ z1 \in Bits /\ s1 \in Bits /\ x2 \in Bits /\ z2 \in Bits /\ s2 \in Bits
  BY <1>3 DEF NewX, NewZ, Flips, Bits, OneQubitGates, Xor, And
<1>7. /\ ImageOfX(g, q) = OpAt(q, NoQubits, NoQubits, x1, z1, s1)
      /\ ImageOfZ(g, q) = OpAt(q, NoQubits, NoQubits, x2, z2, s2)
  BY ImagesAt
<1>8. Term(P) = TermAt(q, X, Z, a, b, k0)
  <2> HIDE DEF X, Z, a, b, s
  <2>1. Term(OpAt(q, X, Z, a, b, s)) = TermAt(q, X, Z, a, b, k0)
    BY <1>1, TermOfAt
  <2>2. QED
    BY <1>1, <2>1
<1>9. [x |-> P.x \ {q}, z |-> P.z \ {q}, k |-> Term(P).k] = rest
  BY <1>8 DEF TermAt, With
<1> DEFINE r1 == Term(IF a = 1 THEN OpAt(q, NoQubits, NoQubits, x1, z1, s1) ELSE Identity)
           r2 == Term(IF b = 1 THEN OpAt(q, NoQubits, NoQubits, x2, z2, s2) ELSE Identity)
<1>10. Conjugate(g, P) = OfTerm(Times(Times(rest, r1), r2))
  <2> HIDE DEF rest, X, Z, s, m, n, x1, z1, s1, x2, z2, s2, a, b
  <2>1. r1 = Power(ImageOfX(g, q), q \in P.x)
    BY <1>5, <1>7 DEF Power
  <2>2. r2 = Power(ImageOfZ(g, q), q \in P.z)
    BY <1>5, <1>7 DEF Power
  <2> HIDE DEF r1, r2
  <2>3. QED
    BY <1>3, <1>4, <1>9, <2>1, <2>2 DEF Conjugate
<1> HIDE DEF x1, z1, s1, x2, z2, s2, a, b, X, Z, s, m, n
<1>11. r1 = t1
  BY <1>1, <1>6, PowerAt
<1>12. r2 = t2
  BY <1>1, <1>6, PowerAt
<1> HIDE DEF r1, r2
<1> DEFINE e1 == And(a, x1)
           f1 == And(a, z1)
           e2 == And(b, x2)
           f2 == And(b, z2)
<1>13. /\ e1 \in Bits /\ f1 \in Bits /\ e2 \in Bits /\ f2 \in Bits /\ 0 \in Bits
       /\ Xor(0, e1) = e1 /\ Xor(0, f1) = f1 /\ And(0, e1) = 0
  BY DEF Xor, And, Bits
<1>15. k0 \in Int /\ p1 \in Int /\ p2 \in Int
  BY <1>1, <1>2, <1>6 DEF ImagePhase, And, Bits
<1>24. Apart(q, X) /\ Apart(q, Z)
  BY <1>1
<1> HIDE DEF k0, p1, p2, e1, f1, e2, f2
<1>16. Times(rest, t1) = TermAt(q, X, Z, e1, f1, k1)
  <2>1. Times(TermAt(q, X, Z, 0, 0, k0), TermAt(q, NoQubits, NoQubits, e1, f1, p1)) =
          TermAt(q, X, Z, Xor(0, e1), Xor(0, f1), (k0 + p1 + 2 * And(0, e1)) % 4)
    BY ONLY <1>13, <1>15, <1>24, TimesLocal, q \in Nat
  <2>2. k0 + p1 + 2 * 0 = k0 + p1
    BY ONLY <1>15
  <2>3. QED
    BY ONLY <1>13, <2>1, <2>2 DEF e1, f1
<1>25. k1 \in Int
  BY ONLY <1>15
<1> HIDE DEF k1
<1>17. Times(Times(rest, t1), t2) = TermAt(q, X, Z, Xor(e1, e2), Xor(f1, f2), k)
  <2>1. Times(TermAt(q, X, Z, e1, f1, k1), TermAt(q, NoQubits, NoQubits, e2, f2, p2)) =
          TermAt(q, X, Z, Xor(e1, e2), Xor(f1, f2), (k1 + p2 + 2 * And(f1, e2)) % 4)
    BY ONLY <1>13, <1>15, <1>25, <1>24, TimesLocal, q \in Nat
  <2>2. QED
    BY ONLY <1>16, <2>1 DEF e1, f1, e2, f2
<1> DEFINE c == NewX(n, a, b)
           d == NewZ(n, a, b)
<1>18. /\ Xor(e1, e2) = c
       /\ Xor(f1, f2) = d
       /\ SignOf(k, m + And(c, d)) = Xor(s, Flips(n, a, b))
  BY ONLY <1>1, <1>2, <1>3, OneGateTable
     DEF x1, z1, s1, x2, z2, s2, p1, p2, k0, k1, e1, e2, f1, f2
<1>19. c \in Bits /\ d \in Bits
  BY <1>1, BitsAreClosed DEF NewX, NewZ
<1> HIDE DEF rest, t1, t2, k, k1, c, d
<1>20. OfTerm(TermAt(q, X, Z, c, d, k)) = OpAt(q, X, Z, c, d, SignOf(k, Meet(X, Z) + And(c, d)))
  BY ONLY <1>1, <1>19, OfTermAt
<1>21. Conjugate(g, P) = OpAt(q, X, Z, c, d, Xor(s, Flips(n, a, b)))
  BY ONLY <1>10, <1>11, <1>12, <1>17, <1>18, <1>20 DEF m
<1>22. Apply(g, OpAt(q, X, Z, a, b, s)) = OpAt(q, X, Z, c, d, Xor(s, Flips(n, a, b)))
  BY <1>1, OneGateAt DEF c, d, n
<1>23. QED
  BY ONLY <1>1, <1>21, <1>22

-----------------------------------------------------------------------------
(* Gates on two qubits, c and t.                                           *)

\* the bits of X and Z at c, then those at t
OpAtBoth(c, t, X, Z, a, b, d, e, s) == OpAt(t, With(X, c, a), With(Z, c, b), d, e, s)
TermAtBoth(c, t, X, Z, a, b, d, e, k) == TermAt(t, With(X, c, a), With(Z, c, b), d, e, k)

IsPair(c, t) == c \in Nat /\ t \in Nat /\ c # t
ApartBoth(c, t, X) == Apart(c, X) /\ Apart(t, X)

LEMMA WithApart ==
  ASSUME NEW c, NEW t, IsPair(c, t), NEW X, ApartBoth(c, t, X), NEW a
  PROVE  Apart(t, With(X, c, a)) /\ Apart(c, X)
<1>1. With(X, c, a) \in FinSets
  BY WithIsFinite DEF IsPair, ApartBoth, Apart
<1>2. t \notin With(X, c, a)
  BY DEF IsPair, ApartBoth, Apart, With
<1>3. QED
  BY <1>1, <1>2 DEF Apart, ApartBoth

LEMMA BothFieldsAt ==
  ASSUME NEW c, NEW t, IsPair(c, t), NEW X, NEW Z, ApartBoth(c, t, X), ApartBoth(c, t, Z),
         NEW a, NEW b, NEW d, NEW e, NEW s
  PROVE  LET P == OpAtBoth(c, t, X, Z, a, b, d, e, s) IN
         /\ P \in Ops
         /\ P.x = With(With(X, c, a), t, d) /\ P.z = With(With(Z, c, b), t, e)
         /\ P.neg = (s = 1)
         /\ c \in P.x <=> a = 1
         /\ c \in P.z <=> b = 1
         /\ t \in P.x <=> d = 1
         /\ t \in P.z <=> e = 1
<1> DEFINE P == OpAtBoth(c, t, X, Z, a, b, d, e, s)
           U == With(X, c, a)
           V == With(Z, c, b)
<1>1. Apart(t, U) /\ Apart(t, V) /\ t \in Nat /\ c # t
  BY WithApart DEF IsPair
<1>2. (c \in U <=> a = 1) /\ (c \in V <=> b = 1)
  BY InWith DEF ApartBoth, Apart
<1> HIDE DEF U, V
<1>3. /\ OpAt(t, U, V, d, e, s) \in Ops
      /\ OpAt(t, U, V, d, e, s).x = With(U, t, d) /\ OpAt(t, U, V, d, e, s).z = With(V, t, e)
      /\ OpAt(t, U, V, d, e, s).neg = (s = 1)
      /\ (t \in OpAt(t, U, V, d, e, s).x <=> d = 1)
      /\ (t \in OpAt(t, U, V, d, e, s).z <=> e = 1)
  BY <1>1, FieldsAt
<1>4. P = OpAt(t, U, V, d, e, s)
  BY DEF P, OpAtBoth, U, V
<1> HIDE DEF P
<1>5. (c \in With(U, t, d) <=> a = 1) /\ (c \in With(V, t, e) <=> b = 1)
  BY <1>1, <1>2 DEF With
<1>6. QED
  BY <1>3, <1>4, <1>5 DEF U, V, P

LEMMA OpIsAtBoth ==
  ASSUME NEW c, NEW t, IsPair(c, t), NEW P \in Ops
  PROVE  LET X == P.x \ {c, t}
             Z == P.z \ {c, t}
         IN  /\ ApartBoth(c, t, X) /\ ApartBoth(c, t, Z)
             /\ P = OpAtBoth(c, t, X, Z, BitOf(c \in P.x), BitOf(c \in P.z),
                             BitOf(t \in P.x), BitOf(t \in P.z), BitOf(P.neg))
<1> DEFINE U == P.x \ {t}
           V == P.z \ {t}
<1>1. c \in Nat /\ t \in Nat /\ c # t
  BY DEF IsPair
<1>2. Apart(t, U) /\ Apart(t, V) /\ P = OpAt(t, U, V, BitOf(t \in P.x), BitOf(t \in P.z), BitOf(P.neg))
  BY <1>1, OpIsAt
<1>3. Apart(c, U \ {c}) /\ U = With(U \ {c}, c, BitOf(c \in U))
  BY <1>1, <1>2, SplitAt DEF Apart
<1>4. Apart(c, V \ {c}) /\ V = With(V \ {c}, c, BitOf(c \in V))
  BY <1>1, <1>2, SplitAt DEF Apart
<1>5. /\ U \ {c} = P.x \ {c, t} /\ V \ {c} = P.z \ {c, t}
      /\ c \in U <=> c \in P.x
      /\ c \in V <=> c \in P.z
  BY <1>1
<1>6. BitOf(c \in U) = BitOf(c \in P.x) /\ BitOf(c \in V) = BitOf(c \in P.z)
  BY <1>5 DEF BitOf
<1>7. ApartBoth(c, t, U \ {c}) /\ ApartBoth(c, t, V \ {c})
  BY <1>2, <1>3, <1>4 DEF ApartBoth, Apart
<1> HIDE DEF U, V
<1>8. P = OpAt(t, With(U \ {c}, c, BitOf(c \in P.x)), With(V \ {c}, c, BitOf(c \in P.z)),
              BitOf(t \in P.x), BitOf(t \in P.z), BitOf(P.neg))
  BY ONLY <1>2, <1>3, <1>4, <1>6
<1>9. QED
  BY <1>5, <1>7, <1>8 DEF OpAtBoth

LEMMA MeetWithBoth ==
  ASSUME NEW c, NEW t, IsPair(c, t), NEW X, NEW Z, ApartBoth(c, t, X), ApartBoth(c, t, Z),
         NEW a \in Bits, NEW b \in Bits
  PROVE  Meet(With(X, c, a), With(Z, c, b)) = Meet(X, Z) + And(a, b) /\ Meet(X, Z) \in Nat
BY MeetWith DEF ApartBoth

LEMMA TermOfAtBoth ==
  ASSUME NEW c, NEW t, IsPair(c, t), NEW X, NEW Z, ApartBoth(c, t, X), ApartBoth(c, t, Z),
         NEW a \in Bits, NEW b \in Bits, NEW d \in Bits, NEW e \in Bits, NEW s \in Bits
  PROVE  Term(OpAtBoth(c, t, X, Z, a, b, d, e, s)) =
           TermAtBoth(c, t, X, Z, a, b, d, e, (Meet(X, Z) + And(a, b) + And(d, e) + 2 * s) % 4)
<1> DEFINE U == With(X, c, a)
           V == With(Z, c, b)
<1>1. Apart(t, U) /\ Apart(t, V)
  BY WithApart
<1>2. Meet(U, V) = Meet(X, Z) + And(a, b)
  BY MeetWithBoth
<1> HIDE DEF U, V
<1>3. Term(OpAt(t, U, V, d, e, s)) = TermAt(t, U, V, d, e, (Meet(U, V) + And(d, e) + 2 * s) % 4)
  BY <1>1, TermOfAt
<1>4. QED
  BY ONLY <1>2, <1>3 DEF OpAtBoth, TermAtBoth, U, V

LEMMA OfTermAtBoth ==
  ASSUME NEW c, NEW t, IsPair(c, t), NEW X, NEW Z, ApartBoth(c, t, X), ApartBoth(c, t, Z),
         NEW a \in Bits, NEW b \in Bits, NEW d \in Bits, NEW e \in Bits, NEW k
  PROVE  OfTerm(TermAtBoth(c, t, X, Z, a, b, d, e, k)) =
           OpAtBoth(c, t, X, Z, a, b, d, e, SignOf(k, Meet(X, Z) + And(a, b) + And(d, e)))
<1> DEFINE U == With(X, c, a)
           V == With(Z, c, b)
<1>1. Apart(t, U) /\ Apart(t, V)
  BY WithApart
<1>2. Meet(U, V) = Meet(X, Z) + And(a, b)
  BY MeetWithBoth
<1> HIDE DEF U, V
<1>3. OfTerm(TermAt(t, U, V, d, e, k)) = OpAt(t, U, V, d, e, SignOf(k, Meet(U, V) + And(d, e)))
  BY <1>1, OfTermAt
<1>4. QED
  BY ONLY <1>2, <1>3 DEF OpAtBoth, TermAtBoth, U, V

PhaseSumBoth(k, l, m, n, o) == (k + l + 2 * (m + n + o)) % 4

IsLocalBoth(c, t, X, Z, a, b, d, e, k) ==
  /\ IsPair(c, t) /\ ApartBoth(c, t, X) /\ ApartBoth(c, t, Z)
  /\ a \in Bits /\ b \in Bits /\ d \in Bits /\ e \in Bits /\ k \in Int

LEMMA TimesAtBoth ==
  ASSUME NEW c, NEW t, NEW X, NEW Z, NEW a, NEW b, NEW d, NEW e, NEW k,
         IsLocalBoth(c, t, X, Z, a, b, d, e, k),
         NEW U, NEW V, NEW a2, NEW b2, NEW d2, NEW e2, NEW l,
         IsLocalBoth(c, t, U, V, a2, b2, d2, e2, l)
  PROVE  Times(TermAtBoth(c, t, X, Z, a, b, d, e, k), TermAtBoth(c, t, U, V, a2, b2, d2, e2, l)) =
           TermAtBoth(c, t, SymDiff(X, U), SymDiff(Z, V), Xor(a, a2), Xor(b, b2), Xor(d, d2), Xor(e, e2),
                      PhaseSumBoth(k, l, Meet(Z, U), And(b, a2), And(e, d2)))
<1> DEFINE A == With(X, c, a)
           B == With(Z, c, b)
           C == With(U, c, a2)
           D == With(V, c, b2)
<1>0. /\ IsPair(c, t) /\ ApartBoth(c, t, X) /\ ApartBoth(c, t, Z)
      /\ ApartBoth(c, t, U) /\ ApartBoth(c, t, V)
      /\ a \in Bits /\ b \in Bits /\ d \in Bits /\ e \in Bits /\ k \in Int
      /\ a2 \in Bits /\ b2 \in Bits /\ d2 \in Bits /\ e2 \in Bits /\ l \in Int
  BY DEF IsLocalBoth
<1>1. Apart(t, A) /\ Apart(t, B) /\ Apart(t, C) /\ Apart(t, D) /\ t \in Nat
  BY <1>0, WithApart DEF IsPair
<1>2. Meet(B, C) = Meet(Z, U) + And(b, a2)
  BY <1>0, MeetWithBoth
<1>3. SymDiff(A, C) = With(SymDiff(X, U), c, Xor(a, a2))
  BY <1>0, SymDiffWith DEF ApartBoth
<1>4. SymDiff(B, D) = With(SymDiff(Z, V), c, Xor(b, b2))
  BY <1>0, SymDiffWith DEF ApartBoth
<1> HIDE DEF A, B, C, D
<1>5. IsLocal(t, A, B, d, e, k) /\ IsLocal(t, C, D, d2, e2, l)
  BY <1>0, <1>1 DEF IsLocal
<1>6. Times(TermAt(t, A, B, d, e, k), TermAt(t, C, D, d2, e2, l)) =
        TermAt(t, SymDiff(A, C), SymDiff(B, D), Xor(d, d2), Xor(e, e2),
               PhaseSum(k, l, Meet(B, C), And(e, d2)))
  BY ONLY <1>5, TimesAt
<1>7. QED
  BY ONLY <1>2, <1>3, <1>4, <1>6 DEF TermAtBoth, PhaseSum, PhaseSumBoth, A, B, C, D

LEMMA TimesLocalBoth ==
  ASSUME NEW c, NEW t, NEW X, NEW Z, NEW a, NEW b, NEW d, NEW e, NEW k,
         IsLocalBoth(c, t, X, Z, a, b, d, e, k),
         NEW a2, NEW b2, NEW d2, NEW e2, NEW l,
         IsLocalBoth(c, t, NoQubits, NoQubits, a2, b2, d2, e2, l)
  PROVE  Times(TermAtBoth(c, t, X, Z, a, b, d, e, k),
               TermAtBoth(c, t, NoQubits, NoQubits, a2, b2, d2, e2, l)) =
           TermAtBoth(c, t, X, Z, Xor(a, a2), Xor(b, b2), Xor(d, d2), Xor(e, e2),
                      PhaseSumBoth(k, l, 0, And(b, a2), And(e, d2)))
<1>1. Meet(Z, NoQubits) = 0 /\ SymDiff(X, NoQubits) = X /\ SymDiff(Z, NoQubits) = Z
  BY MeetNothing, SymDiffGroup
<1>2. Times(TermAtBoth(c, t, X, Z, a, b, d, e, k),
            TermAtBoth(c, t, NoQubits, NoQubits, a2, b2, d2, e2, l)) =
        TermAtBoth(c, t, SymDiff(X, NoQubits), SymDiff(Z, NoQubits),
                   Xor(a, a2), Xor(b, b2), Xor(d, d2), Xor(e, e2),
                   PhaseSumBoth(k, l, Meet(Z, NoQubits), And(b, a2), And(e, d2)))
  BY ONLY IsLocalBoth(c, t, X, Z, a, b, d, e, k),
          IsLocalBoth(c, t, NoQubits, NoQubits, a2, b2, d2, e2, l), TimesAtBoth
<1>3. QED
  BY ONLY <1>1, <1>2

LEMMA ToggleInner ==
  ASSUME NEW c, NEW t, c # t, NEW Z, c \notin Z, t \notin Z, NEW b \in Bits, NEW e
  PROVE  SymDiff(With(With(Z, c, b), t, e), {c}) = With(With(Z, c, Xor(b, 1)), t, e)
<1>1. CASE b = 1
  BY <1>1 DEF With, SymDiff, Xor
<1>2. CASE b = 0
  BY <1>2 DEF With, SymDiff, Xor
<1>3. QED
  BY <1>1, <1>2 DEF Bits

LEMMA FlipAtBoth ==
  ASSUME NEW c, NEW t, IsPair(c, t), NEW X, NEW Z, ApartBoth(c, t, X), ApartBoth(c, t, Z),
         NEW a, NEW b, NEW d, NEW e, NEW s \in Bits, NEW f \in Bits
  PROVE  Times1(OpAtBoth(c, t, X, Z, a, b, d, e, s), f) = OpAtBoth(c, t, X, Z, a, b, d, e, Xor(s, f))
<1> DEFINE U == With(X, c, a)
           V == With(Z, c, b)
<1>1. Apart(t, U) /\ Apart(t, V) /\ t \in Nat
  BY WithApart DEF IsPair
<1> HIDE DEF U, V
<1>2. Times1(OpAt(t, U, V, d, e, s), f) = OpAt(t, U, V, d, e, Xor(s, f))
  BY <1>1, FlipAt
<1>3. QED
  BY <1>2 DEF OpAtBoth, U, V

CNOTFlips(a, b, d, e) == And(And(a, e), 1 - Xor(Xor(b, e), Xor(d, a)))
CZFlips(a, b, d, e) == And(And(a, d), Xor(b, e))

LEMMA CNOTAt ==
  ASSUME NEW c, NEW t, IsPair(c, t), NEW X, NEW Z, ApartBoth(c, t, X), ApartBoth(c, t, Z),
         NEW a \in Bits, NEW b \in Bits, NEW d \in Bits, NEW e \in Bits, NEW s \in Bits
  PROVE  ApplyCNOT(OpAtBoth(c, t, X, Z, a, b, d, e, s), c, t)
           = OpAtBoth(c, t, X, Z, a, Xor(b, e), Xor(d, a), e, Xor(s, CNOTFlips(a, b, d, e)))
<1> DEFINE P == OpAtBoth(c, t, X, Z, a, b, d, e, s)
           R == OpAtBoth(c, t, X, Z, a, Xor(b, e), Xor(d, a), e, s)
           f == CNOTFlips(a, b, d, e)
<1>1. /\ P \in Ops /\ P.neg = (s = 1)
      /\ P.x = With(With(X, c, a), t, d) /\ P.z = With(With(Z, c, b), t, e)
      /\ (c \in P.x <=> a = 1) /\ (t \in P.z <=> e = 1)
  BY BothFieldsAt
<1>2. /\ R \in Ops /\ R.neg = (s = 1)
      /\ R.x = With(With(X, c, a), t, Xor(d, a)) /\ R.z = With(With(Z, c, Xor(b, e)), t, e)
      /\ (c \in R.x <=> a = 1) /\ (t \in R.z <=> e = 1)
      /\ (c \in R.z <=> Xor(b, e) = 1) /\ (t \in R.x <=> Xor(d, a) = 1)
  BY BothFieldsAt
<1>3. f \in Bits /\ ((/\ c \in R.x /\ t \in R.z /\ (c \in R.z) = (t \in R.x)) <=> f = 1)
  BY <1>2 DEF CNOTFlips, And, Bits, Xor
<1> HIDE DEF P, R, f
<1>4. Toggle(P.x, t, c \in P.x) = R.x
  <2>1. t \notin With(X, c, a)
    BY WithApart DEF Apart
  <2>2. SymDiff(P.x, {t}) = With(With(X, c, a), t, Xor(d, 1)) /\ Xor(d, 0) = d
    BY <1>1, <2>1, ToggleWith
  <2>3. QED
    BY <1>1, <1>2, <2>2 DEF Toggle, Bits
<1>5. Toggle(P.z, c, t \in P.z) = R.z
  <2>1. c # t /\ c \notin Z /\ t \notin Z
    BY DEF IsPair, ApartBoth, Apart
  <2>2. SymDiff(P.z, {c}) = With(With(Z, c, Xor(b, 1)), t, e)
    BY <1>1, <2>1, ToggleInner
  <2>3. Xor(b, 0) = b
    BY DEF Xor, Bits
  <2>4. QED
    BY <1>1, <1>2, <2>2, <2>3 DEF Toggle, Bits
<1>6. [P EXCEPT !.x = Toggle(@, t, c \in P.x), !.z = Toggle(@, c, t \in P.z)] = R
  BY <1>1, <1>2, <1>4, <1>5 DEF Ops
<1>7. ApplyCNOT(P, c, t) = Times1(R, f)
  <2>1. ApplyCNOT(P, c, t) = FlipIf(R, /\ c \in R.x /\ t \in R.z /\ (c \in R.z) = (t \in R.x))
    BY <1>6 DEF ApplyCNOT
  <2>2. FlipIf(R, /\ c \in R.x /\ t \in R.z /\ (c \in R.z) = (t \in R.x)) = Times1(R, f)
    BY <1>2, <1>3 DEF FlipIf, Times1, Minus, Ops
  <2>3. QED
    BY <2>1, <2>2
<1>8. QED
  BY <1>3, <1>7, FlipAtBoth DEF P, R, f

LEMMA CZAt ==
  ASSUME NEW c, NEW t, IsPair(c, t), NEW X, NEW Z, ApartBoth(c, t, X), ApartBoth(c, t, Z),
         NEW a \in Bits, NEW b \in Bits, NEW d \in Bits, NEW e \in Bits, NEW s \in Bits
  PROVE  ApplyCZ(OpAtBoth(c, t, X, Z, a, b, d, e, s), c, t)
           = OpAtBoth(c, t, X, Z, a, Xor(b, d), d, Xor(e, a), Xor(s, CZFlips(a, b, d, e)))
<1> DEFINE P == OpAtBoth(c, t, X, Z, a, b, d, e, s)
           R == OpAtBoth(c, t, X, Z, a, Xor(b, d), d, Xor(e, a), s)
           f == CZFlips(a, b, d, e)
           flip == {c, t} \subseteq P.x /\ (c \in P.z) # (t \in P.z)
<1>1. /\ P \in Ops /\ P.neg = (s = 1)
      /\ P.x = With(With(X, c, a), t, d) /\ P.z = With(With(Z, c, b), t, e)
      /\ (c \in P.x <=> a = 1) /\ (t \in P.z <=> e = 1)
      /\ (c \in P.z <=> b = 1) /\ (t \in P.x <=> d = 1)
  BY BothFieldsAt
<1>2. /\ R \in Ops /\ R.neg = (s = 1)
      /\ R.x = With(With(X, c, a), t, d) /\ R.z = With(With(Z, c, Xor(b, d)), t, Xor(e, a))
  BY BothFieldsAt
<1>3. f \in Bits /\ (flip <=> f = 1)
  <2>1. {c, t} \subseteq P.x <=> (c \in P.x /\ t \in P.x)
    OBVIOUS
  <2> HIDE DEF P
  <2>2. QED
    BY <1>1, <2>1 DEF CZFlips, And, Bits, Xor
<1> HIDE DEF P, R, f
<1>4. c # t /\ c \notin Z /\ t \notin Z
  BY DEF IsPair, ApartBoth, Apart
<1>5. Toggle(P.z, t, c \in P.x) = With(With(Z, c, b), t, Xor(e, a))
  <2>1. t \notin With(Z, c, b)
    BY WithApart DEF Apart
  <2>2. SymDiff(P.z, {t}) = With(With(Z, c, b), t, Xor(e, 1)) /\ Xor(e, 0) = e
    BY <1>1, <2>1, ToggleWith
  <2>3. QED
    BY <1>1, <2>2 DEF Toggle, Bits
<1> DEFINE W == Toggle(P.z, t, c \in P.x)
<1> HIDE DEF W
<1>6. Toggle(W, c, t \in P.x) = R.z
  <2>1. W = With(With(Z, c, b), t, Xor(e, a))
    BY <1>5 DEF W
  <2>2. SymDiff(W, {c}) = With(With(Z, c, Xor(b, 1)), t, Xor(e, a))
    BY <1>4, <2>1, ToggleInner
  <2>3. Xor(b, 0) = b
    BY DEF Xor, Bits
  <2>4. QED
    BY <1>1, <1>2, <2>1, <2>2, <2>3 DEF Toggle, Bits
<1>7. [P EXCEPT !.z = Toggle(Toggle(@, t, c \in P.x), c, t \in P.x)] = R
  <2>1. P.x = R.x /\ P.neg = R.neg /\ Toggle(Toggle(P.z, t, c \in P.x), c, t \in P.x) = R.z
    BY <1>1, <1>2, <1>6 DEF W
  <2>2. QED
    BY <1>1, <1>2, <2>1 DEF Ops
<1>8. ApplyCZ(P, c, t) = Times1(R, f)
  <2>1. ApplyCZ(P, c, t) = FlipIf(R, flip)
    BY <1>7 DEF ApplyCZ
  <2>2. flip \in BOOLEAN
    OBVIOUS
  <2>3. R.neg \in BOOLEAN /\ R = [x |-> R.x, z |-> R.z, neg |-> R.neg]
    BY <1>2 DEF Ops
  <2>4. CASE flip
    BY <1>3, <2>1, <2>3, <2>4 DEF FlipIf, Times1, Minus
  <2>5. CASE ~flip
    <3>1. ~(f = 1)
      BY <1>3, <2>5
    <3>2. (R.neg # flip) = R.neg
      BY <2>3, <2>5
    <3> HIDE DEF flip
    <3>3. FlipIf(R, flip) = R
      BY <3>2, <2>3 DEF FlipIf
    <3>4. QED
      BY <2>1, <3>1, <3>3 DEF Times1
  <2>6. QED
    BY <2>4, <2>5
<1>9. QED
  BY <1>3, <1>8, FlipAtBoth DEF P, R, f

-----------------------------------------------------------------------------
(* Conjugation by a gate on two qubits.                                    *)

LEMMA NothingApartBoth ==
  ASSUME NEW c, NEW t
  PROVE  ApartBoth(c, t, NoQubits) /\ Meet(NoQubits, NoQubits) = 0
BY NothingApart, MeetNothing DEF ApartBoth

LEMMA LettersAtBoth ==
  ASSUME NEW c, NEW t
  PROVE  /\ XAt(c) = OpAtBoth(c, t, NoQubits, NoQubits, 1, 0, 0, 0, 0)
         /\ XAt(t) = OpAtBoth(c, t, NoQubits, NoQubits, 0, 0, 1, 0, 0)
         /\ ZAt(c) = OpAtBoth(c, t, NoQubits, NoQubits, 0, 1, 0, 0, 0)
         /\ ZAt(t) = OpAtBoth(c, t, NoQubits, NoQubits, 0, 0, 0, 1, 0)
         /\ Identity = OpAtBoth(c, t, NoQubits, NoQubits, 0, 0, 0, 0, 0)
<1>1. /\ With(NoQubits, c, 1) = {c} /\ With(NoQubits, c, 0) = {}
      /\ With(NoQubits, t, 1) = {t} /\ With(NoQubits, t, 0) = {}
      /\ With({}, t, 1) = {t} /\ With({}, t, 0) = {} /\ With({c}, t, 0) = {c}
      /\ (0 = 1) = FALSE
  BY NothingApart DEF NoQubits, With
<1>2. QED
  BY <1>1 DEF XAt, ZAt, Identity, OpAtBoth, OpAt

\* bits of an operator in which no qubit has Y
NoY(a, b, d, e) ==
  /\ a \in Bits /\ b \in Bits /\ d \in Bits /\ e \in Bits
  /\ And(a, b) = 0 /\ And(d, e) = 0

LEMMA TermOfLetters ==
  ASSUME NEW c, NEW t, IsPair(c, t), NEW a, NEW b, NEW d, NEW e, NoY(a, b, d, e)
  PROVE  /\ Term(OpAtBoth(c, t, NoQubits, NoQubits, a, b, d, e, 0)) =
              TermAtBoth(c, t, NoQubits, NoQubits, a, b, d, e, 0)
         /\ OfTerm(TermAtBoth(c, t, NoQubits, NoQubits, a, b, d, e, 0)) =
              OpAtBoth(c, t, NoQubits, NoQubits, a, b, d, e, 0)
<1>1. /\ a \in Bits /\ b \in Bits /\ d \in Bits /\ e \in Bits /\ 0 \in Bits
      /\ And(a, b) = 0 /\ And(d, e) = 0
  BY DEF NoY, Bits
<1>2. ApartBoth(c, t, NoQubits) /\ Meet(NoQubits, NoQubits) = 0
  BY NothingApartBoth
<1>3. Term(OpAtBoth(c, t, NoQubits, NoQubits, a, b, d, e, 0)) =
        TermAtBoth(c, t, NoQubits, NoQubits, a, b, d, e,
                   (Meet(NoQubits, NoQubits) + And(a, b) + And(d, e) + 2 * 0) % 4)
  BY ONLY <1>1, <1>2, IsPair(c, t), TermOfAtBoth
<1>4. OfTerm(TermAtBoth(c, t, NoQubits, NoQubits, a, b, d, e, 0)) =
        OpAtBoth(c, t, NoQubits, NoQubits, a, b, d, e,
                 SignOf(0, Meet(NoQubits, NoQubits) + And(a, b) + And(d, e)))
  BY ONLY <1>1, <1>2, IsPair(c, t), OfTermAtBoth
<1>5. (0 + 0 + 0 + 2 * 0) % 4 = 0 /\ SignOf(0, 0 + 0 + 0) = 0
  BY DEF SignOf
<1>6. QED
  BY ONLY <1>1, <1>2, <1>3, <1>4, <1>5

LEMMA ProductOfLetters ==
  ASSUME NEW c, NEW t, IsPair(c, t), NEW a, NEW b, NEW d, NEW e, NoY(a, b, d, e),
         NEW a2, NEW b2, NEW d2, NEW e2, NoY(a2, b2, d2, e2),
         And(b, a2) = 0, And(e, d2) = 0, NoY(Xor(a, a2), Xor(b, b2), Xor(d, d2), Xor(e, e2))
  PROVE  Product(OpAtBoth(c, t, NoQubits, NoQubits, a, b, d, e, 0),
                 OpAtBoth(c, t, NoQubits, NoQubits, a2, b2, d2, e2, 0)) =
           OpAtBoth(c, t, NoQubits, NoQubits, Xor(a, a2), Xor(b, b2), Xor(d, d2), Xor(e, e2), 0)
<1>1. /\ Term(OpAtBoth(c, t, NoQubits, NoQubits, a, b, d, e, 0)) =
           TermAtBoth(c, t, NoQubits, NoQubits, a, b, d, e, 0)
      /\ Term(OpAtBoth(c, t, NoQubits, NoQubits, a2, b2, d2, e2, 0)) =
           TermAtBoth(c, t, NoQubits, NoQubits, a2, b2, d2, e2, 0)
  BY TermOfLetters
<1>2. IsLocalBoth(c, t, NoQubits, NoQubits, a, b, d, e, 0)
      /\ IsLocalBoth(c, t, NoQubits, NoQubits, a2, b2, d2, e2, 0)
  BY NothingApartBoth DEF IsLocalBoth, NoY
<1>3. Times(TermAtBoth(c, t, NoQubits, NoQubits, a, b, d, e, 0),
            TermAtBoth(c, t, NoQubits, NoQubits, a2, b2, d2, e2, 0)) =
        TermAtBoth(c, t, NoQubits, NoQubits, Xor(a, a2), Xor(b, b2), Xor(d, d2), Xor(e, e2),
                   PhaseSumBoth(0, 0, 0, And(b, a2), And(e, d2)))
  BY ONLY <1>2, TimesLocalBoth
<1>4. PhaseSumBoth(0, 0, 0, 0, 0) = 0
  BY DEF PhaseSumBoth
<1>5. OfTerm(TermAtBoth(c, t, NoQubits, NoQubits, Xor(a, a2), Xor(b, b2), Xor(d, d2), Xor(e, e2), 0))
        = OpAtBoth(c, t, NoQubits, NoQubits, Xor(a, a2), Xor(b, b2), Xor(d, d2), Xor(e, e2), 0)
  BY ONLY IsPair(c, t), NoY(Xor(a, a2), Xor(b, b2), Xor(d, d2), Xor(e, e2)), TermOfLetters
<1>6. QED
  BY ONLY <1>1, <1>3, <1>4, <1>5, And(b, a2) = 0, And(e, d2) = 0 DEF Product

IsTwoGate(g, c, t) ==
  /\ IsPair(c, t)
  /\ g.name \in TwoQubitGates
  /\ g.on = <<c, t>>

LEMMA ImagesAtBoth ==
  ASSUME NEW g, NEW c, NEW t, IsTwoGate(g, c, t)
  PROVE  /\ ImageOfZ(g, c) = OpAtBoth(c, t, NoQubits, NoQubits, 0, 1, 0, 0, 0)
         /\ g.name = "CNOT" =>
              /\ ImageOfX(g, c) = OpAtBoth(c, t, NoQubits, NoQubits, 1, 0, 1, 0, 0)
              /\ ImageOfX(g, t) = OpAtBoth(c, t, NoQubits, NoQubits, 0, 0, 1, 0, 0)
              /\ ImageOfZ(g, t) = OpAtBoth(c, t, NoQubits, NoQubits, 0, 1, 0, 1, 0)
         /\ g.name = "CZ" =>
              /\ ImageOfX(g, c) = OpAtBoth(c, t, NoQubits, NoQubits, 1, 0, 0, 1, 0)
              /\ ImageOfX(g, t) = OpAtBoth(c, t, NoQubits, NoQubits, 0, 1, 1, 0, 0)
              /\ ImageOfZ(g, t) = OpAtBoth(c, t, NoQubits, NoQubits, 0, 0, 0, 1, 0)
<1>1. g.name \in {"CNOT", "CZ"} /\ g.on[1] = c /\ g.on[2] = t /\ c # t /\ IsPair(c, t)
  BY DEF IsTwoGate, IsPair, TwoQubitGates
<1>2. /\ NoY(1, 0, 0, 0) /\ NoY(0, 1, 0, 0) /\ NoY(0, 0, 1, 0) /\ NoY(0, 0, 0, 1)
      /\ NoY(1, 0, 1, 0) /\ NoY(0, 1, 0, 1) /\ NoY(1, 0, 0, 1) /\ NoY(0, 1, 1, 0)
      /\ Xor(0, 0) = 0 /\ Xor(0, 1) = 1 /\ Xor(1, 0) = 1
      /\ And(0, 0) = 0 /\ And(0, 1) = 0 /\ And(1, 0) = 0
  BY DEF NoY, Bits, And, Xor
<1>3. Product(XAt(c), XAt(t)) = OpAtBoth(c, t, NoQubits, NoQubits, 1, 0, 1, 0, 0)
  <2>1. Product(OpAtBoth(c, t, NoQubits, NoQubits, 1, 0, 0, 0, 0),
                OpAtBoth(c, t, NoQubits, NoQubits, 0, 0, 1, 0, 0)) =
          OpAtBoth(c, t, NoQubits, NoQubits, Xor(1, 0), Xor(0, 0), Xor(0, 1), Xor(0, 0), 0)
    BY ONLY <1>1, <1>2, ProductOfLetters
  <2>2. QED
    BY ONLY <1>2, <2>1, LettersAtBoth
<1>4. Product(ZAt(c), ZAt(t)) = OpAtBoth(c, t, NoQubits, NoQubits, 0, 1, 0, 1, 0)
  <2>1. Product(OpAtBoth(c, t, NoQubits, NoQubits, 0, 1, 0, 0, 0),
                OpAtBoth(c, t, NoQubits, NoQubits, 0, 0, 0, 1, 0)) =
          OpAtBoth(c, t, NoQubits, NoQubits, Xor(0, 0), Xor(1, 0), Xor(0, 0), Xor(0, 1), 0)
    BY ONLY <1>1, <1>2, ProductOfLetters
  <2>2. QED
    BY ONLY <1>2, <2>1, LettersAtBoth
<1>5. Product(XAt(c), ZAt(t)) = OpAtBoth(c, t, NoQubits, NoQubits, 1, 0, 0, 1, 0)
  <2>1. Product(OpAtBoth(c, t, NoQubits, NoQubits, 1, 0, 0, 0, 0),
                OpAtBoth(c, t, NoQubits, NoQubits, 0, 0, 0, 1, 0)) =
          OpAtBoth(c, t, NoQubits, NoQubits, Xor(1, 0), Xor(0, 0), Xor(0, 0), Xor(0, 1), 0)
    BY ONLY <1>1, <1>2, ProductOfLetters
  <2>2. QED
    BY ONLY <1>2, <2>1, LettersAtBoth
<1>6. Product(XAt(t), ZAt(c)) = OpAtBoth(c, t, NoQubits, NoQubits, 0, 1, 1, 0, 0)
  <2>1. Product(OpAtBoth(c, t, NoQubits, NoQubits, 0, 0, 1, 0, 0),
                OpAtBoth(c, t, NoQubits, NoQubits, 0, 1, 0, 0, 0)) =
          OpAtBoth(c, t, NoQubits, NoQubits, Xor(0, 0), Xor(0, 1), Xor(1, 0), Xor(0, 0), 0)
    BY ONLY <1>1, <1>2, ProductOfLetters
  <2>2. QED
    BY ONLY <1>2, <2>1, LettersAtBoth
<1>7. CASE g.name = "CNOT"
  <2>1. ImageOfX(g, c) = Product(XAt(c), XAt(t)) /\ ImageOfX(g, t) = XAt(t)
    BY <1>1, <1>7 DEF ImageOfX
  <2>2. ImageOfZ(g, c) = ZAt(c) /\ ImageOfZ(g, t) = Product(ZAt(c), ZAt(t))
    BY <1>1, <1>7 DEF ImageOfZ
  <2>3. QED
    BY <1>3, <1>4, <1>7, <2>1, <2>2, LettersAtBoth
<1>8. CASE g.name = "CZ"
  <2>1. ImageOfX(g, c) = Product(XAt(c), ZAt(t)) /\ ImageOfX(g, t) = Product(XAt(t), ZAt(c))
    BY <1>1, <1>8 DEF ImageOfX
  <2>2. ImageOfZ(g, c) = ZAt(c) /\ ImageOfZ(g, t) = ZAt(t)
    BY <1>1, <1>8 DEF ImageOfZ
  <2>3. QED
    BY <1>5, <1>6, <1>8, <2>1, <2>2, LettersAtBoth
<1>9. QED
  BY <1>1, <1>7, <1>8

LEMMA PowerAtBoth ==
  ASSUME NEW c, NEW t, IsPair(c, t), NEW x, NEW z, NEW u, NEW v, NoY(x, z, u, v), NEW on
  PROVE  LET a == BitOf(on) IN
         Power(OpAtBoth(c, t, NoQubits, NoQubits, x, z, u, v, 0), on) =
           TermAtBoth(c, t, NoQubits, NoQubits, And(a, x), And(a, z), And(a, u), And(a, v), 0)
<1>1. Term(OpAtBoth(c, t, NoQubits, NoQubits, x, z, u, v, 0)) =
        TermAtBoth(c, t, NoQubits, NoQubits, x, z, u, v, 0)
  BY TermOfLetters
<1>2. Term(Identity) = TermAtBoth(c, t, NoQubits, NoQubits, 0, 0, 0, 0, 0)
  <2>1. NoY(0, 0, 0, 0)
    BY DEF NoY, Bits, And
  <2>2. QED
    BY <2>1, TermOfLetters, LettersAtBoth
<1>3. /\ And(1, x) = x /\ And(1, z) = z /\ And(1, u) = u /\ And(1, v) = v
      /\ And(0, x) = 0 /\ And(0, z) = 0 /\ And(0, u) = 0 /\ And(0, v) = 0
  BY DEF NoY, And, Bits
<1>4. CASE on
  BY <1>1, <1>3, <1>4 DEF Power, BitOf
<1>5. CASE ~on
  BY <1>2, <1>3, <1>5 DEF Power, BitOf
<1>6. QED
  BY <1>4, <1>5

LEMMA ZeroBits ==
  ASSUME NEW a \in Bits
  PROVE  /\ Xor(0, a) = a /\ Xor(a, 0) = a /\ And(0, a) = 0 /\ And(a, 0) = 0
         /\ And(a, 1) = a /\ 0 \in Bits
BY DEF Bits, Xor, And

LEMMA PhaseWithoutImages ==
  ASSUME NEW k \in 0 .. 3
  PROVE  PhaseSumBoth(k, 0, 0, 0, 0) = k
BY DEF PhaseSumBoth

\* the images under CNOT of the letters at c and t, multiplied to the rest
LEMMA CNOTChain ==
  ASSUME NEW c, NEW t, NEW X, NEW Z, NEW a \in Bits, NEW b \in Bits, NEW d \in Bits, NEW e \in Bits,
         NEW k \in 0 .. 3, IsLocalBoth(c, t, X, Z, a, b, d, e, k)
  PROVE  LET rest == TermAtBoth(c, t, X, Z, 0, 0, 0, 0, k)
             p1 == TermAtBoth(c, t, NoQubits, NoQubits, a, 0, a, 0, 0)
             p2 == TermAtBoth(c, t, NoQubits, NoQubits, 0, 0, d, 0, 0)
             p3 == TermAtBoth(c, t, NoQubits, NoQubits, 0, b, 0, 0, 0)
             p4 == TermAtBoth(c, t, NoQubits, NoQubits, 0, e, 0, e, 0)
         IN  Times(Times(Times(Times(rest, p1), p2), p3), p4) =
               TermAtBoth(c, t, X, Z, a, Xor(b, e), Xor(a, d), e, k)
<1> DEFINE rest == TermAtBoth(c, t, X, Z, 0, 0, 0, 0, k)
           p1 == TermAtBoth(c, t, NoQubits, NoQubits, a, 0, a, 0, 0)
           p2 == TermAtBoth(c, t, NoQubits, NoQubits, 0, 0, d, 0, 0)
           p3 == TermAtBoth(c, t, NoQubits, NoQubits, 0, b, 0, 0, 0)
           p4 == TermAtBoth(c, t, NoQubits, NoQubits, 0, e, 0, e, 0)
           f == Xor(a, d)
<1>1. f \in Bits
  BY BitsAreClosed
<1> HIDE DEF f
<1>2. /\ IsLocalBoth(c, t, X, Z, 0, 0, 0, 0, k)
      /\ IsLocalBoth(c, t, X, Z, a, 0, a, 0, k)
      /\ IsLocalBoth(c, t, X, Z, a, 0, f, 0, k)
      /\ IsLocalBoth(c, t, X, Z, a, b, f, 0, k)
      /\ IsLocalBoth(c, t, NoQubits, NoQubits, a, 0, a, 0, 0)
      /\ IsLocalBoth(c, t, NoQubits, NoQubits, 0, 0, d, 0, 0)
      /\ IsLocalBoth(c, t, NoQubits, NoQubits, 0, b, 0, 0, 0)
      /\ IsLocalBoth(c, t, NoQubits, NoQubits, 0, e, 0, e, 0)
  BY <1>1, ZeroBits, NothingApartBoth DEF IsLocalBoth
<1>3. /\ Xor(0, a) = a /\ Xor(0, 0) = 0 /\ And(0, a) = 0 /\ And(0, 0) = 0
      /\ Xor(a, 0) = a /\ And(0, d) = 0 /\ And(b, 0) = 0
      /\ Xor(0, b) = b /\ Xor(f, 0) = f /\ Xor(0, e) = e
      /\ PhaseSumBoth(k, 0, 0, 0, 0) = k
  BY <1>1, ZeroBits, PhaseWithoutImages
<1>4. Times(rest, p1) = TermAtBoth(c, t, X, Z, a, 0, a, 0, k)
  <2>1. Times(rest, p1) = TermAtBoth(c, t, X, Z, Xor(0, a), Xor(0, 0), Xor(0, a), Xor(0, 0),
                                     PhaseSumBoth(k, 0, 0, And(0, a), And(0, a)))
    BY ONLY <1>2, TimesLocalBoth
  <2>2. QED
    BY ONLY <1>3, <2>1
<1>5. Times(TermAtBoth(c, t, X, Z, a, 0, a, 0, k), p2) = TermAtBoth(c, t, X, Z, a, 0, f, 0, k)
  <2>1. Times(TermAtBoth(c, t, X, Z, a, 0, a, 0, k), p2) =
          TermAtBoth(c, t, X, Z, Xor(a, 0), Xor(0, 0), Xor(a, d), Xor(0, 0),
                     PhaseSumBoth(k, 0, 0, And(0, 0), And(0, d)))
    BY ONLY <1>2, TimesLocalBoth
  <2>2. QED
    BY ONLY <1>3, <2>1 DEF f
<1>6. Times(TermAtBoth(c, t, X, Z, a, 0, f, 0, k), p3) = TermAtBoth(c, t, X, Z, a, b, f, 0, k)
  <2>1. Times(TermAtBoth(c, t, X, Z, a, 0, f, 0, k), p3) =
          TermAtBoth(c, t, X, Z, Xor(a, 0), Xor(0, b), Xor(f, 0), Xor(0, 0),
                     PhaseSumBoth(k, 0, 0, And(0, 0), And(0, 0)))
    BY ONLY <1>2, TimesLocalBoth
  <2>2. QED
    BY ONLY <1>3, <2>1
<1>7. Times(TermAtBoth(c, t, X, Z, a, b, f, 0, k), p4) =
        TermAtBoth(c, t, X, Z, a, Xor(b, e), f, e, k)
  <2>1. Times(TermAtBoth(c, t, X, Z, a, b, f, 0, k), p4) =
          TermAtBoth(c, t, X, Z, Xor(a, 0), Xor(b, e), Xor(f, 0), Xor(0, e),
                     PhaseSumBoth(k, 0, 0, And(b, 0), And(0, 0)))
    BY ONLY <1>2, TimesLocalBoth
  <2>2. QED
    BY ONLY <1>3, <2>1
<1>8. QED
  BY ONLY <1>4, <1>5, <1>6, <1>7 DEF f

LEMMA CZChain ==
  ASSUME NEW c, NEW t, NEW X, NEW Z, NEW a \in Bits, NEW b \in Bits, NEW d \in Bits, NEW e \in Bits,
         NEW k \in 0 .. 3, IsLocalBoth(c, t, X, Z, a, b, d, e, k)
  PROVE  LET rest == TermAtBoth(c, t, X, Z, 0, 0, 0, 0, k)
             p1 == TermAtBoth(c, t, NoQubits, NoQubits, a, 0, 0, a, 0)
             p2 == TermAtBoth(c, t, NoQubits, NoQubits, 0, d, d, 0, 0)
             p3 == TermAtBoth(c, t, NoQubits, NoQubits, 0, b, 0, 0, 0)
             p4 == TermAtBoth(c, t, NoQubits, NoQubits, 0, 0, 0, e, 0)
         IN  Times(Times(Times(Times(rest, p1), p2), p3), p4) =
               TermAtBoth(c, t, X, Z, a, Xor(d, b), d, Xor(a, e), PhaseSumBoth(k, 0, 0, 0, And(a, d)))
<1> DEFINE rest == TermAtBoth(c, t, X, Z, 0, 0, 0, 0, k)
           p1 == TermAtBoth(c, t, NoQubits, NoQubits, a, 0, 0, a, 0)
           p2 == TermAtBoth(c, t, NoQubits, NoQubits, 0, d, d, 0, 0)
           p3 == TermAtBoth(c, t, NoQubits, NoQubits, 0, b, 0, 0, 0)
           p4 == TermAtBoth(c, t, NoQubits, NoQubits, 0, 0, 0, e, 0)
           f == Xor(d, b)
           l == PhaseSumBoth(k, 0, 0, 0, And(a, d))
<1>1. f \in Bits /\ l \in 0 .. 3
  BY BitsAreClosed DEF PhaseSumBoth, And
<1> HIDE DEF f, l
<1>2. /\ IsLocalBoth(c, t, X, Z, 0, 0, 0, 0, k)
      /\ IsLocalBoth(c, t, X, Z, a, 0, 0, a, k)
      /\ IsLocalBoth(c, t, X, Z, a, d, d, a, l)
      /\ IsLocalBoth(c, t, X, Z, a, f, d, a, l)
      /\ IsLocalBoth(c, t, NoQubits, NoQubits, a, 0, 0, a, 0)
      /\ IsLocalBoth(c, t, NoQubits, NoQubits, 0, d, d, 0, 0)
      /\ IsLocalBoth(c, t, NoQubits, NoQubits, 0, b, 0, 0, 0)
      /\ IsLocalBoth(c, t, NoQubits, NoQubits, 0, 0, 0, e, 0)
  BY <1>1, ZeroBits, NothingApartBoth DEF IsLocalBoth
<1>3. /\ Xor(0, a) = a /\ Xor(0, 0) = 0 /\ And(0, a) = 0 /\ And(0, 0) = 0
      /\ Xor(a, 0) = a /\ And(d, 0) = 0 /\ And(a, 0) = 0 /\ And(f, 0) = 0
      /\ Xor(0, d) = d /\ Xor(d, 0) = d /\ Xor(f, 0) = f
      /\ PhaseSumBoth(k, 0, 0, 0, 0) = k /\ PhaseSumBoth(l, 0, 0, 0, 0) = l
  BY <1>1, ZeroBits, PhaseWithoutImages
<1>4. Times(rest, p1) = TermAtBoth(c, t, X, Z, a, 0, 0, a, k)
  <2>1. Times(rest, p1) = TermAtBoth(c, t, X, Z, Xor(0, a), Xor(0, 0), Xor(0, 0), Xor(0, a),
                                     PhaseSumBoth(k, 0, 0, And(0, a), And(0, 0)))
    BY ONLY <1>2, TimesLocalBoth
  <2>2. QED
    BY ONLY <1>3, <2>1
<1>5. Times(TermAtBoth(c, t, X, Z, a, 0, 0, a, k), p2) = TermAtBoth(c, t, X, Z, a, d, d, a, l)
  <2>1. Times(TermAtBoth(c, t, X, Z, a, 0, 0, a, k), p2) =
          TermAtBoth(c, t, X, Z, Xor(a, 0), Xor(0, d), Xor(0, d), Xor(a, 0),
                     PhaseSumBoth(k, 0, 0, And(0, 0), And(a, d)))
    BY ONLY <1>2, TimesLocalBoth
  <2>2. QED
    BY ONLY <1>3, <2>1 DEF l
<1>6. Times(TermAtBoth(c, t, X, Z, a, d, d, a, l), p3) = TermAtBoth(c, t, X, Z, a, f, d, a, l)
  <2>1. Times(TermAtBoth(c, t, X, Z, a, d, d, a, l), p3) =
          TermAtBoth(c, t, X, Z, Xor(a, 0), Xor(d, b), Xor(d, 0), Xor(a, 0),
                     PhaseSumBoth(l, 0, 0, And(d, 0), And(a, 0)))
    BY ONLY <1>2, TimesLocalBoth
  <2>2. QED
    BY ONLY <1>3, <2>1 DEF f
<1>7. Times(TermAtBoth(c, t, X, Z, a, f, d, a, l), p4) =
        TermAtBoth(c, t, X, Z, a, f, d, Xor(a, e), l)
  <2>1. Times(TermAtBoth(c, t, X, Z, a, f, d, a, l), p4) =
          TermAtBoth(c, t, X, Z, Xor(a, 0), Xor(f, 0), Xor(d, 0), Xor(a, e),
                     PhaseSumBoth(l, 0, 0, And(f, 0), And(a, 0)))
    BY ONLY <1>2, TimesLocalBoth
  <2>2. QED
    BY ONLY <1>3, <2>1
<1>8. QED
  BY ONLY <1>4, <1>5, <1>6, <1>7 DEF f, l

AreLocalBits(a, b, d, e, s, m) ==
  a \in Bits /\ b \in Bits /\ d \in Bits /\ e \in Bits /\ s \in Bits /\ m \in Nat

LEMMA TwoGateTable ==
  ASSUME NEW a, NEW b, NEW d, NEW e, NEW s, NEW m, AreLocalBits(a, b, d, e, s, m)
  PROVE  LET k == (m + And(a, b) + And(d, e) + 2 * s) % 4 IN
         /\ SignOf(k, m + And(a, Xor(b, e)) + And(Xor(d, a), e)) = Xor(s, CNOTFlips(a, b, d, e))
         /\ SignOf(PhaseSumBoth(k, 0, 0, 0, And(a, d)), m + And(a, Xor(b, d)) + And(d, Xor(e, a))) =
              Xor(s, CZFlips(a, b, d, e))
         /\ Xor(a, d) = Xor(d, a) /\ Xor(d, b) = Xor(b, d) /\ Xor(a, e) = Xor(e, a)
         /\ k \in 0 .. 3
<1> DEFINE k == (m + And(a, b) + And(d, e) + 2 * s) % 4
           first == SignOf(k, m + And(a, Xor(b, e)) + And(Xor(d, a), e)) = Xor(s, CNOTFlips(a, b, d, e))
           second == SignOf(PhaseSumBoth(k, 0, 0, 0, And(a, d)), m + And(a, Xor(b, d)) + And(d, Xor(e, a)))
                       = Xor(s, CZFlips(a, b, d, e))
<1>0. a \in Bits /\ b \in Bits /\ d \in Bits /\ e \in Bits /\ s \in Bits /\ m \in Nat
  BY DEF AreLocalBits
<1> USE <1>0 DEF And, Xor, Bits
<1>1. Xor(a, d) = Xor(d, a) /\ Xor(d, b) = Xor(b, d) /\ Xor(a, e) = Xor(e, a)
  OBVIOUS
<1>2. k \in 0 .. 3
  OBVIOUS
<1> USE DEF SignOf, PhaseSumBoth, CNOTFlips, CZFlips
<1>3. CASE a = 0 /\ d = 0
  BY <1>3
<1>4. CASE a = 0 /\ d = 1
  BY <1>4
<1>5. CASE a = 1 /\ d = 0
  BY <1>5
<1>6. CASE a = 1 /\ d = 1
  <2>1. CASE b = 0 /\ e = 0
    BY <1>6, <2>1
  <2>2. CASE b = 0 /\ e = 1
    BY <1>6, <2>2
  <2>3. CASE b = 1 /\ e = 0
    BY <1>6, <2>3
  <2>4. CASE b = 1 /\ e = 1
    BY <1>6, <2>4
  <2>5. QED
    BY ONLY <2>1, <2>2, <2>3, <2>4, <1>0 DEF Bits
<1>7. QED
  BY ONLY <1>1, <1>2, <1>3, <1>4, <1>5, <1>6, <1>0 DEF Bits

LEMMA TwoGateAt ==
  ASSUME NEW g, NEW c, NEW t, IsTwoGate(g, c, t)
  PROVE  \A P : /\ g.name = "CNOT" => Apply(g, P) = ApplyCNOT(P, c, t)
                /\ g.name = "CZ" => Apply(g, P) = ApplyCZ(P, c, t)
<1>1. g.on[1] = c /\ g.on[2] = t
  BY DEF IsTwoGate
<1>2. QED
  BY <1>1 DEF Apply

LEMMA TwoGateRest ==
  ASSUME NEW g, NEW c, NEW t, IsTwoGate(g, c, t), NEW P \in Ops
  PROVE  LET X == P.x \ {c, t}
             Z == P.z \ {c, t}
             a == BitOf(c \in P.x)
             b == BitOf(c \in P.z)
             d == BitOf(t \in P.x)
             e == BitOf(t \in P.z)
             s == BitOf(P.neg)
             k == (Meet(X, Z) + And(a, b) + And(d, e) + 2 * s) % 4
         IN  /\ Meet(X, Z) \in Nat /\ s \in Bits
             /\ IsLocalBoth(c, t, X, Z, a, b, d, e, k)
             /\ P = OpAtBoth(c, t, X, Z, a, b, d, e, s)
             /\ Conjugate(g, P) =
                  OfTerm(Times(Times(Times(Times(TermAtBoth(c, t, X, Z, 0, 0, 0, 0, k),
                                                 Power(ImageOfX(g, c), c \in P.x)),
                                           Power(ImageOfX(g, t), t \in P.x)),
                                     Power(ImageOfZ(g, c), c \in P.z)),
                               Power(ImageOfZ(g, t), t \in P.z)))
<1> DEFINE X == P.x \ {c, t}
           Z == P.z \ {c, t}
           a == BitOf(c \in P.x)
           b == BitOf(c \in P.z)
           d == BitOf(t \in P.x)
           e == BitOf(t \in P.z)
           s == BitOf(P.neg)
           m == Meet(X, Z)
           k == (m + And(a, b) + And(d, e) + 2 * s) % 4
           rest == TermAtBoth(c, t, X, Z, 0, 0, 0, 0, k)
<1>1. /\ IsPair(c, t) /\ g.on = <<c, t>> /\ g.on[1] = c /\ g.on[2] = t /\ Len(g.on) = 2
      /\ ToSet(g.on) = {c, t}
  BY DEF IsTwoGate, ToSet
<1>2. /\ ApartBoth(c, t, X) /\ ApartBoth(c, t, Z)
      /\ P = OpAtBoth(c, t, X, Z, a, b, d, e, s)
  BY <1>1, OpIsAtBoth
<1>3. a \in Bits /\ b \in Bits /\ d \in Bits /\ e \in Bits /\ s \in Bits
  BY BitOfIsBit
<1>4. m \in Nat
  BY <1>2, MeetIsNat DEF ApartBoth, Apart
<1> HIDE DEF m, a, b, d, e, s
<1>5. k \in Int
  BY <1>3, <1>4 DEF And, Bits
<1>6. Term(P) = TermAtBoth(c, t, X, Z, a, b, d, e, k)
  <2> HIDE DEF X, Z
  <2>1. Term(OpAtBoth(c, t, X, Z, a, b, d, e, s)) = TermAtBoth(c, t, X, Z, a, b, d, e, k)
    BY <1>1, <1>2, <1>3, TermOfAtBoth DEF m
  <2>2. QED
    BY <1>2, <2>1
<1> HIDE DEF k
<1>7. [x |-> P.x \ {c, t}, z |-> P.z \ {c, t}, k |-> Term(P).k] = rest
  <2>1. Term(P).k = k
    BY <1>6 DEF TermAtBoth, TermAt
  <2>2. rest = [x |-> X, z |-> Z, k |-> k]
    BY DEF TermAtBoth, TermAt, With
  <2>3. QED
    BY ONLY <2>1, <2>2
<1> HIDE DEF rest
<1>8. Conjugate(g, P) =
        OfTerm(Times(Times(Times(Times(rest, Power(ImageOfX(g, c), c \in P.x)),
                                 Power(ImageOfX(g, t), t \in P.x)),
                           Power(ImageOfZ(g, c), c \in P.z)),
                     Power(ImageOfZ(g, t), t \in P.z)))
  BY <1>1, <1>7 DEF Conjugate
<1>9. IsLocalBoth(c, t, X, Z, a, b, d, e, k)
  BY <1>1, <1>2, <1>3, <1>5 DEF IsLocalBoth
<1>10. QED
  BY ONLY <1>2, <1>3, <1>4, <1>8, <1>9 DEF rest, k, m, a, b, d, e, s

(* A CNOT does to an operator what conjugation by it does. *)
LEMMA CNOTConjugates ==
  ASSUME NEW g, NEW c, NEW t, IsTwoGate(g, c, t), g.name = "CNOT", NEW P \in Ops
  PROVE  Apply(g, P) = Conjugate(g, P)
<1> DEFINE X == P.x \ {c, t}
           Z == P.z \ {c, t}
           a == BitOf(c \in P.x)
           b == BitOf(c \in P.z)
           d == BitOf(t \in P.x)
           e == BitOf(t \in P.z)
           s == BitOf(P.neg)
           m == Meet(X, Z)
           k == (m + And(a, b) + And(d, e) + 2 * s) % 4
           rest == TermAtBoth(c, t, X, Z, 0, 0, 0, 0, k)
           p1 == Power(ImageOfX(g, c), c \in P.x)
           p2 == Power(ImageOfX(g, t), t \in P.x)
           p3 == Power(ImageOfZ(g, c), c \in P.z)
           p4 == Power(ImageOfZ(g, t), t \in P.z)
<1>1. /\ m \in Nat /\ s \in Bits
      /\ IsLocalBoth(c, t, X, Z, a, b, d, e, k)
      /\ P = OpAtBoth(c, t, X, Z, a, b, d, e, s)
      /\ Conjugate(g, P) = OfTerm(Times(Times(Times(Times(rest, p1), p2), p3), p4))
  BY TwoGateRest
<1>2. /\ a \in Bits /\ b \in Bits /\ d \in Bits /\ e \in Bits
      /\ IsPair(c, t) /\ ApartBoth(c, t, X) /\ ApartBoth(c, t, Z)
  BY <1>1 DEF IsLocalBoth
<1>3. /\ NoY(1, 0, 1, 0) /\ NoY(0, 0, 1, 0) /\ NoY(0, 1, 0, 0) /\ NoY(0, 1, 0, 1)
      /\ And(a, 1) = a /\ And(a, 0) = 0 /\ And(d, 1) = d /\ And(d, 0) = 0
      /\ And(b, 1) = b /\ And(b, 0) = 0 /\ And(e, 1) = e /\ And(e, 0) = 0
  BY <1>2, ZeroBits DEF NoY, Bits, And
<1>4. p1 = TermAtBoth(c, t, NoQubits, NoQubits, a, 0, a, 0, 0)
  <2>1. p1 = TermAtBoth(c, t, NoQubits, NoQubits, And(a, 1), And(a, 0), And(a, 1), And(a, 0), 0)
    BY <1>2, <1>3, ImagesAtBoth, PowerAtBoth
  <2>2. QED
    BY ONLY <1>3, <2>1
<1>5. p2 = TermAtBoth(c, t, NoQubits, NoQubits, 0, 0, d, 0, 0)
  <2>1. p2 = TermAtBoth(c, t, NoQubits, NoQubits, And(d, 0), And(d, 0), And(d, 1), And(d, 0), 0)
    BY <1>2, <1>3, ImagesAtBoth, PowerAtBoth
  <2>2. QED
    BY ONLY <1>3, <2>1
<1>6. p3 = TermAtBoth(c, t, NoQubits, NoQubits, 0, b, 0, 0, 0)
  <2>1. p3 = TermAtBoth(c, t, NoQubits, NoQubits, And(b, 0), And(b, 1), And(b, 0), And(b, 0), 0)
    BY <1>2, <1>3, ImagesAtBoth, PowerAtBoth
  <2>2. QED
    BY ONLY <1>3, <2>1
<1>7. p4 = TermAtBoth(c, t, NoQubits, NoQubits, 0, e, 0, e, 0)
  <2>1. p4 = TermAtBoth(c, t, NoQubits, NoQubits, And(e, 0), And(e, 1), And(e, 0), And(e, 1), 0)
    BY <1>2, <1>3, ImagesAtBoth, PowerAtBoth
  <2>2. QED
    BY ONLY <1>3, <2>1
<1> HIDE DEF X, Z, a, b, d, e, s, m, p1, p2, p3, p4
<1>8. /\ SignOf(k, m + And(a, Xor(b, e)) + And(Xor(d, a), e)) = Xor(s, CNOTFlips(a, b, d, e))
      /\ Xor(a, d) = Xor(d, a) /\ k \in 0 .. 3
  <2>1. AreLocalBits(a, b, d, e, s, m)
    BY ONLY <1>1, <1>2 DEF AreLocalBits
  <2>2. QED
    BY ONLY <2>1, TwoGateTable DEF k
<1> HIDE DEF k
<1>9. Times(Times(Times(Times(rest, p1), p2), p3), p4) =
        TermAtBoth(c, t, X, Z, a, Xor(b, e), Xor(a, d), e, k)
  BY ONLY <1>1, <1>2, <1>4, <1>5, <1>6, <1>7, <1>8, CNOTChain
<1> DEFINE b2 == Xor(b, e)
           d2 == Xor(d, a)
<1>10. b2 \in Bits /\ d2 \in Bits
  BY <1>2, BitsAreClosed
<1> HIDE DEF b2, d2, rest
<1>11. OfTerm(TermAtBoth(c, t, X, Z, a, b2, d2, e, k)) =
         OpAtBoth(c, t, X, Z, a, b2, d2, e, SignOf(k, Meet(X, Z) + And(a, b2) + And(d2, e)))
  BY ONLY <1>2, <1>10, OfTermAtBoth
<1>12. Conjugate(g, P) = OpAtBoth(c, t, X, Z, a, b2, d2, e, Xor(s, CNOTFlips(a, b, d, e)))
  BY ONLY <1>1, <1>8, <1>9, <1>11 DEF b2, d2, m
<1>13. ApplyCNOT(P, c, t) = OpAtBoth(c, t, X, Z, a, b2, d2, e, Xor(s, CNOTFlips(a, b, d, e)))
  <2>1. ApplyCNOT(OpAtBoth(c, t, X, Z, a, b, d, e, s), c, t) =
          OpAtBoth(c, t, X, Z, a, Xor(b, e), Xor(d, a), e, Xor(s, CNOTFlips(a, b, d, e)))
    BY ONLY <1>1, <1>2, CNOTAt
  <2>2. QED
    BY ONLY <1>1, <2>1 DEF b2, d2
<1>14. Apply(g, P) = ApplyCNOT(P, c, t)
  BY TwoGateAt
<1>15. QED
  BY ONLY <1>12, <1>13, <1>14

(* A controlled Z does to an operator what conjugation by it does. *)
LEMMA CZConjugates ==
  ASSUME NEW g, NEW c, NEW t, IsTwoGate(g, c, t), g.name = "CZ", NEW P \in Ops
  PROVE  Apply(g, P) = Conjugate(g, P)
<1> DEFINE X == P.x \ {c, t}
           Z == P.z \ {c, t}
           a == BitOf(c \in P.x)
           b == BitOf(c \in P.z)
           d == BitOf(t \in P.x)
           e == BitOf(t \in P.z)
           s == BitOf(P.neg)
           m == Meet(X, Z)
           k == (m + And(a, b) + And(d, e) + 2 * s) % 4
           l == PhaseSumBoth(k, 0, 0, 0, And(a, d))
           rest == TermAtBoth(c, t, X, Z, 0, 0, 0, 0, k)
           p1 == Power(ImageOfX(g, c), c \in P.x)
           p2 == Power(ImageOfX(g, t), t \in P.x)
           p3 == Power(ImageOfZ(g, c), c \in P.z)
           p4 == Power(ImageOfZ(g, t), t \in P.z)
<1>1. /\ m \in Nat /\ s \in Bits
      /\ IsLocalBoth(c, t, X, Z, a, b, d, e, k)
      /\ P = OpAtBoth(c, t, X, Z, a, b, d, e, s)
      /\ Conjugate(g, P) = OfTerm(Times(Times(Times(Times(rest, p1), p2), p3), p4))
  BY TwoGateRest
<1>2. /\ a \in Bits /\ b \in Bits /\ d \in Bits /\ e \in Bits
      /\ IsPair(c, t) /\ ApartBoth(c, t, X) /\ ApartBoth(c, t, Z)
  BY <1>1 DEF IsLocalBoth
<1>3. /\ NoY(1, 0, 0, 1) /\ NoY(0, 1, 1, 0) /\ NoY(0, 1, 0, 0) /\ NoY(0, 0, 0, 1)
      /\ And(a, 1) = a /\ And(a, 0) = 0 /\ And(d, 1) = d /\ And(d, 0) = 0
      /\ And(b, 1) = b /\ And(b, 0) = 0 /\ And(e, 1) = e /\ And(e, 0) = 0
  BY <1>2, ZeroBits DEF NoY, Bits, And
<1>4. p1 = TermAtBoth(c, t, NoQubits, NoQubits, a, 0, 0, a, 0)
  <2>1. p1 = TermAtBoth(c, t, NoQubits, NoQubits, And(a, 1), And(a, 0), And(a, 0), And(a, 1), 0)
    BY <1>2, <1>3, ImagesAtBoth, PowerAtBoth
  <2>2. QED
    BY ONLY <1>3, <2>1
<1>5. p2 = TermAtBoth(c, t, NoQubits, NoQubits, 0, d, d, 0, 0)
  <2>1. p2 = TermAtBoth(c, t, NoQubits, NoQubits, And(d, 0), And(d, 1), And(d, 1), And(d, 0), 0)
    BY <1>2, <1>3, ImagesAtBoth, PowerAtBoth
  <2>2. QED
    BY ONLY <1>3, <2>1
<1>6. p3 = TermAtBoth(c, t, NoQubits, NoQubits, 0, b, 0, 0, 0)
  <2>1. p3 = TermAtBoth(c, t, NoQubits, NoQubits, And(b, 0), And(b, 1), And(b, 0), And(b, 0), 0)
    BY <1>2, <1>3, ImagesAtBoth, PowerAtBoth
  <2>2. QED
    BY ONLY <1>3, <2>1
<1>7. p4 = TermAtBoth(c, t, NoQubits, NoQubits, 0, 0, 0, e, 0)
  <2>1. p4 = TermAtBoth(c, t, NoQubits, NoQubits, And(e, 0), And(e, 0), And(e, 0), And(e, 1), 0)
    BY <1>2, <1>3, ImagesAtBoth, PowerAtBoth
  <2>2. QED
    BY ONLY <1>3, <2>1
<1> HIDE DEF X, Z, a, b, d, e, s, m, p1, p2, p3, p4
<1>8. /\ SignOf(l, m + And(a, Xor(b, d)) + And(d, Xor(e, a))) = Xor(s, CZFlips(a, b, d, e))
      /\ Xor(d, b) = Xor(b, d) /\ Xor(a, e) = Xor(e, a) /\ k \in 0 .. 3
  <2>1. AreLocalBits(a, b, d, e, s, m)
    BY ONLY <1>1, <1>2 DEF AreLocalBits
  <2>2. QED
    BY ONLY <2>1, TwoGateTable DEF k, l
<1> HIDE DEF k
<1>9. Times(Times(Times(Times(rest, p1), p2), p3), p4) =
        TermAtBoth(c, t, X, Z, a, Xor(d, b), d, Xor(a, e), l)
  BY ONLY <1>1, <1>2, <1>4, <1>5, <1>6, <1>7, <1>8, CZChain
<1> DEFINE b2 == Xor(b, d)
           e2 == Xor(e, a)
<1>10. b2 \in Bits /\ e2 \in Bits
  BY <1>2, BitsAreClosed
<1> HIDE DEF b2, e2, rest, l
<1>11. OfTerm(TermAtBoth(c, t, X, Z, a, b2, d, e2, l)) =
         OpAtBoth(c, t, X, Z, a, b2, d, e2, SignOf(l, Meet(X, Z) + And(a, b2) + And(d, e2)))
  BY ONLY <1>2, <1>10, OfTermAtBoth
<1>12. Conjugate(g, P) = OpAtBoth(c, t, X, Z, a, b2, d, e2, Xor(s, CZFlips(a, b, d, e)))
  BY ONLY <1>1, <1>8, <1>9, <1>11 DEF b2, e2, m
<1>13. ApplyCZ(P, c, t) = OpAtBoth(c, t, X, Z, a, b2, d, e2, Xor(s, CZFlips(a, b, d, e)))
  <2>1. ApplyCZ(OpAtBoth(c, t, X, Z, a, b, d, e, s), c, t) =
          OpAtBoth(c, t, X, Z, a, Xor(b, d), d, Xor(e, a), Xor(s, CZFlips(a, b, d, e)))
    BY ONLY <1>1, <1>2, CZAt
  <2>2. QED
    BY ONLY <1>1, <2>1 DEF b2, e2
<1>14. Apply(g, P) = ApplyCZ(P, c, t)
  BY TwoGateAt
<1>15. QED
  BY ONLY <1>12, <1>13, <1>14

-----------------------------------------------------------------------------
(* Counting i and -i gives the sign of the product.                        *)

LEMMA CountFour ==
  ASSUME NEW A, NEW B, NEW C, NEW D, IsFiniteSet(A), IsFiniteSet(B), IsFiniteSet(C), IsFiniteSet(D),
         A \cap B = {}, A \cap C = {}, A \cap D = {}, B \cap C = {}, B \cap D = {}, C \cap D = {}
  PROVE  Cardinality(A \cup B \cup C \cup D) =
           Cardinality(A) + Cardinality(B) + Cardinality(C) + Cardinality(D)
<1>1. IsFiniteSet(A \cup B) /\ Cardinality(A \cup B) = Cardinality(A) + Cardinality(B)
  BY CountDisjoint, FS_Union
<1>2. IsFiniteSet(C \cup D) /\ Cardinality(C \cup D) = Cardinality(C) + Cardinality(D)
  BY CountDisjoint, FS_Union
<1>3. (A \cup B) \cap (C \cup D) = {} /\ (A \cup B) \cup (C \cup D) = A \cup B \cup C \cup D
  OBVIOUS
<1> DEFINE E == A \cup B
           F == C \cup D
<1> HIDE DEF E, F
<1>4. Cardinality(E \cup F) = Cardinality(E) + Cardinality(F)
  BY <1>1, <1>2, <1>3, CountDisjoint DEF E, F
<1>5. /\ Cardinality(A) \in Nat /\ Cardinality(B) \in Nat
      /\ Cardinality(C) \in Nat /\ Cardinality(D) \in Nat
  BY FS_CardinalityType
<1>6. A \cup B \cup C \cup D = E \cup F
  BY <1>3 DEF E, F
<1>7. Cardinality(A \cup B \cup C \cup D) = Cardinality(E) + Cardinality(F)
  BY <1>4, <1>6
<1>8. Cardinality(E) = Cardinality(A) + Cardinality(B) /\ Cardinality(F) = Cardinality(C) + Cardinality(D)
  BY <1>1, <1>2 DEF E, F
<1>9. QED
  BY ONLY <1>5, <1>7, <1>8

LEMMA CountThree ==
  ASSUME NEW A, NEW B, NEW C, IsFiniteSet(A), IsFiniteSet(B), IsFiniteSet(C),
         A \cap B = {}, A \cap C = {}, B \cap C = {}
  PROVE  Cardinality(A \cup B \cup C) = Cardinality(A) + Cardinality(B) + Cardinality(C)
<1>1. IsFiniteSet({}) /\ Cardinality({}) = 0
  BY FS_EmptySet
<1>2. A \cup B \cup C \cup {} = A \cup B \cup C
  OBVIOUS
<1>3. /\ Cardinality(A) \in Nat /\ Cardinality(B) \in Nat /\ Cardinality(C) \in Nat
  BY FS_CardinalityType
<1>4. A \cap {} = {} /\ B \cap {} = {} /\ C \cap {} = {}
  OBVIOUS
<1>5. Cardinality(A \cup B \cup C \cup {}) =
        Cardinality(A) + Cardinality(B) + Cardinality(C) + Cardinality({})
  BY ONLY <1>1, <1>4, CountFour, IsFiniteSet(A), IsFiniteSet(B), IsFiniteSet(C),
     A \cap B = {}, A \cap C = {}, B \cap C = {}
<1>6. QED
  BY <1>1, <1>2, <1>3, <1>5

\* what the phases of two operators are to those of their product
PhasesMeet(r1, r2, D) ==
  /\ D \in Int
  /\ \E j \in Int : D = 2 * j
  /\ \E i \in Int : Meet(r1.x, r1.z) + Meet(r2.x, r2.z) + 2 * Meet(r1.z, r2.x) =
                      Meet(SymDiff(r1.x, r2.x), SymDiff(r1.z, r2.z)) + D + 4 * i

\* the qubits where r1 and r2 have X and Z as the bits say
Cell(r1, r2, a, b, c, d) ==
  {q \in r1.x \cup r1.z \cup r2.x \cup r2.z :
     /\ q \in r1.x <=> a = 1
     /\ q \in r1.z <=> b = 1
     /\ q \in r2.x <=> c = 1
     /\ q \in r2.z <=> d = 1}

LEMMA MasksCount ==
  ASSUME NEW r1 \in Ops, NEW r2 \in Ops, Commute(r1, r2)
  PROVE  PhasesMeet(r1, r2, Cardinality(IMask(r1, r2)) - Cardinality(IMask(r2, r1)))
<1> DEFINE p == Cardinality(Cell(r1, r2, 1, 1, 0, 0))
           q == Cardinality(Cell(r1, r2, 1, 1, 0, 1))
           r == Cardinality(Cell(r1, r2, 1, 1, 1, 0))
           s == Cardinality(Cell(r1, r2, 1, 1, 1, 1))
           t == Cardinality(Cell(r1, r2, 0, 0, 1, 1))
           u == Cardinality(Cell(r1, r2, 0, 1, 1, 1))
           v == Cardinality(Cell(r1, r2, 1, 0, 1, 1))
           w == Cardinality(Cell(r1, r2, 0, 1, 1, 0))
           y == Cardinality(Cell(r1, r2, 1, 0, 0, 1))
<1>1. r1.x \in FinSets /\ r1.z \in FinSets /\ r2.x \in FinSets /\ r2.z \in FinSets
  BY OpFields
<1>2. IsFiniteSet(r1.x \cup r1.z \cup r2.x \cup r2.z)
  BY <1>1, FS_Union DEF FinSets
<1>3. ASSUME NEW a, NEW b, NEW c, NEW d
      PROVE  IsFiniteSet(Cell(r1, r2, a, b, c, d)) /\ Cardinality(Cell(r1, r2, a, b, c, d)) \in Nat
  <2>1. Cell(r1, r2, a, b, c, d) \subseteq r1.x \cup r1.z \cup r2.x \cup r2.z
    BY DEF Cell
  <2>2. IsFiniteSet(Cell(r1, r2, a, b, c, d))
    BY <1>2, <2>1, FS_Subset
  <2>3. QED
    BY <2>2, FS_CardinalityType
<1>4. Meet(r1.x, r1.z) = p + q + r + s
  <2>1. r1.x \cap r1.z =
          Cell(r1, r2, 1, 1, 0, 0) \cup
          Cell(r1, r2, 1, 1, 0, 1) \cup
          Cell(r1, r2, 1, 1, 1, 0) \cup
          Cell(r1, r2, 1, 1, 1, 1)
    BY DEF Cell
  <2>2. /\ Cell(r1, r2, 1, 1, 0, 0) \cap Cell(r1, r2, 1, 1, 0, 1) = {}
        /\ Cell(r1, r2, 1, 1, 0, 0) \cap Cell(r1, r2, 1, 1, 1, 0) = {}
        /\ Cell(r1, r2, 1, 1, 0, 0) \cap Cell(r1, r2, 1, 1, 1, 1) = {}
        /\ Cell(r1, r2, 1, 1, 0, 1) \cap Cell(r1, r2, 1, 1, 1, 0) = {}
        /\ Cell(r1, r2, 1, 1, 0, 1) \cap Cell(r1, r2, 1, 1, 1, 1) = {}
        /\ Cell(r1, r2, 1, 1, 1, 0) \cap Cell(r1, r2, 1, 1, 1, 1) = {}
    BY DEF Cell
  <2>3. QED
    BY <1>3, <2>1, <2>2, CountFour DEF Meet
<1>5. Meet(r2.x, r2.z) = t + u + v + s
  <2>1. r2.x \cap r2.z =
          Cell(r1, r2, 0, 0, 1, 1) \cup
          Cell(r1, r2, 0, 1, 1, 1) \cup
          Cell(r1, r2, 1, 0, 1, 1) \cup
          Cell(r1, r2, 1, 1, 1, 1)
    BY DEF Cell
  <2>2. /\ Cell(r1, r2, 0, 0, 1, 1) \cap Cell(r1, r2, 0, 1, 1, 1) = {}
        /\ Cell(r1, r2, 0, 0, 1, 1) \cap Cell(r1, r2, 1, 0, 1, 1) = {}
        /\ Cell(r1, r2, 0, 0, 1, 1) \cap Cell(r1, r2, 1, 1, 1, 1) = {}
        /\ Cell(r1, r2, 0, 1, 1, 1) \cap Cell(r1, r2, 1, 0, 1, 1) = {}
        /\ Cell(r1, r2, 0, 1, 1, 1) \cap Cell(r1, r2, 1, 1, 1, 1) = {}
        /\ Cell(r1, r2, 1, 0, 1, 1) \cap Cell(r1, r2, 1, 1, 1, 1) = {}
    BY DEF Cell
  <2>3. QED
    BY <1>3, <2>1, <2>2, CountFour DEF Meet
<1>6. Meet(r1.z, r2.x) = w + u + r + s
  <2>1. r1.z \cap r2.x =
          Cell(r1, r2, 0, 1, 1, 0) \cup
          Cell(r1, r2, 0, 1, 1, 1) \cup
          Cell(r1, r2, 1, 1, 1, 0) \cup
          Cell(r1, r2, 1, 1, 1, 1)
    BY DEF Cell
  <2>2. /\ Cell(r1, r2, 0, 1, 1, 0) \cap Cell(r1, r2, 0, 1, 1, 1) = {}
        /\ Cell(r1, r2, 0, 1, 1, 0) \cap Cell(r1, r2, 1, 1, 1, 0) = {}
        /\ Cell(r1, r2, 0, 1, 1, 0) \cap Cell(r1, r2, 1, 1, 1, 1) = {}
        /\ Cell(r1, r2, 0, 1, 1, 1) \cap Cell(r1, r2, 1, 1, 1, 0) = {}
        /\ Cell(r1, r2, 0, 1, 1, 1) \cap Cell(r1, r2, 1, 1, 1, 1) = {}
        /\ Cell(r1, r2, 1, 1, 1, 0) \cap Cell(r1, r2, 1, 1, 1, 1) = {}
    BY DEF Cell
  <2>3. QED
    BY <1>3, <2>1, <2>2, CountFour DEF Meet
<1>7. Meet(r1.x, r2.z) = y + v + q + s
  <2>1. r1.x \cap r2.z =
          Cell(r1, r2, 1, 0, 0, 1) \cup
          Cell(r1, r2, 1, 0, 1, 1) \cup
          Cell(r1, r2, 1, 1, 0, 1) \cup
          Cell(r1, r2, 1, 1, 1, 1)
    BY DEF Cell
  <2>2. /\ Cell(r1, r2, 1, 0, 0, 1) \cap Cell(r1, r2, 1, 0, 1, 1) = {}
        /\ Cell(r1, r2, 1, 0, 0, 1) \cap Cell(r1, r2, 1, 1, 0, 1) = {}
        /\ Cell(r1, r2, 1, 0, 0, 1) \cap Cell(r1, r2, 1, 1, 1, 1) = {}
        /\ Cell(r1, r2, 1, 0, 1, 1) \cap Cell(r1, r2, 1, 1, 0, 1) = {}
        /\ Cell(r1, r2, 1, 0, 1, 1) \cap Cell(r1, r2, 1, 1, 1, 1) = {}
        /\ Cell(r1, r2, 1, 1, 0, 1) \cap Cell(r1, r2, 1, 1, 1, 1) = {}
    BY DEF Cell
  <2>3. QED
    BY <1>3, <2>1, <2>2, CountFour DEF Meet
<1>8. Meet(SymDiff(r1.x, r2.x), SymDiff(r1.z, r2.z)) = p + y + w + t
  <2>1. SymDiff(r1.x, r2.x) \cap SymDiff(r1.z, r2.z) =
          Cell(r1, r2, 1, 1, 0, 0) \cup
          Cell(r1, r2, 1, 0, 0, 1) \cup
          Cell(r1, r2, 0, 1, 1, 0) \cup
          Cell(r1, r2, 0, 0, 1, 1)
    BY DEF Cell, SymDiff
  <2>2. /\ Cell(r1, r2, 1, 1, 0, 0) \cap Cell(r1, r2, 1, 0, 0, 1) = {}
        /\ Cell(r1, r2, 1, 1, 0, 0) \cap Cell(r1, r2, 0, 1, 1, 0) = {}
        /\ Cell(r1, r2, 1, 1, 0, 0) \cap Cell(r1, r2, 0, 0, 1, 1) = {}
        /\ Cell(r1, r2, 1, 0, 0, 1) \cap Cell(r1, r2, 0, 1, 1, 0) = {}
        /\ Cell(r1, r2, 1, 0, 0, 1) \cap Cell(r1, r2, 0, 0, 1, 1) = {}
        /\ Cell(r1, r2, 0, 1, 1, 0) \cap Cell(r1, r2, 0, 0, 1, 1) = {}
    BY DEF Cell
  <2>3. QED
    BY <1>3, <2>1, <2>2, CountFour DEF Meet
<1>9. Cardinality(IMask(r1, r2)) = v + q + w
  <2>1. IMask(r1, r2) =
          Cell(r1, r2, 1, 0, 1, 1) \cup
          Cell(r1, r2, 1, 1, 0, 1) \cup
          Cell(r1, r2, 0, 1, 1, 0)
    BY DEF Cell, IMask, Xs, Ys, Zs
  <2>2. /\ Cell(r1, r2, 1, 0, 1, 1) \cap Cell(r1, r2, 1, 1, 0, 1) = {}
        /\ Cell(r1, r2, 1, 0, 1, 1) \cap Cell(r1, r2, 0, 1, 1, 0) = {}
        /\ Cell(r1, r2, 1, 1, 0, 1) \cap Cell(r1, r2, 0, 1, 1, 0) = {}
    BY DEF Cell
  <2>3. QED
    BY <1>3, <2>1, <2>2, CountThree
<1>10. Cardinality(IMask(r2, r1)) = r + u + y
  <2>1. IMask(r2, r1) =
          Cell(r1, r2, 1, 1, 1, 0) \cup
          Cell(r1, r2, 0, 1, 1, 1) \cup
          Cell(r1, r2, 1, 0, 0, 1)
    BY DEF Cell, IMask, Xs, Ys, Zs
  <2>2. /\ Cell(r1, r2, 1, 1, 1, 0) \cap Cell(r1, r2, 0, 1, 1, 1) = {}
        /\ Cell(r1, r2, 1, 1, 1, 0) \cap Cell(r1, r2, 1, 0, 0, 1) = {}
        /\ Cell(r1, r2, 0, 1, 1, 1) \cap Cell(r1, r2, 1, 0, 0, 1) = {}
    BY DEF Cell
  <2>3. QED
    BY <1>3, <2>1, <2>2, CountThree
<1>11. (Meet(r1.x, r2.z) + Meet(r1.z, r2.x)) % 2 = 0
  BY CommuteIs
<1>12. /\ p \in Nat /\ q \in Nat /\ r \in Nat /\ s \in Nat /\ t \in Nat /\ u \in Nat /\ v \in Nat
       /\ w \in Nat /\ y \in Nat
  BY <1>3
<1> HIDE DEF p, q, r, s, t, u, v, w, y
<1> DEFINE D == Cardinality(IMask(r1, r2)) - Cardinality(IMask(r2, r1))
<1>13. D = (v + q + w) - (r + u + y) /\ D \in Int
  BY <1>9, <1>10, <1>12
<1> HIDE DEF D
<1>14. \E i \in Int : Meet(r1.x, r1.z) + Meet(r2.x, r2.z) + 2 * Meet(r1.z, r2.x) =
                        Meet(SymDiff(r1.x, r2.x), SymDiff(r1.z, r2.z)) + D + 4 * i
  <2>1. r + s + u \in Int
    BY <1>12
  <2>2. Meet(r1.x, r1.z) + Meet(r2.x, r2.z) + 2 * Meet(r1.z, r2.x) =
                        Meet(SymDiff(r1.x, r2.x), SymDiff(r1.z, r2.z)) + D + 4 * (r + s + u)
    BY ONLY <1>4, <1>5, <1>6, <1>8, <1>12, <1>13
  <2>3. QED
    BY ONLY <2>1, <2>2
<1>15. \E j \in Int : D = 2 * j
  <2>1. ((y + v + q + s) + (w + u + r + s)) % 2 = 0
    BY ONLY <1>6, <1>7, <1>11
  <2>2. PICK h \in Int : (y + v + q + s) + (w + u + r + s) = 2 * h
    <3>1. (y + v + q + s) + (w + u + r + s) \in Int
      BY ONLY <1>12
    <3> DEFINE n == (y + v + q + s) + (w + u + r + s)
    <3> HIDE DEF n
    <3>2. n = 2 * (n \div 2) /\ n \div 2 \in Int
      BY ONLY <2>1, <3>1 DEF n
    <3>3. QED
      BY ONLY <3>2 DEF n
  <2>3. D = 2 * (h - s - r - u - y) /\ h - s - r - u - y \in Int
    BY ONLY <1>12, <1>13, <2>2
  <2>4. QED
    BY ONLY <2>3
<1>16. QED
  BY ONLY <1>13, <1>14, <1>15 DEF PhasesMeet, D

LEMMA SignsCount ==
  ASSUME NEW a \in Nat, NEW b \in Nat, NEW c \in Nat, NEW d \in Nat, NEW e \in Int,
         NEW m, NEW n, m \in {0, 2}, n \in {0, 2},
         \E j \in Int : e = 2 * j, \E i \in Int : a + b + 2 * c = d + e + 4 * i
  PROVE  ((((a + m) % 4) + ((b + n) % 4) + (2 * c)) % 4 # (d % 4)) <=> ((m # n) # ((e % 4) # 0))
<1>1. PICK j \in Int : e = 2 * j
  OBVIOUS
<1>2. PICK i \in Int : a + b + 2 * c = d + e + 4 * i
  OBVIOUS
<1>3. (((a + m) % 4) + ((b + n) % 4) + (2 * c)) % 4 = (d + e + m + n) % 4
  BY <1>2
<1>4. e % 4 \in {0, 2} /\ d % 4 \in 0 .. 3
  BY <1>1
<1>5. (d + e + m + n) % 4 = ((d % 4) + (e % 4) + m + n) % 4
  OBVIOUS
<1> DEFINE d4 == d % 4
           e4 == e % 4
<1> HIDE DEF d4, e4
<1>6. d4 \in 0 .. 3 /\ e4 \in {0, 2}
  BY <1>4 DEF d4, e4
<1>7. ((d4 + e4 + m + n) % 4 # d4) <=> ((m # n) # (e4 # 0))
  BY ONLY <1>6, m \in {0, 2}, n \in {0, 2}
<1>8. QED
  BY ONLY <1>3, <1>5, <1>7 DEF d4, e4

(* The product that the code computes is the product. *)
LEMMA MultiplyIsProduct ==
  ASSUME NEW r1 \in Ops, NEW r2 \in Ops, Commute(r1, r2)
  PROVE  Multiply(r1, r2) = Product(r1, r2)
<1> DEFINE a == Meet(r1.x, r1.z)
           b == Meet(r2.x, r2.z)
           c == Meet(r1.z, r2.x)
           d == Meet(SymDiff(r1.x, r2.x), SymDiff(r1.z, r2.z))
           e == Cardinality(IMask(r1, r2)) - Cardinality(IMask(r2, r1))
           m == IF r1.neg THEN 2 ELSE 0
           n == IF r2.neg THEN 2 ELSE 0
<1>1. /\ r1.x \in FinSets /\ r1.z \in FinSets /\ r2.x \in FinSets /\ r2.z \in FinSets
      /\ r1.neg \in BOOLEAN /\ r2.neg \in BOOLEAN
  BY OpFields
<1>2. a \in Nat /\ b \in Nat /\ c \in Nat /\ d \in Nat
  BY <1>1, MeetIsNat, SymDiffIn
<1>3. Product(r1, r2) = [x |-> SymDiff(r1.x, r2.x), z |-> SymDiff(r1.z, r2.z),
                         neg |-> (((a + m) % 4) + ((b + n) % 4) + (2 * c)) % 4 # (d % 4)]
  BY TermIs, TimesIs, OfTermIs DEF Product
<1>4. Multiply(r1, r2) = [x |-> SymDiff(r1.x, r2.x), z |-> SymDiff(r1.z, r2.z),
                          neg |-> (r1.neg # r2.neg) # ((e % 4) # 0)]
  BY DEF Multiply
<1>5. /\ e \in Int
      /\ \E j \in Int : e = 2 * j
      /\ \E i \in Int : a + b + 2 * c = d + e + 4 * i
  BY MasksCount DEF PhasesMeet
<1>6. m \in {0, 2} /\ n \in {0, 2} /\ ((m # n) <=> (r1.neg # r2.neg))
  BY <1>1
<1> HIDE DEF a, b, c, d, e, m, n
<1>7. ((((a + m) % 4) + ((b + n) % 4) + (2 * c)) % 4 # (d % 4)) <=> ((m # n) # ((e % 4) # 0))
  BY ONLY <1>2, <1>5, <1>6, SignsCount
<1>8. ((r1.neg # r2.neg) # ((e % 4) # 0)) = ((((a + m) % 4) + ((b + n) % 4) + (2 * c)) % 4 # (d % 4))
  BY ONLY <1>1, <1>6, <1>7
<1>9. QED
  BY ONLY <1>3, <1>4, <1>8

-----------------------------------------------------------------------------
(* Groups of commuting operators.                                          *)

IsGroup(G) ==
  /\ G \subseteq Ops
  /\ Identity \in G
  /\ \A P, R \in G : Commute(P, R) /\ Product(P, R) \in G

WithProducts(G, r) == G \cup {Product(P, r) : P \in G}

CommutesWith(r, G) == \A P \in G : Commute(P, r)

LEMMA ProductOnTheRight ==
  ASSUME NEW P \in Ops, NEW R \in Ops, NEW r \in Ops,
         Commute(P, R), Commute(P, r), Commute(R, r)
  PROVE  /\ Product(P, r) \in Ops
         /\ Commute(Product(P, r), R)
         /\ Product(Product(P, r), R) = Product(Product(P, R), r)
         /\ Product(R, Product(P, r)) = Product(Product(P, R), r)
<1>1. Product(P, r) \in Ops /\ Product(P, R) \in Ops /\ Product(r, R) = Product(R, r)
      /\ Product(P, R) = Product(R, P)
  BY ProductIsOp, ProductCommutes, CommuteBoth
<1>2. Commute(R, Product(P, r))
  BY CommutesWithProduct, CommuteBoth
<1>3. Commute(Product(P, r), R)
  BY <1>1, <1>2, CommuteBoth
<1>4. Commute(r, R)
  BY CommuteBoth
<1>5. Product(Product(P, r), R) = Product(P, Product(r, R))
  BY <1>4, ProductAssociates
<1>6. Product(Product(P, R), r) = Product(P, Product(R, r))
  BY ProductAssociates
<1>7. Product(R, Product(P, r)) = Product(Product(P, r), R)
  BY <1>1, <1>2, ProductCommutes
<1>8. QED
  BY <1>1, <1>3, <1>5, <1>6, <1>7

LEMMA ProductTwice ==
  ASSUME NEW P \in Ops, NEW r \in Ops, Commute(P, r)
  PROVE  /\ Product(Product(P, r), r) = P
         /\ Commute(Product(P, r), r)
<1>1. Commute(r, r) /\ Product(r, r) = Identity
  BY CommutesWithItself, ProductWithItself
<1>2. Product(Product(P, r), r) = Product(P, Product(r, r))
  BY <1>1, ProductAssociates
<1>3. Commute(r, Product(P, r))
  BY <1>1, CommutesWithProduct, CommuteBoth
<1>4. QED
  BY <1>1, <1>2, <1>3, ProductWithIdentity, ProductIsOp, CommuteBoth

LEMMA GroupGrows ==
  ASSUME NEW G, IsGroup(G), NEW r \in Ops, CommutesWith(r, G)
  PROVE  /\ IsGroup(WithProducts(G, r))
         /\ G \subseteq WithProducts(G, r) /\ r \in WithProducts(G, r)
         /\ CommutesWith(r, WithProducts(G, r))
<1>1. G \subseteq WithProducts(G, r)
  BY DEF WithProducts
<1>2. r \in WithProducts(G, r)
  <2>1. Product(Identity, r) = r
    BY ProductWithIdentity
  <2>2. QED
    BY <2>1 DEF WithProducts, IsGroup
<1>3. /\ \A P \in G : P \in Ops /\ Commute(P, r)
      /\ \A P, R \in G : Commute(P, R) /\ Product(P, R) \in G
  BY DEF IsGroup, CommutesWith
<1>4. \A P \in G : Product(P, r) \in Ops /\ Commute(Product(P, r), r)
  BY <1>3, ProductIsOp, ProductTwice
<1>5. WithProducts(G, r) \subseteq Ops /\ Identity \in WithProducts(G, r)
  BY <1>1, <1>3, <1>4 DEF WithProducts, IsGroup
<1>6. CommutesWith(r, WithProducts(G, r))
  BY <1>3, <1>4 DEF WithProducts, CommutesWith
<1>7. ASSUME NEW P \in G, NEW R \in G
      PROVE  /\ Commute(P, R) /\ Product(P, R) \in WithProducts(G, r)
             /\ Commute(Product(P, r), R) /\ Product(Product(P, r), R) \in WithProducts(G, r)
             /\ Commute(P, Product(R, r)) /\ Product(P, Product(R, r)) \in WithProducts(G, r)
             /\ Commute(Product(P, r), Product(R, r))
             /\ Product(Product(P, r), Product(R, r)) \in WithProducts(G, r)
  <2>1. /\ P \in Ops /\ R \in Ops /\ Commute(P, R) /\ Commute(R, P) /\ Commute(P, r) /\ Commute(R, r)
        /\ Product(P, R) \in G /\ Product(R, P) \in G
    BY <1>3
  <2>2. /\ Commute(Product(P, r), R)
        /\ Product(Product(P, r), R) = Product(Product(P, R), r)
        /\ Product(P, r) \in Ops
    BY <2>1, ProductOnTheRight
  <2>3. /\ Product(R, r) \in Ops
        /\ Commute(Product(R, r), P)
        /\ Product(P, Product(R, r)) = Product(Product(R, P), r)
    BY <2>1, ProductOnTheRight
  <2>4. Commute(P, Product(R, r))
    BY <2>1, <2>3, CommuteBoth
  <2>5. Commute(Product(P, r), r)
    BY <2>1, ProductTwice
  <2>6. /\ Commute(Product(P, r), Product(R, r))
        /\ Product(Product(P, r), Product(R, r)) = Product(Product(P, Product(R, r)), r)
    <3>1. Commute(P, r) /\ Commute(Product(R, r), r) /\ Commute(P, Product(R, r))
      BY <2>1, <2>4, ProductTwice
    <3>2. QED
      BY <2>1, <2>3, <3>1, ProductOnTheRight
  <2>7. Product(Product(Product(R, P), r), r) = Product(R, P)
    <3>1. Product(R, P) \in Ops /\ Commute(Product(R, P), r)
      BY <1>3, <2>1
    <3>2. QED
      BY <3>1, ProductTwice
  <2>8. Product(Product(P, r), Product(R, r)) = Product(R, P)
    BY <2>3, <2>6, <2>7
  <2>9. QED
    BY <2>1, <2>2, <2>3, <2>4, <2>6, <2>8 DEF WithProducts
<1>8. \A P, R \in WithProducts(G, r) : Commute(P, R) /\ Product(P, R) \in WithProducts(G, r)
  BY <1>7 DEF WithProducts
<1>9. QED
  BY <1>1, <1>2, <1>5, <1>6, <1>8 DEF IsGroup

LEMMA TrivialGroup ==
  IsGroup({Identity}) /\ \A r \in Ops : CommutesWith(r, {Identity})
BY IdentityIsOp, ProductWithIdentity DEF IsGroup, CommutesWith

-----------------------------------------------------------------------------
(* The group that rows generate.                                           *)

\* f holds what the first 0 .. k rows generate
SpansUpTo(f, rows, k) ==
  f = [i \in 0 .. k |-> IF i = 0 THEN {Identity} ELSE WithProducts(f[i - 1], rows[i])]

LEMMA SpansExist ==
  ASSUME NEW rows, NEW k \in Nat
  PROVE  \E f : SpansUpTo(f, rows, k)
<1> DEFINE Step(d, i) == WithProducts(d, rows[i])
           Ups(f, j) == f = [i \in 0 .. j |-> IF i = 0 THEN {Identity} ELSE Step(f[i - 1], i)]
           S == {j \in Nat : \E f : Ups(f, j)}
<1> HIDE DEF Step
<1>1. 0 \in S
  <2>1. Ups([i \in 0 .. 0 |-> {Identity}], 0)
    OBVIOUS
  <2>2. QED
    BY <2>1
<1>2. ASSUME NEW j \in Nat, j \in S
      PROVE  j + 1 \in S
  <2>1. PICK f : Ups(f, j)
    BY <1>2
  <2> DEFINE g == [i \in 0 .. j + 1 |->
                     IF i = j + 1 THEN Step(f[j], j + 1) ELSE f[i]]
  <2>2. ASSUME NEW i \in 0 .. j + 1
        PROVE  g[i] = IF i = 0 THEN {Identity} ELSE Step(g[i - 1], i)
    <3>1. CASE i = j + 1
      BY <3>1
    <3>2. CASE i # j + 1
      <4>1. i \in 0 .. j /\ g[i] = f[i] /\ (i # 0 => g[i - 1] = f[i - 1])
        BY <3>2
      <4>2. f[i] = IF i = 0 THEN {Identity} ELSE Step(f[i - 1], i)
        BY <2>1, <4>1
      <4>3. QED
        BY <4>1, <4>2
    <3>3. QED
      BY <3>1, <3>2
  <2>3. DOMAIN g = 0 .. j + 1 /\ g = [i \in 0 .. j + 1 |-> g[i]]
    OBVIOUS
  <2> HIDE DEF g
  <2>4. Ups(g, j + 1)
    BY <2>2, <2>3
  <2>5. QED
    BY <2>4
<1>3. k \in S
  <2> HIDE DEF S
  <2> QED BY <1>1, <1>2, SetInduction
<1>4. PICK f : Ups(f, k)
  BY <1>3
<1>5. SpansUpTo(f, rows, k)
  BY <1>4 DEF SpansUpTo, Step
<1>6. QED
  BY <1>5

\* f[k] is what the first k rows generate
AreSpans(f, rows) ==
  /\ f[0] = {Identity}
  /\ \A k \in 1 .. Len(rows) : f[k] = WithProducts(f[k - 1], rows[k])

LEMMA SpanIsLast ==
  ASSUME NEW rows, Len(rows) \in Nat
  PROVE  \E f : AreSpans(f, rows) /\ Span(rows) = f[Len(rows)]
<1> DEFINE all == CHOOSE f : SpansUpTo(f, rows, Len(rows))
<1>1. SpansUpTo(all, rows, Len(rows))
  BY SpansExist
<1>2. Span(rows) = all[Len(rows)]
  BY DEF Span, SpansUpTo, WithProducts
<1> HIDE DEF all
<1>3. AreSpans(all, rows)
  <2> DEFINE n == Len(rows)
             step(i) == IF i = 0 THEN {Identity} ELSE WithProducts(all[i - 1], rows[i])
  <2>1. n \in Nat /\ all = [i \in 0 .. n |-> step(i)]
    BY <1>1 DEF SpansUpTo
  <2>2. \A i \in 0 .. n : all[i] = step(i)
    <3> HIDE DEF step, n
    <3>1. QED
      BY ONLY <2>1
  <2>3. all[0] = {Identity}
    BY ONLY <2>1, <2>2
  <2>4. ASSUME NEW k \in 1 .. n PROVE all[k] = WithProducts(all[k - 1], rows[k])
    <3>1. k \in 0 .. n /\ k # 0
      BY ONLY <2>1, <2>4
    <3>2. QED
      BY ONLY <2>2, <3>1
  <2>5. QED
    BY <2>3, <2>4 DEF AreSpans
<1>4. QED
  BY <1>2, <1>3

IsRows(rows) == rows \in Seq(Ops) /\ IsSymplectic(rows)

LEMMA RowsCommute ==
  ASSUME NEW rows, IsRows(rows)
  PROVE  /\ Len(rows) \in Nat /\ DOMAIN rows = 1 .. Len(rows)
         /\ \A i \in 1 .. Len(rows) : rows[i] \in Ops
         /\ \A i, j \in 1 .. Len(rows) : Commute(rows[i], rows[j])
BY DEF IsRows, IsSymplectic

\* f[k] is a group that has the first k rows and commutes with all
IsSpanOf(G, rows, k) ==
  /\ IsGroup(G)
  /\ \A i \in 1 .. k : rows[i] \in G
  /\ \A i \in 1 .. Len(rows) : CommutesWith(rows[i], G)

LEMMA SpansAreGroups ==
  ASSUME NEW rows, IsRows(rows), NEW f, AreSpans(f, rows), NEW n \in 0 .. Len(rows)
  PROVE  IsSpanOf(f[n], rows, n)
<1> DEFINE S == {k \in Nat : k <= Len(rows) => IsSpanOf(f[k], rows, k)}
<1>0. /\ Len(rows) \in Nat
      /\ \A i \in 1 .. Len(rows) : rows[i] \in Ops
      /\ \A i, j \in 1 .. Len(rows) : Commute(rows[i], rows[j])
  BY RowsCommute
<1>1. 0 \in S
  <2>1. IsSpanOf({Identity}, rows, 0)
    <3>1. IsGroup({Identity})
      BY TrivialGroup
    <3>2. \A i \in 1 .. Len(rows) : CommutesWith(rows[i], {Identity})
      BY <1>0, TrivialGroup
    <3>3. \A i \in 1 .. 0 : rows[i] \in {Identity}
      OBVIOUS
    <3>4. QED
      BY ONLY <3>1, <3>2, <3>3 DEF IsSpanOf
  <2>2. QED
    BY <2>1 DEF AreSpans
<1>2. ASSUME NEW k \in Nat, k \in S
      PROVE  k + 1 \in S
  <2>1. SUFFICES ASSUME k + 1 <= Len(rows) PROVE IsSpanOf(f[k + 1], rows, k + 1)
    OBVIOUS
  <2> DEFINE G == f[k]
             r == rows[k + 1]
  <2>2. k + 1 \in 1 .. Len(rows) /\ k <= Len(rows)
    BY <1>0, <2>1
  <2>3. f[k + 1] = WithProducts(f[k], rows[k + 1])
    <3>1. f[k + 1] = WithProducts(f[k + 1 - 1], rows[k + 1])
      BY <2>2 DEF AreSpans
    <3>2. QED
      BY <3>1
  <2>4. IsSpanOf(G, rows, k) /\ r \in Ops /\ CommutesWith(r, G)
    BY <1>0, <1>2, <2>2 DEF IsSpanOf
  <2> HIDE DEF G, r
  <2>5. /\ IsGroup(WithProducts(G, r)) /\ G \subseteq WithProducts(G, r) /\ r \in WithProducts(G, r)
    BY <2>4, GroupGrows DEF IsSpanOf
  <2>6. ASSUME NEW i \in 1 .. Len(rows)
        PROVE  CommutesWith(rows[i], WithProducts(G, r))
    <3>1. CommutesWith(rows[i], G) /\ rows[i] \in Ops /\ Commute(r, rows[i])
      BY <1>0, <2>2, <2>4 DEF IsSpanOf, r
    <3>2. ASSUME NEW P \in G PROVE Commute(P, rows[i]) /\ Commute(Product(P, r), rows[i])
      <4>1. P \in Ops /\ Commute(P, r) /\ Commute(P, rows[i])
        BY <2>4, <3>1 DEF CommutesWith, IsSpanOf, IsGroup
      <4>2. Commute(P, rows[i]) /\ Commute(r, rows[i])
        BY <3>1, <4>1
      <4>3. Commute(rows[i], Product(P, r))
        BY <2>4, <3>1, <4>1, <4>2, CommutesWithProduct, CommuteBoth
      <4>4. QED
        BY <2>4, <3>1, <4>1, <4>3, CommuteBoth, ProductIsOp
    <3>3. QED
      BY <3>2 DEF CommutesWith, WithProducts
  <2>7. ASSUME NEW i \in 1 .. k + 1 PROVE rows[i] \in WithProducts(G, r)
    <3>1. CASE i = k + 1
      BY <2>5, <3>1 DEF r
    <3>2. CASE i # k + 1
      <4>1. i \in 1 .. k
        BY <3>2
      <4>2. QED
        BY <2>4, <2>5, <4>1 DEF IsSpanOf
    <3>3. QED
      BY <3>1, <3>2
  <2>8. IsSpanOf(WithProducts(G, r), rows, k + 1)
    BY <2>5, <2>6, <2>7 DEF IsSpanOf
  <2>9. QED
    BY <2>3, <2>8 DEF G, r
<1>3. n \in S
  <2> HIDE DEF S
  <2> QED BY <1>0, <1>1, <1>2, SetInduction
<1>4. QED
  BY <1>0, <1>3

LEMMA SpanIsGroup ==
  ASSUME NEW rows, IsRows(rows)
  PROVE  /\ IsGroup(Span(rows))
         /\ \A i \in 1 .. Len(rows) : rows[i] \in Span(rows)
<1>1. Len(rows) \in Nat
  BY RowsCommute
<1>2. PICK f : AreSpans(f, rows) /\ Span(rows) = f[Len(rows)]
  BY <1>1, SpanIsLast
<1>3. IsSpanOf(f[Len(rows)], rows, Len(rows))
  BY <1>1, <1>2, SpansAreGroups
<1>4. QED
  BY <1>2, <1>3 DEF IsSpanOf

(* It is the least set with the identity that products with rows stay in. *)
LEMMA SpansAreLeast ==
  ASSUME NEW rows, Len(rows) \in Nat, NEW f, AreSpans(f, rows), NEW n \in 0 .. Len(rows),
         NEW S, Identity \in S,
         \A P \in S, i \in 1 .. n : Product(P, rows[i]) \in S
  PROVE  f[n] \subseteq S
<1> DEFINE K == {k \in Nat : k <= n => f[k] \subseteq S}
<1>2. 0 \in K
  BY DEF AreSpans
<1>3. ASSUME NEW k \in Nat, k \in K PROVE k + 1 \in K
  <2>1. SUFFICES ASSUME k + 1 <= n PROVE f[k + 1] \subseteq S
    OBVIOUS
  <2>2. k + 1 \in 1 .. n /\ k <= n /\ k + 1 - 1 = k /\ k + 1 \in 1 .. Len(rows)
    BY <2>1
  <2>3. f[k + 1] = WithProducts(f[k + 1 - 1], rows[k + 1])
    BY <2>2 DEF AreSpans
  <2>4. f[k] \subseteq S
    BY <1>3, <2>2
  <2>5. f[k + 1] = WithProducts(f[k], rows[k + 1])
    BY <2>2, <2>3
  <2>6. QED
    BY <2>2, <2>4, <2>5 DEF WithProducts
<1>4. n \in K
  <2> HIDE DEF K
  <2> QED BY <1>2, <1>3, SetInduction
<1>5. QED
  BY <1>4

LEMMA SpanIsLeast ==
  ASSUME NEW rows, Len(rows) \in Nat, NEW S, Identity \in S,
         \A P \in S, i \in 1 .. Len(rows) : Product(P, rows[i]) \in S
  PROVE  Span(rows) \subseteq S
<1>1. PICK f : AreSpans(f, rows) /\ Span(rows) = f[Len(rows)]
  BY SpanIsLast
<1>2. f[Len(rows)] \subseteq S
  BY <1>1, SpansAreLeast
<1>3. QED
  BY <1>1, <1>2

LEMMA GroupHoldsSpan ==
  ASSUME NEW G, IsGroup(G), NEW rows, rows \in Seq(Ops), \A i \in 1 .. Len(rows) : rows[i] \in G
  PROVE  IsRows(rows) /\ Span(rows) \subseteq G
<1>1. IsRows(rows)
  BY DEF IsRows, IsSymplectic, IsGroup
<1>2. Span(rows) \subseteq G
  BY SpanIsLeast DEF IsGroup
<1>3. QED
  BY <1>1, <1>2

LEMMA SameSpan ==
  ASSUME NEW rows, IsRows(rows), NEW other, other \in Seq(Ops),
         \A i \in 1 .. Len(other) : other[i] \in Span(rows),
         \A i \in 1 .. Len(rows) : rows[i] \in Span(other)
  PROVE  IsRows(other) /\ Span(other) = Span(rows)
<1>1. IsRows(other) /\ Span(other) \subseteq Span(rows)
  BY SpanIsGroup, GroupHoldsSpan
<1>2. Span(rows) \subseteq Span(other)
  BY <1>1, SpanIsGroup, GroupHoldsSpan DEF IsRows
<1>3. QED
  BY <1>1, <1>2

-----------------------------------------------------------------------------
(* How many operators rows generate.                                       *)

LEMMA CountImage ==
  ASSUME NEW S, IsFiniteSet(S), NEW f, DOMAIN f = S, NEW T, T = {f[x] : x \in S},
         \A x, y \in S : f[x] = f[y] => x = y
  PROVE  IsFiniteSet(T) /\ Cardinality(T) = Cardinality(S)
<1>1. \E g \in [S -> T] : \A x \in S : g[x] = f[x]
  <2> DEFINE g == [x \in S |-> f[x]]
  <2>1. g \in [S -> T] /\ \A x \in S : g[x] = f[x]
    OBVIOUS
  <2>2. QED
    BY <2>1
<1>2. PICK g \in [S -> T] : \A x \in S : g[x] = f[x]
  BY <1>1
<1>3. g \in Surjection(S, T) /\ g \in Injection(S, T)
  BY <1>2 DEF Surjection, Injection, IsInjective
<1>4. QED
  BY <1>3, FS_Surjection

LEMMA PowerDoubles ==
  ASSUME NEW n \in Nat
  PROVE  2 ^ n \in Nat /\ 2 ^ (n + 1) = 2 * (2 ^ n) /\ 2 ^ n > 0
<1> DEFINE S == 1 .. n
           x == n + 1
           U == SUBSET S
           f == [T \in U |-> T \cup {x}]
           V == {f[T] : T \in U}
<1>1. IsFiniteSet(S) /\ Cardinality(S) = n
  BY FS_Interval
<1>2. IsFiniteSet(1 .. n + 1) /\ Cardinality(1 .. n + 1) = n + 1
  BY FS_Interval
<1>3. IsFiniteSet(U) /\ Cardinality(U) = 2 ^ n
  BY <1>1, FS_SUBSET
<1>4. Cardinality(SUBSET (1 .. n + 1)) = 2 ^ (n + 1)
  BY <1>2, FS_SUBSET
<1>5. x \notin S /\ 1 .. n + 1 = S \cup {x}
  OBVIOUS
<1>6. \A A, B \in U : f[A] = f[B] => A = B
  BY <1>5
<1>7. IsFiniteSet(V) /\ Cardinality(V) = Cardinality(U)
  <2>1. DOMAIN f = U
    OBVIOUS
  <2> HIDE DEF f, U
  <2>2. QED
    BY <1>3, <1>6, <2>1, CountImage
<1>8. SUBSET (1 .. n + 1) = U \cup V
  <2>1. ASSUME NEW A \in SUBSET (1 .. n + 1) PROVE A \in U \cup V
    <3>1. CASE x \in A
      <4>1. A \ {x} \in U /\ f[A \ {x}] = A
        BY <1>5, <3>1
      <4>2. QED
        BY <4>1
    <3>2. CASE x \notin A
      BY <1>5, <3>2
    <3>3. QED
      BY <3>1, <3>2
  <2>2. ASSUME NEW A \in U PROVE A \in SUBSET (1 .. n + 1) /\ f[A] \in SUBSET (1 .. n + 1)
    BY <1>5
  <2> DEFINE W == SUBSET (1 .. n + 1)
  <2>3. \A A \in W : A \in U \cup V
    BY <2>1
  <2>4. \A A \in U : A \in W /\ f[A] \in W
    BY <2>2
  <2> HIDE DEF W, U, f
  <2>5. W = U \cup V
    BY <2>3, <2>4
  <2>6. QED
    BY <2>5 DEF W
<1>9. U \cap V = {}
  BY <1>5
<1>10. Cardinality(U \cup V) = Cardinality(U) + Cardinality(V)
  <2> HIDE DEF U, V
  <2>1. QED
    BY <1>3, <1>7, <1>9, CountDisjoint
<1>11. Cardinality(U) \in Nat
  BY <1>3, FS_CardinalityType
<1>12. Cardinality(U) > 0
  <2>1. {} \in U
    OBVIOUS
  <2> HIDE DEF U
  <2>2. Cardinality(U) # 0
    BY <1>3, <2>1, FS_EmptySet
  <2>3. QED
    BY <1>11, <2>2
<1>13. 2 ^ (n + 1) = Cardinality(U) + Cardinality(U)
  BY <1>4, <1>7, <1>8, <1>10
<1> HIDE DEF U
<1>14. QED
  BY <1>3, <1>11, <1>12, <1>13

LEMMA PowersOfTwo ==
  /\ 2 ^ 0 = 1
  /\ \A n \in Nat : 2 ^ n \in Nat /\ 2 ^ (n + 1) = 2 * (2 ^ n) /\ 2 ^ n > 0
BY PowerDoubles

LEMMA PowerGrows ==
  ASSUME NEW m \in Nat, NEW n \in Nat, m < n
  PROVE  2 ^ m < 2 ^ n
<1> DEFINE S == {k \in Nat : 2 ^ m < 2 ^ (m + k + 1)}
<1>1. 0 \in S
  <2>1. m + 0 + 1 = m + 1 /\ 2 ^ (m + 1) = 2 * (2 ^ m) /\ 2 ^ m \in Nat /\ 2 ^ m > 0
    BY PowerDoubles
  <2>2. QED
    BY <2>1
<1>2. ASSUME NEW k \in Nat, k \in S PROVE k + 1 \in S
  <2>1. m + (k + 1) + 1 = (m + k + 1) + 1 /\ m + k + 1 \in Nat
    OBVIOUS
  <2>2. 2 ^ ((m + k + 1) + 1) = 2 * (2 ^ (m + k + 1)) /\ 2 ^ (m + k + 1) \in Nat /\ 2 ^ m \in Nat
    BY <2>1, PowerDoubles
  <2>3. QED
    BY <1>2, <2>1, <2>2
<1>3. n - m - 1 \in Nat
  OBVIOUS
<1>4. n - m - 1 \in S
  <2> HIDE DEF S
  <2> QED BY <1>1, <1>2, <1>3, SetInduction
<1>5. m + (n - m - 1) + 1 = n
  OBVIOUS
<1>6. QED
  BY <1>4, <1>5

LEMMA PowerIsInjective ==
  ASSUME NEW m \in Nat, NEW n \in Nat, 2 ^ m = 2 ^ n
  PROVE  m = n
<1>1. 2 ^ m \in Nat /\ 2 ^ n \in Nat
  BY PowerDoubles
<1>2. CASE m < n
  BY <1>1, <1>2, PowerGrows
<1>3. CASE n < m
  BY <1>1, <1>3, PowerGrows
<1>4. QED
  BY <1>2, <1>3

LEMMA PowerAdds ==
  ASSUME NEW m \in Nat, NEW n \in Nat
  PROVE  2 ^ (m + n) = 2 ^ m * 2 ^ n
<1> DEFINE S == {k \in Nat : 2 ^ (m + k) = 2 ^ m * 2 ^ k}
<1>1. 0 \in S
  <2>1. m + 0 = m /\ 2 ^ m \in Nat /\ 2 ^ 0 = 1
    BY PowersOfTwo
  <2>2. QED
    BY <2>1
<1>2. ASSUME NEW k \in Nat, k \in S PROVE k + 1 \in S
  <2>1. m + (k + 1) = (m + k) + 1 /\ m + k \in Nat
    OBVIOUS
  <2>2. /\ 2 ^ ((m + k) + 1) = 2 * (2 ^ (m + k)) /\ 2 ^ (k + 1) = 2 * (2 ^ k)
        /\ 2 ^ m \in Nat /\ 2 ^ k \in Nat
    BY <2>1, PowerDoubles
  <2> DEFINE a == 2 ^ m
             b == 2 ^ k
  <2>3. a * (2 * b) = 2 * (a * b)
    <3>1. a \in Nat /\ b \in Nat
      BY <2>2
    <3> HIDE DEF a, b
    <3>2. QED
      BY <3>1
  <2>4. 2 ^ (m + (k + 1)) = 2 ^ m * 2 ^ (k + 1)
    BY <1>2, <2>1, <2>2, <2>3
  <2>5. QED
    BY <2>4
<1>3. n \in S
  <2> HIDE DEF S
  <2> QED BY <1>1, <1>2, SetInduction
<1>4. QED
  BY <1>3

LEMMA CancelProduct ==
  ASSUME NEW P \in Ops, NEW R \in Ops, NEW r \in Ops, Commute(P, r), Commute(R, r),
         Product(P, r) = Product(R, r)
  PROVE  P = R
BY ProductTwice

LEMMA CosetCounts ==
  ASSUME NEW G, IsGroup(G), IsFiniteSet(G), NEW r \in Ops, CommutesWith(r, G)
  PROVE  /\ IsFiniteSet(WithProducts(G, r))
         /\ r \notin G => Cardinality(WithProducts(G, r)) = 2 * Cardinality(G)
         /\ r \in G => WithProducts(G, r) = G
<1> DEFINE f == [P \in G |-> Product(P, r)]
           H == {f[P] : P \in G}
<1>1. \A P \in G : P \in Ops /\ Commute(P, r)
  BY DEF IsGroup, CommutesWith
<1>2. \A P, R \in G : f[P] = f[R] => P = R
  BY <1>1, CancelProduct
<1>3. IsFiniteSet(H) /\ Cardinality(H) = Cardinality(G)
  <2>1. DOMAIN f = G
    OBVIOUS
  <2> HIDE DEF f
  <2>2. QED
    BY <1>2, <2>1, CountImage
<1>4. WithProducts(G, r) = G \cup H
  BY DEF WithProducts
<1>5. ASSUME r \notin G PROVE G \cap H = {}
  <2>1. SUFFICES ASSUME NEW P \in G, Product(P, r) \in G PROVE FALSE
    OBVIOUS
  <2>2. Product(P, Product(P, r)) \in G
    BY <2>1 DEF IsGroup
  <2>3. P \in Ops /\ Commute(P, P) /\ Product(P, P) = Identity /\ Commute(P, r)
    BY <1>1, CommutesWithItself, ProductWithItself
  <2>4. Product(P, Product(P, r)) = Product(Product(P, P), r)
    BY <2>3, ProductAssociates
  <2>5. Product(P, Product(P, r)) = r
    BY <2>3, <2>4, ProductWithIdentity
  <2>6. QED
    BY <1>5, <2>2, <2>5
<1>6. Cardinality(G) \in Nat
  BY FS_CardinalityType
<1>7. ASSUME r \notin G PROVE Cardinality(WithProducts(G, r)) = 2 * Cardinality(G)
  <2> HIDE DEF H
  <2>1. Cardinality(G \cup H) = Cardinality(G) + Cardinality(H)
    BY <1>3, <1>5, <1>7, CountDisjoint
  <2>2. QED
    BY <1>3, <1>4, <1>6, <2>1
<1>8. ASSUME r \in G PROVE WithProducts(G, r) = G
  BY <1>8 DEF WithProducts, IsGroup
<1>9. IsFiniteSet(WithProducts(G, r))
  <2> HIDE DEF H
  <2>1. QED
    BY <1>3, <1>4, FS_Union
<1>10. QED
  BY <1>7, <1>8, <1>9

(* If each of the first h rows is new and the others are the identity, the
   rows generate 2^h operators. *)
LEMMA SpanCounts ==
  ASSUME NEW rows, IsRows(rows), NEW f, AreSpans(f, rows), NEW h \in 0 .. Len(rows),
         \A k \in 1 .. h : rows[k] \notin f[k - 1],
         \A k \in h + 1 .. Len(rows) : rows[k] = Identity
  PROVE  /\ IsFiniteSet(f[Len(rows)])
         /\ Cardinality(f[Len(rows)]) = 2 ^ h
<1> DEFINE n == Len(rows)
           count(k) == IF k <= h THEN k ELSE h
           S == {k \in Nat : k <= n => IsFiniteSet(f[k]) /\ Cardinality(f[k]) = 2 ^ count(k)}
<1>1. /\ n \in Nat /\ h \in Nat
      /\ \A i \in 1 .. n : rows[i] \in Ops
  BY RowsCommute
<1>2. 0 \in S
  <2>1. f[0] = {Identity} /\ count(0) = 0 /\ 2 ^ 0 = 1
    BY <1>1, PowersOfTwo DEF AreSpans
  <2>2. IsFiniteSet({Identity}) /\ Cardinality({Identity}) = 1
    BY FS_Singleton
  <2>3. QED
    BY <2>1, <2>2
<1>3. ASSUME NEW k \in Nat, k \in S PROVE k + 1 \in S
  <2>1. SUFFICES ASSUME k + 1 <= n
                 PROVE  IsFiniteSet(f[k + 1]) /\ Cardinality(f[k + 1]) = 2 ^ count(k + 1)
    OBVIOUS
  <2>2. k + 1 \in 1 .. n /\ k \in 0 .. n /\ k + 1 - 1 = k
    BY <1>1, <2>1
  <2> DEFINE G == f[k]
             r == rows[k + 1]
  <2>3. f[k + 1] = WithProducts(G, r)
    <3>1. f[k + 1] = WithProducts(f[k + 1 - 1], rows[k + 1])
      BY <2>2 DEF AreSpans
    <3>2. QED
      BY <2>2, <3>1
  <2>4. IsGroup(G) /\ r \in Ops /\ CommutesWith(r, G)
    BY <1>1, <2>2, SpansAreGroups DEF IsSpanOf
  <2>5. IsFiniteSet(G) /\ Cardinality(G) = 2 ^ count(k)
    BY <1>3, <2>2
  <2>6. CASE k + 1 <= h
    <3>1. r \notin G /\ count(k) = k /\ count(k + 1) = k + 1
      BY <1>1, <2>2, <2>6
    <3> HIDE DEF G, r, count
    <3>2. IsFiniteSet(WithProducts(G, r)) /\ Cardinality(WithProducts(G, r)) = 2 * Cardinality(G)
      BY <2>4, <2>5, <3>1, CosetCounts
    <3>3. 2 ^ (k + 1) = 2 * (2 ^ k)
      BY PowersOfTwo
    <3>4. QED
      BY ONLY <2>3, <2>5, <3>1, <3>2, <3>3
  <2>7. CASE ~(k + 1 <= h)
    <3>1. r = Identity /\ count(k) = count(k + 1)
      BY <1>1, <2>2, <2>7
    <3>2. r \in G
      BY <2>4, <3>1 DEF IsGroup
    <3> HIDE DEF G, r, count
    <3>3. WithProducts(G, r) = G
      BY <2>4, <2>5, <3>2, CosetCounts
    <3>4. QED
      BY ONLY <2>3, <2>5, <3>1, <3>3
  <2>8. QED
    BY <2>6, <2>7
<1>4. n \in S
  <2> HIDE DEF S
  <2> QED BY <1>1, <1>2, <1>3, SetInduction
<1>5. count(n) = h
  BY <1>1
<1>6. QED
  BY <1>1, <1>4, <1>5

-----------------------------------------------------------------------------
(* Gaussian elimination, column by column.                                 *)

LinearCol(col) == col[1] \in {"x", "z"}
IsCol(col) == col[1] \in {"x", "z", "phase"}

LEMMA BitOfProduct ==
  ASSUME NEW P, NEW R, NEW col, LinearCol(col)
  PROVE  Bit(Product(P, R), col) <=> ~(Bit(P, col) <=> Bit(R, col))
<1>1. Product(P, R).x = SymDiff(P.x, R.x) /\ Product(P, R).z = SymDiff(P.z, R.z)
  BY ProductFields
<1>2. CASE col[1] = "x"
  <2>1. \A S : Bit(S, col) <=> col[2] \in S.x
    BY <1>2 DEF Bit
  <2>2. QED
    BY <1>1, <2>1 DEF SymDiff
<1>3. CASE col[1] = "z"
  <2>1. \A S : Bit(S, col) <=> col[2] \in S.z
    BY <1>3 DEF Bit
  <2>2. QED
    BY <1>1, <2>1 DEF SymDiff
<1>4. QED
  BY <1>2, <1>3 DEF LinearCol

LEMMA BitOfIdentity ==
  ASSUME NEW col, IsCol(col)
  PROVE  ~Bit(Identity, col)
BY DEF Bit, IsCol, Identity

\* the first h - 1 rows have pivots in the first k columns: in the column of
\* a pivot only its row is not zero, and no row has anything before its pivot
Reduced(rows, h, cols, k, piv) ==
  /\ h \in 1 .. Len(rows) + 1
  /\ piv \in [1 .. h - 1 -> 1 .. k]
  /\ \A i, j \in 1 .. h - 1 : i < j => piv[i] < piv[j]
  /\ \A i \in 1 .. h - 1, j \in 1 .. Len(rows) : Bit(rows[j], cols[piv[i]]) <=> i = j
  /\ \A c \in 1 .. k, i \in 1 .. Len(rows) : Bit(rows[i], cols[c]) => i < h /\ piv[i] <= c

Cleared(P, T, col) == IF Bit(P, col) THEN Product(P, T) ELSE P

\* where the row i was before rows h and m were swapped
Before(i, h, m) == IF i = m THEN h ELSE i

\* new is rows after a pivot step with the row m
IsPivoted(new, rows, h, m, col) ==
  /\ m \in h .. Len(rows) /\ Bit(rows[m], col)
  /\ new \in Seq(Ops) /\ Len(new) = Len(rows)
  /\ new[h] = rows[m]
  /\ \A i \in 1 .. Len(rows) :
       i # h => new[i] = Cleared(rows[Before(i, h, m)], rows[m], col)

LEMMA MinIsLeast ==
  ASSUME NEW S, S \subseteq Nat, S # {}
  PROVE  Min(S) \in S /\ \A x \in S : Min(S) <= x
BY LeastElement DEF Min

LEMMA PivotIs ==
  ASSUME NEW rows, IsRows(rows), NEW h \in 1 .. Len(rows) + 1, NEW col
  PROVE  LET s == Pivot([h |-> h, rows |-> rows], col) IN
         \/ /\ s = [h |-> h, rows |-> rows]
            /\ \A i \in h .. Len(rows) : ~Bit(rows[i], col)
         \/ /\ s.h = h + 1
            /\ \E m \in h .. Len(rows) : IsPivoted(s.rows, rows, h, m, col)
<1> DEFINE old == [h |-> h, rows |-> rows]
           n == Len(rows)
           nonZero == {i \in DOMAIN rows : Bit(rows[i], col)}
           under == {i \in nonZero : i >= h}
           m == Min(under)
           swapped == [rows EXCEPT ![h] = rows[m], ![m] = rows[h]]
           new == [i \in DOMAIN swapped |-> IF i \in nonZero \ {m}
                                            THEN Multiply(swapped[i], swapped[h])
                                            ELSE swapped[i]]
           s == Pivot(old, col)
<1>1. /\ n \in Nat /\ DOMAIN rows = 1 .. n
      /\ \A i \in 1 .. n : rows[i] \in Ops
      /\ \A i, j \in 1 .. n : Commute(rows[i], rows[j])
  BY RowsCommute
<1>2. s = IF under = {} THEN old ELSE [h |-> h + 1, rows |-> new]
  BY DEF Pivot
<1>3. CASE under = {}
  <2>1. \A i \in h .. n : ~Bit(rows[i], col)
    BY <1>1, <1>3
  <2>2. s = old
    BY <1>2, <1>3
  <2>3. QED
    BY <2>1, <2>2
<1>4. CASE under # {}
  <2>1. under \subseteq Nat
    BY <1>1
  <2>2. m \in under /\ \A i \in under : m <= i
    BY <1>4, <2>1, MinIsLeast
  <2>3. m \in h .. n /\ m \in 1 .. n /\ h \in 1 .. n /\ Bit(rows[m], col)
    BY <1>1, <2>2
  <2>4. h # m => ~Bit(rows[h], col)
    <3>1. SUFFICES ASSUME Bit(rows[h], col) PROVE h = m
      OBVIOUS
    <3>2. h \in under
      BY <1>1, <2>3, <3>1
    <3>3. m <= h
      BY ONLY <2>2, <3>2
    <3>4. QED
      BY <1>1, <2>3, <3>3
  <2> HIDE DEF m
  <2>5. /\ DOMAIN swapped = 1 .. n
        /\ swapped[h] = rows[m]
        /\ \A i \in 1 .. n : i # h => swapped[i] = rows[Before(i, h, m)]
    BY <1>1, <2>3 DEF Before
  <2>6. DOMAIN new = 1 .. n /\ new = [i \in 1 .. n |-> new[i]]
    BY <2>5
  <2>7. new[h] = rows[m]
    <3>1. h \notin nonZero \ {m}
      BY <2>3, <2>4
    <3> HIDE DEF nonZero, swapped
    <3>2. QED
      BY <2>3, <2>5, <3>1
  <2>8. ASSUME NEW i \in 1 .. n, i # h
        PROVE  new[i] = Cleared(rows[Before(i, h, m)], rows[m], col) /\ new[i] \in Ops
    <3>1. new[i] = IF i \in nonZero \ {m} THEN Multiply(swapped[i], swapped[h]) ELSE swapped[i]
      BY <2>5
    <3>2. swapped[i] = rows[Before(i, h, m)] /\ swapped[h] = rows[m]
      BY <2>5, <2>8
    <3>3. Before(i, h, m) \in 1 .. n
      BY <2>3 DEF Before
    <3>4. i \in nonZero \ {m} <=> Bit(rows[Before(i, h, m)], col)
      BY <1>1, <2>3, <2>4, <2>8 DEF Before
    <3>5. /\ Multiply(rows[Before(i, h, m)], rows[m]) = Product(rows[Before(i, h, m)], rows[m])
          /\ Product(rows[Before(i, h, m)], rows[m]) \in Ops
          /\ rows[Before(i, h, m)] \in Ops
      BY <1>1, <2>3, <3>3, MultiplyIsProduct, ProductIsOp
    <3> HIDE DEF new, nonZero, swapped
    <3>6. QED
      BY <3>1, <3>2, <3>4, <3>5 DEF Cleared
  <2>9. new \in Seq(Ops) /\ Len(new) = n
    <3>1. \A i \in 1 .. n : new[i] \in Ops
      BY <1>1, <2>3, <2>7, <2>8
    <3> HIDE DEF new
    <3>2. QED
      BY <1>1, <2>6, <3>1
  <2>10. IsPivoted(new, rows, h, m, col)
    BY <2>3, <2>7, <2>8, <2>9 DEF IsPivoted
  <2>11. s.h = h + 1 /\ s.rows = new
    <3>1. s = [h |-> h + 1, rows |-> new]
      BY <1>2, <1>4
    <3> HIDE DEF s, new
    <3>2. QED
      BY <3>1
  <2>12. QED
    BY <2>3, <2>10, <2>11
<1>5. QED
  BY <1>3, <1>4

LEMMA PivotedSpan ==
  ASSUME NEW rows, IsRows(rows), NEW h \in 1 .. Len(rows), NEW m, NEW col, NEW new,
         IsPivoted(new, rows, h, m, col)
  PROVE  IsRows(new) /\ Span(new) = Span(rows)
<1> DEFINE n == Len(rows)
           G == Span(rows)
           T == rows[m]
<1>1. /\ n \in Nat
      /\ \A i \in 1 .. n : rows[i] \in Ops
      /\ \A i, j \in 1 .. n : Commute(rows[i], rows[j])
  BY RowsCommute
<1>2. /\ m \in h .. n /\ m \in 1 .. n /\ h \in 1 .. n
      /\ new \in Seq(Ops) /\ Len(new) = n
      /\ new[h] = T
      /\ \A i \in 1 .. n : i # h => new[i] = Cleared(rows[Before(i, h, m)], T, col)
  BY <1>1 DEF IsPivoted
<1>3. IsGroup(G) /\ \A i \in 1 .. n : rows[i] \in G
  BY SpanIsGroup
<1>4. \A i \in 1 .. n : new[i] \in G
  <2>1. ASSUME NEW i \in 1 .. n, i # h PROVE new[i] \in G
    <3>1. Before(i, h, m) \in 1 .. n
      BY <1>2 DEF Before
    <3>2. rows[Before(i, h, m)] \in G /\ T \in G
      BY <1>2, <1>3, <3>1
    <3>3. QED
      BY <1>2, <1>3, <2>1, <3>2 DEF Cleared, IsGroup
  <2>2. QED
    BY <1>2, <1>3, <2>1
<1>5. IsRows(new)
  BY <1>2, <1>3, <1>4, GroupHoldsSpan
<1> DEFINE H == Span(new)
<1>6. IsGroup(H) /\ \A i \in 1 .. n : new[i] \in H
  BY <1>2, <1>5, SpanIsGroup
<1>7. T \in H
  BY <1>2, <1>6
<1> HIDE DEF G, H
<1>8. ASSUME NEW j \in 1 .. n PROVE rows[j] \in H
  <2>1. CASE j = m
    BY <1>7, <2>1
  <2>2. CASE j # m
    <3> DEFINE i == IF j = h THEN m ELSE j
    <3>1. i \in 1 .. n /\ i # h /\ Before(i, h, m) = j
      BY <1>2, <2>2 DEF Before
    <3>2. new[i] = Cleared(rows[j], T, col)
      BY <1>2, <3>1
    <3>3. new[i] \in H
      BY <1>6, <3>1
    <3> HIDE DEF i
    <3>4. CASE Bit(rows[j], col)
      <4>1. new[i] = Product(rows[j], T)
        BY <3>2, <3>4 DEF Cleared
      <4>2. Product(Product(rows[j], T), T) \in H
        BY <1>6, <1>7, <3>3, <4>1 DEF IsGroup
      <4>3. Product(Product(rows[j], T), T) = rows[j]
        BY <1>1, <1>2, ProductTwice
      <4>4. QED
        BY <4>2, <4>3
    <3>5. CASE ~Bit(rows[j], col)
      BY <3>2, <3>3, <3>5 DEF Cleared
    <3>6. QED
      BY <3>4, <3>5
  <2>3. QED
    BY <2>1, <2>2
<1>9. QED
  BY <1>2, <1>4, <1>8, SameSpan DEF G, H

\* a row from h on clears the column of the others
AddsAt(rows, h, col) ==
  \A i \in 1 .. Len(rows), j \in h .. Len(rows) :
    Bit(rows[j], col) => (Bit(Product(rows[i], rows[j]), col) <=> ~Bit(rows[i], col))

LEMMA LinearAdds ==
  ASSUME NEW rows, NEW h, NEW col, LinearCol(col)
  PROVE  AddsAt(rows, h, col)
BY BitOfProduct DEF AddsAt

LEMMA PivotedReduces ==
  ASSUME NEW rows, IsRows(rows), NEW h, NEW cols, NEW k \in Nat, NEW piv, Reduced(rows, h, cols, k, piv),
         \A c \in 1 .. k : LinearCol(cols[c]), AddsAt(rows, h, cols[k + 1]),
         NEW m, NEW new, IsPivoted(new, rows, h, m, cols[k + 1])
  PROVE  \E piv2 : Reduced(new, h + 1, cols, k + 1, piv2)
<1> DEFINE n == Len(rows)
           T == rows[m]
           col == cols[k + 1]
           piv2 == [i \in 1 .. h |-> IF i = h THEN k + 1 ELSE piv[i]]
<1>1. /\ n \in Nat
      /\ \A i \in 1 .. n : rows[i] \in Ops
  BY RowsCommute
<1>2. /\ h \in 1 .. n + 1
      /\ piv \in [1 .. h - 1 -> 1 .. k]
      /\ \A i, j \in 1 .. h - 1 : i < j => piv[i] < piv[j]
      /\ \A i \in 1 .. h - 1, j \in 1 .. n : Bit(rows[j], cols[piv[i]]) <=> i = j
      /\ \A c \in 1 .. k, i \in 1 .. n : Bit(rows[i], cols[c]) => i < h /\ piv[i] <= c
  BY DEF Reduced
<1>3. /\ m \in h .. n /\ m \in 1 .. n /\ h \in 1 .. n /\ h \in Nat
      /\ Bit(rows[m], col)
      /\ Len(new) = n
      /\ new[h] = T
      /\ \A i \in 1 .. n : i # h => new[i] = Cleared(rows[Before(i, h, m)], T, col)
  BY <1>1, <1>2 DEF IsPivoted
<1>4. \A c \in 1 .. k : ~Bit(T, cols[c])
  BY <1>2, <1>3
<1>5. ASSUME NEW c \in 1 .. k, NEW i \in 1 .. n
      PROVE  Bit(new[i], cols[c]) <=> (i < h /\ Bit(rows[i], cols[c]))
  <2>1. CASE i = h
    BY <1>3, <1>4, <2>1
  <2>2. CASE i # h
    <3> DEFINE b == Before(i, h, m)
    <3>1. b \in 1 .. n /\ (i < h => b = i) /\ (i > h => b >= h)
      BY <1>3 DEF Before
    <3> HIDE DEF b
    <3>2. new[i] = Cleared(rows[b], T, col)
      BY <1>3, <2>2 DEF b
    <3>3. LinearCol(cols[c]) /\ ~Bit(T, cols[c])
      BY <1>4
    <3>4. Bit(Product(rows[b], T), cols[c]) <=> Bit(rows[b], cols[c])
      BY <3>3, BitOfProduct
    <3>5. Bit(new[i], cols[c]) <=> Bit(rows[b], cols[c])
      BY <3>2, <3>4 DEF Cleared
    <3>6. i < h \/ i > h
      BY <1>3, <2>2
    <3>7. CASE i < h
      BY <3>1, <3>5, <3>7
    <3>8. CASE i > h
      <4>1. b >= h /\ ~(b < h) /\ ~(i < h)
        BY <1>3, <3>1, <3>8
      <4>2. ~Bit(rows[b], cols[c])
        BY <1>2, <3>1, <4>1
      <4>3. QED
        BY <3>5, <4>1, <4>2
    <3>9. QED
      BY <3>6, <3>7, <3>8
  <2>3. QED
    BY <2>1, <2>2
<1>6. ASSUME NEW i \in 1 .. n
      PROVE  Bit(new[i], col) <=> i = h
  <2>1. CASE i = h
    BY <1>3, <2>1
  <2>2. CASE i # h
    <3> DEFINE b == Before(i, h, m)
    <3>1. b \in 1 .. n
      BY <1>3 DEF Before
    <3> HIDE DEF b
    <3>2. new[i] = Cleared(rows[b], T, col)
      BY <1>3, <2>2 DEF b
    <3>3. Bit(Product(rows[b], T), col) <=> ~Bit(rows[b], col)
      BY <1>3, <3>1 DEF AddsAt
    <3> HIDE DEF col, T
    <3>4. QED
      BY <2>2, <3>2, <3>3 DEF Cleared
  <2>3. QED
    BY <2>1, <2>2
<1>7. /\ piv2 \in [1 .. h -> 1 .. k + 1]
      /\ \A i \in 1 .. h - 1 : piv2[i] = piv[i] /\ piv2[i] \in 1 .. k
      /\ piv2[h] = k + 1
  <2>1. \A i \in 1 .. h - 1 : i \in 1 .. h /\ i # h /\ piv[i] \in 1 .. k
    BY <1>2, <1>3
  <2>2. \A i \in 1 .. h - 1 : piv2[i] = piv[i] /\ piv2[i] \in 1 .. k
    BY <2>1
  <2>3. h \in 1 .. h /\ piv2[h] = k + 1
    BY <1>3
  <2>4. ASSUME NEW i \in 1 .. h PROVE (IF i = h THEN k + 1 ELSE piv[i]) \in 1 .. k + 1
    <3>1. CASE i = h
      BY <3>1
    <3>2. CASE i # h
      <4>1. i \in 1 .. h - 1
        BY <1>3, <3>2
      <4>2. piv[i] \in 1 .. k
        BY <2>1, <4>1
      <4>3. QED
        BY <3>2, <4>2
    <3>3. QED
      BY <3>1, <3>2
  <2>5. piv2 \in [1 .. h -> 1 .. k + 1]
    BY <2>4
  <2>6. QED
    BY ONLY <2>2, <2>3, <2>5
<1> HIDE DEF piv2
<1>8. \A i, j \in 1 .. h : i < j => piv2[i] < piv2[j]
  <2>1. SUFFICES ASSUME NEW i \in 1 .. h, NEW j \in 1 .. h, i < j
                 PROVE  piv2[i] < piv2[j]
    OBVIOUS
  <2>2. i \in 1 .. h - 1
    BY <1>3, <2>1
  <2>3. CASE j = h
    BY <1>7, <2>2, <2>3
  <2>4. CASE j # h
    <3>1. j \in 1 .. h - 1
      BY <1>3, <2>4
    <3>2. QED
      BY <1>2, <1>7, <2>1, <2>2, <3>1
  <2>5. QED
    BY <2>3, <2>4
<1>9. ASSUME NEW i \in 1 .. h, NEW j \in 1 .. n
      PROVE  Bit(new[j], cols[piv2[i]]) <=> i = j
  <2>1. CASE i = h
    BY <1>6, <1>7, <2>1
  <2>2. CASE i # h
    <3>1. i \in 1 .. h - 1 /\ piv2[i] = piv[i] /\ piv[i] \in 1 .. k
      BY <1>3, <1>7, <2>2
    <3>2. Bit(new[j], cols[piv[i]]) <=> (j < h /\ Bit(rows[j], cols[piv[i]]))
      BY <1>5, <3>1
    <3>3. Bit(rows[j], cols[piv[i]]) <=> i = j
      BY <1>2, <3>1
    <3>4. i < h
      BY <1>3, <3>1
    <3>5. QED
      BY <3>1, <3>2, <3>3, <3>4
  <2>3. QED
    BY <2>1, <2>2
<1>10. ASSUME NEW c \in 1 .. k + 1, NEW i \in 1 .. n, Bit(new[i], cols[c])
       PROVE  i < h + 1 /\ piv2[i] <= c
  <2>1. CASE c = k + 1
    <3>1. i = h
      BY <1>6, <1>10, <2>1
    <3>2. QED
      BY <1>3, <1>7, <2>1, <3>1
  <2>2. CASE c # k + 1
    <3>1. c \in 1 .. k
      BY <2>2
    <3>2. i < h /\ Bit(rows[i], cols[c])
      BY <1>5, <1>10, <3>1
    <3>3. piv[i] <= c /\ i \in 1 .. h - 1
      BY <1>2, <1>3, <3>1, <3>2
    <3>4. QED
      BY <1>3, <1>7, <3>2, <3>3
  <2>3. QED
    BY <2>1, <2>2
<1>11. h + 1 \in 1 .. Len(new) + 1 /\ h + 1 - 1 = h
  BY <1>1, <1>3
<1>12. Reduced(new, h + 1, cols, k + 1, piv2)
  <2> HIDE DEF n
  <2>1. QED
    BY <1>3, <1>7, <1>8, <1>9, <1>10, <1>11 DEF Reduced
<1>13. QED
  BY <1>12

LEMMA UnpivotedReduces ==
  ASSUME NEW rows, NEW h, NEW cols, NEW k \in Nat, NEW piv, Reduced(rows, h, cols, k, piv),
         Len(rows) \in Nat, \A i \in h .. Len(rows) : ~Bit(rows[i], cols[k + 1])
  PROVE  Reduced(rows, h, cols, k + 1, piv)
<1>1. /\ h \in 1 .. Len(rows) + 1
      /\ piv \in [1 .. h - 1 -> 1 .. k]
      /\ \A i, j \in 1 .. h - 1 : i < j => piv[i] < piv[j]
      /\ \A i \in 1 .. h - 1, j \in 1 .. Len(rows) : Bit(rows[j], cols[piv[i]]) <=> i = j
      /\ \A c \in 1 .. k, i \in 1 .. Len(rows) : Bit(rows[i], cols[c]) => i < h /\ piv[i] <= c
  BY DEF Reduced
<1>2. piv \in [1 .. h - 1 -> 1 .. k + 1]
  <2>1. 1 .. k \subseteq 1 .. k + 1
    OBVIOUS
  <2>2. QED
    BY <1>1, <2>1
<1>3. ASSUME NEW c \in 1 .. k + 1, NEW i \in 1 .. Len(rows), Bit(rows[i], cols[c])
      PROVE  i < h /\ piv[i] <= c
  <2>1. CASE c = k + 1
    <3>1. i < h
      BY <1>1, <1>3, <2>1
    <3>2. i \in 1 .. h - 1
      BY <1>1, <3>1
    <3>3. piv[i] \in 1 .. k
      BY <1>1, <3>2
    <3>4. QED
      BY <2>1, <3>1, <3>3
  <2>2. CASE c # k + 1
    <3>1. c \in 1 .. k
      BY <2>2
    <3>2. QED
      BY <1>1, <1>3, <3>1
  <2>3. QED
    BY <2>1, <2>2
<1>4. QED
  BY <1>1, <1>2, <1>3 DEF Reduced

\* s is what elimination made of rows with the first k columns
IsStage(s, rows, cols, k) ==
  /\ IsRows(s.rows) /\ Len(s.rows) = Len(rows) /\ Span(s.rows) = Span(rows)
  /\ \E piv : Reduced(s.rows, s.h, cols, k, piv)

LEMMA PivotAdvances ==
  ASSUME NEW rows, NEW s, s = [h |-> s.h, rows |-> s.rows], NEW cols, NEW k \in Nat, IsStage(s, rows, cols, k),
         \A c \in 1 .. k : LinearCol(cols[c]), AddsAt(s.rows, s.h, cols[k + 1])
  PROVE  LET t == Pivot(s, cols[k + 1])
         IN  IsStage(t, rows, cols, k + 1) /\ t = [h |-> t.h, rows |-> t.rows]
<1> DEFINE old == s.rows
           h == s.h
           col == cols[k + 1]
           t == Pivot(s, col)
<1>1. IsRows(old) /\ Len(old) = Len(rows) /\ Span(old) = Span(rows)
  BY DEF IsStage
<1>2. PICK piv : Reduced(old, h, cols, k, piv)
  BY DEF IsStage
<1>3. h \in 1 .. Len(old) + 1 /\ Len(old) \in Nat
  BY <1>1, <1>2, RowsCommute DEF Reduced
<1>4. t = [h |-> t.h, rows |-> t.rows]
  <2> DEFINE a == Pivot([h |-> h, rows |-> old], col)
  <2>1. a = [h |-> a.h, rows |-> a.rows]
    BY DEF Pivot
  <2>2. QED
    BY <2>1
<1>5. t = Pivot([h |-> h, rows |-> old], col)
  OBVIOUS
<1> HIDE DEF t, old, h, col
<1>6. CASE /\ t = [h |-> h, rows |-> old]
           /\ \A i \in h .. Len(old) : ~Bit(old[i], col)
  <2>1. Reduced(old, h, cols, k + 1, piv)
    BY <1>2, <1>3, <1>6, UnpivotedReduces DEF col
  <2>2. t.h = h /\ t.rows = old
    BY <1>6
  <2>3. IsStage(t, rows, cols, k + 1)
    BY <1>1, <2>1, <2>2 DEF IsStage
  <2>4. QED
    BY <1>4, <2>3 DEF t, col
<1>7. CASE /\ t.h = h + 1
           /\ \E m \in h .. Len(old) : IsPivoted(t.rows, old, h, m, col)
  <2>1. PICK m \in h .. Len(old) : IsPivoted(t.rows, old, h, m, col)
    BY <1>7
  <2>2. h \in 1 .. Len(old)
    BY <1>3, <2>1
  <2>3. IsRows(t.rows) /\ Span(t.rows) = Span(old)
    BY <1>1, <2>1, <2>2, PivotedSpan
  <2>4. Len(t.rows) = Len(old)
    BY <2>1 DEF IsPivoted
  <2>5. \E piv2 : Reduced(t.rows, h + 1, cols, k + 1, piv2)
    <3>1. AddsAt(old, h, cols[k + 1])
      BY DEF old, h
    <3>2. QED
      BY <1>1, <1>2, <2>1, <3>1, PivotedReduces DEF col
  <2>6. IsStage(t, rows, cols, k + 1)
    BY <1>1, <1>7, <2>3, <2>4, <2>5 DEF IsStage
  <2>7. QED
    BY <1>4, <2>6 DEF t, col
<1>8. QED
  BY <1>1, <1>3, <1>5, <1>6, <1>7, PivotIs

OpsOn(n) == PauliOps(0 .. n - 1)

LEMMA OpsOnAreOps ==
  ASSUME NEW n \in Nat
  PROVE  OpsOn(n) \subseteq Ops /\ Identity \in OpsOn(n)
<1>1. IsFiniteSet(0 .. n - 1) /\ 0 .. n - 1 \subseteq Nat
  BY FS_Interval
<1>2. \A S \in SUBSET (0 .. n - 1) : S \in FinSets
  BY <1>1, FS_Subset DEF FinSets
<1>3. QED
  BY <1>2 DEF OpsOn, PauliOps, Ops, Identity

LEMMA ProductIsOn ==
  ASSUME NEW n \in Nat, NEW P \in OpsOn(n), NEW R \in OpsOn(n)
  PROVE  Product(P, R) \in OpsOn(n)
<1>1. /\ Product(P, R).x = SymDiff(P.x, R.x) /\ Product(P, R).z = SymDiff(P.z, R.z)
  BY ProductFields
<1>2. /\ P.x \subseteq 0 .. n - 1 /\ P.z \subseteq 0 .. n - 1
      /\ R.x \subseteq 0 .. n - 1 /\ R.z \subseteq 0 .. n - 1
  BY DEF OpsOn, PauliOps
<1>3. SymDiff(P.x, R.x) \subseteq 0 .. n - 1 /\ SymDiff(P.z, R.z) \subseteq 0 .. n - 1
  BY <1>2 DEF SymDiff
<1>4. /\ Product(P, R) = [x |-> Product(P, R).x, z |-> Product(P, R).z, neg |-> Product(P, R).neg]
      /\ Product(P, R).neg \in BOOLEAN
  BY DEF Product, OfTerm
<1>5. QED
  BY <1>1, <1>3, <1>4 DEF OpsOn, PauliOps

AreOn(rows, n) == n \in Nat /\ \A i \in 1 .. Len(rows) : rows[i] \in OpsOn(n)

LEMMA SpanIsOn ==
  ASSUME NEW rows, IsRows(rows), NEW n, AreOn(rows, n)
  PROVE  Span(rows) \subseteq OpsOn(n)
<1>1. Len(rows) \in Nat /\ Identity \in OpsOn(n) /\ n \in Nat
  BY RowsCommute, OpsOnAreOps DEF AreOn
<1>2. \A P \in OpsOn(n), i \in 1 .. Len(rows) : Product(P, rows[i]) \in OpsOn(n)
  BY <1>1, ProductIsOn DEF AreOn
<1>3. QED
  BY <1>1, <1>2, SpanIsLeast

\* the columns of n qubits, those of X before those of Z
IsColumns(cols, n) ==
  /\ n \in Nat /\ Len(cols) = 2 * n + 1
  /\ \A c \in 1 .. n : cols[c][1] = "x"
  /\ \A c \in n + 1 .. 2 * n : cols[c][1] = "z"
  /\ cols[2 * n + 1] = <<"phase", 0>>
  /\ \A q \in 0 .. n - 1 : /\ \E c \in 1 .. n : cols[c] = <<"x", q>>
                           /\ \E c \in n + 1 .. 2 * n : cols[c] = <<"z", q>>

LEMMA ColumnsAre ==
  ASSUME NEW n \in Nat, NEW p, p \in 0 .. n - 1 \/ (n = 0 /\ p = 0)
  PROVE  /\ IsColumns(Columns(n, p), n)
         /\ n > 0 => Columns(n, p)[1] = <<"x", p>> /\ Columns(n, p)[n + 1] = <<"z", p>>
<1> DEFINE cols == Columns(n, p)
           qubit(i) == IF i = 1 THEN p ELSE IF i <= p + 1 THEN i - 2 ELSE i - 1
<1>1. cols = [c \in 1 .. 2 * n + 1 |->
                IF c <= n THEN <<"x", qubit(c)>>
                ELSE IF c <= 2 * n THEN <<"z", qubit(c - n)>>
                ELSE <<"phase", 0>>]
  BY DEF Columns
<1> HIDE DEF cols
<1>2. ASSUME NEW q \in 0 .. n - 1
      PROVE  \E i \in 1 .. n : qubit(i) = q
  <2>1. CASE q = p
    BY <2>1
  <2>2. CASE q < p
    <3>1. q + 2 \in 1 .. n /\ qubit(q + 2) = q
      BY <2>2
    <3>2. QED
      BY <3>1
  <2>3. CASE q > p
    <3>1. q + 1 \in 1 .. n /\ qubit(q + 1) = q
      BY <2>3
    <3>2. QED
      BY <3>1
  <2>4. QED
    BY <2>1, <2>2, <2>3
<1>3. qubit(1) = p
  OBVIOUS
<1> HIDE DEF qubit
<1>4. 2 * n + 1 \in Nat /\ Len(cols) = 2 * n + 1
  BY <1>1
<1>5. \A c \in 1 .. n : cols[c] = <<"x", qubit(c)>>
  BY <1>1
<1>6. \A c \in n + 1 .. 2 * n : cols[c] = <<"z", qubit(c - n)>>
  BY <1>1
<1>7. cols[2 * n + 1] = <<"phase", 0>>
  BY <1>1
<1>8. ASSUME NEW q \in 0 .. n - 1
      PROVE  /\ \E c \in 1 .. n : cols[c] = <<"x", q>>
             /\ \E c \in n + 1 .. 2 * n : cols[c] = <<"z", q>>
  <2>1. PICK i \in 1 .. n : qubit(i) = q
    BY <1>2
  <2>2. cols[i] = <<"x", q>>
    BY <1>5, <2>1
  <2>3. n + i \in n + 1 .. 2 * n /\ n + i - n = i
    OBVIOUS
  <2>4. cols[n + i] = <<"z", q>>
    BY <1>6, <2>1, <2>3
  <2>5. QED
    BY <2>2, <2>3, <2>4
<1>9. IsColumns(cols, n)
  <2>1. \A c \in 1 .. n : cols[c][1] = "x"
    BY <1>5
  <2>2. \A c \in n + 1 .. 2 * n : cols[c][1] = "z"
    BY <1>6
  <2>3. QED
    BY <1>4, <1>7, <1>8, <2>1, <2>2 DEF IsColumns
<1>10. ASSUME n > 0 PROVE cols[1] = <<"x", p>> /\ cols[n + 1] = <<"z", p>>
  <2>1. 1 \in 1 .. n /\ n + 1 \in n + 1 .. 2 * n /\ n + 1 - n = 1
    BY <1>10
  <2>2. QED
    BY <1>3, <1>5, <1>6, <2>1
<1>11. QED
  BY <1>9, <1>10 DEF cols

LEMMA ColumnsAreCols ==
  ASSUME NEW cols, NEW n, IsColumns(cols, n)
  PROVE  /\ \A c \in 1 .. 2 * n : LinearCol(cols[c])
         /\ \A c \in 1 .. 2 * n + 1 : IsCol(cols[c])
<1>1. n \in Nat /\ cols[2 * n + 1][1] = "phase"
  BY DEF IsColumns
<1>2. ASSUME NEW c \in 1 .. 2 * n PROVE LinearCol(cols[c])
  <2>1. c \in 1 .. n \/ c \in n + 1 .. 2 * n
    BY <1>1
  <2>2. QED
    BY <2>1 DEF IsColumns, LinearCol
<1>3. ASSUME NEW c \in 1 .. 2 * n + 1 PROVE IsCol(cols[c])
  <2>1. c \in 1 .. 2 * n \/ c = 2 * n + 1
    BY <1>1
  <2>2. QED
    BY <1>1, <1>2, <2>1 DEF LinearCol, IsCol
<1>4. QED
  BY <1>2, <1>3

(* What has nothing in the columns of X and Z is the identity, up to sign. *)
LEMMA NothingInColumns ==
  ASSUME NEW cols, NEW n, IsColumns(cols, n), NEW P \in OpsOn(n),
         \A c \in 1 .. 2 * n : ~Bit(P, cols[c])
  PROVE  P = IF P.neg THEN Minus(Identity) ELSE Identity
<1>1. n \in Nat /\ P \in Ops /\ P.x \subseteq 0 .. n - 1 /\ P.z \subseteq 0 .. n - 1
  BY OpsOnAreOps DEF IsColumns, OpsOn, PauliOps
<1>2. ASSUME NEW q \in 0 .. n - 1 PROVE q \notin P.x /\ q \notin P.z
  <2>1. PICK c \in 1 .. n : cols[c] = <<"x", q>>
    BY DEF IsColumns
  <2>2. PICK d \in n + 1 .. 2 * n : cols[d] = <<"z", q>>
    BY DEF IsColumns
  <2>3. c \in 1 .. 2 * n /\ d \in 1 .. 2 * n
    BY <1>1
  <2>4. Bit(P, cols[c]) <=> q \in P.x
    BY <2>1 DEF Bit
  <2>5. Bit(P, cols[d]) <=> q \in P.z
    BY <2>2 DEF Bit
  <2>6. QED
    BY <2>3, <2>4, <2>5
<1>3. P.x = {} /\ P.z = {}
  BY <1>1, <1>2
<1>4. P = [x |-> {}, z |-> {}, neg |-> P.neg] /\ P.neg \in BOOLEAN
  BY <1>1, <1>3 DEF Ops
<1>5. CASE P.neg
  <2>1. P = [x |-> {}, z |-> {}, neg |-> TRUE]
    BY <1>4, <1>5
  <2>2. Minus(Identity) = [x |-> {}, z |-> {}, neg |-> TRUE]
    <3>1. Identity \in Ops /\ Identity.x = {} /\ Identity.z = {} /\ Identity.neg = FALSE
      BY IdentityIsOp DEF NoQubits
    <3> DEFINE M == Minus(Identity)
    <3>2. M \in Ops /\ M.x = {} /\ M.z = {} /\ M.neg = TRUE
      BY <3>1, MinusIs
    <3> HIDE DEF M
    <3>3. M = [x |-> M.x, z |-> M.z, neg |-> M.neg]
      BY <3>2 DEF Ops
    <3>4. QED
      BY <3>2, <3>3 DEF M
  <2>3. QED
    BY ONLY <1>5, <2>1, <2>2
<1>6. CASE ~P.neg
  <2>1. P = [x |-> {}, z |-> {}, neg |-> FALSE]
    BY <1>4, <1>6
  <2>2. P = Identity
    BY ONLY <2>1 DEF Identity
  <2>3. QED
    BY ONLY <1>6, <2>2
<1>7. QED
  BY <1>5, <1>6

LEMMA PhaseAdds ==
  ASSUME NEW cols, NEW n, IsColumns(cols, n), NEW rows, IsRows(rows), AreOn(rows, n),
         NEW h, NEW piv, Reduced(rows, h, cols, 2 * n, piv)
  PROVE  AddsAt(rows, h, cols[2 * n + 1])
<1>1. /\ n \in Nat /\ cols[2 * n + 1] = <<"phase", 0>>
      /\ Len(rows) \in Nat /\ h \in 1 .. Len(rows) + 1
      /\ \A i \in 1 .. Len(rows) : rows[i] \in Ops
  BY RowsCommute DEF IsColumns, Reduced
<1>2. SUFFICES ASSUME NEW i \in 1 .. Len(rows), NEW j \in h .. Len(rows), Bit(rows[j], cols[2 * n + 1])
               PROVE  Bit(Product(rows[i], rows[j]), cols[2 * n + 1]) <=> ~Bit(rows[i], cols[2 * n + 1])
  BY DEF AddsAt
<1>3. \A P : Bit(P, cols[2 * n + 1]) <=> P.neg
  BY <1>1 DEF Bit
<1>4. j \in 1 .. Len(rows) /\ ~(j < h)
  BY <1>1
<1>5. \A c \in 1 .. 2 * n : ~Bit(rows[j], cols[c])
  BY <1>4 DEF Reduced
<1>6. rows[j] = Minus(Identity)
  <2>1. rows[j] \in OpsOn(n) /\ rows[j].neg
    BY <1>2, <1>3, <1>4 DEF AreOn
  <2>2. QED
    BY <1>5, <2>1, NothingInColumns
<1>7. rows[i] \in Ops /\ Commute(rows[i], Identity) /\ Product(rows[i], Identity) = rows[i]
  BY <1>1, ProductWithIdentity
<1>8. Product(rows[i], Minus(Identity)) = Minus(rows[i])
  BY <1>7, IdentityIsOp, ProductOfMinus
<1>9. Bit(Product(rows[i], rows[j]), cols[2 * n + 1]) <=> Product(rows[i], rows[j]).neg
  BY ONLY <1>3
<1>10. Bit(rows[i], cols[2 * n + 1]) <=> rows[i].neg
  BY ONLY <1>3
<1>11. Product(rows[i], rows[j]) = Minus(rows[i])
  BY ONLY <1>6, <1>8
<1>12. Minus(rows[i]).neg = ~rows[i].neg /\ rows[i].neg \in BOOLEAN
  BY <1>7, MinusIs, OpFields
<1>13. QED
  BY ONLY <1>9, <1>10, <1>11, <1>12

EliminatesUpTo(f, rows, cols, k) ==
  f = [i \in 0 .. k |-> IF i = 0 THEN [h |-> 1, rows |-> rows] ELSE Pivot(f[i - 1], cols[i])]

LEMMA EliminationsExist ==
  ASSUME NEW rows, NEW cols, NEW k \in Nat
  PROVE  \E f : EliminatesUpTo(f, rows, cols, k)
<1> DEFINE Step(d, i) == Pivot(d, cols[i])
           base == [h |-> 1, rows |-> rows]
           Ups(f, j) == f = [i \in 0 .. j |-> IF i = 0 THEN base ELSE Step(f[i - 1], i)]
           S == {j \in Nat : \E f : Ups(f, j)}
<1> HIDE DEF Step, base
<1>1. 0 \in S
  <2>1. Ups([i \in 0 .. 0 |-> base], 0)
    OBVIOUS
  <2>2. QED
    BY <2>1
<1>2. ASSUME NEW j \in Nat, j \in S
      PROVE  j + 1 \in S
  <2>1. PICK f : Ups(f, j)
    BY <1>2
  <2> DEFINE g == [i \in 0 .. j + 1 |->
                     IF i = j + 1 THEN Step(f[j], j + 1) ELSE f[i]]
  <2>2. ASSUME NEW i \in 0 .. j + 1
        PROVE  g[i] = IF i = 0 THEN base ELSE Step(g[i - 1], i)
    <3>1. CASE i = j + 1
      BY <3>1
    <3>2. CASE i # j + 1
      <4>1. i \in 0 .. j /\ g[i] = f[i] /\ (i # 0 => g[i - 1] = f[i - 1])
        BY <3>2
      <4>2. f[i] = IF i = 0 THEN base ELSE Step(f[i - 1], i)
        BY <2>1, <4>1
      <4>3. QED
        BY <4>1, <4>2
    <3>3. QED
      BY <3>1, <3>2
  <2>3. DOMAIN g = 0 .. j + 1 /\ g = [i \in 0 .. j + 1 |-> g[i]]
    OBVIOUS
  <2> HIDE DEF g
  <2>4. Ups(g, j + 1)
    BY <2>2, <2>3
  <2>5. QED
    BY <2>4
<1>3. k \in S
  <2> HIDE DEF S
  <2> QED BY <1>1, <1>2, SetInduction
<1>4. PICK f : Ups(f, k)
  BY <1>3
<1>5. EliminatesUpTo(f, rows, cols, k)
  BY <1>4 DEF EliminatesUpTo, Step, base
<1>6. QED
  BY <1>5

(* Elimination leaves rows that generate the same, each with its pivot. *)
LEMMA EliminateReduces ==
  ASSUME NEW rows, IsRows(rows), NEW n, AreOn(rows, n), NEW cols, IsColumns(cols, n)
  PROVE  LET R == Eliminate(rows, cols) IN
         /\ IsRows(R) /\ Len(R) = Len(rows) /\ Span(R) = Span(rows) /\ AreOn(R, n)
         /\ \E h, piv : Reduced(R, h, cols, 2 * n + 1, piv)
<1> DEFINE N == 2 * n + 1
           all == CHOOSE f : EliminatesUpTo(f, rows, cols, Len(cols))
           Good(s, k) == IsStage(s, rows, cols, k) /\ s = [h |-> s.h, rows |-> s.rows]
           S == {k \in Nat : k <= N => Good(all[k], k)}
<1>1. Len(cols) = N /\ N \in Nat /\ n \in Nat
  BY DEF IsColumns
<1>2. EliminatesUpTo(all, rows, cols, Len(cols))
  BY <1>1, EliminationsExist
<1>3. Eliminate(rows, cols) = all[Len(cols)].rows
  BY DEF Eliminate, EliminatesUpTo
<1> HIDE DEF all, N
<1>4. /\ all[0] = [h |-> 1, rows |-> rows]
      /\ \A k \in Nat : k + 1 <= N => all[k + 1] = Pivot(all[k], cols[k + 1])
  <2> DEFINE step(i) == IF i = 0 THEN [h |-> 1, rows |-> rows] ELSE Pivot(all[i - 1], cols[i])
  <2>1. all = [i \in 0 .. N |-> step(i)]
    BY <1>1, <1>2 DEF EliminatesUpTo
  <2>2. \A i \in 0 .. N : all[i] = step(i)
    <3> HIDE DEF step
    <3>1. QED
      BY ONLY <2>1
  <2>3. all[0] = [h |-> 1, rows |-> rows]
    BY <1>1, <2>2
  <2>4. ASSUME NEW k \in Nat, k + 1 <= N PROVE all[k + 1] = Pivot(all[k], cols[k + 1])
    <3>1. k + 1 \in 0 .. N /\ k + 1 # 0 /\ k + 1 - 1 = k
      BY <1>1, <2>4
    <3>2. all[k + 1] = Pivot(all[k + 1 - 1], cols[k + 1])
      BY <2>2, <3>1
    <3>3. QED
      BY <3>1, <3>2
  <2>5. QED
    BY <2>3, <2>4
<1>5. 0 \in S
  <2>1. Len(rows) \in Nat
    BY RowsCommute
  <2>2. Reduced(rows, 1, cols, 0, [i \in 1 .. 0 |-> 1])
    BY <2>1 DEF Reduced
  <2>3. Good([h |-> 1, rows |-> rows], 0)
    BY <2>2 DEF IsStage
  <2> HIDE DEF Good
  <2>4. QED
    BY <1>4, <2>3
<1>6. ASSUME NEW k \in Nat, k \in S PROVE k + 1 \in S
  <2>1. SUFFICES ASSUME k + 1 <= N PROVE Good(all[k + 1], k + 1)
    OBVIOUS
  <2> DEFINE s == all[k]
  <2>2. k <= N
    BY <1>1, <2>1
  <2>3. IsStage(s, rows, cols, k) /\ s = [h |-> s.h, rows |-> s.rows]
    BY <1>6, <2>2
  <2>4. all[k + 1] = Pivot(s, cols[k + 1])
    BY <1>4, <2>1
  <2> HIDE DEF s
  <2>5. \A c \in 1 .. k : LinearCol(cols[c])
    <3>1. \A c \in 1 .. k : c \in 1 .. 2 * n
      BY <1>1, <2>1 DEF N
    <3>2. QED
      BY <3>1, ColumnsAreCols
  <2>6. AddsAt(s.rows, s.h, cols[k + 1])
    <3>1. CASE k + 1 <= 2 * n
      <4>1. k + 1 \in 1 .. 2 * n
        BY <1>1, <3>1
      <4>2. LinearCol(cols[k + 1])
        BY <4>1, ColumnsAreCols
      <4>3. QED
        BY <4>2, LinearAdds
    <3>2. CASE ~(k + 1 <= 2 * n)
      <4>1. k = 2 * n
        BY <1>1, <2>1, <3>2 DEF N
      <4>2. PICK piv : Reduced(s.rows, s.h, cols, k, piv)
        BY <2>3 DEF IsStage
      <4>3. IsRows(s.rows) /\ Span(s.rows) = Span(rows)
        BY <2>3 DEF IsStage
      <4>4. AreOn(s.rows, n)
        BY <1>1, <4>3, SpanIsGroup, SpanIsOn DEF AreOn
      <4>5. QED
        BY <4>1, <4>2, <4>3, <4>4, PhaseAdds
    <3>3. QED
      BY <3>1, <3>2
  <2>7. QED
    BY <2>3, <2>4, <2>5, <2>6, PivotAdvances
<1>7. N \in S
  <2> HIDE DEF S
  <2> QED BY <1>1, <1>5, <1>6, SetInduction
<1> DEFINE R == all[N].rows
<1>8. IsStage(all[N], rows, cols, N)
  BY <1>1, <1>7
<1> HIDE DEF Good, S
<1>9. IsRows(R) /\ Len(R) = Len(rows) /\ Span(R) = Span(rows)
  BY <1>8 DEF IsStage
<1>10. AreOn(R, n)
  <2> HIDE DEF R
  <2>1. QED
    BY <1>1, <1>9, SpanIsGroup, SpanIsOn DEF AreOn
<1>11. \E h, piv : Reduced(R, h, cols, N, piv)
  BY <1>8 DEF IsStage
<1>12. R = Eliminate(rows, cols)
  BY <1>1, <1>3
<1> HIDE DEF R
<1>13. QED
  BY <1>9, <1>10, <1>11, <1>12 DEF N

(* Rows without a column generate nothing that has it. *)
LEMMA SpansStayZero ==
  ASSUME NEW rows, IsRows(rows), NEW f, AreSpans(f, rows), NEW n \in 0 .. Len(rows),
         NEW col, LinearCol(col), \A i \in 1 .. n : ~Bit(rows[i], col)
  PROVE  \A P \in f[n] : ~Bit(P, col)
<1> DEFINE G == Span(rows)
           S == {P \in G : ~Bit(P, col)}
<1>1. IsGroup(G) /\ \A i \in 1 .. Len(rows) : rows[i] \in G
  BY SpanIsGroup
<1> HIDE DEF G
<1>2. Len(rows) \in Nat
  BY RowsCommute
<1>3. Identity \in S
  BY <1>1, BitOfIdentity DEF LinearCol, IsCol, IsGroup
<1>4. ASSUME NEW P \in S, NEW i \in 1 .. n PROVE Product(P, rows[i]) \in S
  <2>1. i \in 1 .. Len(rows) /\ P \in G /\ ~Bit(P, col) /\ ~Bit(rows[i], col)
    BY <1>2
  <2>2. Product(P, rows[i]) \in G
    BY <1>1, <2>1 DEF IsGroup
  <2>3. ~Bit(Product(P, rows[i]), col)
    BY <2>1, BitOfProduct
  <2>4. QED
    BY <2>2, <2>3
<1> HIDE DEF S
<1>5. f[n] \subseteq S
  BY <1>2, <1>3, <1>4, SpansAreLeast
<1>6. QED
  BY <1>5 DEF S

\* P has nothing in the columns of the first j pivots that are at most c
ZeroAt(P, cols, piv, j, c) ==
  \A i \in 1 .. j : piv[i] <= c => ~Bit(P, cols[piv[i]])

(* What the first j rows generate has nothing in a column of X or Z, if it *)
(* has nothing in the pivots up to there.                                  *)
LEMMA LeadZero ==
  ASSUME NEW cols, NEW N \in Nat, \A c \in 1 .. N : LinearCol(cols[c]),
         NEW rows, IsRows(rows), NEW f, AreSpans(f, rows), NEW k, NEW h, NEW piv,
         k \in Nat, Reduced(rows, h, cols, k, piv), NEW c \in 1 .. N, c <= k,
         NEW n \in 0 .. h - 1
  PROVE  \A P \in f[n] : ZeroAt(P, cols, piv, n, c) => ~Bit(P, cols[c])
<1>1. /\ Len(rows) \in Nat /\ h \in 1 .. Len(rows) + 1
      /\ piv \in [1 .. h - 1 -> 1 .. k]
      /\ \A i \in 1 .. h - 1, j \in 1 .. Len(rows) : Bit(rows[j], cols[piv[i]]) <=> i = j
      /\ \A d \in 1 .. k, i \in 1 .. Len(rows) : Bit(rows[i], cols[d]) => i < h /\ piv[i] <= d
  BY RowsCommute DEF Reduced
<1>2. LinearCol(cols[c]) /\ c \in 1 .. k
  BY <1>1
<1> DEFINE Claim(j) == \A P \in f[j] : ZeroAt(P, cols, piv, j, c) => ~Bit(P, cols[c])
           S == {j \in Nat : j <= h - 1 => Claim(j)}
<1>3. 0 \in S
  <2>1. f[0] = {Identity}
    BY DEF AreSpans
  <2>2. ~Bit(Identity, cols[c])
    BY <1>2, BitOfIdentity DEF LinearCol, IsCol
  <2>3. QED
    BY <2>1, <2>2
<1>4. ASSUME NEW j \in Nat, j \in S PROVE j + 1 \in S
  <2>1. SUFFICES ASSUME j + 1 <= h - 1, NEW P \in f[j + 1], ZeroAt(P, cols, piv, j + 1, c)
                 PROVE  ~Bit(P, cols[c])
    OBVIOUS
  <2>2. Claim(j)
    BY <1>1, <1>4, <2>1
  <2>3. j + 1 \in 1 .. Len(rows) /\ j + 1 \in 1 .. h - 1 /\ j + 1 - 1 = j
    BY <1>1, <2>1
  <2>4. f[j + 1] = WithProducts(f[j + 1 - 1], rows[j + 1])
    BY <2>3 DEF AreSpans
  <2>5. f[j + 1] = WithProducts(f[j], rows[j + 1])
    BY <2>3, <2>4
  <2>6. ZeroAt(P, cols, piv, j, c)
    BY <2>1 DEF ZeroAt
  <2>7. CASE P \in f[j]
    BY <2>2, <2>6, <2>7
  <2>8. CASE P \notin f[j]
    <3>1. PICK R \in f[j] : P = Product(R, rows[j + 1])
      BY <2>5, <2>8 DEF WithProducts
    <3>2. ASSUME NEW i \in 1 .. j + 1, piv[i] <= c
          PROVE  /\ Bit(P, cols[piv[i]]) <=> ~(Bit(R, cols[piv[i]]) <=> i = j + 1)
                 /\ ~Bit(P, cols[piv[i]])
      <4>1. i \in 1 .. h - 1 /\ piv[i] \in 1 .. N
        BY <1>1, <2>1, <3>2
      <4>2. LinearCol(cols[piv[i]])
        BY <4>1
      <4>3. Bit(P, cols[piv[i]]) <=> ~(Bit(R, cols[piv[i]]) <=> Bit(rows[j + 1], cols[piv[i]]))
        BY <3>1, <4>2, BitOfProduct
      <4>4. Bit(rows[j + 1], cols[piv[i]]) <=> i = j + 1
        BY <1>1, <2>3, <4>1
      <4>5. ~Bit(P, cols[piv[i]])
        BY <2>1, <3>2 DEF ZeroAt
      <4>6. QED
        BY <4>3, <4>4, <4>5
    <3>3. ZeroAt(R, cols, piv, j, c)
      <4>1. SUFFICES ASSUME NEW i \in 1 .. j, piv[i] <= c PROVE ~Bit(R, cols[piv[i]])
        BY DEF ZeroAt
      <4>2. i \in 1 .. j + 1 /\ i # j + 1
        OBVIOUS
      <4>3. QED
        BY <3>2, <4>1, <4>2
    <3>4. ~Bit(R, cols[c])
      BY <2>2, <3>3
    <3>5. Bit(P, cols[c]) <=> ~(Bit(R, cols[c]) <=> Bit(rows[j + 1], cols[c]))
      BY <1>2, <3>1, BitOfProduct
    <3>6. ~Bit(rows[j + 1], cols[c])
      <4>1. SUFFICES ASSUME Bit(rows[j + 1], cols[c]) PROVE FALSE
        OBVIOUS
      <4>2. piv[j + 1] <= c
        BY <1>1, <1>2, <2>3, <4>1
      <4>3. j + 1 \in 1 .. j + 1
        OBVIOUS
      <4>4. Bit(R, cols[piv[j + 1]])
        BY <3>2, <4>2, <4>3
      \* R is generated by the rows before: nothing there has this column
      <4>5. ~Bit(R, cols[piv[j + 1]])
        <5>1. j \in 0 .. Len(rows) /\ piv[j + 1] \in 1 .. N
          BY <1>1, <2>3, <4>2
        <5>2. \A i \in 1 .. j : ~Bit(rows[i], cols[piv[j + 1]])
          BY <1>1, <2>3
        <5>3. LinearCol(cols[piv[j + 1]])
          BY <5>1
        <5>4. QED
          BY <5>1, <5>2, <5>3, SpansStayZero
      <4>6. QED
        BY <4>4, <4>5
    <3>7. QED
      BY <3>4, <3>5, <3>6
  <2>9. QED
    BY <2>7, <2>8
<1>5. n \in S
  <2> HIDE DEF S
  <2> QED BY <1>3, <1>4, SetInduction
<1>6. QED
  BY <1>1, <1>5

\* rows over n qubits that were eliminated in the order of cols
IsReduced(rows, n, cols, h, piv) ==
  /\ IsRows(rows) /\ AreOn(rows, n)
  /\ IsColumns(cols, n)
  /\ Reduced(rows, h, cols, 2 * n + 1, piv)

LEMMA ReducedFacts ==
  ASSUME NEW rows, NEW n, NEW cols, NEW h, NEW piv, IsReduced(rows, n, cols, h, piv)
  PROVE  /\ IsRows(rows) /\ Len(rows) \in Nat /\ h \in 1 .. Len(rows) + 1 /\ n \in Nat
         /\ \A i \in 1 .. Len(rows) : rows[i] \in Ops /\ rows[i] \in OpsOn(n)
         /\ \A i \in 1 .. h - 1 : piv[i] \in 1 .. 2 * n + 1
         /\ \A i, j \in 1 .. h - 1 : i < j => piv[i] < piv[j]
         /\ \A i \in 1 .. h - 1, j \in 1 .. Len(rows) : Bit(rows[j], cols[piv[i]]) <=> i = j
         /\ \A c \in 1 .. 2 * n + 1, i \in 1 .. Len(rows) :
              Bit(rows[i], cols[c]) => i < h /\ piv[i] <= c
         /\ \A c \in 1 .. 2 * n : LinearCol(cols[c])
         /\ \A c \in 1 .. 2 * n + 1 : IsCol(cols[c])
         /\ \A P : Bit(P, cols[2 * n + 1]) <=> P.neg
<1>1. n \in Nat /\ cols[2 * n + 1] = <<"phase", 0>>
  BY DEF IsReduced, IsColumns
<1>2. \A P : Bit(P, cols[2 * n + 1]) <=> P.neg
  BY <1>1 DEF Bit
<1>3. /\ IsRows(rows) /\ Len(rows) \in Nat
      /\ \A i \in 1 .. Len(rows) : rows[i] \in Ops
  BY RowsCommute DEF IsReduced
<1>4. \A i \in 1 .. Len(rows) : rows[i] \in OpsOn(n)
  BY DEF IsReduced, AreOn
<1>5. /\ \A c \in 1 .. 2 * n : LinearCol(cols[c])
      /\ \A c \in 1 .. 2 * n + 1 : IsCol(cols[c])
  BY ColumnsAreCols DEF IsReduced
<1>6. Reduced(rows, h, cols, 2 * n + 1, piv)
  BY DEF IsReduced
<1>7. /\ h \in 1 .. Len(rows) + 1
      /\ \A i \in 1 .. h - 1 : piv[i] \in 1 .. 2 * n + 1
      /\ \A i, j \in 1 .. h - 1 : i < j => piv[i] < piv[j]
      /\ \A i \in 1 .. h - 1, j \in 1 .. Len(rows) : Bit(rows[j], cols[piv[i]]) <=> i = j
      /\ \A c \in 1 .. 2 * n + 1, i \in 1 .. Len(rows) :
           Bit(rows[i], cols[c]) => i < h /\ piv[i] <= c
  BY <1>6 DEF Reduced
<1>8. QED
  BY <1>1, <1>2, <1>3, <1>4, <1>5, <1>7

(* What has nothing in any of the pivots is not generated, but for the     *)
(* identity.                                                               *)
LEMMA OnlyIdentity ==
  ASSUME NEW rows, NEW n, NEW cols, NEW h, NEW piv, IsReduced(rows, n, cols, h, piv),
         NEW f, AreSpans(f, rows), NEW m \in 0 .. h - 1, \A i \in 1 .. m : piv[i] <= 2 * n
  PROVE  \A P \in f[m] : (\A i \in 1 .. m : ~Bit(P, cols[piv[i]])) => P = Identity
<1>1. /\ IsRows(rows) /\ Len(rows) \in Nat /\ h \in 1 .. Len(rows) + 1 /\ n \in Nat
      /\ \A i \in 1 .. h - 1 : piv[i] \in 1 .. 2 * n + 1
      /\ \A i \in 1 .. h - 1, j \in 1 .. Len(rows) : Bit(rows[j], cols[piv[i]]) <=> i = j
      /\ \A c \in 1 .. 2 * n : LinearCol(cols[c])
  BY ReducedFacts
<1> DEFINE Claim(j) == \A P \in f[j] : (\A i \in 1 .. j : ~Bit(P, cols[piv[i]])) => P = Identity
           S == {j \in Nat : j <= m => Claim(j)}
<1>2. 0 \in S
  BY DEF AreSpans
<1>3. ASSUME NEW j \in Nat, j \in S PROVE j + 1 \in S
  <2>1. SUFFICES ASSUME j + 1 <= m, NEW P \in f[j + 1], \A i \in 1 .. j + 1 : ~Bit(P, cols[piv[i]])
                 PROVE  P = Identity
    OBVIOUS
  <2>2. Claim(j)
    BY <1>1, <1>3, <2>1
  <2>3. j + 1 \in 1 .. Len(rows) /\ j + 1 \in 1 .. h - 1 /\ j + 1 - 1 = j /\ j \in 0 .. Len(rows)
    BY <1>1, <2>1
  <2>4. f[j + 1] = WithProducts(f[j + 1 - 1], rows[j + 1])
    BY <2>3 DEF AreSpans
  <2>5. f[j + 1] = WithProducts(f[j], rows[j + 1])
    BY <2>3, <2>4
  <2>6. CASE P \in f[j]
    BY <2>1, <2>2, <2>6
  <2>7. CASE P \notin f[j]
    <3>1. PICK R \in f[j] : P = Product(R, rows[j + 1])
      BY <2>5, <2>7 DEF WithProducts
    <3>2. LinearCol(cols[piv[j + 1]])
      <4>1. piv[j + 1] \in 1 .. 2 * n
        BY <1>1, <2>1, <2>3
      <4>2. QED
        BY <1>1, <4>1
    <3>3. \A i \in 1 .. j : ~Bit(rows[i], cols[piv[j + 1]])
      BY <1>1, <2>3
    <3>4. ~Bit(R, cols[piv[j + 1]])
      BY <1>1, <2>3, <3>2, <3>3, SpansStayZero
    <3>5. Bit(rows[j + 1], cols[piv[j + 1]])
      BY <1>1, <2>3
    <3>6. Bit(P, cols[piv[j + 1]])
      BY <3>1, <3>2, <3>4, <3>5, BitOfProduct
    <3>7. j + 1 \in 1 .. j + 1
      OBVIOUS
    <3>8. QED
      BY <2>1, <3>6, <3>7
  <2>8. QED
    BY <2>6, <2>7
<1>4. m \in S
  <2> HIDE DEF S
  <2>1. m \in Nat
    BY ONLY <1>1, m \in 0 .. h - 1
  <2>2. QED
    BY ONLY <1>2, <1>3, <2>1, SetInduction
<1>5. QED
  BY <1>1, <1>4, SMTT(30)

(* The rows with pivots generate everything, and none too much. *)
LEMMA RankIs ==
  ASSUME NEW rows, NEW n, NEW cols, NEW h, NEW piv, IsReduced(rows, n, cols, h, piv),
         NEW f, AreSpans(f, rows)
  PROVE  /\ \A i \in 1 .. h - 1 : rows[i] # Identity
         /\ \A i \in h .. Len(rows) : rows[i] = Identity
         /\ IsFiniteSet(f[Len(rows)]) /\ Cardinality(f[Len(rows)]) = 2 ^ (h - 1)
<1>1. /\ IsRows(rows) /\ Len(rows) \in Nat /\ h \in 1 .. Len(rows) + 1 /\ n \in Nat
      /\ \A i \in 1 .. Len(rows) : rows[i] \in Ops /\ rows[i] \in OpsOn(n)
      /\ \A i \in 1 .. h - 1 : piv[i] \in 1 .. 2 * n + 1
      /\ \A i, j \in 1 .. h - 1 : i < j => piv[i] < piv[j]
      /\ \A i \in 1 .. h - 1, j \in 1 .. Len(rows) : Bit(rows[j], cols[piv[i]]) <=> i = j
      /\ \A c \in 1 .. 2 * n + 1, i \in 1 .. Len(rows) :
           Bit(rows[i], cols[c]) => i < h /\ piv[i] <= c
      /\ \A c \in 1 .. 2 * n : LinearCol(cols[c])
      /\ \A c \in 1 .. 2 * n + 1 : IsCol(cols[c])
      /\ \A P : Bit(P, cols[2 * n + 1]) <=> P.neg
  BY ReducedFacts
<1>2. ASSUME NEW i \in 1 .. h - 1 PROVE rows[i] # Identity
  <2>1. Bit(rows[i], cols[piv[i]]) /\ IsCol(cols[piv[i]])
    BY <1>1
  <2>2. QED
    BY <2>1, BitOfIdentity
<1>3. ASSUME NEW i \in 1 .. Len(rows), \A c \in 1 .. 2 * n : ~Bit(rows[i], cols[c])
      PROVE  rows[i] = IF rows[i].neg THEN Minus(Identity) ELSE Identity
  BY <1>1, <1>3, NothingInColumns DEF IsReduced
<1>4. ASSUME NEW i \in h .. Len(rows) PROVE rows[i] = Identity
  <2>1. i \in 1 .. Len(rows) /\ ~(i < h)
    BY <1>1
  <2>2. \A c \in 1 .. 2 * n + 1 : ~Bit(rows[i], cols[c])
    BY <1>1, <2>1
  <2>3. (\A c \in 1 .. 2 * n : ~Bit(rows[i], cols[c])) /\ ~rows[i].neg
    BY <1>1, <2>2
  <2>4. QED
    BY <1>3, <2>1, <2>3
<1>5. ASSUME NEW k \in 1 .. h - 1 PROVE rows[k] \notin f[k - 1]
  <2>1. SUFFICES ASSUME rows[k] \in f[k - 1] PROVE FALSE
    OBVIOUS
  <2>2. /\ k \in 1 .. Len(rows) /\ k - 1 \in 0 .. h - 1 /\ k - 1 \in 0 .. Len(rows)
        /\ \A i \in 1 .. k - 1 : i \in 1 .. h - 1 /\ i < k /\ i # k
    BY <1>1
  <2>3. \A i \in 1 .. k - 1 : piv[i] <= 2 * n
    BY <1>1, <2>2
  <2>4. \A i \in 1 .. k - 1 : ~Bit(rows[k], cols[piv[i]])
    BY <1>1, <2>2
  <2>5. rows[k] = Identity
    BY <2>1, <2>2, <2>3, <2>4, OnlyIdentity
  <2>6. QED
    BY <1>2, <2>5
<1>6. /\ h - 1 \in 0 .. Len(rows) /\ \A k \in h - 1 + 1 .. Len(rows) : rows[k] = Identity
  BY <1>1, <1>4
<1>7. /\ IsFiniteSet(f[Len(rows)]) /\ Cardinality(f[Len(rows)]) = 2 ^ (h - 1)
  BY <1>1, <1>5, <1>6, SpanCounts
<1>8. QED
  BY <1>2, <1>4, <1>7

LEMMA SpansEnd ==
  ASSUME NEW rows, IsRows(rows), NEW f, AreSpans(f, rows), NEW m \in 0 .. Len(rows),
         \A i \in m + 1 .. Len(rows) : rows[i] = Identity
  PROVE  f[Len(rows)] = f[m]
<1>1. Len(rows) \in Nat
  BY RowsCommute
<1> DEFINE S == {j \in Nat : m + j <= Len(rows) => f[m + j] = f[m]}
<1>2. 0 \in S
  <2>1. m + 0 = m
    OBVIOUS
  <2>2. QED
    BY <2>1
<1>3. ASSUME NEW j \in Nat, j \in S PROVE j + 1 \in S
  <2>1. SUFFICES ASSUME m + (j + 1) <= Len(rows) PROVE f[m + (j + 1)] = f[m]
    OBVIOUS
  <2> DEFINE k == m + (j + 1)
  <2>2. k \in m + 1 .. Len(rows) /\ k \in 1 .. Len(rows) /\ k - 1 = m + j /\ m + j \in 0 .. Len(rows)
    BY <1>1, <2>1
  <2>3. f[m + j] = f[m]
    BY <1>3, <2>2
  <2> HIDE DEF k
  <2>4. f[k] = WithProducts(f[k - 1], rows[k])
    BY <2>2 DEF AreSpans
  <2>5. f[k] = WithProducts(f[m + j], Identity)
    BY <2>2, <2>4
  <2>6. IsGroup(f[m + j])
    BY <2>2, SpansAreGroups DEF IsSpanOf
  <2>7. \A P \in f[m + j] : Product(P, Identity) = P
    BY <2>6, ProductWithIdentity DEF IsGroup
  <2>8. WithProducts(f[m + j], Identity) = f[m + j]
    BY <2>7 DEF WithProducts
  <2>9. QED
    BY <2>3, <2>5, <2>8 DEF k
<1>4. Len(rows) - m \in S
  <2>1. Len(rows) - m \in Nat
    BY <1>1
  <2> HIDE DEF S
  <2>2. QED BY <1>2, <1>3, <2>1, SetInduction
<1>5. m + (Len(rows) - m) = Len(rows)
  BY <1>1
<1>6. QED
  BY <1>1, <1>4, <1>5

NoMinus(G) == Minus(Identity) \notin G

LEMMA PivotsTell ==
  ASSUME NEW rows, NEW n, NEW cols, NEW h, NEW piv, IsReduced(rows, n, cols, h, piv),
         NoMinus(Span(rows))
  PROVE  /\ \A i \in 1 .. h - 1 : piv[i] <= 2 * n
         /\ \A P \in Span(rows) : (\A i \in 1 .. h - 1 : ~Bit(P, cols[piv[i]])) => P = Identity
         /\ \A P \in Span(rows), c \in 1 .. 2 * n :
              (\A i \in 1 .. h - 1 : piv[i] <= c => ~Bit(P, cols[piv[i]])) => ~Bit(P, cols[c])
<1>1. /\ IsRows(rows) /\ Len(rows) \in Nat /\ h \in 1 .. Len(rows) + 1 /\ n \in Nat
      /\ \A i \in 1 .. Len(rows) : rows[i] \in Ops /\ rows[i] \in OpsOn(n)
      /\ \A i \in 1 .. h - 1 : piv[i] \in 1 .. 2 * n + 1
      /\ \A i \in 1 .. h - 1, j \in 1 .. Len(rows) : Bit(rows[j], cols[piv[i]]) <=> i = j
      /\ \A c \in 1 .. 2 * n + 1, i \in 1 .. Len(rows) :
           Bit(rows[i], cols[c]) => i < h /\ piv[i] <= c
      /\ \A c \in 1 .. 2 * n : LinearCol(cols[c])
      /\ \A P : Bit(P, cols[2 * n + 1]) <=> P.neg
  BY ReducedFacts
<1>2. ASSUME NEW i \in 1 .. h - 1 PROVE piv[i] <= 2 * n
  <2>1. SUFFICES ASSUME piv[i] = 2 * n + 1 PROVE FALSE
    BY <1>1
  <2>2. i \in 1 .. Len(rows)
    BY <1>1
  <2>3. rows[i].neg
    BY <1>1, <2>1, <2>2
  <2>4. \A c \in 1 .. 2 * n : ~Bit(rows[i], cols[c])
    BY <1>1, <2>1, <2>2
  <2>5. rows[i] = Minus(Identity)
    BY <1>1, <2>2, <2>3, <2>4, NothingInColumns DEF IsReduced
  <2>6. rows[i] \in Span(rows)
    BY <1>1, <2>2, SpanIsGroup
  <2>7. QED
    BY <2>5, <2>6 DEF NoMinus
<1>3. PICK f : AreSpans(f, rows) /\ Span(rows) = f[Len(rows)]
  BY <1>1, SpanIsLast
<1>4. \A i \in h .. Len(rows) : rows[i] = Identity
  BY <1>3, RankIs
<1>5. h - 1 \in 0 .. Len(rows) /\ h - 1 + 1 = h /\ h - 1 \in 0 .. h - 1
  BY <1>1
<1>6. Span(rows) = f[h - 1]
  BY <1>1, <1>3, <1>4, <1>5, SpansEnd
<1>7. \A P \in f[h - 1] : (\A i \in 1 .. h - 1 : ~Bit(P, cols[piv[i]])) => P = Identity
  BY <1>2, <1>3, <1>5, OnlyIdentity
<1>8. ASSUME NEW P \in Span(rows), NEW c \in 1 .. 2 * n,
             \A i \in 1 .. h - 1 : piv[i] <= c => ~Bit(P, cols[piv[i]])
      PROVE  ~Bit(P, cols[c])
  <2>1. ZeroAt(P, cols, piv, h - 1, c)
    BY <1>8 DEF ZeroAt
  <2> DEFINE N == 2 * n
             K == 2 * n + 1
  <2>2. /\ N \in Nat /\ K \in Nat /\ c \in 1 .. N /\ c <= K
        /\ IsRows(rows) /\ AreSpans(f, rows) /\ h - 1 \in 0 .. h - 1
        /\ Reduced(rows, h, cols, K, piv)
        /\ \A d \in 1 .. N : LinearCol(cols[d])
    BY <1>1, <1>3, <1>5 DEF IsReduced
  <2> HIDE DEF N, K
  <2>3. \A R \in f[h - 1] : ZeroAt(R, cols, piv, h - 1, c) => ~Bit(R, cols[c])
    BY ONLY <2>2, LeadZero
  <2>4. QED
    BY <1>6, <2>1, <2>3
<1>9. QED
  BY <1>2, <1>6, <1>7, <1>8

(* An element is known by its bits at the pivots. *)
LEMMA SameAtPivots ==
  ASSUME NEW rows, NEW n, NEW cols, NEW h, NEW piv, IsReduced(rows, n, cols, h, piv),
         NoMinus(Span(rows)), NEW P \in Span(rows), NEW R \in Span(rows),
         \A i \in 1 .. h - 1 : Bit(P, cols[piv[i]]) <=> Bit(R, cols[piv[i]])
  PROVE  P = R
<1>1. IsRows(rows) /\ IsGroup(Span(rows))
  BY SpanIsGroup DEF IsReduced
<1>2. P \in Ops /\ R \in Ops /\ Commute(P, R) /\ Product(P, R) \in Span(rows)
  BY <1>1 DEF IsGroup
<1>3. ASSUME NEW i \in 1 .. h - 1 PROVE ~Bit(Product(P, R), cols[piv[i]])
  <2>1. piv[i] <= 2 * n /\ n \in Nat /\ piv[i] \in 1 .. 2 * n + 1
    BY PivotsTell, ReducedFacts
  <2>2. LinearCol(cols[piv[i]])
    BY <2>1, ReducedFacts
  <2>3. QED
    BY <2>2, BitOfProduct
<1>4. Product(P, R) = Identity
  BY <1>2, <1>3, PivotsTell
<1>5. Product(Product(P, R), R) = P
  BY <1>2, ProductTwice
<1>6. QED
  BY <1>2, <1>4, <1>5, ProductWithIdentity

(* Where an element of the group begins there is a pivot. *)
LEMMA LeadIsPivot ==
  ASSUME NEW rows, NEW n, NEW cols, NEW h, NEW piv, IsReduced(rows, n, cols, h, piv),
         NoMinus(Span(rows)), NEW P \in Span(rows), NEW c \in 1 .. 2 * n, Bit(P, cols[c]),
         \A d \in 1 .. 2 * n : d < c => ~Bit(P, cols[d])
  PROVE  \E i \in 1 .. h - 1 : piv[i] = c
<1>1. PICK i \in 1 .. h - 1 : piv[i] <= c /\ Bit(P, cols[piv[i]])
  BY PivotsTell
<1>2. n \in Nat /\ piv[i] \in 1 .. 2 * n + 1
  BY ReducedFacts
<1>3. ~(piv[i] < c)
  BY <1>1, <1>2
<1>4. piv[i] = c
  BY <1>1, <1>2, <1>3
<1>5. QED
  BY <1>4

Increases(p, h) ==
  /\ \A i \in 1 .. h : p[i] \in Nat
  /\ \A i, j \in 1 .. h : i < j => p[i] < p[j]

Covers(q, p, h) == \A i \in 1 .. h : \E j \in 1 .. h : q[j] = p[i]

LEMMA NextPivot ==
  ASSUME NEW h \in Nat, NEW p, NEW q, Increases(p, h), Increases(q, h), Covers(q, p, h),
         NEW k \in Nat, k + 1 \in 1 .. h, \A i \in 1 .. k : p[i] = q[i]
  PROVE  q[k + 1] <= p[k + 1]
<1>1. PICK j \in 1 .. h : q[j] = p[k + 1]
  BY DEF Covers
<1>2. p[k + 1] \in Nat /\ q[k + 1] \in Nat /\ p[j] \in Nat /\ q[j] \in Nat
  BY DEF Increases
<1>3. CASE j < k + 1
  <2>1. j \in 1 .. k
    BY <1>3
  <2>2. p[j] = q[j] /\ p[j] < p[k + 1]
    BY <1>3, <2>1 DEF Increases
  <2>3. QED
    BY <1>1, <1>2, <2>2
<1>4. CASE j = k + 1
  BY <1>1, <1>2, <1>4
<1>5. CASE k + 1 < j
  <2>1. q[k + 1] < q[j]
    BY <1>5 DEF Increases
  <2>2. QED
    BY <1>1, <1>2, <2>1
<1>6. QED
  BY <1>3, <1>4, <1>5

(* Pivots that are the same are so in the same order. *)
LEMMA SamePivots ==
  ASSUME NEW h \in Nat, NEW p, NEW q, Increases(p, h), Increases(q, h), Covers(q, p, h), Covers(p, q, h)
  PROVE  \A i \in 1 .. h : p[i] = q[i]
<1> DEFINE Same(k) == \A i \in 1 .. k : p[i] = q[i]
           S == {k \in Nat : k <= h => Same(k)}
<1>1. 0 \in S
  OBVIOUS
<1>2. ASSUME NEW k \in Nat, k \in S PROVE k + 1 \in S
  <2>1. SUFFICES ASSUME k + 1 <= h PROVE Same(k + 1)
    OBVIOUS
  <2>2. k \in 0 .. h /\ k + 1 \in 1 .. h
    BY <2>1
  <2>3. \A i \in 1 .. k : p[i] = q[i] /\ q[i] = p[i]
    BY <1>2, <2>2
  <2>4. q[k + 1] <= p[k + 1]
    BY <2>2, <2>3, NextPivot
  <2>5. p[k + 1] <= q[k + 1]
    BY <2>2, <2>3, NextPivot
  <2>6. p[k + 1] \in Nat /\ q[k + 1] \in Nat
    BY <2>2 DEF Increases
  <2>7. p[k + 1] = q[k + 1]
    BY <2>4, <2>5, <2>6
  <2>8. \A i \in 1 .. k + 1 : i \in 1 .. k \/ i = k + 1
    OBVIOUS
  <2>9. QED
    BY <2>3, <2>7, <2>8
<1>3. h \in S
  <2> HIDE DEF S
  <2> QED BY <1>1, <1>2, SetInduction
<1>4. QED
  BY <1>3

(* The reduced rows depend on the group only. *)
LEMMA ReducedUnique ==
  ASSUME NEW n, NEW cols, NEW A, NEW h, NEW p, IsReduced(A, n, cols, h, p),
         NEW B, NEW q, IsReduced(B, n, cols, h, q),
         Len(A) = Len(B), Span(A) = Span(B), NoMinus(Span(A))
  PROVE  A = B
<1>1. /\ IsRows(A) /\ Len(A) \in Nat /\ h \in 1 .. Len(A) + 1 /\ n \in Nat
      /\ \A i \in 1 .. h - 1 : p[i] \in 1 .. 2 * n + 1
      /\ \A i, j \in 1 .. h - 1 : i < j => p[i] < p[j]
      /\ \A i \in 1 .. h - 1, j \in 1 .. Len(A) : Bit(A[j], cols[p[i]]) <=> i = j
      /\ \A c \in 1 .. 2 * n + 1, i \in 1 .. Len(A) : Bit(A[i], cols[c]) => i < h /\ p[i] <= c
  BY ReducedFacts, SMTT(30)
<1>2. /\ IsRows(B) /\ Len(B) \in Nat
      /\ \A i \in 1 .. h - 1 : q[i] \in 1 .. 2 * n + 1
      /\ \A i, j \in 1 .. h - 1 : i < j => q[i] < q[j]
      /\ \A i \in 1 .. h - 1, j \in 1 .. Len(B) : Bit(B[j], cols[q[i]]) <=> i = j
      /\ \A c \in 1 .. 2 * n + 1, i \in 1 .. Len(B) : Bit(B[i], cols[c]) => i < h /\ q[i] <= c
  BY ReducedFacts, SMTT(30)
<1>3. /\ \A i \in 1 .. Len(A) : A[i] \in Span(A) /\ A[i] \in Span(B)
      /\ \A i \in 1 .. Len(B) : B[i] \in Span(B) /\ B[i] \in Span(A)
      /\ NoMinus(Span(B))
  BY <1>1, <1>2, SpanIsGroup
<1>4. /\ \A i \in 1 .. h - 1 : p[i] <= 2 * n
      /\ \A i \in 1 .. h - 1 : q[i] <= 2 * n
  BY <1>3, PivotsTell
<1>5. ASSUME NEW i \in 1 .. h - 1 PROVE \E j \in 1 .. h - 1 : q[j] = p[i]
  <2>1. i \in 1 .. Len(A) /\ p[i] \in 1 .. 2 * n /\ p[i] \in 1 .. 2 * n + 1
    BY <1>1, <1>4
  <2>2. Bit(A[i], cols[p[i]])
    BY <1>1, <2>1
  <2>3. \A d \in 1 .. 2 * n : d < p[i] => ~Bit(A[i], cols[d])
    BY <1>1, <2>1
  <2>4. A[i] \in Span(B)
    BY <1>3, <2>1
  <2>5. QED
    BY <1>3, <2>1, <2>2, <2>3, <2>4, LeadIsPivot
<1>6. ASSUME NEW i \in 1 .. h - 1 PROVE \E j \in 1 .. h - 1 : p[j] = q[i]
  <2>1. i \in 1 .. Len(B) /\ q[i] \in 1 .. 2 * n /\ q[i] \in 1 .. 2 * n + 1
    BY <1>1, <1>2, <1>4
  <2>2. Bit(B[i], cols[q[i]])
    BY <1>2, <2>1
  <2>3. \A d \in 1 .. 2 * n : d < q[i] => ~Bit(B[i], cols[d])
    BY <1>1, <1>2, <2>1
  <2>4. B[i] \in Span(A)
    BY <1>3, <2>1
  <2>5. QED
    BY <1>3, <2>1, <2>2, <2>3, <2>4, LeadIsPivot
<1>7. \A i \in 1 .. h - 1 : p[i] = q[i]
  <2> DEFINE m == h - 1
  <2>1. m \in Nat /\ \A i \in 1 .. m : p[i] \in Nat /\ q[i] \in Nat
    BY <1>1, <1>2
  <2>2. Increases(p, m) /\ Increases(q, m) /\ Covers(q, p, m) /\ Covers(p, q, m)
    BY <1>1, <1>2, <1>5, <1>6, <2>1 DEF Increases, Covers
  <2> HIDE DEF m
  <2>3. \A i \in 1 .. m : p[i] = q[i]
    BY <2>1, <2>2, SamePivots
  <2>4. QED
    BY <2>3 DEF m
<1>8. ASSUME NEW i \in 1 .. Len(A) PROVE A[i] = B[i]
  <2>1. CASE i < h
    <3>1. i \in 1 .. h - 1
      BY <1>1, <2>1
    <3>2. \A k \in 1 .. h - 1 : Bit(A[i], cols[q[k]]) <=> Bit(B[i], cols[q[k]])
      BY <1>1, <1>2, <1>7
    <3>3. A[i] \in Span(B) /\ B[i] \in Span(B)
      BY <1>3
    <3>4. QED
      BY <1>3, <3>2, <3>3, SameAtPivots
  <2>2. CASE ~(i < h)
    <3>1. i \in h .. Len(A) /\ i \in h .. Len(B)
      BY <1>1, <2>2
    <3>2. (\E f : AreSpans(f, A)) /\ (\E f : AreSpans(f, B))
      BY <1>1, <1>2, SpanIsLast
    <3>3. A[i] = Identity /\ B[i] = Identity
      BY <3>1, <3>2, RankIs
    <3>4. QED
      BY <3>3
  <2>3. QED
    BY <2>1, <2>2
<1>9. /\ A = [i \in 1 .. Len(A) |-> A[i]]
      /\ B = [i \in 1 .. Len(A) |-> B[i]]
  BY <1>1, <1>2 DEF IsRows
<1>10. QED
  BY <1>8, <1>9

IsProper(rows) ==
  /\ IsRows(rows) /\ AreOn(rows, Len(rows))
  /\ Cardinality(Span(rows)) = 2 ^ Len(rows)
  /\ NoMinus(Span(rows))

(* Elimination gives every row a pivot. *)
LEMMA ProperReduces ==
  ASSUME NEW rows, IsProper(rows), NEW cols, IsColumns(cols, Len(rows))
  PROVE  /\ IsProper(Eliminate(rows, cols))
         /\ Len(Eliminate(rows, cols)) = Len(rows)
         /\ Span(Eliminate(rows, cols)) = Span(rows)
         /\ \E piv : IsReduced(Eliminate(rows, cols), Len(rows), cols, Len(rows) + 1, piv)
<1> DEFINE R == Eliminate(rows, cols)
           n == Len(rows)
<1>1. n \in Nat /\ IsRows(rows) /\ AreOn(rows, n)
  BY RowsCommute DEF IsProper
<1>2. /\ IsRows(R) /\ Len(R) = n /\ Span(R) = Span(rows) /\ AreOn(R, n)
      /\ \E h, piv : Reduced(R, h, cols, 2 * n + 1, piv)
  BY <1>1, EliminateReduces
<1> HIDE DEF R, n
<1>3. PICK h, piv : Reduced(R, h, cols, 2 * n + 1, piv)
  BY <1>2
<1>4. IsReduced(R, n, cols, h, piv)
  BY <1>2, <1>3 DEF IsReduced, n
<1>5. PICK f : AreSpans(f, R) /\ Span(R) = f[Len(R)]
  BY <1>1, <1>2, SpanIsLast
<1>6. Cardinality(Span(R)) = 2 ^ (h - 1)
  BY <1>4, <1>5, RankIs
<1>7. h - 1 \in Nat /\ h = h - 1 + 1
  BY <1>1, <1>2, <1>3 DEF Reduced
<1>8. h - 1 = n
  BY <1>1, <1>2, <1>6, <1>7, PowerIsInjective DEF IsProper, n
<1>9. IsProper(R)
  BY <1>2 DEF IsProper, n
<1>10. QED
  BY <1>2, <1>4, <1>7, <1>8, <1>9 DEF R, n

(* Generators of the same group have the same standard form. *)
LEMMA EliminateIsCanonical ==
  ASSUME NEW rows, IsProper(rows), NEW other, IsProper(other), Len(other) = Len(rows),
         Span(other) = Span(rows), NEW cols, IsColumns(cols, Len(rows))
  PROVE  Eliminate(other, cols) = Eliminate(rows, cols)
<1> DEFINE A == Eliminate(rows, cols)
           B == Eliminate(other, cols)
           n == Len(rows)
<1>1. PICK p : IsReduced(A, n, cols, n + 1, p)
  BY ProperReduces
<1>2. PICK q : IsReduced(B, n, cols, n + 1, q)
  BY ProperReduces
<1>3. Len(A) = Len(B) /\ Span(A) = Span(B) /\ NoMinus(Span(A))
  BY ProperReduces DEF IsProper
<1> HIDE DEF A, B, n
<1>4. A = B
  BY <1>1, <1>2, <1>3, ReducedUnique
<1>5. QED
  BY <1>4 DEF A, B

\* rows are rest and r, in some order
IsWith(rows, rest, r) ==
  /\ rest \in Seq(Ops) /\ r \in Ops
  /\ \A i \in 1 .. Len(rest) : \E j \in 1 .. Len(rows) : rest[i] = rows[j]
  /\ \E j \in 1 .. Len(rows) : r = rows[j]
  /\ \A j \in 1 .. Len(rows) : rows[j] = r \/ \E i \in 1 .. Len(rest) : rows[j] = rest[i]

LEMMA SpanWith ==
  ASSUME NEW rows, IsRows(rows), NEW rest, NEW r, IsWith(rows, rest, r)
  PROVE  /\ IsRows(rest) /\ CommutesWith(r, Span(rest))
         /\ Span(rows) = WithProducts(Span(rest), r)
<1> DEFINE G == Span(rows)
           H == Span(rest)
           K == WithProducts(H, r)
<1>1. IsGroup(G) /\ \A i \in 1 .. Len(rows) : rows[i] \in G
  BY SpanIsGroup
<1>2. rest \in Seq(Ops) /\ rows \in Seq(Ops) /\ r \in Ops
  BY DEF IsWith, IsRows
<1>3. r \in G /\ \A i \in 1 .. Len(rest) : rest[i] \in G
  BY <1>1 DEF IsWith
<1>4. IsRows(rest) /\ H \subseteq G
  <2> HIDE DEF G
  <2> QED BY <1>1, <1>2, <1>3, GroupHoldsSpan
<1>5. IsGroup(H) /\ \A i \in 1 .. Len(rest) : rest[i] \in H
  BY <1>4, SpanIsGroup
<1> HIDE DEF G, H
<1>6. CommutesWith(r, H)
  BY <1>1, <1>3, <1>4 DEF CommutesWith, IsGroup
<1>7. IsGroup(K) /\ H \subseteq K /\ r \in K
  BY <1>2, <1>5, <1>6, GroupGrows
<1>8. K \subseteq G
  BY <1>1, <1>3, <1>4 DEF WithProducts, IsGroup
<1> HIDE DEF K
<1>9. \A j \in 1 .. Len(rows) : rows[j] \in K
  BY <1>5, <1>7 DEF IsWith
<1>10. G \subseteq K
  BY <1>2, <1>7, <1>9, GroupHoldsSpan DEF G
<1>11. G = K
  BY <1>8, <1>10
<1>12. QED
  BY <1>4, <1>6, <1>11 DEF G, H, K

LEMMA AppendIsWith ==
  ASSUME NEW rows, IsRows(rows), NEW r \in Ops, CommutesWith(r, Span(rows))
  PROVE  /\ IsRows(Append(rows, r)) /\ Len(Append(rows, r)) = Len(rows) + 1
         /\ IsWith(Append(rows, r), rows, r)
         /\ \A i \in 1 .. Len(rows) : Append(rows, r)[i] = rows[i]
         /\ Append(rows, r)[Len(rows) + 1] = r
<1> DEFINE n == Len(rows)
           A == Append(rows, r)
<1>1. /\ n \in Nat /\ rows \in Seq(Ops)
      /\ \A i \in 1 .. n : rows[i] \in Ops
      /\ \A i, j \in 1 .. n : Commute(rows[i], rows[j])
  BY RowsCommute DEF IsRows
<1>2. /\ A \in Seq(Ops) /\ Len(A) = n + 1
      /\ \A i \in 1 .. n : A[i] = rows[i]
      /\ A[n + 1] = r
  BY <1>1
<1>3. \A i \in 1 .. n : Commute(rows[i], r) /\ Commute(r, rows[i])
  BY <1>1, SpanIsGroup, CommuteBoth DEF CommutesWith
<1>4. Commute(r, r)
  BY CommutesWithItself
<1>5. \A i \in 1 .. n + 1 : i \in 1 .. n \/ i = n + 1
  BY <1>1
<1>6. \A i \in 1 .. n : i \in 1 .. n + 1
  BY <1>1
<1>7. n + 1 \in 1 .. n + 1
  BY <1>1
<1> HIDE DEF A, n
<1>8. \A i, j \in 1 .. n + 1 : Commute(A[i], A[j])
  BY <1>1, <1>2, <1>3, <1>4, <1>5
<1>9. DOMAIN A = 1 .. n + 1
  BY <1>2
<1>10. IsRows(A)
  BY <1>2, <1>8, <1>9 DEF IsRows, IsSymplectic
<1>11. IsWith(A, rows, r)
  <2>1. \A i \in 1 .. n : \E j \in 1 .. n + 1 : rows[i] = A[j]
    BY <1>2, <1>6
  <2>2. \A j \in 1 .. n + 1 : A[j] = r \/ \E i \in 1 .. n : A[j] = rows[i]
    BY <1>2, <1>5
  <2>3. \E j \in 1 .. n + 1 : r = A[j]
    BY <1>2, <1>7
  <2>4. QED
    BY <1>1, <1>2, <2>1, <2>2, <2>3 DEF IsWith, n
<1>12. QED
  BY <1>2, <1>10, <1>11 DEF A, n

\* how many of the rows reduce to nothing
Idle(R) == {i \in DOMAIN R : R[i] = Identity}

(* What InGroup finds out: how many rows are left of the extended ones. *)
LEMMA IdleRows ==
  ASSUME NEW rows, IsRows(rows), NEW n, AreOn(rows, n), NEW cols, IsColumns(cols, n)
  PROVE  \E m \in 0 .. Len(rows) :
           /\ IsFiniteSet(Span(rows)) /\ Cardinality(Span(rows)) = 2 ^ m
           /\ Idle(Eliminate(rows, cols)) = m + 1 .. Len(rows)
<1> DEFINE R == Eliminate(rows, cols)
<1>1. /\ IsRows(R) /\ Len(R) = Len(rows) /\ Span(R) = Span(rows) /\ AreOn(R, n)
      /\ \E h, piv : Reduced(R, h, cols, 2 * n + 1, piv)
  BY EliminateReduces
<1> HIDE DEF R
<1>2. PICK h, piv : Reduced(R, h, cols, 2 * n + 1, piv)
  BY <1>1
<1>3. IsReduced(R, n, cols, h, piv)
  BY <1>1, <1>2 DEF IsReduced
<1>4. Len(R) \in Nat /\ h \in 1 .. Len(R) + 1 /\ DOMAIN R = 1 .. Len(R)
  BY <1>1, <1>3, ReducedFacts, RowsCommute
<1>5. PICK f : AreSpans(f, R) /\ Span(R) = f[Len(R)]
  BY <1>1, <1>4, SpanIsLast
<1>6. /\ \A i \in 1 .. h - 1 : R[i] # Identity
      /\ \A i \in h .. Len(R) : R[i] = Identity
      /\ IsFiniteSet(Span(R)) /\ Cardinality(Span(R)) = 2 ^ (h - 1)
  BY <1>3, <1>5, RankIs
<1>7. h - 1 \in 0 .. Len(R) /\ h - 1 + 1 = h /\ h .. Len(R) \subseteq 1 .. Len(R)
      /\ \A i \in 1 .. Len(R) : i \in 1 .. h - 1 \/ i \in h .. Len(R)
  BY <1>4
<1>8. Idle(R) = h .. Len(R)
  BY <1>4, <1>6, <1>7 DEF Idle
<1>9. QED
  BY <1>1, <1>6, <1>7, <1>8 DEF R

LEMMA InGroupExact ==
  ASSUME NEW rows, IsProper(rows), NEW cols, IsColumns(cols, Len(rows)), NEW P \in Span(rows)
  PROVE  InGroup(rows, P, cols) /\ ~InGroup(rows, Minus(P), cols)
<1> DEFINE n == Len(rows)
           G == Span(rows)
<1>1. n \in Nat /\ IsRows(rows) /\ AreOn(rows, n) /\ IsGroup(G) /\ Cardinality(G) = 2 ^ n /\ NoMinus(G)
  BY RowsCommute, SpanIsGroup DEF IsProper
<1>2. P \in OpsOn(n) /\ P \in Ops /\ \A R \in G : R \in Ops /\ Commute(R, P)
  BY <1>1, SpanIsOn DEF IsGroup
<1>3. CommutesWith(P, G) /\ CommutesWith(Minus(P), G) /\ Minus(P) \in Ops
  BY <1>2, CommutesWithMinus, MinusIs DEF CommutesWith
<1>4. Minus(P) \in OpsOn(n)
  BY <1>2 DEF OpsOn, PauliOps, Minus
<1>5. IsFiniteSet(G)
  BY <1>1, IdleRows
<1>6. ASSUME NEW r \in Ops, r \in OpsOn(n), CommutesWith(r, G)
      PROVE  /\ IsSymplectic(Append(rows, r)) /\ IsFiniteSet(WithProducts(G, r))
             /\ \E m \in 0 .. n + 1 : /\ Cardinality(WithProducts(G, r)) = 2 ^ m
                                      /\ Idle(Eliminate(Append(rows, r), cols)) = m + 1 .. n + 1
  <2> DEFINE A == Append(rows, r)
  <2>1. /\ IsRows(A) /\ Len(A) = n + 1 /\ IsWith(A, rows, r)
        /\ \A i \in 1 .. n : A[i] = rows[i]
        /\ A[n + 1] = r
    BY <1>1, <1>6, AppendIsWith
  <2> HIDE DEF A
  <2>2. Span(A) = WithProducts(G, r)
    BY <2>1, SpanWith
  <2>3. \A i \in 1 .. n + 1 : i \in 1 .. n \/ i = n + 1
    BY <1>1
  <2>4. AreOn(A, n)
    BY <1>1, <1>6, <2>1, <2>3 DEF AreOn
  <2>5. PICK m \in 0 .. Len(A) : /\ IsFiniteSet(Span(A)) /\ Cardinality(Span(A)) = 2 ^ m
                                 /\ Idle(Eliminate(A, cols)) = m + 1 .. Len(A)
    BY <2>1, <2>4, IdleRows
  <2>6. IsSymplectic(A)
    BY <2>1 DEF IsRows
  <2>7. QED
    BY <2>1, <2>2, <2>5, <2>6 DEF A
<1>7. InGroup(rows, P, cols)
  <2>1. WithProducts(G, P) = G
    BY <1>1, <1>2, <1>3, <1>5, CosetCounts
  <2>2. PICK m \in 0 .. n + 1 : /\ Cardinality(WithProducts(G, P)) = 2 ^ m
                                /\ Idle(Eliminate(Append(rows, P), cols)) = m + 1 .. n + 1
    BY <1>2, <1>3, <1>6
  <2>3. m = n
    BY <1>1, <2>1, <2>2, PowerIsInjective
  <2>4. Cardinality(n + 1 .. n + 1) = 1
    <3>1. n + 1 .. n + 1 = {n + 1}
      BY <1>1
    <3>2. QED
      BY <3>1, FS_Singleton
  <2>5. QED
    BY <1>2, <1>3, <1>6, <2>2, <2>3, <2>4 DEF InGroup, Idle
<1>8. ~InGroup(rows, Minus(P), cols)
  <2>1. Minus(P) \notin G
    <3>1. SUFFICES ASSUME Minus(P) \in G PROVE FALSE
      OBVIOUS
    <3>2. Product(P, Minus(P)) \in G
      BY <1>1, <3>1 DEF IsGroup
    <3>3. Commute(P, P) /\ Product(P, Minus(P)) = Minus(Product(P, P)) /\ Product(P, P) = Identity
      BY <1>2, CommutesWithItself, ProductOfMinus, ProductWithItself
    <3>4. QED
      BY <1>1, <3>2, <3>3 DEF NoMinus
  <2>2. Cardinality(WithProducts(G, Minus(P))) = 2 * Cardinality(G)
    BY <1>1, <1>3, <1>5, <2>1, CosetCounts
  <2>3. PICK m \in 0 .. n + 1 : /\ Cardinality(WithProducts(G, Minus(P))) = 2 ^ m
                                /\ Idle(Eliminate(Append(rows, Minus(P)), cols)) = m + 1 .. n + 1
    BY <1>3, <1>4, <1>6
  <2>4. 2 ^ m = 2 ^ (n + 1)
    BY <1>1, <2>2, <2>3, PowerDoubles
  <2>5. m = n + 1
    BY <1>1, <2>4, PowerIsInjective
  <2>6. m + 1 .. n + 1 = {}
    BY <1>1, <2>5
  <2>7. Cardinality({}) = 0
    BY FS_EmptySet
  <2>8. Cardinality(Idle(Eliminate(Append(rows, Minus(P)), cols))) = 0
    BY <2>3, <2>6, <2>7
  <2>9. QED
    BY <2>8 DEF InGroup, Idle
<1>9. QED
  BY <1>7, <1>8

(* F takes the operators in D to operators, as a symmetry of the products. *)
Carries(F, D) ==
  /\ DOMAIN F = D
  /\ D \subseteq Ops
  /\ Identity \in D
  /\ F[Identity] = Identity
  /\ \A P \in D : F[P] \in Ops
  /\ \A P \in D : Minus(P) \in D /\ F[Minus(P)] = Minus(F[P])
  /\ \A P, R \in D : Commute(F[P], F[R]) <=> Commute(P, R)
  /\ \A P, R \in D : Commute(P, R) => Product(P, R) \in D /\ F[Product(P, R)] = Product(F[P], F[R])
  /\ \A P, R \in D : F[P] = F[R] => P = R

Image(F, G) == {F[P] : P \in G}

LEMMA RowsAreIn ==
  ASSUME NEW rows, IsRows(rows), NEW F, NEW D, Carries(F, D), \A i \in 1 .. Len(rows) : rows[i] \in D
  PROVE  Span(rows) \subseteq D
<1> DEFINE G == Span(rows)
           S == G \cap D
<1>1. IsGroup(G) /\ \A i \in 1 .. Len(rows) : rows[i] \in G
  BY SpanIsGroup
<1> HIDE DEF G
<1>2. Identity \in S
  BY <1>1 DEF IsGroup, Carries
<1>3. ASSUME NEW P \in S, NEW i \in 1 .. Len(rows) PROVE Product(P, rows[i]) \in S
  <2>1. Commute(P, rows[i]) /\ Product(P, rows[i]) \in G
    BY <1>1 DEF IsGroup
  <2>2. Product(P, rows[i]) \in D
    BY <2>1 DEF Carries
  <2>3. QED
    BY <2>1, <2>2
<1>4. Len(rows) \in Nat
  BY RowsCommute
<1> HIDE DEF S
<1>5. G \subseteq S
  BY <1>2, <1>3, <1>4, SpanIsLeast DEF G
<1>6. QED
  BY <1>5 DEF S, G

LEMMA ImageIsGroup ==
  ASSUME NEW F, NEW D, Carries(F, D), NEW G, IsGroup(G), G \subseteq D
  PROVE  IsGroup(Image(F, G))
<1>1. /\ Identity \in G /\ F[Identity] = Identity
      /\ \A P \in G : P \in D /\ F[P] \in Ops
      /\ \A P, R \in G : Commute(P, R) /\ Product(P, R) \in G
  BY DEF IsGroup, Carries
<1>2. \A P, R \in G : Commute(F[P], F[R]) /\ F[Product(P, R)] = Product(F[P], F[R])
  BY <1>1 DEF Carries
<1>3. Identity \in Image(F, G) /\ Image(F, G) \subseteq Ops
  BY <1>1 DEF Image
<1>4. ASSUME NEW P \in Image(F, G), NEW R \in Image(F, G)
      PROVE  Commute(P, R) /\ Product(P, R) \in Image(F, G)
  <2>1. PICK P0 \in G : P = F[P0]
    BY DEF Image
  <2>2. PICK R0 \in G : R = F[R0]
    BY DEF Image
  <2>3. Commute(P, R) /\ Product(P, R) = F[Product(P0, R0)] /\ Product(P0, R0) \in G
    BY <1>1, <1>2, <2>1, <2>2
  <2>4. QED
    BY <2>3 DEF Image
<1>5. QED
  BY <1>3, <1>4 DEF IsGroup

(* Rows that are carried generate what their group is carried to. *)
LEMMA SpanIsCarried ==
  ASSUME NEW F, NEW D, Carries(F, D), NEW rows, IsRows(rows), \A i \in 1 .. Len(rows) : rows[i] \in D,
         NEW new, new \in Seq(Ops), Len(new) = Len(rows), \A i \in 1 .. Len(rows) : new[i] = F[rows[i]]
  PROVE  IsRows(new) /\ Span(new) = Image(F, Span(rows))
<1> DEFINE G == Span(rows)
           H == Image(F, G)
<1>1. IsGroup(G) /\ G \subseteq D /\ \A i \in 1 .. Len(rows) : rows[i] \in G
  BY SpanIsGroup, RowsAreIn
<1> HIDE DEF G
<1>2. IsGroup(H)
  BY <1>1, ImageIsGroup
<1>3. \A i \in 1 .. Len(new) : new[i] \in H
  BY <1>1 DEF Image
<1> HIDE DEF H
<1>4. IsRows(new) /\ Span(new) \subseteq H
  BY <1>2, <1>3, GroupHoldsSpan
<1>5. IsGroup(Span(new)) /\ \A i \in 1 .. Len(new) : new[i] \in Span(new)
  BY <1>4, SpanIsGroup
<1> DEFINE S == {P \in G : F[P] \in Span(new)}
<1>6. Identity \in S
  BY <1>1, <1>5 DEF IsGroup, Carries
<1>7. ASSUME NEW P \in S, NEW i \in 1 .. Len(rows) PROVE Product(P, rows[i]) \in S
  <2>1. Commute(P, rows[i]) /\ Product(P, rows[i]) \in G /\ P \in D /\ rows[i] \in D
    BY <1>1 DEF IsGroup
  <2>2. F[Product(P, rows[i])] = Product(F[P], F[rows[i]])
    BY <2>1 DEF Carries
  <2>3. F[rows[i]] = new[i] /\ new[i] \in Span(new) /\ F[P] \in Span(new)
    BY <1>5
  <2>4. Product(F[P], F[rows[i]]) \in Span(new)
    BY <1>5, <2>3 DEF IsGroup
  <2>5. QED
    BY <2>1, <2>2, <2>4
<1>8. Len(rows) \in Nat
  BY RowsCommute
<1> HIDE DEF S
<1>9. G \subseteq S
  BY <1>6, <1>7, <1>8, SpanIsLeast DEF G
<1>10. H \subseteq Span(new)
  BY <1>9 DEF S, H, Image
<1>11. QED
  BY <1>4, <1>10 DEF G, H

LEMMA ImageCounts ==
  ASSUME NEW F, NEW D, Carries(F, D), NEW G, IsGroup(G), G \subseteq D, IsFiniteSet(G)
  PROVE  /\ IsFiniteSet(Image(F, G)) /\ Cardinality(Image(F, G)) = Cardinality(G)
         /\ NoMinus(G) => NoMinus(Image(F, G))
         /\ \A P \in D : F[P] \in Image(F, G) <=> P \in G
<1> DEFINE f == [P \in G |-> F[P]]
<1>1. DOMAIN f = G /\ Image(F, G) = {f[P] : P \in G}
  BY DEF Image
<1>2. \A P, R \in G : f[P] = f[R] => P = R
  BY DEF Carries
<1> HIDE DEF f
<1>3. IsFiniteSet(Image(F, G)) /\ Cardinality(Image(F, G)) = Cardinality(G)
  BY <1>1, <1>2, CountImage
<1>4. ASSUME NEW P \in D PROVE F[P] \in Image(F, G) <=> P \in G
  BY DEF Image, Carries
<1>5. Minus(Identity) \in D /\ F[Minus(Identity)] = Minus(Identity)
  BY DEF Carries
<1>6. NoMinus(G) => NoMinus(Image(F, G))
  BY <1>4, <1>5 DEF NoMinus
<1>7. QED
  BY <1>3, <1>4, <1>6

Relabel(r, S) == {r[i] : i \in S}
Moved(r, P) == [x |-> Relabel(r, P.x), z |-> Relabel(r, P.z), neg |-> P.neg]
Within(Q) == {P \in Ops : P.x \subseteq Q /\ P.z \subseteq Q}
IsRelabelling(r, Q) ==
  /\ Q \subseteq Nat /\ r \in [Q -> Nat]
  /\ \A i, j \in Q : r[i] = r[j] => i = j

LEMMA RelabelSets ==
  ASSUME NEW r, NEW Q, IsRelabelling(r, Q), NEW A \in FinSets, A \subseteq Q, NEW B \in FinSets, B \subseteq Q
  PROVE  /\ Relabel(r, A) \in FinSets
         /\ SymDiff(Relabel(r, A), Relabel(r, B)) = Relabel(r, SymDiff(A, B))
         /\ Meet(Relabel(r, A), Relabel(r, B)) = Meet(A, B)
         /\ SymDiff(A, B) \subseteq Q /\ SymDiff(A, B) \in FinSets
         /\ Relabel(r, A) = Relabel(r, B) => A = B
<1>1. /\ Q \subseteq Nat /\ \A i \in Q : r[i] \in Nat
      /\ \A i, j \in Q : r[i] = r[j] => i = j
  BY DEF IsRelabelling
<1>2. ASSUME NEW C, C \in FinSets, C \subseteq Q
      PROVE  Relabel(r, C) \in FinSets /\ Cardinality(Relabel(r, C)) = Cardinality(C)
  <2> DEFINE f == [i \in C |-> r[i]]
  <2>1. DOMAIN f = C /\ Relabel(r, C) = {f[i] : i \in C}
    BY DEF Relabel
  <2>2. \A i, j \in C : f[i] = f[j] => i = j
    BY <1>1, <1>2
  <2> HIDE DEF f
  <2>3. IsFiniteSet(C)
    BY <1>2 DEF FinSets
  <2>4. IsFiniteSet(Relabel(r, C)) /\ Cardinality(Relabel(r, C)) = Cardinality(C)
    BY <2>1, <2>2, <2>3, CountImage
  <2>5. Relabel(r, C) \subseteq Nat
    BY <1>1, <1>2 DEF Relabel
  <2>6. QED
    BY <2>4, <2>5 DEF FinSets
<1>3. SymDiff(Relabel(r, A), Relabel(r, B)) = Relabel(r, SymDiff(A, B))
  BY <1>1 DEF Relabel, SymDiff
<1>4. Relabel(r, A) \cap Relabel(r, B) = Relabel(r, A \cap B)
  BY <1>1 DEF Relabel
<1>5. A \cap B \in FinSets /\ A \cap B \subseteq Q
  BY FiniteParts
<1>6. Meet(Relabel(r, A), Relabel(r, B)) = Meet(A, B)
  BY <1>2, <1>4, <1>5 DEF Meet
<1>7. SymDiff(A, B) \subseteq Q /\ SymDiff(A, B) \in FinSets
  BY FiniteParts DEF SymDiff
<1>8. ASSUME Relabel(r, A) = Relabel(r, B) PROVE A = B
  <2>1. \A i \in Q : i \in A <=> r[i] \in Relabel(r, A)
    BY <1>1 DEF Relabel
  <2>2. \A i \in Q : i \in B <=> r[i] \in Relabel(r, B)
    BY <1>1 DEF Relabel
  <2>3. QED
    BY <1>8, <2>1, <2>2
<1>9. QED
  BY <1>2, <1>3, <1>6, <1>7, <1>8

\* the sign of a product, from the numbers of qubits that meet
PhaseOf(m, neg) == (m + IF neg THEN 2 ELSE 0) % 4
SignOfProduct(mp, np, mr, nr, across, m) ==
  (PhaseOf(mp, np) + PhaseOf(mr, nr) + 2 * across) % 4 # m % 4

LEMMA SignIs ==
  ASSUME NEW P, NEW R
  PROVE  Product(P, R) =
           [x |-> SymDiff(P.x, R.x), z |-> SymDiff(P.z, R.z),
            neg |-> SignOfProduct(Meet(P.x, P.z), P.neg, Meet(R.x, R.z), R.neg, Meet(P.z, R.x),
                                  Meet(SymDiff(P.x, R.x), SymDiff(P.z, R.z)))]
<1>1. Term(P) = [x |-> P.x, z |-> P.z, k |-> PhaseOf(Meet(P.x, P.z), P.neg)]
  BY TermIs DEF PhaseOf
<1>2. Term(R) = [x |-> R.x, z |-> R.z, k |-> PhaseOf(Meet(R.x, R.z), R.neg)]
  BY TermIs DEF PhaseOf
<1> DEFINE a == PhaseOf(Meet(P.x, P.z), P.neg)
           b == PhaseOf(Meet(R.x, R.z), R.neg)
           s == Term(P)
           t == Term(R)
           u == Times(s, t)
<1>3. s.x = P.x /\ s.z = P.z /\ s.k = a /\ t.x = R.x /\ t.z = R.z /\ t.k = b
  BY <1>1, <1>2
<1> HIDE DEF a, b, s, t
<1>4. u = [x |-> SymDiff(s.x, t.x), z |-> SymDiff(s.z, t.z), k |-> (s.k + t.k + 2 * Meet(s.z, t.x)) % 4]
  BY TimesIs
<1>5. u.x = SymDiff(P.x, R.x) /\ u.z = SymDiff(P.z, R.z) /\ u.k = (a + b + 2 * Meet(P.z, R.x)) % 4
  BY <1>3, <1>4
<1>6. Product(P, R) = OfTerm(u)
  BY DEF Product, s, t
<1> HIDE DEF u
<1>7. OfTerm(u) = [x |-> u.x, z |-> u.z, neg |-> u.k # Meet(u.x, u.z) % 4]
  BY OfTermIs
<1>8. QED
  BY <1>5, <1>6, <1>7 DEF SignOfProduct, a, b

LEMMA MovedCarries ==
  ASSUME NEW r, NEW Q, IsRelabelling(r, Q)
  PROVE  Carries([P \in Within(Q) |-> Moved(r, P)], Within(Q))
<1> DEFINE D == Within(Q)
           F == [P \in D |-> Moved(r, P)]
<1>1. ASSUME NEW P \in D
      PROVE  /\ P \in Ops /\ P.x \in FinSets /\ P.z \in FinSets /\ P.x \subseteq Q /\ P.z \subseteq Q
             /\ P.neg \in BOOLEAN
             /\ P = [x |-> P.x, z |-> P.z, neg |-> P.neg]
             /\ F[P] = Moved(r, P)
             /\ F[P].x = Relabel(r, P.x) /\ F[P].z = Relabel(r, P.z) /\ F[P].neg = P.neg
             /\ F[P] \in Ops
  <2>1. /\ P \in Ops /\ P.x \in FinSets /\ P.z \in FinSets /\ P.x \subseteq Q /\ P.z \subseteq Q
        /\ P.neg \in BOOLEAN /\ F[P] = Moved(r, P)
        /\ P = [x |-> P.x, z |-> P.z, neg |-> P.neg]
    BY DEF Within, Ops
  <2>2. Relabel(r, P.x) \in FinSets /\ Relabel(r, P.z) \in FinSets
    BY <2>1, RelabelSets
  <2>3. QED
    BY <2>1, <2>2 DEF Moved, Ops
<1>2. DOMAIN F = D /\ D \subseteq Ops
  BY DEF Within
<1>3. Identity \in D
  BY IdentityIsOp DEF Within, NoQubits
<1> HIDE DEF F, D
<1>4. F[Identity] = Identity
  <2>1. Relabel(r, {}) = {}
    BY DEF Relabel
  <2>2. F[Identity] = Moved(r, Identity) /\ Identity = [x |-> {}, z |-> {}, neg |-> FALSE]
    BY <1>1, <1>3 DEF Identity
  <2>3. Identity.x = {} /\ Identity.z = {} /\ Identity.neg = FALSE
    BY <2>2
  <2>4. QED
    BY <2>1, <2>2, <2>3 DEF Moved
<1>5. ASSUME NEW P \in D PROVE Minus(P) \in D /\ F[Minus(P)] = Minus(F[P])
  <2>1. Minus(P) \in Ops /\ Minus(P).x = P.x /\ Minus(P).z = P.z /\ Minus(P).neg = ~P.neg
    BY <1>1, MinusIs
  <2>2. Minus(P) \in D
    BY <1>1, <2>1 DEF D, Within
  <2>3. /\ Minus(F[P]) \in Ops /\ Minus(F[P]).x = F[P].x /\ Minus(F[P]).z = F[P].z
        /\ Minus(F[P]).neg = ~F[P].neg
    BY <1>1, MinusIs
  <2>4. F[Minus(P)].x = F[P].x /\ F[Minus(P)].z = F[P].z /\ F[Minus(P)].neg = ~F[P].neg /\ F[Minus(P)] \in Ops
    BY <1>1, <2>1, <2>2
  <2>5. QED
    BY <2>2, <2>3, <2>4, SameFields
<1>6. ASSUME NEW P \in D, NEW R \in D
      PROVE  /\ Meet(F[P].x, F[R].z) = Meet(P.x, R.z)
             /\ Meet(F[P].z, F[R].x) = Meet(P.z, R.x)
             /\ SymDiff(F[P].x, F[R].x) = Relabel(r, SymDiff(P.x, R.x))
             /\ SymDiff(F[P].z, F[R].z) = Relabel(r, SymDiff(P.z, R.z))
             /\ Meet(SymDiff(F[P].x, F[R].x), SymDiff(F[P].z, F[R].z)) =
                  Meet(SymDiff(P.x, R.x), SymDiff(P.z, R.z))
             /\ SymDiff(P.x, R.x) \subseteq Q /\ SymDiff(P.z, R.z) \subseteq Q
             /\ F[P] = F[R] => P = R
  <2>1. /\ P.x \in FinSets /\ P.z \in FinSets /\ P.x \subseteq Q /\ P.z \subseteq Q
        /\ F[P].x = Relabel(r, P.x) /\ F[P].z = Relabel(r, P.z) /\ F[P].neg = P.neg
        /\ P = [x |-> P.x, z |-> P.z, neg |-> P.neg]
    BY <1>1
  <2>2. /\ R.x \in FinSets /\ R.z \in FinSets /\ R.x \subseteq Q /\ R.z \subseteq Q
        /\ F[R].x = Relabel(r, R.x) /\ F[R].z = Relabel(r, R.z) /\ F[R].neg = R.neg
        /\ R = [x |-> R.x, z |-> R.z, neg |-> R.neg]
    BY <1>1
  <2> DEFINE X == SymDiff(P.x, R.x)
             Z == SymDiff(P.z, R.z)
  <2>3. /\ SymDiff(Relabel(r, P.x), Relabel(r, R.x)) = Relabel(r, X)
        /\ X \subseteq Q /\ X \in FinSets
        /\ Relabel(r, P.x) = Relabel(r, R.x) => P.x = R.x
    BY <2>1, <2>2, RelabelSets
  <2>4. /\ SymDiff(Relabel(r, P.z), Relabel(r, R.z)) = Relabel(r, Z)
        /\ Z \subseteq Q /\ Z \in FinSets
        /\ Relabel(r, P.z) = Relabel(r, R.z) => P.z = R.z
    BY <2>1, <2>2, RelabelSets
  <2>5. Meet(Relabel(r, P.x), Relabel(r, R.z)) = Meet(P.x, R.z)
    BY <2>1, <2>2, RelabelSets
  <2>6. Meet(Relabel(r, P.z), Relabel(r, R.x)) = Meet(P.z, R.x)
    BY <2>1, <2>2, RelabelSets
  <2> HIDE DEF X, Z
  <2>7. Meet(Relabel(r, X), Relabel(r, Z)) = Meet(X, Z)
    BY <2>3, <2>4, RelabelSets
  <2>8. F[P] = F[R] => P = R
    BY <2>1, <2>2, <2>3, <2>4
  <2>9. QED
    BY <2>1, <2>2, <2>3, <2>4, <2>5, <2>6, <2>7, <2>8 DEF X, Z
<1>7. \A P, R \in D : Commute(F[P], F[R]) <=> Commute(P, R)
  BY <1>6, CommuteIs
<1>8. ASSUME NEW P \in D, NEW R \in D, Commute(P, R)
      PROVE  Product(P, R) \in D /\ F[Product(P, R)] = Product(F[P], F[R])
  <2> DEFINE S == Product(P, R)
             X == SymDiff(P.x, R.x)
             Z == SymDiff(P.z, R.z)
             neg == SignOfProduct(Meet(P.x, P.z), P.neg, Meet(R.x, R.z), R.neg, Meet(P.z, R.x), Meet(X, Z))
  <2>1. S = [x |-> X, z |-> Z, neg |-> neg]
    BY SignIs
  <2>2. S \in Ops /\ X \subseteq Q /\ Z \subseteq Q
    BY <1>1, <1>6, <1>8, ProductIsOp
  <2>3. S \in D
    BY <2>1, <2>2 DEF D, Within
  <2>4. F[S] = [x |-> Relabel(r, X), z |-> Relabel(r, Z), neg |-> neg]
    <3>1. F[S] = Moved(r, S)
      BY <1>1, <2>3
    <3> HIDE DEF S, X, Z, neg
    <3>2. QED
      BY <2>1, <3>1 DEF Moved
  <2>5. Product(F[P], F[R]) = [x |-> Relabel(r, X), z |-> Relabel(r, Z), neg |-> neg]
    <3> DEFINE A == F[P]
               B == F[R]
    <3>1. /\ Meet(A.z, B.x) = Meet(P.z, R.x)
          /\ SymDiff(A.x, B.x) = Relabel(r, X) /\ SymDiff(A.z, B.z) = Relabel(r, Z)
          /\ Meet(SymDiff(A.x, B.x), SymDiff(A.z, B.z)) = Meet(X, Z)
      BY <1>6
    <3>2. Meet(A.x, A.z) = Meet(P.x, P.z) /\ A.neg = P.neg
      BY <1>1, <1>6
    <3>3. Meet(B.x, B.z) = Meet(R.x, R.z) /\ B.neg = R.neg
      BY <1>1, <1>6
    <3> HIDE DEF A, B
    <3>4. Product(A, B) =
           [x |-> SymDiff(A.x, B.x), z |-> SymDiff(A.z, B.z),
            neg |-> SignOfProduct(Meet(A.x, A.z), A.neg, Meet(B.x, B.z), B.neg, Meet(A.z, B.x),
                                  Meet(SymDiff(A.x, B.x), SymDiff(A.z, B.z)))]
      BY SignIs
    <3>5. QED
      BY <3>1, <3>2, <3>3, <3>4 DEF A, B
  <2>6. QED
    BY <2>3, <2>4, <2>5
<1>9. Carries(F, D)
  BY <1>1, <1>2, <1>3, <1>4, <1>5, <1>6, <1>7, <1>8 DEF Carries
<1>10. QED
  BY <1>9 DEF F, D

Products(A, B) == {Product(P, R) : P \in A, R \in B}
AcrossCommute(A, B) == \A P \in A, R \in B : Commute(P, R) /\ Commute(R, P)

LEMMA FourFactors ==
  ASSUME NEW P \in Ops, NEW R \in Ops, NEW S \in Ops, NEW T \in Ops,
         Commute(P, R), Commute(P, S), Commute(P, T), Commute(R, S), Commute(R, T), Commute(S, T)
  PROVE  /\ Product(Product(P, R), Product(S, T)) = Product(Product(P, S), Product(R, T))
         /\ Commute(Product(P, R), Product(S, T))
         /\ Product(P, R) \in Ops
<1>1. Commute(R, P) /\ Commute(S, R) /\ Commute(S, P) /\ Commute(T, P) /\ Commute(T, R)
  BY CommuteBoth
<1>2. /\ Product(P, R) \in Ops /\ Product(S, T) \in Ops /\ Product(R, T) \in Ops /\ Product(P, S) \in Ops
      /\ Product(R, S) \in Ops
  BY ProductIsOp
<1>3. /\ Commute(P, Product(S, T)) /\ Commute(R, Product(S, T)) /\ Commute(P, Product(R, T))
      /\ Commute(S, Product(R, T))
  BY <1>1, CommutesWithProduct
<1>4. Commute(Product(S, T), P) /\ Commute(Product(S, T), R)
  BY <1>2, <1>3, CommuteBoth
<1>5. Commute(Product(S, T), Product(P, R))
  BY <1>2, <1>4, CommutesWithProduct
<1>6. Commute(Product(P, R), Product(S, T))
  BY <1>2, <1>5, CommuteBoth
<1>7. Product(Product(P, R), Product(S, T)) = Product(P, Product(R, Product(S, T)))
  BY <1>2, <1>3, ProductAssociates
<1>8. Product(R, Product(S, T)) = Product(Product(R, S), T)
  BY ProductAssociates
<1>9. Product(R, S) = Product(S, R)
  BY ProductCommutes
<1>10. Product(Product(S, R), T) = Product(S, Product(R, T))
  BY <1>1, ProductAssociates
<1>11. Product(P, Product(S, Product(R, T))) = Product(Product(P, S), Product(R, T))
  BY <1>2, <1>3, ProductAssociates
<1>12. QED
  BY <1>2, <1>6, <1>7, <1>8, <1>9, <1>10, <1>11

LEMMA ProductsGroup ==
  ASSUME NEW A, IsGroup(A), NEW B, IsGroup(B), AcrossCommute(A, B)
  PROVE  IsGroup(Products(A, B)) /\ A \subseteq Products(A, B) /\ B \subseteq Products(A, B)
<1>1. /\ A \subseteq Ops /\ Identity \in A
      /\ \A P, R \in A : Commute(P, R) /\ Product(P, R) \in A
  BY DEF IsGroup
<1>2. /\ B \subseteq Ops /\ Identity \in B
      /\ \A P, R \in B : Commute(P, R) /\ Product(P, R) \in B
  BY DEF IsGroup
<1>3. ASSUME NEW P \in Products(A, B), NEW Q \in Products(A, B)
      PROVE  P \in Ops /\ Commute(P, Q) /\ Product(P, Q) \in Products(A, B)
  <2>1. PICK a \in A, b \in B : P = Product(a, b)
    BY DEF Products
  <2>2. PICK c \in A, d \in B : Q = Product(c, d)
    BY DEF Products
  <2>3. /\ a \in Ops /\ b \in Ops /\ c \in Ops /\ d \in Ops
        /\ Commute(a, b) /\ Commute(a, c) /\ Commute(a, d) /\ Commute(b, c) /\ Commute(b, d) /\ Commute(c, d)
    BY <1>1, <1>2 DEF AcrossCommute
  <2>4. /\ Product(P, Q) = Product(Product(a, c), Product(b, d)) /\ Commute(P, Q) /\ P \in Ops
    BY <2>1, <2>2, <2>3, FourFactors
  <2>5. Product(a, c) \in A /\ Product(b, d) \in B
    BY <1>1, <1>2
  <2>6. QED
    BY <2>4, <2>5 DEF Products
<1>4. \A P \in A : Product(P, Identity) = P
  BY <1>1, ProductWithIdentity
<1>5. \A P \in B : Product(Identity, P) = P
  BY <1>2, ProductWithIdentity
<1>6. A \subseteq Products(A, B)
  BY <1>2, <1>4 DEF Products
<1>7. B \subseteq Products(A, B)
  BY <1>1, <1>5 DEF Products
<1>8. QED
  BY <1>1, <1>3, <1>6, <1>7 DEF IsGroup

AtFront(n) == Within(0 .. n - 1)
AtBack(n) == {P \in Ops : P.x \cap (0 .. n - 1) = NoQubits /\ P.z \cap (0 .. n - 1) = NoQubits}

LEMMA FrontAndBack ==
  ASSUME NEW n \in Nat, NEW P \in AtFront(n), NEW R \in AtBack(n)
  PROVE  /\ P \in Ops /\ R \in Ops /\ Commute(P, R) /\ Commute(R, P)
         /\ Product(P, R).x \cap (0 .. n - 1) = P.x
         /\ Product(P, R).z \cap (0 .. n - 1) = P.z
         /\ Product(P, R).x \ (0 .. n - 1) = R.x
         /\ Product(P, R).z \ (0 .. n - 1) = R.z
<1>1. P \in Ops /\ P.x \subseteq 0 .. n - 1 /\ P.z \subseteq 0 .. n - 1
  BY DEF AtFront, Within
<1>2. R \in Ops /\ R.x \cap (0 .. n - 1) = {} /\ R.z \cap (0 .. n - 1) = {}
  BY DEF AtBack, NoQubits
<1>3. P.x \cap R.z = NoQubits /\ P.z \cap R.x = NoQubits /\ NoQubits \cap NoQubits = NoQubits
  BY <1>1, <1>2 DEF NoQubits
<1>4. Meet(P.x, R.z) = 0 /\ Meet(P.z, R.x) = 0
  BY <1>3, MeetNothing DEF Meet
<1>5. Commute(P, R) /\ Commute(R, P)
  BY <1>1, <1>2, <1>4, CommuteIs, CommuteBoth
<1>6. Product(P, R).x = SymDiff(P.x, R.x) /\ Product(P, R).z = SymDiff(P.z, R.z)
  BY ProductFields
<1>7. /\ SymDiff(P.x, R.x) \cap (0 .. n - 1) = P.x
      /\ SymDiff(P.z, R.z) \cap (0 .. n - 1) = P.z
      /\ SymDiff(P.x, R.x) \ (0 .. n - 1) = R.x
      /\ SymDiff(P.z, R.z) \ (0 .. n - 1) = R.z
  BY <1>1, <1>2 DEF SymDiff
<1>8. QED
  BY <1>1, <1>2, <1>5, <1>6, <1>7

LEMMA NotBothSigns ==
  ASSUME NEW G, IsGroup(G), NoMinus(G), NEW P \in G
  PROVE  Minus(P) \notin G
<1>1. SUFFICES ASSUME Minus(P) \in G PROVE FALSE
  OBVIOUS
<1>2. P \in Ops
  BY DEF IsGroup
<1>3. Product(P, Minus(P)) \in G
  BY <1>1 DEF IsGroup
<1>4. Commute(P, P) /\ Product(P, Minus(P)) = Minus(Product(P, P)) /\ Product(P, P) = Identity
  BY <1>2, CommutesWithItself, ProductOfMinus, ProductWithItself
<1>5. QED
  BY <1>3, <1>4 DEF NoMinus

(* Groups on different qubits, side by side. *)
LEMMA SideBySide ==
  ASSUME NEW n \in Nat, NEW A, IsGroup(A), A \subseteq AtFront(n), IsFiniteSet(A), NoMinus(A),
         NEW B, IsGroup(B), B \subseteq AtBack(n), IsFiniteSet(B), NoMinus(B)
  PROVE  /\ Cardinality(Products(A, B)) = Cardinality(A) * Cardinality(B)
         /\ NoMinus(Products(A, B))
<1>1. /\ A \subseteq Ops /\ B \subseteq Ops
      /\ \A P \in A, R \in B : P \in AtFront(n) /\ R \in AtBack(n) /\ P \in Ops /\ R \in Ops
  BY DEF IsGroup
<1>2. ASSUME NEW P \in A, NEW R \in B, NEW S \in A, NEW T \in B, Product(P, R) = Product(S, T)
      PROVE  P = S /\ R = T
  <2>1. /\ P \in Ops /\ R \in Ops /\ S \in Ops /\ T \in Ops
        /\ P.x = S.x /\ P.z = S.z /\ Commute(P, R) /\ Commute(R, P) /\ Commute(T, S)
    <3>1. /\ P \in AtFront(n) /\ R \in AtBack(n) /\ S \in AtFront(n) /\ T \in AtBack(n)
      BY <1>1
    <3>2. /\ P \in Ops /\ R \in Ops /\ Commute(P, R) /\ Commute(R, P)
          /\ Product(P, R).x \cap (0 .. n - 1) = P.x
          /\ Product(P, R).z \cap (0 .. n - 1) = P.z
      BY <3>1, FrontAndBack
    <3>3. /\ S \in Ops /\ T \in Ops /\ Commute(T, S)
          /\ Product(S, T).x \cap (0 .. n - 1) = S.x
          /\ Product(S, T).z \cap (0 .. n - 1) = S.z
      BY <3>1, FrontAndBack
    <3>4. QED
      BY <1>2, <3>2, <3>3
  <2>2. P = S
    <3>1. P = S \/ P = Minus(S)
      BY <2>1, SameUpToSign
    <3>2. Minus(S) \notin A
      BY NotBothSigns
    <3>3. QED
      BY <3>1, <3>2
  <2>3. Product(R, P) = Product(T, P)
    BY <1>2, <2>1, <2>2, ProductCommutes
  <2>4. Commute(T, P)
    BY <2>1, <2>2
  <2>5. R = T
    BY <2>1, <2>3, <2>4, CancelProduct
  <2>6. QED
    BY <2>2, <2>5
<1>3. Cardinality(Products(A, B)) = Cardinality(A) * Cardinality(B)
  <2> DEFINE f == [c \in A \X B |-> Product(c[1], c[2])]
  <2>1. IsFiniteSet(A \X B) /\ Cardinality(A \X B) = Cardinality(A) * Cardinality(B)
    BY FS_Product
  <2>2. DOMAIN f = A \X B /\ \A c \in A \X B : f[c] = Product(c[1], c[2])
    OBVIOUS
  <2>3. Products(A, B) = {f[c] : c \in A \X B}
    <3>1. \A P \in A, R \in B : <<P, R>> \in A \X B /\ <<P, R>>[1] = P /\ <<P, R>>[2] = R
      OBVIOUS
    <3>2. \A c \in A \X B : c[1] \in A /\ c[2] \in B
      OBVIOUS
    <3> HIDE DEF f
    <3>3. Products(A, B) \subseteq {f[c] : c \in A \X B}
      <4>1. ASSUME NEW P \in A, NEW R \in B PROVE Product(P, R) \in {f[c] : c \in A \X B}
        <5>1. f[<<P, R>>] = Product(P, R) /\ <<P, R>> \in A \X B
          BY <2>2, <3>1
        <5>2. QED
          BY <5>1
      <4>2. ASSUME NEW Q \in Products(A, B) PROVE Q \in {f[c] : c \in A \X B}
        <5>1. PICK P \in A, R \in B : Q = Product(P, R)
          BY DEF Products
        <5>2. QED
          BY <4>1, <5>1
      <4>3. QED
        BY <4>2
    <3>4. {f[c] : c \in A \X B} \subseteq Products(A, B)
      BY <2>2, <3>2 DEF Products
    <3>5. QED
      BY <3>3, <3>4
  <2>4. ASSUME NEW c \in A \X B, NEW d \in A \X B, f[c] = f[d] PROVE c = d
    <3>1. c[1] \in A /\ c[2] \in B /\ d[1] \in A /\ d[2] \in B /\ c = <<c[1], c[2]>> /\ d = <<d[1], d[2]>>
      OBVIOUS
    <3>2. Product(c[1], c[2]) = Product(d[1], d[2])
      BY <2>2, <2>4
    <3> HIDE DEF f
    <3>3. c[1] = d[1] /\ c[2] = d[2]
      BY <1>2, <3>1, <3>2
    <3>4. QED
      BY <3>1, <3>3
  <2> HIDE DEF f
  <2>5. Cardinality(Products(A, B)) = Cardinality(A \X B)
    BY <2>1, <2>2, <2>3, <2>4, CountImage
  <2>6. QED
    BY <2>1, <2>5
<1>4. NoMinus(Products(A, B))
  <2>1. SUFFICES ASSUME Minus(Identity) \in Products(A, B) PROVE FALSE
    BY DEF NoMinus
  <2>2. PICK P \in A, R \in B : Minus(Identity) = Product(P, R)
    BY <2>1 DEF Products
  <2>3. /\ Minus(Identity).x = NoQubits /\ Minus(Identity).z = NoQubits
    BY IdentityIsOp, MinusIs
  <2>4. P.x = Identity.x /\ P.z = Identity.z
    <3>1. P.x = NoQubits \cap (0 .. n - 1) /\ P.z = NoQubits \cap (0 .. n - 1)
      BY <1>1, <2>2, <2>3, FrontAndBack
    <3>2. QED
      BY <3>1, IdentityIsOp DEF NoQubits
  <2>5. P = Identity \/ P = Minus(Identity)
    BY <1>1, <2>4, IdentityIsOp, SameUpToSign
  <2>6. P = Identity
    BY <2>5 DEF NoMinus
  <2>7. Product(Identity, R) = R
    BY <1>1, ProductWithIdentity
  <2>8. QED
    BY <2>2, <2>6, <2>7 DEF NoMinus
<1>5. QED
  BY <1>3, <1>4

Shifted(n, P) == [P EXCEPT !.x = Behind(@, n), !.z = Behind(@, n)]
ShiftMap(n) == [P \in Ops |-> Shifted(n, P)]

LEMMA ShiftCarries ==
  ASSUME NEW n \in Nat
  PROVE  /\ Carries(ShiftMap(n), Ops)
         /\ \A P \in Ops : /\ ShiftMap(n)[P] = Shifted(n, P) /\ Shifted(n, P) \in AtBack(n)
                           /\ Shifted(n, P).x = Behind(P.x, n) /\ Shifted(n, P).z = Behind(P.z, n)
                           /\ Shifted(n, P).neg = P.neg
<1> DEFINE r == [i \in Nat |-> i + n]
           F == [P \in Within(Nat) |-> Moved(r, P)]
<1>1. IsRelabelling(r, Nat)
  BY DEF IsRelabelling
<1>2. Carries(F, Within(Nat))
  BY <1>1, MovedCarries
<1>3. Within(Nat) = Ops
  BY DEF Within, Ops, FinSets
<1>4. ASSUME NEW P \in Ops
      PROVE  /\ Moved(r, P) = Shifted(n, P)
             /\ Shifted(n, P).x = Behind(P.x, n) /\ Shifted(n, P).z = Behind(P.z, n)
             /\ Shifted(n, P).neg = P.neg
  <2>1. P = [x |-> P.x, z |-> P.z, neg |-> P.neg] /\ P.x \subseteq Nat /\ P.z \subseteq Nat
    BY DEF Ops, FinSets
  <2>2. Relabel(r, P.x) = Behind(P.x, n) /\ Relabel(r, P.z) = Behind(P.z, n)
    BY <2>1 DEF Relabel, Behind
  <2> DEFINE X == Behind(P.x, n)
             Z == Behind(P.z, n)
  <2>3. Shifted(n, P) = [P EXCEPT !.x = X, !.z = Z]
    BY DEF Shifted
  <2> HIDE DEF X, Z
  <2>4. Shifted(n, P) = [x |-> X, z |-> Z, neg |-> P.neg]
    BY <2>1, <2>3
  <2>5. QED
    BY <2>2, <2>4 DEF Moved, X, Z
<1> HIDE DEF r
<1>5. F = ShiftMap(n)
  BY <1>3, <1>4 DEF ShiftMap
<1> HIDE DEF F
<1>6. Carries(ShiftMap(n), Ops)
  BY <1>2, <1>3, <1>5
<1>7. ASSUME NEW P \in Ops PROVE ShiftMap(n)[P] = Shifted(n, P) /\ Shifted(n, P) \in AtBack(n)
  <2>1. ShiftMap(n)[P] = Shifted(n, P)
    BY DEF ShiftMap
  <2>2. Shifted(n, P) \in Ops
    BY <1>6, <2>1 DEF Carries
  <2>3. P.x \subseteq Nat /\ P.z \subseteq Nat
    BY DEF Ops, FinSets
  <2>4. Behind(P.x, n) \cap (0 .. n - 1) = {} /\ Behind(P.z, n) \cap (0 .. n - 1) = {}
    BY <2>3 DEF Behind
  <2>5. QED
    BY <1>4, <2>1, <2>2, <2>4 DEF AtBack, NoQubits
<1>8. QED
  BY <1>4, <1>6, <1>7

IsTensor(T, rows, other, n, m) ==
  /\ T \in Seq(Ops) /\ Len(T) = n + m
  /\ \A i \in 1 .. n : T[i] = rows[i]
  /\ \A j \in 1 .. m : T[n + j] = Shifted(n, other[j])

LEMMA TensorIs ==
  ASSUME NEW rows, IsRows(rows), NEW other, IsRows(other)
  PROVE  IsTensor(TensorProduct(rows, other), rows, other, Len(rows), Len(other))
<1> DEFINE T == TensorProduct(rows, other)
           n == Len(rows)
           m == Len(other)
           M == [i \in 1 .. m |-> Shifted(n, other[i])]
<1>1. n \in Nat /\ rows \in Seq(Ops) /\ m \in Nat /\ DOMAIN other = 1 .. m
      /\ \A i \in 1 .. m : other[i] \in Ops
  BY RowsCommute DEF IsRows
<1>2. T = rows \o M
  BY <1>1 DEF TensorProduct, Shifted
<1>3. \A i \in 1 .. m : Shifted(n, other[i]) \in Ops
  BY <1>1, ShiftCarries DEF AtBack
<1>4. M \in Seq(Ops) /\ Len(M) = m /\ \A j \in 1 .. m : M[j] = Shifted(n, other[j])
  BY <1>1, <1>3
<1> HIDE DEF M, n, m, T
<1>5. /\ rows \o M \in Seq(Ops) /\ Len(rows \o M) = n + m
      /\ \A i \in 1 .. n : (rows \o M)[i] = rows[i]
      /\ \A j \in 1 .. m : (rows \o M)[n + j] = M[j]
  BY <1>1, <1>4 DEF n
<1>6. IsTensor(T, rows, other, n, m)
  BY <1>2, <1>4, <1>5 DEF IsTensor
<1>7. QED
  BY <1>6 DEF n, m, T

LEMMA TensorSpan ==
  ASSUME NEW rows, IsRows(rows), AreOn(rows, Len(rows)), NEW other, IsRows(other)
  PROVE  LET B == Image(ShiftMap(Len(rows)), Span(other)) IN
         /\ IsRows(TensorProduct(rows, other))
         /\ Span(TensorProduct(rows, other)) = Products(Span(rows), B)
         /\ IsGroup(B) /\ B \subseteq AtBack(Len(rows)) /\ Span(rows) \subseteq AtFront(Len(rows))
         /\ AcrossCommute(Span(rows), B)
<1> DEFINE T == TensorProduct(rows, other)
           n == Len(rows)
           m == Len(other)
           F == ShiftMap(n)
           A == Span(rows)
           C == Span(other)
           B == Image(F, C)
           J == Products(A, B)
<1>1. n \in Nat /\ m \in Nat /\ IsGroup(A) /\ IsGroup(C)
  BY RowsCommute, SpanIsGroup
<1>2. /\ \A i \in 1 .. n : rows[i] \in A /\ rows[i] \in Ops
      /\ \A i \in 1 .. m : other[i] \in C /\ other[i] \in Ops
      /\ rows \in Seq(Ops) /\ other \in Seq(Ops) /\ C \subseteq Ops
  BY <1>1, RowsCommute, SpanIsGroup DEF IsRows, IsGroup
<1>3. A \subseteq AtFront(n)
  <2>1. A \subseteq OpsOn(n) /\ OpsOn(n) \subseteq Ops
    BY <1>1, SpanIsOn, OpsOnAreOps
  <2>2. \A P \in OpsOn(n) : P.x \subseteq 0 .. n - 1 /\ P.z \subseteq 0 .. n - 1
    BY DEF OpsOn, PauliOps
  <2>3. QED
    BY <2>1, <2>2 DEF AtFront, Within
<1>4. /\ T \in Seq(Ops) /\ Len(T) = n + m
      /\ \A i \in 1 .. n : T[i] = rows[i]
      /\ \A j \in 1 .. m : T[n + j] = Shifted(n, other[j])
  <2>1. IsTensor(T, rows, other, n, m)
    BY TensorIs
  <2> HIDE DEF T, n, m
  <2>2. QED
    BY <2>1 DEF IsTensor
<1> HIDE DEF T, n, m, A, C, F
<1>5. /\ Carries(F, Ops)
      /\ \A P \in Ops : F[P] = Shifted(n, P) /\ Shifted(n, P) \in AtBack(n)
  BY <1>1, ShiftCarries DEF F
<1>6. IsGroup(B)
  BY <1>1, <1>2, <1>5, ImageIsGroup
<1>7. B \subseteq AtBack(n)
  BY <1>2, <1>5 DEF Image
<1>8. AcrossCommute(A, B)
  <2> HIDE DEF B
  <2>1. \A P \in AtFront(n), R \in AtBack(n) : Commute(P, R) /\ Commute(R, P)
    BY <1>1, FrontAndBack
  <2>2. QED
    BY <1>3, <1>7, <2>1 DEF AcrossCommute
<1>9. /\ \A i \in 1 .. m : Shifted(n, other[i]) \in B
  BY <1>2, <1>5 DEF Image
<1> HIDE DEF B
<1>10. IsGroup(J) /\ A \subseteq J /\ B \subseteq J
  BY <1>1, <1>6, <1>8, ProductsGroup
<1>11. \A i \in 1 .. n + m : i \in 1 .. n \/ (i - n \in 1 .. m /\ i = n + (i - n))
  BY <1>1
<1>12. \A i \in 1 .. Len(T) : T[i] \in J
  <2>1. SUFFICES ASSUME NEW i \in 1 .. n + m PROVE T[i] \in J
    BY <1>4
  <2>2. CASE i \in 1 .. n
    BY <1>2, <1>4, <1>10, <2>2
  <2>3. CASE i \notin 1 .. n
    <3>1. i - n \in 1 .. m /\ i = n + (i - n)
      BY <1>11, <2>3
    <3>2. T[i] = Shifted(n, other[i - n])
      BY <1>4, <3>1
    <3>3. QED
      BY <1>9, <1>10, <3>1, <3>2
  <2>4. QED
    BY <2>2, <2>3
<1>13. IsRows(T) /\ Span(T) \subseteq J
  <2> HIDE DEF J
  <2>1. QED
    BY <1>4, <1>10, <1>12, GroupHoldsSpan
<1>14. IsGroup(Span(T)) /\ \A i \in 1 .. n + m : T[i] \in Span(T)
  BY <1>4, <1>13, SpanIsGroup
<1>15. A \subseteq Span(T)
  <2>1. \A i \in 1 .. n : rows[i] \in Span(T)
    <3>1. \A i \in 1 .. n : i \in 1 .. n + m
      BY <1>1
    <3>2. QED
      BY <1>4, <1>14, <3>1
  <2> DEFINE G == Span(T)
  <2> HIDE DEF G
  <2>2. A \subseteq G
    BY <1>2, <1>14, <2>1, GroupHoldsSpan DEF n, A, G
  <2>3. QED
    BY <2>2 DEF G
<1>16. B \subseteq Span(T)
  <2> DEFINE G == Span(T)
             new == [i \in 1 .. m |-> F[other[i]]]
  <2>1. ASSUME NEW i \in 1 .. m PROVE F[other[i]] \in G /\ F[other[i]] \in Ops
    <3>1. n + i \in 1 .. n + m
      BY <1>1
    <3>2. T[n + i] = F[other[i]]
      BY <1>2, <1>4, <1>5
    <3>3. T[n + i] \in G /\ G \subseteq Ops
      BY <1>14, <3>1 DEF IsGroup
    <3>4. QED
      BY <3>2, <3>3
  <2> HIDE DEF G
  <2>2. new \in Seq(Ops) /\ Len(new) = m /\ \A i \in 1 .. m : new[i] = F[other[i]]
    BY <1>1, <2>1
  <2> HIDE DEF new
  <2>3. Span(new) = B
    BY <1>2, <1>5, <2>2, SpanIsCarried DEF m, B, C
  <2>4. Span(new) \subseteq G
    BY <1>14, <2>1, <2>2, GroupHoldsSpan DEF G
  <2>5. QED
    BY <2>3, <2>4 DEF G
<1>17. J \subseteq Span(T)
  BY <1>14, <1>15, <1>16 DEF Products, IsGroup
<1>18. Span(T) = J
  BY <1>13, <1>17
<1>19. QED
  BY <1>3, <1>6, <1>7, <1>8, <1>13, <1>18 DEF T, n, A, B, C, F

(* Registers side by side are in the joint state. *)
LEMMA TensorJoins ==
  ASSUME NEW rows, IsRows(rows), AreOn(rows, Len(rows)), NEW other, IsRows(other)
  PROVE  Span(TensorProduct(rows, other)) = Join(Span(rows), Len(rows), Span(other))
<1> DEFINE n == Len(rows)
           A == Span(rows)
           C == Span(other)
           F == ShiftMap(n)
<1>1. n \in Nat /\ IsGroup(C)
  BY RowsCommute, SpanIsGroup
<1>2. \A P \in C : F[P] = Shifted(n, P)
  BY <1>1, ShiftCarries DEF IsGroup
<1>3. Span(TensorProduct(rows, other)) = Products(A, Image(F, C))
  BY TensorSpan
<1> HIDE DEF A, C, F, n
<1>4. Products(A, Image(F, C)) = {Product(P, Shifted(n, R)) : P \in A, R \in C}
  BY <1>2 DEF Products, Image
<1>5. Join(A, n, C) = {Product(P, Shifted(n, R)) : P \in A, R \in C}
  BY DEF Join, Shifted
<1>6. QED
  BY <1>3, <1>4, <1>5 DEF A, C, F, n

LEMMA OnIsFront ==
  ASSUME NEW n \in Nat
  PROVE  OpsOn(n) = AtFront(n)
<1>1. OpsOn(n) \subseteq Ops
  BY OpsOnAreOps
<1>2. QED
  BY <1>1 DEF OpsOn, AtFront, Within, PauliOps, Ops

LEMMA SpanIsFinite ==
  ASSUME NEW rows, IsRows(rows), NEW n, AreOn(rows, n)
  PROVE  IsFiniteSet(Span(rows))
<1>1. n \in Nat
  BY DEF AreOn
<1>2. 0 \in 0 .. n - 1 \/ (n = 0 /\ 0 = 0)
  BY <1>1
<1>3. IsColumns(Columns(n, 0), n)
  BY <1>1, <1>2, ColumnsAre
<1>4. QED
  BY <1>3, IdleRows

LEMMA ShiftedIsOn ==
  ASSUME NEW n \in Nat, NEW m \in Nat
  PROVE  /\ \A R \in OpsOn(m) : Shifted(n, R) \in OpsOn(n + m)
         /\ \A R \in OpsOn(n) : R \in OpsOn(n + m)
<1>1. 0 .. n - 1 \subseteq 0 .. n + m - 1
  OBVIOUS
<1>2. ASSUME NEW R \in OpsOn(n) PROVE R \in OpsOn(n + m)
  BY <1>1 DEF OpsOn, PauliOps
<1>3. ASSUME NEW R \in OpsOn(m) PROVE Shifted(n, R) \in OpsOn(n + m)
  <2>1. R \in Ops /\ R.x \subseteq 0 .. m - 1 /\ R.z \subseteq 0 .. m - 1
    BY OpsOnAreOps DEF OpsOn, PauliOps
  <2>2. /\ Shifted(n, R) \in Ops
        /\ Shifted(n, R).x = Behind(R.x, n) /\ Shifted(n, R).z = Behind(R.z, n)
    BY <2>1, ShiftCarries DEF AtBack
  <2>3. Behind(R.x, n) \subseteq 0 .. n + m - 1 /\ Behind(R.z, n) \subseteq 0 .. n + m - 1
    BY <2>1 DEF Behind
  <2>4. n + m \in Nat /\ Shifted(n, R) \in AtFront(n + m)
    BY <2>2, <2>3 DEF AtFront, Within
  <2>5. QED
    BY <2>4, OnIsFront
<1>4. QED
  BY <1>2, <1>3

LEMMA TensorProper ==
  ASSUME NEW rows, IsProper(rows), NEW other, IsProper(other)
  PROVE  /\ IsProper(TensorProduct(rows, other))
         /\ Len(TensorProduct(rows, other)) = Len(rows) + Len(other)
<1> DEFINE T == TensorProduct(rows, other)
           n == Len(rows)
           m == Len(other)
           F == ShiftMap(n)
           A == Span(rows)
           C == Span(other)
           B == Image(F, C)
<1>1. /\ n \in Nat /\ m \in Nat /\ IsGroup(A) /\ IsGroup(C) /\ IsRows(rows) /\ IsRows(other)
      /\ AreOn(rows, n) /\ AreOn(other, m)
      /\ Cardinality(A) = 2 ^ n /\ NoMinus(A) /\ Cardinality(C) = 2 ^ m /\ NoMinus(C)
  BY RowsCommute, SpanIsGroup DEF IsProper
<1>2. IsFiniteSet(A) /\ IsFiniteSet(C) /\ C \subseteq Ops
  BY <1>1, SpanIsFinite DEF IsGroup
<1>3. /\ IsRows(T) /\ Span(T) = Products(A, B)
      /\ IsGroup(B) /\ B \subseteq AtBack(n) /\ A \subseteq AtFront(n)
  BY <1>1, TensorSpan
<1>4. /\ Len(T) = n + m
      /\ \A i \in 1 .. n : T[i] = rows[i]
      /\ \A j \in 1 .. m : T[n + j] = Shifted(n, other[j])
  <2>1. IsTensor(T, rows, other, n, m)
    BY <1>1, TensorIs
  <2> HIDE DEF T, n, m
  <2>2. QED
    BY <2>1 DEF IsTensor
<1>5. /\ \A i \in 1 .. n : rows[i] \in OpsOn(n)
      /\ \A i \in 1 .. m : other[i] \in OpsOn(m)
  BY <1>1 DEF AreOn
<1> HIDE DEF T, n, m, F, A, C, B
<1>6. Carries(F, Ops)
  BY <1>1, ShiftCarries DEF F
<1>7. IsFiniteSet(B) /\ Cardinality(B) = 2 ^ m /\ NoMinus(B)
  BY <1>1, <1>2, <1>6, ImageCounts DEF B
<1>8. Cardinality(Products(A, B)) = Cardinality(A) * Cardinality(B) /\ NoMinus(Products(A, B))
  BY <1>1, <1>2, <1>3, <1>7, SideBySide
<1>9. Cardinality(Span(T)) = 2 ^ (n + m) /\ NoMinus(Span(T))
  BY <1>1, <1>3, <1>7, <1>8, PowerAdds
<1>10. AreOn(T, n + m)
  <2>1. SUFFICES ASSUME NEW i \in 1 .. n + m PROVE T[i] \in OpsOn(n + m)
    BY <1>1, <1>4 DEF AreOn
  <2>2. CASE i \in 1 .. n
    BY <1>1, <1>4, <1>5, <2>2, ShiftedIsOn
  <2>3. CASE i \notin 1 .. n
    <3>1. i - n \in 1 .. m /\ i = n + (i - n)
      BY <1>1, <2>3
    <3>2. T[n + (i - n)] = Shifted(n, other[i - n])
      BY <1>4, <3>1
    <3>3. T[i] = Shifted(n, other[i - n])
      BY <3>1, <3>2
    <3>4. other[i - n] \in OpsOn(m)
      BY <1>5, <3>1
    <3>5. QED
      BY <1>1, <3>3, <3>4, ShiftedIsOn
  <2>4. QED
    BY <2>2, <2>3
<1>11. IsProper(T)
  BY <1>3, <1>4, <1>9, <1>10 DEF IsProper
<1>12. QED
  BY <1>4, <1>11 DEF T, n, m

(* What commutes with the generators is generated, up to its sign. *)
Completes(rows) ==
  \A P \in OpsOn(Len(rows)) :
    (\A i \in 1 .. Len(rows) : Commute(P, rows[i])) => P \in Span(rows) \/ Minus(P) \in Span(rows)

\* the parts of P on the first n qubits and on the others
PartOf(P, S) == [x |-> P.x \cap S, z |-> P.z \cap S, neg |-> FALSE]
Pulled(P, n) == [x |-> {i \in Nat : i + n \in P.x}, z |-> {i \in Nat : i + n \in P.z}, neg |-> FALSE]

LEMMA PartsOf ==
  ASSUME NEW n \in Nat, NEW m \in Nat, NEW P \in OpsOn(n + m)
  PROVE  /\ PartOf(P, 0 .. n - 1) \in OpsOn(n)
         /\ \A R \in OpsOn(n) : Commute(PartOf(P, 0 .. n - 1), R) <=> Commute(P, R)
         /\ Pulled(P, n) \in OpsOn(m)
         /\ \A R \in OpsOn(m) : Commute(Pulled(P, n), R) <=> Commute(P, Shifted(n, R))
         /\ PartOf(P, 0 .. n - 1).x = P.x \cap (0 .. n - 1)
         /\ PartOf(P, 0 .. n - 1).z = P.z \cap (0 .. n - 1)
         /\ Shifted(n, Pulled(P, n)).x = P.x \ (0 .. n - 1)
         /\ Shifted(n, Pulled(P, n)).z = P.z \ (0 .. n - 1)
<1> DEFINE U == 0 .. n - 1
           A == PartOf(P, U)
           B == Pulled(P, n)
<1>1. P \in Ops /\ P.x \subseteq 0 .. n + m - 1 /\ P.z \subseteq 0 .. n + m - 1 /\ n + m \in Nat
  BY OpsOnAreOps DEF OpsOn, PauliOps
<1>2. A.x = P.x \cap U /\ A.z = P.z \cap U /\ A \in OpsOn(n)
  BY DEF PartOf, OpsOn, PauliOps
<1>3. B.x = {i \in Nat : i + n \in P.x} /\ B.z = {i \in Nat : i + n \in P.z} /\ B.neg = FALSE
      /\ B = [x |-> B.x, z |-> B.z, neg |-> FALSE]
  BY DEF Pulled
<1>4. B.x \subseteq 0 .. m - 1 /\ B.z \subseteq 0 .. m - 1
  BY <1>1, <1>3
<1>5. B \in OpsOn(m)
  BY <1>3, <1>4 DEF OpsOn, PauliOps
<1> HIDE DEF A, B
<1>6. B \in Ops
  BY <1>5, OpsOnAreOps
<1>7. /\ Shifted(n, B).x = Behind(B.x, n) /\ Shifted(n, B).z = Behind(B.z, n)
      /\ Shifted(n, B) \in Ops
  BY <1>6, ShiftCarries DEF AtBack
<1>8. ASSUME NEW S, S \subseteq 0 .. n + m - 1
      PROVE  Behind({i \in Nat : i + n \in S}, n) = S \ U
  <2>1. ASSUME NEW j \in S \ U PROVE j \in Behind({i \in Nat : i + n \in S}, n)
    <3>1. j - n \in Nat /\ (j - n) + n = j
      BY <1>8, <2>1
    <3>2. QED
      BY <2>1, <3>1 DEF Behind
  <2>2. ASSUME NEW j \in Behind({i \in Nat : i + n \in S}, n) PROVE j \in S \ U
    BY <2>2 DEF Behind
  <2>3. QED
    BY <2>1, <2>2
<1>9. Shifted(n, B).x = P.x \ U /\ Shifted(n, B).z = P.z \ U
  BY <1>1, <1>3, <1>7, <1>8
<1>10. ASSUME NEW R \in OpsOn(n) PROVE Commute(A, R) <=> Commute(P, R)
  <2>1. R.x \subseteq U /\ R.z \subseteq U
    BY DEF OpsOn, PauliOps
  <2>2. A.x \cap R.z = P.x \cap R.z /\ A.z \cap R.x = P.z \cap R.x
    BY <1>2, <2>1
  <2>3. QED
    BY <2>2 DEF Commute
<1>11. ASSUME NEW R \in OpsOn(m) PROVE Commute(B, R) <=> Commute(P, Shifted(n, R))
  <2>1. R \in Ops
    BY OpsOnAreOps
  <2> DEFINE F == ShiftMap(n)
             S == Shifted(n, R)
             C == Shifted(n, B)
  <2>2. Carries(F, Ops) /\ F[R] = S /\ F[B] = C /\ S \in AtBack(n)
    BY <1>6, <2>1, ShiftCarries
  <2>3. C.x = P.x \ U /\ C.z = P.z \ U
    BY <1>9
  <2> HIDE DEF F, S, C
  <2>4. Commute(C, S) <=> Commute(B, R)
    BY <1>6, <2>1, <2>2 DEF Carries
  <2>5. S.x \cap U = {} /\ S.z \cap U = {}
    BY <2>2 DEF AtBack, NoQubits
  <2>6. C.x \cap S.z = P.x \cap S.z /\ C.z \cap S.x = P.z \cap S.x
    BY <2>3, <2>5
  <2>7. Commute(C, S) <=> Commute(P, S)
    BY <2>6 DEF Commute
  <2>8. QED
    BY <2>4, <2>7 DEF S
<1>12. QED
  BY <1>2, <1>5, <1>9, <1>10, <1>11 DEF A, B

LEMMA EitherSign ==
  ASSUME NEW rows, IsRows(rows), Completes(rows), NEW P \in OpsOn(Len(rows)),
         \A i \in 1 .. Len(rows) : Commute(P, rows[i])
  PROVE  \E R \in Span(rows) : R \in Ops /\ R.x = P.x /\ R.z = P.z /\ (R = P \/ R = Minus(P))
<1>1. P \in Ops
  BY RowsCommute, OpsOnAreOps
<1>2. P \in Span(rows) \/ Minus(P) \in Span(rows)
  BY DEF Completes
<1>3. Minus(P).x = P.x /\ Minus(P).z = P.z /\ Minus(P) \in Ops
  BY <1>1, MinusIs
<1>4. QED
  BY <1>1, <1>2, <1>3

LEMMA TensorCompletes ==
  ASSUME NEW rows, IsProper(rows), Completes(rows), NEW other, IsProper(other), Completes(other)
  PROVE  Completes(TensorProduct(rows, other))
<1> DEFINE T == TensorProduct(rows, other)
           n == Len(rows)
           m == Len(other)
           U == 0 .. n - 1
           F == ShiftMap(n)
           B == Image(F, Span(other))
<1>1. /\ n \in Nat /\ m \in Nat /\ IsRows(rows) /\ IsRows(other)
      /\ AreOn(rows, n) /\ AreOn(other, m)
      /\ \A i \in 1 .. n : rows[i] \in OpsOn(n)
      /\ \A i \in 1 .. m : other[i] \in OpsOn(m)
  BY RowsCommute DEF IsProper, AreOn
<1>2. /\ Len(T) = n + m
      /\ \A i \in 1 .. n : T[i] = rows[i]
      /\ \A j \in 1 .. m : T[n + j] = Shifted(n, other[j])
  <2>1. IsTensor(T, rows, other, n, m)
    BY <1>1, TensorIs
  <2> HIDE DEF T, n, m
  <2>2. QED
    BY <2>1 DEF IsTensor
<1>3. /\ Span(T) = Products(Span(rows), B) /\ IsRows(T)
      /\ B \subseteq AtBack(n) /\ Span(rows) \subseteq AtFront(n)
  BY <1>1, TensorSpan
<1>4. SUFFICES ASSUME NEW P \in OpsOn(n + m), \A i \in 1 .. n + m : Commute(P, T[i])
               PROVE  P \in Span(T) \/ Minus(P) \in Span(T)
  BY <1>2 DEF Completes
<1>5. P \in Ops
  BY <1>1, OpsOnAreOps
<1> DEFINE A0 == PartOf(P, U)
           B0 == Pulled(P, n)
<1>6. /\ A0 \in OpsOn(n) /\ B0 \in OpsOn(m)
      /\ \A R \in OpsOn(n) : Commute(A0, R) <=> Commute(P, R)
      /\ \A R \in OpsOn(m) : Commute(B0, R) <=> Commute(P, Shifted(n, R))
      /\ A0.x = P.x \cap U /\ A0.z = P.z \cap U
      /\ Shifted(n, B0).x = P.x \ U /\ Shifted(n, B0).z = P.z \ U
  BY <1>1, PartsOf
<1>7. \A i \in 1 .. n : Commute(A0, rows[i])
  <2>1. SUFFICES ASSUME NEW i \in 1 .. n PROVE Commute(A0, rows[i])
    OBVIOUS
  <2>2. i \in 1 .. n + m
    BY <1>1
  <2>3. Commute(P, rows[i])
    BY <1>2, <1>4, <2>2
  <2>4. QED
    BY <1>1, <1>6, <2>3
<1>8. \A i \in 1 .. m : Commute(B0, other[i])
  <2>1. SUFFICES ASSUME NEW i \in 1 .. m PROVE Commute(B0, other[i])
    OBVIOUS
  <2>2. n + i \in 1 .. n + m
    BY <1>1
  <2>3. Commute(P, Shifted(n, other[i]))
    BY <1>2, <1>4, <2>2
  <2>4. QED
    BY <1>1, <1>6, <2>3
<1> HIDE DEF A0, B0
<1>9. PICK a \in Span(rows) : a \in Ops /\ a.x = A0.x /\ a.z = A0.z
  BY <1>1, <1>6, <1>7, EitherSign
<1>10. PICK b \in Span(other) : b \in Ops /\ b.x = B0.x /\ b.z = B0.z
  BY <1>1, <1>6, <1>8, EitherSign
<1>11. B0 \in Ops
  BY <1>1, <1>6, OpsOnAreOps
<1> DEFINE c == Shifted(n, b)
<1>12. /\ F[b] = c
       /\ c.x = Shifted(n, B0).x /\ c.z = Shifted(n, B0).z
  BY <1>1, <1>10, <1>11, ShiftCarries
<1>13. c \in B /\ c.x = P.x \ U /\ c.z = P.z \ U
  BY <1>6, <1>10, <1>12 DEF Image
<1> DEFINE Q == Product(a, c)
<1> HIDE DEF c, B, F
<1>14. a \in AtFront(n) /\ c \in AtBack(n)
  BY <1>3, <1>13
<1>15. Q \in Span(T)
  BY <1>3, <1>13 DEF Products
<1>16. /\ Q.x \cap U = a.x /\ Q.z \cap U = a.z /\ Q.x \ U = c.x /\ Q.z \ U = c.z
  BY <1>1, <1>14, FrontAndBack
<1> HIDE DEF Q
<1>17. Q.x = P.x /\ Q.z = P.z
  <2> HIDE DEF U, T, n, m
  <2>1. Q.x \cap U = P.x \cap U /\ Q.x \ U = P.x \ U
    BY <1>6, <1>9, <1>13, <1>16
  <2>2. Q.z \cap U = P.z \cap U /\ Q.z \ U = P.z \ U
    BY <1>6, <1>9, <1>13, <1>16
  <2>3. QED
    BY <2>1, <2>2
<1>18. Q \in Ops
  BY <1>3, <1>15, SpanIsGroup DEF IsGroup
<1>19. Q = P \/ Q = Minus(P)
  BY <1>5, <1>17, <1>18, SameUpToSign
<1>20. QED
  BY <1>15, <1>19

(* A fresh qubit, and an empty register. *)
LEMMA FreshIsProper ==
  IsProper(<<ZAt(0)>>) /\ Completes(<<ZAt(0)>>) /\ Len(<<ZAt(0)>>) = 1
<1> DEFINE r == ZAt(0)
           rows == <<r>>
<1>1. /\ r = [x |-> {}, z |-> {0}, neg |-> FALSE] /\ r.x = {} /\ r.z = {0} /\ r.neg = FALSE
  BY DEF ZAt
<1>2. {0} \in FinSets /\ {} \in FinSets /\ r \in Ops /\ r \in OpsOn(1)
  <2>1. IsFiniteSet({0}) /\ IsFiniteSet({})
    BY FS_Singleton, FS_EmptySet
  <2>2. 0 .. 1 - 1 = {0}
    OBVIOUS
  <2>3. {0} \in FinSets /\ {} \in FinSets
    BY <2>1 DEF FinSets
  <2>4. r \in Ops
    BY <1>1, <2>3 DEF Ops
  <2>5. r \in [x : SUBSET {0}, z : SUBSET {0}, neg : BOOLEAN]
    BY <1>1
  <2>6. r \in OpsOn(1)
    BY <2>2, <2>5 DEF OpsOn, PauliOps
  <2>7. QED
    BY <2>3, <2>4, <2>6
<1> HIDE DEF r
<1>3. rows \in Seq(Ops) /\ Len(rows) = 1 /\ rows[1] = r /\ DOMAIN rows = 1 .. 1
  BY <1>2
<1> HIDE DEF rows
<1>4. IsRows(rows)
  <2>1. Commute(r, r)
    BY <1>2, CommutesWithItself
  <2>2. \A i \in 1 .. 1 : i = 1
    OBVIOUS
  <2>3. \A i, j \in DOMAIN rows : Commute(rows[i], rows[j])
    BY <1>3, <2>1, <2>2
  <2>4. QED
    BY <1>3, <2>3 DEF IsRows, IsSymplectic
<1>5. AreOn(rows, 1)
  <2>1. \A i \in 1 .. 1 : i = 1
    OBVIOUS
  <2>2. QED
    BY <1>2, <1>3, <2>1 DEF AreOn
<1>6. PICK f : AreSpans(f, rows) /\ Span(rows) = f[Len(rows)]
  <2>1. Len(rows) \in Nat
    BY <1>3
  <2>2. QED
    BY <2>1, SpanIsLast
<1>7. f[0] = {Identity} /\ f[1] = WithProducts(f[1 - 1], r)
  <2>1. 1 \in 1 .. Len(rows)
    BY <1>3
  <2>2. QED
    BY <1>3, <1>6, <2>1 DEF AreSpans
<1>8. Product(Identity, r) = r
  BY <1>2, ProductWithIdentity
<1>9. Span(rows) = {Identity, r}
  <2>1. Span(rows) = WithProducts({Identity}, r)
    <3>1. f[1] = WithProducts(f[0], r)
      <4>1. 1 - 1 = 0
        OBVIOUS
      <4>2. QED
        BY ONLY <1>7, <4>1
    <3>2. QED
      BY <1>3, <1>6, <1>7, <3>1
  <2>2. QED
    BY <1>8, <2>1 DEF WithProducts
<1>10. Identity # r /\ Minus(Identity) # r /\ Identity # Minus(Identity)
  <2>1. Identity.z = {} /\ Minus(Identity).z = {} /\ Identity # Minus(Identity)
    BY IdentityIsOp, MinusIs DEF NoQubits
  <2>2. QED
    BY <1>1, <2>1
<1>11. Cardinality(Span(rows)) = 2 ^ 1 /\ NoMinus(Span(rows))
  <2>1. Cardinality({Identity, r}) = 2
    <3>1. Cardinality({Identity}) = 1 /\ IsFiniteSet({Identity})
      BY FS_Singleton
    <3>2. {Identity, r} = {Identity} \cup {r} /\ r \notin {Identity}
      BY <1>10
    <3>3. QED
      BY <3>1, <3>2, FS_AddElement
  <2>2. 2 ^ (0 + 1) = 2 * (2 ^ 0) /\ 2 ^ 0 = 1
    BY PowersOfTwo
  <2>3. 2 ^ 1 = 2
    BY <2>2
  <2>4. QED
    BY <1>9, <1>10, <2>1, <2>3 DEF NoMinus
<1>12. Completes(rows)
  <2>1. SUFFICES ASSUME NEW P \in OpsOn(1), Commute(P, r)
                 PROVE  P \in Span(rows) \/ Minus(P) \in Span(rows)
    <3>1. 1 \in 1 .. 1
      OBVIOUS
    <3>2. QED
      BY <1>3, <3>1 DEF Completes
  <2>2. P \in Ops /\ P.x \subseteq 0 .. 1 - 1 /\ P.z \subseteq 0 .. 1 - 1 /\ 0 .. 1 - 1 = {0}
    BY OpsOnAreOps DEF OpsOn, PauliOps
  <2>3. 0 \notin P.x
    <3>1. SUFFICES ASSUME 0 \in P.x PROVE FALSE
      OBVIOUS
    <3>2. P.x \cap r.z = {0} /\ P.z \cap r.x = {}
      BY <1>1, <3>1
    <3>3. Cardinality(P.x \cap r.z) + Cardinality(P.z \cap r.x) = 1
      BY <3>2, FS_Singleton, FS_EmptySet
    <3>4. QED
      BY <2>1, <3>3 DEF Commute
  <2>4. P.x = {}
    BY <2>2, <2>3
  <2>5. P.z = {} \/ P.z = {0}
    BY <2>2
  <2>6. CASE P.z = {}
    <3>1. P.x = Identity.x /\ P.z = Identity.z
      BY <2>4, <2>6, IdentityIsOp DEF NoQubits
    <3>2. P = Identity \/ P = Minus(Identity)
      BY <2>2, <3>1, IdentityIsOp, SameUpToSign
    <3>3. Minus(Minus(Identity)) = Identity
      BY IdentityIsOp, MinusIs
    <3>4. QED
      BY <1>9, <3>2, <3>3
  <2>7. CASE P.z = {0}
    <3>1. P.x = r.x /\ P.z = r.z
      BY <1>1, <2>4, <2>7
    <3>2. P = r \/ P = Minus(r)
      BY <1>2, <2>2, <3>1, SameUpToSign
    <3>3. Minus(Minus(r)) = r
      BY <1>2, MinusIs
    <3>4. QED
      BY <1>9, <3>2, <3>3
  <2>8. QED
    BY <2>5, <2>6, <2>7
<1>13. IsProper(rows)
  BY <1>3, <1>4, <1>5, <1>11 DEF IsProper
<1>14. QED
  BY <1>3, <1>12, <1>13 DEF rows, r

LEMMA EmptyIsProper ==
  IsProper(<< >>) /\ Completes(<< >>) /\ Len(<< >>) = 0
<1> DEFINE rows == << >>
<1>1. rows \in Seq(Ops) /\ Len(rows) = 0 /\ DOMAIN rows = 1 .. 0
  OBVIOUS
<1> HIDE DEF rows
<1>2. IsRows(rows) /\ AreOn(rows, 0)
  BY <1>1 DEF IsRows, IsSymplectic, AreOn
<1>3. PICK f : AreSpans(f, rows) /\ Span(rows) = f[Len(rows)]
  <2>1. Len(rows) \in Nat
    BY <1>1
  <2>2. QED
    BY <2>1, SpanIsLast
<1>4. Span(rows) = {Identity}
  BY <1>1, <1>3 DEF AreSpans
<1>5. Cardinality(Span(rows)) = 2 ^ 0 /\ NoMinus(Span(rows))
  BY <1>4, FS_Singleton, PowersOfTwo, IdentityIsOp DEF NoMinus
<1>6. Completes(rows)
  <2>1. SUFFICES ASSUME NEW P \in OpsOn(0) PROVE P \in Span(rows) \/ Minus(P) \in Span(rows)
    BY <1>1 DEF Completes
  <2>2. P \in Ops /\ P.x \subseteq 0 .. 0 - 1 /\ P.z \subseteq 0 .. 0 - 1 /\ 0 .. 0 - 1 = {}
    BY OpsOnAreOps DEF OpsOn, PauliOps
  <2>3. P.x = Identity.x /\ P.z = Identity.z
    BY <2>2, IdentityIsOp DEF NoQubits
  <2>4. P = Identity \/ P = Minus(Identity)
    BY <2>2, <2>3, IdentityIsOp, SameUpToSign
  <2>5. Minus(Minus(Identity)) = Identity
    BY IdentityIsOp, MinusIs
  <2>6. QED
    BY <1>4, <2>4, <2>5
<1>7. QED
  BY <1>1, <1>2, <1>5, <1>6 DEF IsProper, rows

Sign(x) == IF x % 4 = 0 THEN 0 ELSE 1
\* what one qubit adds to the phase of a product
Cocycle(a, b, c, d) == And(a, b) + And(c, d) + 2 * And(b, c) - And(Xor(a, c), Xor(b, d))

AreInts(m1, m2, w, M, u, v, n, o, s, t) ==
  /\ m1 \in Int /\ m2 \in Int /\ w \in Int /\ M \in Int /\ u \in Int
  /\ v \in Int /\ n \in Int /\ o \in Int /\ s \in Int /\ t \in Int

LEMMA SignReduces ==
  ASSUME NEW m1, NEW m2, NEW w, NEW M, NEW u, NEW v, NEW n, NEW o, NEW s, NEW t,
         AreInts(m1, m2, w, M, u, v, n, o, s, t)
  PROVE  SignOf(PhaseSum((m1 + u + 2 * s) % 4, (m2 + v + 2 * t) % 4, w, n), M + o) =
           Sign((m1 + m2 + 2 * w - M) + (u + v + 2 * n - o) + 2 * s + 2 * t)
<1> DEFINE x == (m1 + u + 2 * s) % 4
           y == (m2 + v + 2 * t) % 4
           A == (x + y + 2 * (w + n)) % 4 = (M + o) % 4
           B == ((m1 + m2 + 2 * w - M) + (u + v + 2 * n - o) + 2 * s + 2 * t) % 4 = 0
<1>1. A <=> B
  BY DEF AreInts
<1>2. QED
  BY <1>1 DEF SignOf, PhaseSum, Sign

SignAt(K, D, s, t) == Sign(K + D + 2 * s + 2 * t)
\* phases where the gate changes D to E and flips by f, g and h
Follows(K, D, E, s, t, f, g, h) ==
  /\ K \in Int /\ D \in Int /\ E \in Int /\ (K + D) % 2 = 0
  /\ s \in Bits /\ t \in Bits /\ f \in Bits /\ g \in Bits /\ h \in Bits
  /\ (E - D - 2 * (f + g + h)) % 4 = 0

LEMMA SignsFollow ==
  ASSUME NEW K, NEW D, NEW E, NEW s, NEW t, NEW f, NEW g, NEW h, Follows(K, D, E, s, t, f, g, h)
  PROVE  SignAt(K, E, Xor(s, f), Xor(t, g)) = Xor(SignAt(K, D, s, t), h)
<1> USE DEF Follows, SignAt
<1>1. PICK i \in Int : E = D + 2 * (f + g + h) + 4 * i
  <2>1. E - D - 2 * (f + g + h) = 4 * ((E - D - 2 * (f + g + h)) \div 4)
    BY DEF Bits
  <2>2. (E - D - 2 * (f + g + h)) \div 4 \in Int
    BY DEF Bits
  <2>3. QED
    BY <2>1, <2>2 DEF Bits
<1>2. PICK j \in Int : K + D = 2 * j
  OBVIOUS
<1>3. Sign(K + D + 2 * s + 2 * t) = IF (j + s + t) % 2 = 0 THEN 0 ELSE 1
  BY <1>2 DEF Sign, Bits
<1>4. Sign(K + E + 2 * Xor(s, f) + 2 * Xor(t, g)) =
        IF (j + f + g + h + Xor(s, f) + Xor(t, g)) % 2 = 0 THEN 0 ELSE 1
  <2> DEFINE p == Xor(s, f)
             q == Xor(t, g)
  <2>1. p \in Bits /\ q \in Bits
    BY BitsAreClosed
  <2> HIDE DEF p, q
  <2>2. K + E + 2 * p + 2 * q = 2 * (j + f + g + h + p + q) + 4 * i
    BY <1>1, <1>2, <2>1 DEF Bits
  <2> DEFINE y == j + f + g + h + p + q
  <2>3. y \in Int
    BY <2>1 DEF Bits
  <2> HIDE DEF y
  <2>4. (2 * y + 4 * i) % 4 = 0 <=> y % 2 = 0
    BY <2>3
  <2>5. QED
    BY <2>2, <2>4 DEF Sign, p, q, y
<1>5. (j + f + g + h + Xor(s, f) + Xor(t, g)) % 2 = (j + s + t + h) % 2
  BY DEF Xor, Bits
<1>6. (IF (j + s + t + h) % 2 = 0 THEN 0 ELSE 1) = Xor(IF (j + s + t) % 2 = 0 THEN 0 ELSE 1, h)
  BY DEF Xor, Bits
<1>7. QED
  BY <1>3, <1>4, <1>5, <1>6

LEMMA OneGateCocycle ==
  ASSUME NEW name \in OneQubitGates, NEW a \in Bits, NEW b \in Bits, NEW c \in Bits, NEW d \in Bits
  PROVE  LET a2 == NewX(name, a, b)
             b2 == NewZ(name, a, b)
             c2 == NewX(name, c, d)
             d2 == NewZ(name, c, d)
             f == Flips(name, a, b)
             g == Flips(name, c, d)
             h == Flips(name, Xor(a, c), Xor(b, d))
         IN  /\ Xor(a2, c2) = NewX(name, Xor(a, c), Xor(b, d))
             /\ Xor(b2, d2) = NewZ(name, Xor(a, c), Xor(b, d))
             /\ (Cocycle(a2, b2, c2, d2) - Cocycle(a, b, c, d) - 2 * (f + g + h)) % 4 = 0
             /\ (And(a2, d2) + And(b2, c2)) % 2 = (And(a, d) + And(b, c)) % 2
             /\ a2 \in Bits /\ b2 \in Bits /\ f \in Bits
<1>1. CASE name = "X"
  BY <1>1 DEF Bits, Xor, And, NewX, NewZ, Flips, Cocycle
<1>2. CASE name = "Y"
  BY <1>2 DEF Bits, Xor, And, NewX, NewZ, Flips, Cocycle
<1>3. CASE name = "Z"
  BY <1>3 DEF Bits, Xor, And, NewX, NewZ, Flips, Cocycle
<1>4. CASE name = "H"
  BY <1>4 DEF Bits, Xor, And, NewX, NewZ, Flips, Cocycle
<1>5. CASE name = "K"
  BY <1>5 DEF Bits, Xor, And, NewX, NewZ, Flips, Cocycle
<1>6. CASE name = "S"
  BY <1>6 DEF Bits, Xor, And, NewX, NewZ, Flips, Cocycle
<1>7. CASE name = "sqrt_minIX"
  BY <1>7 DEF Bits, Xor, And, NewX, NewZ, Flips, Cocycle
<1>8. CASE name = "sqrt_IZ"
  BY <1>8 DEF Bits, Xor, And, NewX, NewZ, Flips, Cocycle
<1>9. QED
  BY <1>1, <1>2, <1>3, <1>4, <1>5, <1>6, <1>7, <1>8 DEF OneQubitGates

Twice(name, a, b) ==
  IF name \in {"S", "sqrt_IZ"} THEN a ELSE IF name = "sqrt_minIX" THEN b ELSE 0

LEMMA OneGateTwice ==
  ASSUME NEW name \in OneQubitGates, NEW a \in Bits, NEW b \in Bits, NEW s \in Bits
  PROVE  LET a2 == NewX(name, a, b)
             b2 == NewZ(name, a, b)
         IN  /\ NewX(name, a2, b2) = a /\ NewZ(name, a2, b2) = b
             /\ Xor(Xor(s, Flips(name, a, b)), Flips(name, a2, b2)) = Xor(s, Twice(name, a, b))
             /\ Xor(Xor(s, Twice(name, a, b)), Twice(name, a, b)) = s
             /\ a2 \in Bits /\ b2 \in Bits /\ Flips(name, a, b) \in Bits /\ Twice(name, a, b) \in Bits
<1>1. CASE name = "X"
  BY <1>1 DEF Bits, Xor, And, NewX, NewZ, Flips, Twice
<1>2. CASE name = "Y"
  BY <1>2 DEF Bits, Xor, And, NewX, NewZ, Flips, Twice
<1>3. CASE name = "Z"
  BY <1>3 DEF Bits, Xor, And, NewX, NewZ, Flips, Twice
<1>4. CASE name = "H"
  BY <1>4 DEF Bits, Xor, And, NewX, NewZ, Flips, Twice
<1>5. CASE name = "K"
  BY <1>5 DEF Bits, Xor, And, NewX, NewZ, Flips, Twice
<1>6. CASE name = "S"
  BY <1>6 DEF Bits, Xor, And, NewX, NewZ, Flips, Twice
<1>7. CASE name = "sqrt_minIX"
  BY <1>7 DEF Bits, Xor, And, NewX, NewZ, Flips, Twice
<1>8. CASE name = "sqrt_IZ"
  BY <1>8 DEF Bits, Xor, And, NewX, NewZ, Flips, Twice
<1>9. QED
  BY <1>1, <1>2, <1>3, <1>4, <1>5, <1>6, <1>7, <1>8 DEF OneQubitGates

CocycleBoth(a, b, d, e, a2, b2, d2, e2) == Cocycle(a, b, a2, b2) + Cocycle(d, e, d2, e2)
AreBits(a, b, d, e) == a \in Bits /\ b \in Bits /\ d \in Bits /\ e \in Bits

LEMMA CNOTCocycle ==
  ASSUME NEW a, NEW b, NEW d, NEW e, AreBits(a, b, d, e),
         NEW a2, NEW b2, NEW d2, NEW e2, AreBits(a2, b2, d2, e2)
  PROVE  /\ (CocycleBoth(a, Xor(b, e), Xor(d, a), e, a2, Xor(b2, e2), Xor(d2, a2), e2)
               - CocycleBoth(a, b, d, e, a2, b2, d2, e2)
               - 2 * (CNOTFlips(a, b, d, e) + CNOTFlips(a2, b2, d2, e2)
                        + CNOTFlips(Xor(a, a2), Xor(b, b2), Xor(d, d2), Xor(e, e2)))) % 4 = 0
         /\ (And(a, Xor(b2, e2)) + And(Xor(b, e), a2) + And(Xor(d, a), e2) + And(e, Xor(d2, a2))) % 2
              = (And(a, b2) + And(b, a2) + And(d, e2) + And(e, d2)) % 2
<1>1. CASE a = 0
  BY <1>1 DEF AreBits, Bits, Xor, And, CNOTFlips, CocycleBoth, Cocycle
<1>2. CASE a = 1
  BY <1>2 DEF AreBits, Bits, Xor, And, CNOTFlips, CocycleBoth, Cocycle
<1>3. QED
  BY <1>1, <1>2 DEF AreBits, Bits

LEMMA CZCocycle ==
  ASSUME NEW a, NEW b, NEW d, NEW e, AreBits(a, b, d, e),
         NEW a2, NEW b2, NEW d2, NEW e2, AreBits(a2, b2, d2, e2)
  PROVE  /\ (CocycleBoth(a, Xor(b, d), d, Xor(e, a), a2, Xor(b2, d2), d2, Xor(e2, a2))
               - CocycleBoth(a, b, d, e, a2, b2, d2, e2)
               - 2 * (CZFlips(a, b, d, e) + CZFlips(a2, b2, d2, e2)
                        + CZFlips(Xor(a, a2), Xor(b, b2), Xor(d, d2), Xor(e, e2)))) % 4 = 0
         /\ (And(a, Xor(b2, d2)) + And(Xor(b, d), a2) + And(d, Xor(e2, a2)) + And(Xor(e, a), d2)) % 2
              = (And(a, b2) + And(b, a2) + And(d, e2) + And(e, d2)) % 2
<1>1. CASE a = 0
  BY <1>1 DEF AreBits, Bits, Xor, And, CZFlips, CocycleBoth, Cocycle
<1>2. CASE a = 1
  BY <1>2 DEF AreBits, Bits, Xor, And, CZFlips, CocycleBoth, Cocycle
<1>3. QED
  BY <1>1, <1>2 DEF AreBits, Bits

LEMMA TwoGateTwice ==
  ASSUME NEW a, NEW b, NEW d, NEW e, AreBits(a, b, d, e), NEW s \in Bits
  PROVE  /\ Xor(Xor(b, e), e) = b /\ Xor(Xor(d, a), a) = d
         /\ Xor(Xor(s, CNOTFlips(a, b, d, e)), CNOTFlips(a, Xor(b, e), Xor(d, a), e)) = s
         /\ Xor(Xor(b, d), d) = b /\ Xor(Xor(e, a), a) = e
         /\ Xor(Xor(s, CZFlips(a, b, d, e)), CZFlips(a, Xor(b, d), d, Xor(e, a))) = s
         /\ CNOTFlips(a, b, d, e) \in Bits /\ CZFlips(a, b, d, e) \in Bits
  BY DEF AreBits, Bits, Xor, And, CNOTFlips, CZFlips

\* P is a and b (and the sign s) on q, and X and Z elsewhere
IsOpAt(P, q, X, Z, a, b, s) ==
  /\ q \in Nat /\ Apart(q, X) /\ Apart(q, Z) /\ a \in Bits /\ b \in Bits /\ s \in Bits
  /\ P = OpAt(q, X, Z, a, b, s)

LEMMA OpsAreAt ==
  ASSUME NEW q \in Nat, NEW P \in Ops
  PROVE  IsOpAt(P, q, P.x \ {q}, P.z \ {q}, BitOf(q \in P.x), BitOf(q \in P.z), BitOf(P.neg))
BY OpIsAt DEF IsOpAt

\* what the other qubits add to the phase of a product
Rest(X, Z, U, V) == Meet(X, Z) + Meet(U, V) + 2 * Meet(Z, U) - Meet(SymDiff(X, U), SymDiff(Z, V))

LEMMA ParityFollows ==
  ASSUME NEW m1, NEW m2, NEW w, NEW M, NEW u, NEW v, NEW n, NEW o, NEW s, NEW t, NEW j,
         AreInts(m1, m2, w, M, u, v, n, o, s, t),
         j = PhaseSum((m1 + u + 2 * s) % 4, (m2 + v + 2 * t) % 4, w, n), (j + (M + o)) % 2 = 0
  PROVE  ((m1 + m2 + 2 * w - M) + (u + v + 2 * n - o)) % 2 = 0
<1> DEFINE x == (m1 + u + 2 * s) % 4
           y == (m2 + v + 2 * t) % 4
           z == x + y + 2 * (w + n)
<1> USE DEF AreInts
<1>1. x \in Int /\ y \in Int /\ j \in Int /\ z \in Int
  BY DEF PhaseSum
<1>2. x % 2 = (m1 + u) % 2 /\ y % 2 = (m2 + v) % 2
  OBVIOUS
<1>2a. z % 2 = (x + y) % 2
  BY <1>1
<1>3. j = z % 4
  BY DEF PhaseSum
<1> HIDE DEF x, y, z
<1>3a. (z % 4) % 2 = z % 2
  BY <1>1
<1>4. j % 2 = (x + y) % 2
  BY <1>2a, <1>3, <1>3a
<1>5. (x + y) % 2 = (m1 + u + m2 + v) % 2
  BY <1>1, <1>2
<1>6. (m1 + u + m2 + v + M + o) % 2 = 0
  BY <1>1, <1>4, <1>5
<1>7. QED
  BY <1>6

LEMMA ProductAt ==
  ASSUME NEW P, NEW q, NEW X, NEW Z, NEW a, NEW b, NEW s, IsOpAt(P, q, X, Z, a, b, s),
         NEW R, NEW U, NEW V, NEW c, NEW d, NEW t, IsOpAt(R, q, U, V, c, d, t)
  PROVE  /\ Product(P, R) = OpAt(q, SymDiff(X, U), SymDiff(Z, V), Xor(a, c), Xor(b, d),
                                 Sign(Rest(X, Z, U, V) + Cocycle(a, b, c, d) + 2 * s + 2 * t))
         /\ Rest(X, Z, U, V) \in Int
         /\ Apart(q, SymDiff(X, U)) /\ Apart(q, SymDiff(Z, V))
         /\ Commute(P, R) => (Rest(X, Z, U, V) + Cocycle(a, b, c, d)) % 2 = 0
<1>1. /\ q \in Nat /\ Apart(q, X) /\ Apart(q, Z) /\ a \in Bits /\ b \in Bits /\ s \in Bits
      /\ Apart(q, U) /\ Apart(q, V) /\ c \in Bits /\ d \in Bits /\ t \in Bits
      /\ P = OpAt(q, X, Z, a, b, s) /\ R = OpAt(q, U, V, c, d, t)
  BY DEF IsOpAt
<1> DEFINE m1 == Meet(X, Z)
           m2 == Meet(U, V)
           w == Meet(Z, U)
           A == SymDiff(X, U)
           B == SymDiff(Z, V)
           M == Meet(A, B)
           e == Xor(a, c)
           f == Xor(b, d)
           k == (m1 + And(a, b) + 2 * s) % 4
           l == (m2 + And(c, d) + 2 * t) % 4
           n == And(b, c)
           j == PhaseSum(k, l, w, n)
<1>2. Apart(q, A) /\ Apart(q, B)
  BY <1>1, SymDiffApart
<1>3. X \in FinSets /\ Z \in FinSets /\ U \in FinSets /\ V \in FinSets /\ A \in FinSets /\ B \in FinSets
  BY <1>1, <1>2 DEF Apart
<1>4. m1 \in Nat /\ m2 \in Nat /\ w \in Nat /\ M \in Nat
  BY <1>3, MeetIsNat
<1>5. /\ e \in Bits /\ f \in Bits /\ n \in Bits /\ And(a, b) \in Bits /\ And(c, d) \in Bits /\ And(e, f) \in Bits
  BY <1>1, BitsAreClosed
<1>6. Term(P) = TermAt(q, X, Z, a, b, k)
  BY <1>1, TermOfAt
<1>7. Term(R) = TermAt(q, U, V, c, d, l)
  BY <1>1, TermOfAt
<1>8. k \in Int /\ l \in Int
  BY <1>1, <1>4, <1>5 DEF Bits
<1>9. IsLocal(q, X, Z, a, b, k) /\ IsLocal(q, U, V, c, d, l)
  BY <1>1, <1>8 DEF IsLocal
<1> HIDE DEF k, l
<1>10. Times(Term(P), Term(R)) = TermAt(q, A, B, e, f, j)
  BY <1>6, <1>7, <1>9, TimesAt
<1>11. OfTerm(TermAt(q, A, B, e, f, j)) = OpAt(q, A, B, e, f, SignOf(j, M + And(e, f)))
  BY <1>2, <1>5, OfTermAt
<1>12. SignOf(j, M + And(e, f)) = Sign(Rest(X, Z, U, V) + Cocycle(a, b, c, d) + 2 * s + 2 * t)
  <2> DEFINE u == And(a, b)
             v == And(c, d)
             o == And(e, f)
  <2>1. u \in Int /\ v \in Int /\ n \in Int /\ o \in Int /\ s \in Int /\ t \in Int
    BY <1>1, <1>5 DEF Bits
  <2>2. Rest(X, Z, U, V) = m1 + m2 + 2 * w - M /\ Cocycle(a, b, c, d) = u + v + 2 * n - o
    BY DEF Rest, Cocycle
  <2>3. j = PhaseSum((m1 + u + 2 * s) % 4, (m2 + v + 2 * t) % 4, w, n)
    BY DEF k, l
  <2> HIDE DEF u, v, n, o, m1, m2, w, M, j
  <2>4. SignOf(PhaseSum((m1 + u + 2 * s) % 4, (m2 + v + 2 * t) % 4, w, n), M + o) =
           Sign((m1 + m2 + 2 * w - M) + (u + v + 2 * n - o) + 2 * s + 2 * t)
    <3>1. m1 \in Int /\ m2 \in Int /\ w \in Int /\ M \in Int
      BY <1>4
    <3>2. AreInts(m1, m2, w, M, u, v, n, o, s, t)
      BY <2>1, <3>1 DEF AreInts
    <3>3. QED
      BY ONLY <3>2, SignReduces
  <2>5. QED
    BY <2>2, <2>3, <2>4 DEF o
<1>13. Product(P, R) = OpAt(q, A, B, e, f, SignOf(j, M + And(e, f)))
  BY <1>10, <1>11 DEF Product
<1>14. ASSUME Commute(P, R) PROVE (Rest(X, Z, U, V) + Cocycle(a, b, c, d)) % 2 = 0
  <2>1. P \in Ops /\ R \in Ops
    BY <1>1, OpAtIsOp
  <2>2. Real(Times(Term(P), Term(R)))
    BY <1>14, <2>1, TermIsReal, TermsCommuteToo, TimesIsReal
  <2> DEFINE T == TermAt(q, A, B, e, f, j)
  <2>3. T.k = j /\ T.x = With(A, q, e) /\ T.z = With(B, q, f)
    BY DEF TermAt
  <2> HIDE DEF T
  <2>4. (T.k + Meet(T.x, T.z)) % 2 = 0
    BY <1>10, <2>2 DEF Real, T
  <2>5. Meet(With(A, q, e), With(B, q, f)) = M + And(e, f)
    BY <1>2, <1>5, MeetWith
  <2>6. (j + (M + And(e, f))) % 2 = 0
    BY <2>3, <2>4, <2>5
  <2> DEFINE u == And(a, b)
             v == And(c, d)
             o == And(e, f)
  <2>7. u \in Int /\ v \in Int /\ n \in Int /\ o \in Int /\ s \in Int /\ t \in Int
    BY <1>1, <1>5 DEF Bits
  <2>8. Rest(X, Z, U, V) = m1 + m2 + 2 * w - M /\ Cocycle(a, b, c, d) = u + v + 2 * n - o
    BY DEF Rest, Cocycle
  <2>9. j = PhaseSum((m1 + u + 2 * s) % 4, (m2 + v + 2 * t) % 4, w, n)
    BY DEF k, l
  <2>9a. (j + (M + o)) % 2 = 0
    BY <2>6
  <2> HIDE DEF u, v, n, o, m1, m2, w, M, j
  <2>10. ((m1 + m2 + 2 * w - M) + (u + v + 2 * n - o)) % 2 = 0
    <3>1. m1 \in Int /\ m2 \in Int /\ w \in Int /\ M \in Int
      BY <1>4
    <3>2. AreInts(m1, m2, w, M, u, v, n, o, s, t)
      BY <2>7, <3>1 DEF AreInts
    <3>3. QED
      BY ONLY <3>2, <2>9, <2>9a, ParityFollows
  <2>11. QED
    BY <2>8, <2>10
<1>15. Rest(X, Z, U, V) \in Int
  BY <1>4 DEF Rest
<1>16. QED
  BY <1>2, <1>12, <1>13, <1>14, <1>15

LEMMA OneGateTakes ==
  ASSUME NEW g, NEW q, IsOneGate(g, q),
         NEW P, NEW X, NEW Z, NEW a, NEW b, NEW s, IsOpAt(P, q, X, Z, a, b, s)
  PROVE  IsOpAt(Apply(g, P), q, X, Z, NewX(g.name, a, b), NewZ(g.name, a, b), Xor(s, Flips(g.name, a, b)))
<1>1. /\ q \in Nat /\ Apart(q, X) /\ Apart(q, Z) /\ a \in Bits /\ b \in Bits /\ s \in Bits
      /\ P = OpAt(q, X, Z, a, b, s)
  BY DEF IsOpAt
<1>2. g.name \in OneQubitGates
  BY DEF IsOneGate
<1>3. Apply(g, P) = OpAt(q, X, Z, NewX(g.name, a, b), NewZ(g.name, a, b), Xor(s, Flips(g.name, a, b)))
  BY <1>1, OneGateAt
<1>4. NewX(g.name, a, b) \in Bits /\ NewZ(g.name, a, b) \in Bits /\ Flips(g.name, a, b) \in Bits
  BY <1>1, <1>2, OneGateCocycle
<1>5. Xor(s, Flips(g.name, a, b)) \in Bits
  BY <1>1, <1>4, BitsAreClosed
<1>6. QED
  BY <1>1, <1>3, <1>4, <1>5 DEF IsOpAt

LEMMA OneGateFour ==
  ASSUME NEW g, NEW q \in Nat, IsOneGate(g, q), NEW P \in Ops
  PROVE  Apply(g, Apply(g, Apply(g, Apply(g, P)))) = P
<1> DEFINE name == g.name
           X == P.x \ {q}
           Z == P.z \ {q}
           a == BitOf(q \in P.x)
           b == BitOf(q \in P.z)
           s == BitOf(P.neg)
<1>1. IsOpAt(P, q, X, Z, a, b, s) /\ name \in OneQubitGates
  BY OpsAreAt DEF IsOneGate
<1> HIDE DEF name, X, Z, a, b, s
<1>2. ASSUME NEW R, NEW t, IsOpAt(R, q, X, Z, a, b, t)
      PROVE  IsOpAt(Apply(g, Apply(g, R)), q, X, Z, a, b, Xor(t, Twice(name, a, b)))
  <2> DEFINE a2 == NewX(name, a, b)
             b2 == NewZ(name, a, b)
             t2 == Xor(t, Flips(name, a, b))
             S == Apply(g, R)
  <2>1. IsOpAt(S, q, X, Z, a2, b2, t2)
    BY <1>2, OneGateTakes DEF name
  <2>2. NewX(name, a2, b2) = a /\ NewZ(name, a2, b2) = b
        /\ Xor(t2, Flips(name, a2, b2)) = Xor(t, Twice(name, a, b))
    <3>1. a \in Bits /\ b \in Bits /\ t \in Bits
      BY <1>2 DEF IsOpAt
    <3>2. QED
      BY <1>1, <3>1, OneGateTwice
  <2> HIDE DEF a2, b2, t2, S
  <2>3. IsOpAt(Apply(g, S), q, X, Z, NewX(name, a2, b2), NewZ(name, a2, b2), Xor(t2, Flips(name, a2, b2)))
    BY <2>1, OneGateTakes DEF name
  <2>4. QED
    BY <2>2, <2>3 DEF S
<1>3. IsOpAt(Apply(g, Apply(g, P)), q, X, Z, a, b, Xor(s, Twice(name, a, b)))
  BY <1>1, <1>2
<1>4. IsOpAt(Apply(g, Apply(g, Apply(g, Apply(g, P)))), q, X, Z, a, b,
             Xor(Xor(s, Twice(name, a, b)), Twice(name, a, b)))
  BY <1>2, <1>3
<1>5. Xor(Xor(s, Twice(name, a, b)), Twice(name, a, b)) = s
  <2>1. a \in Bits /\ b \in Bits /\ s \in Bits
    BY <1>1 DEF IsOpAt
  <2>2. QED
    BY <1>1, <2>1, OneGateTwice
<1>6. QED
  BY <1>1, <1>4, <1>5 DEF IsOpAt

(* A gate keeps what commutes and what is a product. *)
LEMMA OneGateMultiplies ==
  ASSUME NEW g, NEW q \in Nat, IsOneGate(g, q), NEW P \in Ops, NEW R \in Ops
  PROVE  /\ Commute(Apply(g, P), Apply(g, R)) <=> Commute(P, R)
         /\ Commute(P, R) => Apply(g, Product(P, R)) = Product(Apply(g, P), Apply(g, R))
         /\ Apply(g, P) \in Ops
<1> DEFINE name == g.name
           X == P.x \ {q}
           Z == P.z \ {q}
           a == BitOf(q \in P.x)
           b == BitOf(q \in P.z)
           s == BitOf(P.neg)
           U == R.x \ {q}
           V == R.z \ {q}
           c == BitOf(q \in R.x)
           d == BitOf(q \in R.z)
           t == BitOf(R.neg)
<1>1. IsOpAt(P, q, X, Z, a, b, s) /\ name \in OneQubitGates
  BY OpsAreAt DEF IsOneGate
<1>2. IsOpAt(R, q, U, V, c, d, t)
  BY OpsAreAt
<1> HIDE DEF name, X, Z, a, b, s, U, V, c, d, t
<1>3. /\ Apart(q, X) /\ Apart(q, Z) /\ a \in Bits /\ b \in Bits /\ s \in Bits
      /\ Apart(q, U) /\ Apart(q, V) /\ c \in Bits /\ d \in Bits /\ t \in Bits
      /\ P = OpAt(q, X, Z, a, b, s) /\ R = OpAt(q, U, V, c, d, t)
  BY <1>1, <1>2 DEF IsOpAt
<1> DEFINE a2 == NewX(name, a, b)
           b2 == NewZ(name, a, b)
           c2 == NewX(name, c, d)
           d2 == NewZ(name, c, d)
           f == Flips(name, a, b)
           k == Flips(name, c, d)
           e == Xor(a, c)
           o == Xor(b, d)
           h == Flips(name, e, o)
           s2 == Xor(s, f)
           t2 == Xor(t, k)
           K == Rest(X, Z, U, V)
<1>4. /\ IsOpAt(Apply(g, P), q, X, Z, a2, b2, s2)
      /\ IsOpAt(Apply(g, R), q, U, V, c2, d2, t2)
  BY <1>1, <1>2, OneGateTakes DEF name
<1>5. /\ Xor(a2, c2) = NewX(name, e, o) /\ Xor(b2, d2) = NewZ(name, e, o)
      /\ (Cocycle(a2, b2, c2, d2) - Cocycle(a, b, c, d) - 2 * (f + k + h)) % 4 = 0
      /\ (And(a2, d2) + And(b2, c2)) % 2 = (And(a, d) + And(b, c)) % 2
      /\ a2 \in Bits /\ b2 \in Bits /\ f \in Bits
  BY <1>1, <1>3, OneGateCocycle
<1>6. c2 \in Bits /\ d2 \in Bits /\ k \in Bits
  BY <1>1, <1>3, OneGateCocycle
<1>7. e \in Bits /\ o \in Bits /\ s2 \in Bits /\ t2 \in Bits
  BY <1>3, <1>5, <1>6, BitsAreClosed
<1>8. h \in Bits
  BY <1>1, <1>7, OneGateCocycle
<1> HIDE DEF a2, b2, c2, d2, f, k, e, o, h, s2, t2, K
<1>9. Commute(Apply(g, P), Apply(g, R)) <=> Commute(P, R)
  <2> DEFINE m == Meet(X, V)
             n == Meet(Z, U)
  <2>1. m \in Nat /\ n \in Nat
    BY <1>3, MeetIsNat DEF Apart
  <2>2. Commute(P, R) <=> (Meet(X, V) + Meet(Z, U) + And(a, d) + And(b, c)) % 2 = 0
    BY <1>3, CommuteAt
  <2>3. Apply(g, P) = OpAt(q, X, Z, a2, b2, s2) /\ Apply(g, R) = OpAt(q, U, V, c2, d2, t2)
    BY <1>4 DEF IsOpAt
  <2>4. Commute(Apply(g, P), Apply(g, R)) <=> (Meet(X, V) + Meet(Z, U) + And(a2, d2) + And(b2, c2)) % 2 = 0
    <3>1. Commute(OpAt(q, X, Z, a2, b2, s2), OpAt(q, U, V, c2, d2, t2)) <=>
            (Meet(X, V) + Meet(Z, U) + And(a2, d2) + And(b2, c2)) % 2 = 0
      <4>1. Apart(q, X) /\ Apart(q, Z) /\ Apart(q, U) /\ Apart(q, V)
        BY <1>3
      <4>2. a2 \in Bits /\ b2 \in Bits /\ c2 \in Bits /\ d2 \in Bits
        BY <1>5, <1>6
      <4>3. QED
        BY ONLY <4>1, <4>2, CommuteAt
    <3>2. QED
      BY <2>3, <3>1
  <2>5. And(a, d) \in Int /\ And(b, c) \in Int /\ And(a2, d2) \in Int /\ And(b2, c2) \in Int
    BY DEF And
  <2> HIDE DEF m, n
  <2>6. (m + n + And(a2, d2) + And(b2, c2)) % 2 = 0 <=> (m + n + And(a, d) + And(b, c)) % 2 = 0
    BY <1>5, <2>1, <2>5
  <2>7. QED
    BY <2>2, <2>4, <2>6 DEF m, n
<1>10. Apply(g, P) \in Ops
  BY <1>4, OpAtIsOp DEF IsOpAt
<1>11. ASSUME Commute(P, R) PROVE Apply(g, Product(P, R)) = Product(Apply(g, P), Apply(g, R))
  <2> DEFINE A == SymDiff(X, U)
             B == SymDiff(Z, V)
             D == Cocycle(a, b, c, d)
             E == Cocycle(a2, b2, c2, d2)
             u == Sign(K + D + 2 * s + 2 * t)
  <2>1. /\ Product(P, R) = OpAt(q, A, B, e, o, u)
        /\ K \in Int /\ Apart(q, A) /\ Apart(q, B)
        /\ (K + D) % 2 = 0
    BY <1>1, <1>2, <1>11, ProductAt DEF K, e, o
  <2>2. Product(Apply(g, P), Apply(g, R)) = OpAt(q, A, B, Xor(a2, c2), Xor(b2, d2), Sign(K + E + 2 * s2 + 2 * t2))
    BY <1>4, ProductAt DEF K
  <2>3. D \in Int /\ E \in Int /\ u \in Bits
    BY <1>3, <1>5, <1>6 DEF Cocycle, And, Sign, Bits
  <2> HIDE DEF A, B, D, E
  <2>4. (E - D - 2 * (f + k + h)) % 4 = 0
    BY <1>5 DEF D, E
  <2>5. Sign(K + E + 2 * s2 + 2 * t2) = Xor(u, h)
    <3>1. SignAt(K, E, Xor(s, f), Xor(t, k)) = Xor(SignAt(K, D, s, t), h)
      <4>1. K \in Int /\ D \in Int /\ E \in Int /\ (K + D) % 2 = 0
        BY <2>1, <2>3
      <4>2. s \in Bits /\ t \in Bits /\ f \in Bits /\ k \in Bits /\ h \in Bits
        BY <1>3, <1>5, <1>6, <1>8
      <4>3. Follows(K, D, E, s, t, f, k, h)
        BY <4>1, <4>2, <2>4 DEF Follows
      <4>4. QED
        BY ONLY <4>3, SignsFollow
    <3>2. QED
      BY <3>1 DEF s2, t2, SignAt
  <2> HIDE DEF u
  <2>6. IsOpAt(Product(P, R), q, A, B, e, o, u)
    BY <1>7, <2>1, <2>3 DEF IsOpAt
  <2>7. IsOpAt(Apply(g, Product(P, R)), q, A, B, NewX(name, e, o), NewZ(name, e, o), Xor(u, h))
    BY <2>6, OneGateTakes DEF name, h
  <2>8. Apply(g, Product(P, R)) = OpAt(q, A, B, NewX(name, e, o), NewZ(name, e, o), Xor(u, h))
    BY <2>7 DEF IsOpAt
  <2>9. QED
    BY <1>5, <2>2, <2>5, <2>8
<1>12. QED
  BY <1>9, <1>10, <1>11

\* P is a and b on c, d and e on t (and the sign s), and X and Z elsewhere
IsOpAtBoth(P, c, t, X, Z, a, b, d, e, s) ==
  /\ IsPair(c, t) /\ ApartBoth(c, t, X) /\ ApartBoth(c, t, Z) /\ AreBits(a, b, d, e) /\ s \in Bits
  /\ P = OpAtBoth(c, t, X, Z, a, b, d, e, s)

LEMMA OpsAreAtBoth ==
  ASSUME NEW c, NEW t, IsPair(c, t), NEW P \in Ops
  PROVE  IsOpAtBoth(P, c, t, P.x \ {c, t}, P.z \ {c, t}, BitOf(c \in P.x), BitOf(c \in P.z),
                    BitOf(t \in P.x), BitOf(t \in P.z), BitOf(P.neg))
BY OpIsAtBoth, BitOfIsBit DEF IsOpAtBoth, AreBits

LEMMA AtBothIsOp ==
  ASSUME NEW P, NEW c, NEW t, NEW X, NEW Z, NEW a, NEW b, NEW d, NEW e, NEW s,
         IsOpAtBoth(P, c, t, X, Z, a, b, d, e, s)
  PROVE  /\ P \in Ops
         /\ IsPair(c, t) /\ ApartBoth(c, t, X) /\ ApartBoth(c, t, Z) /\ AreBits(a, b, d, e) /\ s \in Bits
         /\ P = OpAtBoth(c, t, X, Z, a, b, d, e, s)
BY BothFieldsAt DEF IsOpAtBoth

\* The phase of a product, and what commutes, with two qubits taken out.
LEMMA ProductAtBoth ==
  ASSUME NEW P, NEW c, NEW t, NEW X, NEW Z, NEW a, NEW b, NEW d, NEW e, NEW s,
         IsOpAtBoth(P, c, t, X, Z, a, b, d, e, s),
         NEW R, NEW U, NEW V, NEW a2, NEW b2, NEW d2, NEW e2, NEW s2,
         IsOpAtBoth(R, c, t, U, V, a2, b2, d2, e2, s2)
  PROVE  /\ Product(P, R) = OpAtBoth(c, t, SymDiff(X, U), SymDiff(Z, V), Xor(a, a2), Xor(b, b2),
                                     Xor(d, d2), Xor(e, e2),
                                     SignAt(Rest(X, Z, U, V), CocycleBoth(a, b, d, e, a2, b2, d2, e2), s, s2))
         /\ Rest(X, Z, U, V) \in Int
         /\ ApartBoth(c, t, SymDiff(X, U)) /\ ApartBoth(c, t, SymDiff(Z, V))
         /\ Commute(P, R) => (Rest(X, Z, U, V) + CocycleBoth(a, b, d, e, a2, b2, d2, e2)) % 2 = 0
<1>1. /\ IsPair(c, t) /\ ApartBoth(c, t, X) /\ ApartBoth(c, t, Z) /\ AreBits(a, b, d, e) /\ s \in Bits
      /\ ApartBoth(c, t, U) /\ ApartBoth(c, t, V) /\ AreBits(a2, b2, d2, e2) /\ s2 \in Bits
      /\ P = OpAtBoth(c, t, X, Z, a, b, d, e, s) /\ R = OpAtBoth(c, t, U, V, a2, b2, d2, e2, s2)
      /\ P \in Ops /\ R \in Ops
  BY AtBothIsOp
<1>2. /\ a \in Bits /\ b \in Bits /\ d \in Bits /\ e \in Bits
      /\ a2 \in Bits /\ b2 \in Bits /\ d2 \in Bits /\ e2 \in Bits
  BY <1>1 DEF AreBits
<1> DEFINE m1 == Meet(X, Z)
           m2 == Meet(U, V)
           w == Meet(Z, U)
           A == SymDiff(X, U)
           B == SymDiff(Z, V)
           M == Meet(A, B)
           a3 == Xor(a, a2)
           b3 == Xor(b, b2)
           d3 == Xor(d, d2)
           e3 == Xor(e, e2)
           u == And(a, b) + And(d, e)
           v == And(a2, b2) + And(d2, e2)
           n == And(b, a2) + And(e, d2)
           o == And(a3, b3) + And(d3, e3)
           k == (m1 + u + 2 * s) % 4
           l == (m2 + v + 2 * s2) % 4
           j == PhaseSum(k, l, w, n)
<1>3. ApartBoth(c, t, A) /\ ApartBoth(c, t, B)
  BY <1>1, SymDiffApart DEF ApartBoth
<1>4. X \in FinSets /\ Z \in FinSets /\ U \in FinSets /\ V \in FinSets /\ A \in FinSets /\ B \in FinSets
  BY <1>1, <1>3 DEF ApartBoth, Apart
<1>5. m1 \in Nat /\ m2 \in Nat /\ w \in Nat /\ M \in Nat
  BY <1>4, MeetIsNat
<1>6. /\ a3 \in Bits /\ b3 \in Bits /\ d3 \in Bits /\ e3 \in Bits
      /\ And(a, b) \in Int /\ And(d, e) \in Int /\ And(a2, b2) \in Int /\ And(d2, e2) \in Int
      /\ And(b, a2) \in Int /\ And(e, d2) \in Int /\ And(a3, b3) \in Int /\ And(d3, e3) \in Int
  BY <1>2, BitsAreClosed DEF And
<1>7. u \in Int /\ v \in Int /\ n \in Int /\ o \in Int /\ s \in Int /\ s2 \in Int
  BY <1>1, <1>6, SMTT(30) DEF Bits
<1>8. k \in Int /\ l \in Int
  BY <1>5, <1>7, SMTT(30)
<1> HIDE DEF m1, m2, w, M, A, B, a3, b3, d3, e3, k, l
<1>9. Term(P) = TermAtBoth(c, t, X, Z, a, b, d, e, k)
  <2>1. Term(P) = TermAtBoth(c, t, X, Z, a, b, d, e, (m1 + And(a, b) + And(d, e) + 2 * s) % 4)
    <3>1. Term(OpAtBoth(c, t, X, Z, a, b, d, e, s)) =
            TermAtBoth(c, t, X, Z, a, b, d, e, (Meet(X, Z) + And(a, b) + And(d, e) + 2 * s) % 4)
      BY ONLY <1>1, <1>2, TermOfAtBoth
    <3>2. QED
      BY ONLY <1>1, <3>1 DEF m1
  <2>2. m1 + And(a, b) + And(d, e) + 2 * s = m1 + u + 2 * s
    BY <1>5, <1>6, <1>7, SMTT(30)
  <2>3. QED
    BY <2>1, <2>2 DEF k
<1>10. Term(R) = TermAtBoth(c, t, U, V, a2, b2, d2, e2, l)
  <2>1. Term(R) = TermAtBoth(c, t, U, V, a2, b2, d2, e2, (m2 + And(a2, b2) + And(d2, e2) + 2 * s2) % 4)
    <3>1. Term(OpAtBoth(c, t, U, V, a2, b2, d2, e2, s2)) =
            TermAtBoth(c, t, U, V, a2, b2, d2, e2, (Meet(U, V) + And(a2, b2) + And(d2, e2) + 2 * s2) % 4)
      BY ONLY <1>1, <1>2, TermOfAtBoth
    <3>2. QED
      BY ONLY <1>1, <3>1 DEF m2
  <2>2. m2 + And(a2, b2) + And(d2, e2) + 2 * s2 = m2 + v + 2 * s2
    BY <1>5, <1>6, <1>7, SMTT(30)
  <2>3. QED
    BY <2>1, <2>2 DEF l
<1>11. /\ IsLocalBoth(c, t, X, Z, a, b, d, e, k)
       /\ IsLocalBoth(c, t, U, V, a2, b2, d2, e2, l)
  BY <1>1, <1>2, <1>8 DEF IsLocalBoth
<1>12. Times(Term(P), Term(R)) = TermAtBoth(c, t, A, B, a3, b3, d3, e3, j)
  <2>1. Times(Term(P), Term(R)) =
          TermAtBoth(c, t, A, B, a3, b3, d3, e3, PhaseSumBoth(k, l, w, And(b, a2), And(e, d2)))
    BY <1>9, <1>10, <1>11, TimesAtBoth DEF A, B, a3, b3, d3, e3, w
  <2>2. PhaseSumBoth(k, l, w, And(b, a2), And(e, d2)) = j
    <3>1. w + And(b, a2) + And(e, d2) = w + n
      BY <1>5, <1>6
    <3>2. QED
      BY <3>1 DEF PhaseSumBoth, PhaseSum
  <2>3. QED
    BY <2>1, <2>2
<1>13. OfTerm(TermAtBoth(c, t, A, B, a3, b3, d3, e3, j)) = OpAtBoth(c, t, A, B, a3, b3, d3, e3, SignOf(j, M + o))
  <2>1. OfTerm(TermAtBoth(c, t, A, B, a3, b3, d3, e3, j)) =
          OpAtBoth(c, t, A, B, a3, b3, d3, e3, SignOf(j, M + And(a3, b3) + And(d3, e3)))
    BY <1>1, <1>3, <1>6, OfTermAtBoth DEF M
  <2>2. M + And(a3, b3) + And(d3, e3) = M + o
    BY <1>5, <1>6
  <2>3. QED
    BY <2>1, <2>2
<1>14. /\ Rest(X, Z, U, V) = m1 + m2 + 2 * w - M
       /\ CocycleBoth(a, b, d, e, a2, b2, d2, e2) = u + v + 2 * n - o
  <2>1. CocycleBoth(a, b, d, e, a2, b2, d2, e2) = u + v + 2 * n - o
    BY <1>6 DEF CocycleBoth, Cocycle, a3, b3, d3, e3
  <2>2. QED
    BY <2>1 DEF Rest, m1, m2, w, M, A, B
<1> HIDE DEF u, v, n, o
<1>15. AreInts(m1, m2, w, M, u, v, n, o, s, s2)
  BY <1>5, <1>7 DEF AreInts
<1>16. SignOf(j, M + o) = SignAt(Rest(X, Z, U, V), CocycleBoth(a, b, d, e, a2, b2, d2, e2), s, s2)
  <2>1. SignOf(PhaseSum((m1 + u + 2 * s) % 4, (m2 + v + 2 * s2) % 4, w, n), M + o) =
           Sign((m1 + m2 + 2 * w - M) + (u + v + 2 * n - o) + 2 * s + 2 * s2)
    BY ONLY <1>15, SignReduces
  <2>2. QED
    BY <1>14, <2>1 DEF SignAt, k, l
<1>17. ASSUME Commute(P, R)
       PROVE  (Rest(X, Z, U, V) + CocycleBoth(a, b, d, e, a2, b2, d2, e2)) % 2 = 0
  <2>1. Real(Times(Term(P), Term(R)))
    BY <1>1, <1>17, TermIsReal, TermsCommuteToo, TimesIsReal
  <2> DEFINE T == TermAtBoth(c, t, A, B, a3, b3, d3, e3, j)
  <2>2. T.k = j /\ T.x = With(With(A, c, a3), t, d3) /\ T.z = With(With(B, c, b3), t, e3)
    BY DEF TermAtBoth, TermAt
  <2> HIDE DEF T
  <2>3. (T.k + Meet(T.x, T.z)) % 2 = 0
    BY <1>12, <2>1 DEF Real, T
  <2>4. Meet(With(With(A, c, a3), t, d3), With(With(B, c, b3), t, e3)) = M + o
    <3>1. Meet(With(A, c, a3), With(B, c, b3)) = M + And(a3, b3)
      BY <1>1, <1>3, <1>6, MeetWithBoth DEF M
    <3>2. Apart(t, With(A, c, a3)) /\ Apart(t, With(B, c, b3))
      BY <1>1, <1>3, WithApart
    <3>3. Meet(With(With(A, c, a3), t, d3), With(With(B, c, b3), t, e3)) =
            Meet(With(A, c, a3), With(B, c, b3)) + And(d3, e3)
      BY <1>6, <3>2, MeetWith
    <3>4. M + And(a3, b3) + And(d3, e3) = M + o
      BY <1>5, <1>6 DEF o
    <3>5. QED
      BY <3>1, <3>3, <3>4
  <2>5. (j + (M + o)) % 2 = 0
    BY <2>2, <2>3, <2>4
  <2>6. j = PhaseSum((m1 + u + 2 * s) % 4, (m2 + v + 2 * s2) % 4, w, n)
    BY DEF k, l
  <2> HIDE DEF j
  <2>7. ((m1 + m2 + 2 * w - M) + (u + v + 2 * n - o)) % 2 = 0
    BY ONLY <1>15, <2>5, <2>6, ParityFollows
  <2>8. QED
    BY <1>14, <2>7
<1>18. Rest(X, Z, U, V) \in Int
  BY <1>5, <1>14
<1>19. QED
  BY <1>3, <1>12, <1>13, <1>16, <1>17, <1>18 DEF Product, A, B, a3, b3, d3, e3

LEMMA CommuteAtBoth ==
  ASSUME NEW P, NEW c, NEW t, NEW X, NEW Z, NEW a, NEW b, NEW d, NEW e, NEW s,
         IsOpAtBoth(P, c, t, X, Z, a, b, d, e, s),
         NEW R, NEW U, NEW V, NEW a2, NEW b2, NEW d2, NEW e2, NEW s2,
         IsOpAtBoth(R, c, t, U, V, a2, b2, d2, e2, s2)
  PROVE  /\ Commute(P, R) <=>
              (Meet(X, V) + Meet(Z, U) + (And(a, b2) + And(b, a2) + And(d, e2) + And(e, d2))) % 2 = 0
         /\ Meet(X, V) \in Nat /\ Meet(Z, U) \in Nat
<1>1. /\ IsPair(c, t) /\ ApartBoth(c, t, X) /\ ApartBoth(c, t, Z) /\ AreBits(a, b, d, e)
      /\ ApartBoth(c, t, U) /\ ApartBoth(c, t, V) /\ AreBits(a2, b2, d2, e2)
      /\ P = OpAtBoth(c, t, X, Z, a, b, d, e, s) /\ R = OpAtBoth(c, t, U, V, a2, b2, d2, e2, s2)
  BY DEF IsOpAtBoth
<1>2. /\ a \in Bits /\ b \in Bits /\ d \in Bits /\ e \in Bits
      /\ a2 \in Bits /\ b2 \in Bits /\ d2 \in Bits /\ e2 \in Bits
  BY <1>1 DEF AreBits
<1>3. /\ Apart(t, With(X, c, a)) /\ Apart(t, With(Z, c, b))
      /\ Apart(t, With(U, c, a2)) /\ Apart(t, With(V, c, b2))
  BY <1>1, WithApart
<1>4. Commute(P, R) <=> (Meet(With(X, c, a), With(V, c, b2)) + Meet(With(Z, c, b), With(U, c, a2))
                           + And(d, e2) + And(e, d2)) % 2 = 0
  BY <1>1, <1>2, <1>3, CommuteAt DEF OpAtBoth
<1>5. /\ Meet(With(X, c, a), With(V, c, b2)) = Meet(X, V) + And(a, b2) /\ Meet(X, V) \in Nat
      /\ Meet(With(Z, c, b), With(U, c, a2)) = Meet(Z, U) + And(b, a2) /\ Meet(Z, U) \in Nat
  BY <1>1, <1>2, MeetWithBoth
<1>6. And(a, b2) \in Int /\ And(b, a2) \in Int /\ And(d, e2) \in Int /\ And(e, d2) \in Int
  BY DEF And
<1>7. (Meet(X, V) + And(a, b2)) + (Meet(Z, U) + And(b, a2)) + And(d, e2) + And(e, d2) =
        Meet(X, V) + Meet(Z, U) + (And(a, b2) + And(b, a2) + And(d, e2) + And(e, d2))
  BY <1>5, <1>6
<1>8. QED
  BY <1>4, <1>5, <1>7

\* the bits and the sign that CNOT and CZ make of a and b on the control, d and e on the target
TwoB(name, b, d, e) == IF name = "CNOT" THEN Xor(b, e) ELSE Xor(b, d)
TwoD(name, a, d) == IF name = "CNOT" THEN Xor(d, a) ELSE d
TwoE(name, a, e) == IF name = "CNOT" THEN e ELSE Xor(e, a)
TwoFlips(name, a, b, d, e) == IF name = "CNOT" THEN CNOTFlips(a, b, d, e) ELSE CZFlips(a, b, d, e)

LEMMA TwoGateBits ==
  ASSUME NEW name \in TwoQubitGates, NEW a, NEW b, NEW d, NEW e, AreBits(a, b, d, e)
  PROVE  /\ AreBits(a, TwoB(name, b, d, e), TwoD(name, a, d), TwoE(name, a, e))
         /\ TwoFlips(name, a, b, d, e) \in Bits
<1>1. a \in Bits /\ b \in Bits /\ d \in Bits /\ e \in Bits
  BY DEF AreBits
<1>2. Xor(b, e) \in Bits /\ Xor(b, d) \in Bits /\ Xor(d, a) \in Bits /\ Xor(e, a) \in Bits
  BY <1>1, BitsAreClosed
<1>3. 0 \in Bits
  BY DEF Bits
<1>4. CNOTFlips(a, b, d, e) \in Bits /\ CZFlips(a, b, d, e) \in Bits
  BY <1>3, TwoGateTwice
<1>5. QED
  BY <1>1, <1>2, <1>4 DEF AreBits, TwoB, TwoD, TwoE, TwoFlips

LEMMA TwoGateLinear ==
  ASSUME NEW name \in TwoQubitGates, NEW a, NEW b, NEW d, NEW e, AreBits(a, b, d, e),
         NEW a2, NEW b2, NEW d2, NEW e2, AreBits(a2, b2, d2, e2)
  PROVE  /\ AreBits(Xor(a, a2), Xor(b, b2), Xor(d, d2), Xor(e, e2))
         /\ Xor(TwoB(name, b, d, e), TwoB(name, b2, d2, e2)) = TwoB(name, Xor(b, b2), Xor(d, d2), Xor(e, e2))
         /\ Xor(TwoD(name, a, d), TwoD(name, a2, d2)) = TwoD(name, Xor(a, a2), Xor(d, d2))
         /\ Xor(TwoE(name, a, e), TwoE(name, a2, e2)) = TwoE(name, Xor(a, a2), Xor(e, e2))
<1>1. /\ a \in Bits /\ b \in Bits /\ d \in Bits /\ e \in Bits
      /\ a2 \in Bits /\ b2 \in Bits /\ d2 \in Bits /\ e2 \in Bits
  BY DEF AreBits
<1>2. \A f, g, h, i \in Bits : Xor(Xor(f, g), Xor(h, i)) = Xor(Xor(f, h), Xor(g, i))
  BY DEF Xor, Bits
<1>3. /\ Xor(a, a2) \in Bits /\ Xor(b, b2) \in Bits /\ Xor(d, d2) \in Bits /\ Xor(e, e2) \in Bits
  BY <1>1, BitsAreClosed
<1>4. /\ Xor(Xor(b, e), Xor(b2, e2)) = Xor(Xor(b, b2), Xor(e, e2))
      /\ Xor(Xor(b, d), Xor(b2, d2)) = Xor(Xor(b, b2), Xor(d, d2))
      /\ Xor(Xor(d, a), Xor(d2, a2)) = Xor(Xor(d, d2), Xor(a, a2))
      /\ Xor(Xor(e, a), Xor(e2, a2)) = Xor(Xor(e, e2), Xor(a, a2))
  BY <1>1, <1>2
<1>5. QED
  BY <1>3, <1>4 DEF AreBits, TwoB, TwoD, TwoE

LEMMA TwoGateCocycle ==
  ASSUME NEW name \in TwoQubitGates, NEW a, NEW b, NEW d, NEW e, AreBits(a, b, d, e),
         NEW a2, NEW b2, NEW d2, NEW e2, AreBits(a2, b2, d2, e2)
  PROVE  /\ (CocycleBoth(a, TwoB(name, b, d, e), TwoD(name, a, d), TwoE(name, a, e),
                         a2, TwoB(name, b2, d2, e2), TwoD(name, a2, d2), TwoE(name, a2, e2))
               - CocycleBoth(a, b, d, e, a2, b2, d2, e2)
               - 2 * (TwoFlips(name, a, b, d, e) + TwoFlips(name, a2, b2, d2, e2)
                        + TwoFlips(name, Xor(a, a2), Xor(b, b2), Xor(d, d2), Xor(e, e2)))) % 4 = 0
         /\ (And(a, TwoB(name, b2, d2, e2)) + And(TwoB(name, b, d, e), a2)
               + And(TwoD(name, a, d), TwoE(name, a2, e2)) + And(TwoE(name, a, e), TwoD(name, a2, d2))) % 2
              = (And(a, b2) + And(b, a2) + And(d, e2) + And(e, d2)) % 2
<1>1. CASE name = "CNOT"
  <2>1. /\ TwoB(name, b, d, e) = Xor(b, e) /\ TwoB(name, b2, d2, e2) = Xor(b2, e2)
        /\ TwoD(name, a, d) = Xor(d, a) /\ TwoD(name, a2, d2) = Xor(d2, a2)
        /\ TwoE(name, a, e) = e /\ TwoE(name, a2, e2) = e2
        /\ TwoFlips(name, a, b, d, e) = CNOTFlips(a, b, d, e)
        /\ TwoFlips(name, a2, b2, d2, e2) = CNOTFlips(a2, b2, d2, e2)
        /\ TwoFlips(name, Xor(a, a2), Xor(b, b2), Xor(d, d2), Xor(e, e2)) =
             CNOTFlips(Xor(a, a2), Xor(b, b2), Xor(d, d2), Xor(e, e2))
    BY <1>1 DEF TwoB, TwoD, TwoE, TwoFlips
  <2>2. QED
    BY <2>1, CNOTCocycle
<1>2. CASE name = "CZ"
  <2>1. /\ TwoB(name, b, d, e) = Xor(b, d) /\ TwoB(name, b2, d2, e2) = Xor(b2, d2)
        /\ TwoD(name, a, d) = d /\ TwoD(name, a2, d2) = d2
        /\ TwoE(name, a, e) = Xor(e, a) /\ TwoE(name, a2, e2) = Xor(e2, a2)
        /\ TwoFlips(name, a, b, d, e) = CZFlips(a, b, d, e)
        /\ TwoFlips(name, a2, b2, d2, e2) = CZFlips(a2, b2, d2, e2)
        /\ TwoFlips(name, Xor(a, a2), Xor(b, b2), Xor(d, d2), Xor(e, e2)) =
             CZFlips(Xor(a, a2), Xor(b, b2), Xor(d, d2), Xor(e, e2))
    BY <1>2 DEF TwoB, TwoD, TwoE, TwoFlips
  <2>2. QED
    BY <2>1, CZCocycle
<1>3. QED
  BY <1>1, <1>2 DEF TwoQubitGates

LEMMA TwoGateTakes ==
  ASSUME NEW g, NEW c, NEW t, IsTwoGate(g, c, t),
         NEW P, NEW X, NEW Z, NEW a, NEW b, NEW d, NEW e, NEW s,
         IsOpAtBoth(P, c, t, X, Z, a, b, d, e, s)
  PROVE  IsOpAtBoth(Apply(g, P), c, t, X, Z, a, TwoB(g.name, b, d, e), TwoD(g.name, a, d),
                    TwoE(g.name, a, e), Xor(s, TwoFlips(g.name, a, b, d, e)))
<1>1. /\ IsPair(c, t) /\ ApartBoth(c, t, X) /\ ApartBoth(c, t, Z) /\ AreBits(a, b, d, e) /\ s \in Bits
      /\ P = OpAtBoth(c, t, X, Z, a, b, d, e, s)
  BY DEF IsOpAtBoth
<1>2. a \in Bits /\ b \in Bits /\ d \in Bits /\ e \in Bits
  BY <1>1 DEF AreBits
<1>3. g.name \in TwoQubitGates
  BY DEF IsTwoGate
<1>4. /\ AreBits(a, TwoB(g.name, b, d, e), TwoD(g.name, a, d), TwoE(g.name, a, e))
      /\ TwoFlips(g.name, a, b, d, e) \in Bits
  BY <1>1, <1>3, TwoGateBits
<1>5. Xor(s, TwoFlips(g.name, a, b, d, e)) \in Bits
  BY <1>1, <1>4, BitsAreClosed
<1>6. Apply(g, P) = OpAtBoth(c, t, X, Z, a, TwoB(g.name, b, d, e), TwoD(g.name, a, d), TwoE(g.name, a, e),
                             Xor(s, TwoFlips(g.name, a, b, d, e)))
  <2>1. CASE g.name = "CNOT"
    <3>1. Apply(g, P) = ApplyCNOT(P, c, t)
      BY <2>1, TwoGateAt
    <3>2. ApplyCNOT(OpAtBoth(c, t, X, Z, a, b, d, e, s), c, t)
            = OpAtBoth(c, t, X, Z, a, Xor(b, e), Xor(d, a), e, Xor(s, CNOTFlips(a, b, d, e)))
      BY <1>1, <1>2, CNOTAt
    <3>3. QED
      BY <1>1, <2>1, <3>1, <3>2 DEF TwoB, TwoD, TwoE, TwoFlips
  <2>2. CASE g.name = "CZ"
    <3>1. Apply(g, P) = ApplyCZ(P, c, t)
      BY <2>2, TwoGateAt
    <3>2. ApplyCZ(OpAtBoth(c, t, X, Z, a, b, d, e, s), c, t)
            = OpAtBoth(c, t, X, Z, a, Xor(b, d), d, Xor(e, a), Xor(s, CZFlips(a, b, d, e)))
      BY <1>1, <1>2, CZAt
    <3>3. QED
      BY <1>1, <2>2, <3>1, <3>2 DEF TwoB, TwoD, TwoE, TwoFlips
  <2>3. QED
    BY <1>3, <2>1, <2>2 DEF TwoQubitGates
<1>7. QED
  BY <1>1, <1>4, <1>5, <1>6 DEF IsOpAtBoth

LEMMA TwoGateUndone ==
  ASSUME NEW name \in TwoQubitGates, NEW a, NEW b, NEW d, NEW e, AreBits(a, b, d, e), NEW s \in Bits
  PROVE  LET b2 == TwoB(name, b, d, e)
             d2 == TwoD(name, a, d)
             e2 == TwoE(name, a, e)
         IN  /\ TwoB(name, b2, d2, e2) = b /\ TwoD(name, a, d2) = d /\ TwoE(name, a, e2) = e
             /\ Xor(Xor(s, TwoFlips(name, a, b, d, e)), TwoFlips(name, a, b2, d2, e2)) = s
<1>1. CASE name = "CNOT"
  BY <1>1, TwoGateTwice DEF TwoB, TwoD, TwoE, TwoFlips
<1>2. CASE name = "CZ"
  BY <1>2, TwoGateTwice DEF TwoB, TwoD, TwoE, TwoFlips
<1>3. QED
  BY <1>1, <1>2 DEF TwoQubitGates

LEMMA TwoGateFour ==
  ASSUME NEW g, NEW c, NEW t, IsTwoGate(g, c, t), NEW P \in Ops
  PROVE  Apply(g, Apply(g, Apply(g, Apply(g, P)))) = P
<1>1. ASSUME NEW R \in Ops PROVE Apply(g, Apply(g, R)) = R
  <2> DEFINE name == g.name
             X == R.x \ {c, t}
             Z == R.z \ {c, t}
             a == BitOf(c \in R.x)
             b == BitOf(c \in R.z)
             d == BitOf(t \in R.x)
             e == BitOf(t \in R.z)
             s == BitOf(R.neg)
  <2>1. IsOpAtBoth(R, c, t, X, Z, a, b, d, e, s) /\ name \in TwoQubitGates
    BY OpsAreAtBoth DEF IsTwoGate
  <2> HIDE DEF name, X, Z, a, b, d, e, s
  <2> DEFINE b2 == TwoB(name, b, d, e)
             d2 == TwoD(name, a, d)
             e2 == TwoE(name, a, e)
             s2 == Xor(s, TwoFlips(name, a, b, d, e))
             S == Apply(g, R)
  <2>2. IsOpAtBoth(S, c, t, X, Z, a, b2, d2, e2, s2)
    BY <2>1, TwoGateTakes DEF name
  <2>3. AreBits(a, b, d, e) /\ s \in Bits /\ R = OpAtBoth(c, t, X, Z, a, b, d, e, s)
    BY <2>1 DEF IsOpAtBoth
  <2>4. /\ TwoB(name, b2, d2, e2) = b /\ TwoD(name, a, d2) = d /\ TwoE(name, a, e2) = e
        /\ Xor(s2, TwoFlips(name, a, b2, d2, e2)) = s
    BY <2>1, <2>3, TwoGateUndone
  <2> HIDE DEF b2, d2, e2, s2, S
  <2>5. IsOpAtBoth(Apply(g, S), c, t, X, Z, a, TwoB(name, b2, d2, e2), TwoD(name, a, d2), TwoE(name, a, e2),
                   Xor(s2, TwoFlips(name, a, b2, d2, e2)))
    BY <2>2, TwoGateTakes DEF name
  <2>6. QED
    BY <2>3, <2>4, <2>5 DEF IsOpAtBoth, S
<1>2. QED
  BY <1>1

LEMMA TwoGateMultiplies ==
  ASSUME NEW g, NEW c, NEW t, IsTwoGate(g, c, t), NEW P \in Ops, NEW R \in Ops
  PROVE  /\ Commute(Apply(g, P), Apply(g, R)) <=> Commute(P, R)
         /\ Commute(P, R) => Apply(g, Product(P, R)) = Product(Apply(g, P), Apply(g, R))
         /\ Apply(g, P) \in Ops
<1> DEFINE name == g.name
           X == P.x \ {c, t}
           Z == P.z \ {c, t}
           a == BitOf(c \in P.x)
           b == BitOf(c \in P.z)
           d == BitOf(t \in P.x)
           e == BitOf(t \in P.z)
           s == BitOf(P.neg)
           U == R.x \ {c, t}
           V == R.z \ {c, t}
           a2 == BitOf(c \in R.x)
           b2 == BitOf(c \in R.z)
           d2 == BitOf(t \in R.x)
           e2 == BitOf(t \in R.z)
           s2 == BitOf(R.neg)
<1>1. /\ IsOpAtBoth(P, c, t, X, Z, a, b, d, e, s)
      /\ IsOpAtBoth(R, c, t, U, V, a2, b2, d2, e2, s2)
      /\ name \in TwoQubitGates /\ IsPair(c, t)
  BY OpsAreAtBoth DEF IsTwoGate
<1> HIDE DEF name, X, Z, a, b, d, e, s, U, V, a2, b2, d2, e2, s2
<1>2. AreBits(a, b, d, e) /\ AreBits(a2, b2, d2, e2) /\ s \in Bits /\ s2 \in Bits
  BY <1>1 DEF IsOpAtBoth
<1> DEFINE nb == TwoB(name, b, d, e)
           nd == TwoD(name, a, d)
           ne == TwoE(name, a, e)
           f == TwoFlips(name, a, b, d, e)
           nb2 == TwoB(name, b2, d2, e2)
           nd2 == TwoD(name, a2, d2)
           ne2 == TwoE(name, a2, e2)
           k == TwoFlips(name, a2, b2, d2, e2)
           a3 == Xor(a, a2)
           b3 == Xor(b, b2)
           d3 == Xor(d, d2)
           e3 == Xor(e, e2)
           h == TwoFlips(name, a3, b3, d3, e3)
           K == Rest(X, Z, U, V)
           D == CocycleBoth(a, b, d, e, a2, b2, d2, e2)
           E == CocycleBoth(a, nb, nd, ne, a2, nb2, nd2, ne2)
           i == And(a, b2) + And(b, a2) + And(d, e2) + And(e, d2)
           j == And(a, nb2) + And(nb, a2) + And(nd, ne2) + And(ne, nd2)
           w == SignAt(K, D, s, s2)
<1>3. /\ IsOpAtBoth(Apply(g, P), c, t, X, Z, a, nb, nd, ne, Xor(s, f))
      /\ IsOpAtBoth(Apply(g, R), c, t, U, V, a2, nb2, nd2, ne2, Xor(s2, k))
  BY <1>1, TwoGateTakes DEF name
<1>4. /\ AreBits(a3, b3, d3, e3)
      /\ Xor(nb, nb2) = TwoB(name, b3, d3, e3)
      /\ Xor(nd, nd2) = TwoD(name, a3, d3)
      /\ Xor(ne, ne2) = TwoE(name, a3, e3)
  BY <1>1, <1>2, TwoGateLinear
<1>5. (E - D - 2 * (f + k + h)) % 4 = 0 /\ j % 2 = i % 2
  BY <1>1, <1>2, TwoGateCocycle
<1>6. f \in Bits /\ k \in Bits /\ h \in Bits
  BY <1>1, <1>2, <1>4, TwoGateBits
<1>7. i \in Int /\ j \in Int /\ D \in Int /\ E \in Int
  BY DEF And, CocycleBoth, Cocycle
<1> HIDE DEF nb, nd, ne, f, nb2, nd2, ne2, k, a3, b3, d3, e3, h, K, D, E, i, j
<1>8. Commute(Apply(g, P), Apply(g, R)) <=> Commute(P, R)
  <2> DEFINE m == Meet(X, V) + Meet(Z, U)
  <2>1. /\ Commute(P, R) <=> (Meet(X, V) + Meet(Z, U) + i) % 2 = 0
        /\ Meet(X, V) \in Nat /\ Meet(Z, U) \in Nat
    BY <1>1, CommuteAtBoth DEF i
  <2>2. Commute(Apply(g, P), Apply(g, R)) <=> (Meet(X, V) + Meet(Z, U) + j) % 2 = 0
    BY <1>3, CommuteAtBoth DEF j
  <2>3. m \in Int
    BY <2>1
  <2> HIDE DEF m
  <2>4. (m + j) % 2 = 0 <=> (m + i) % 2 = 0
    BY <1>5, <1>7, <2>3
  <2>5. QED
    BY <2>1, <2>2, <2>4 DEF m
<1>9. Apply(g, P) \in Ops
  BY <1>3, AtBothIsOp
<1>10. ASSUME Commute(P, R) PROVE Apply(g, Product(P, R)) = Product(Apply(g, P), Apply(g, R))
  <2> DEFINE A == SymDiff(X, U)
             B == SymDiff(Z, V)
  <2>1. /\ Product(P, R) = OpAtBoth(c, t, A, B, a3, b3, d3, e3, w)
        /\ K \in Int /\ ApartBoth(c, t, A) /\ ApartBoth(c, t, B)
        /\ (K + D) % 2 = 0
    BY <1>1, <1>10, ProductAtBoth DEF K, D, a3, b3, d3, e3
  <2>2. Product(Apply(g, P), Apply(g, R)) =
          OpAtBoth(c, t, A, B, a3, Xor(nb, nb2), Xor(nd, nd2), Xor(ne, ne2), SignAt(K, E, Xor(s, f), Xor(s2, k)))
    BY <1>3, ProductAtBoth DEF K, E, a3
  <2> HIDE DEF A, B
  <2>3. SignAt(K, E, Xor(s, f), Xor(s2, k)) = Xor(w, h)
    <3>1. Follows(K, D, E, s, s2, f, k, h)
      BY <1>2, <1>5, <1>6, <1>7, <2>1 DEF Follows
    <3>2. QED
      BY ONLY <3>1, SignsFollow
  <2>4. w \in Bits
    BY DEF SignAt, Sign, Bits
  <2> HIDE DEF w
  <2>5. IsOpAtBoth(Product(P, R), c, t, A, B, a3, b3, d3, e3, w)
    BY <1>1, <1>4, <2>1, <2>4 DEF IsOpAtBoth
  <2>6. IsOpAtBoth(Apply(g, Product(P, R)), c, t, A, B, a3, TwoB(name, b3, d3, e3), TwoD(name, a3, d3),
                   TwoE(name, a3, e3), Xor(w, h))
    BY <2>5, TwoGateTakes DEF name, h
  <2>7. Apply(g, Product(P, R)) = OpAtBoth(c, t, A, B, a3, TwoB(name, b3, d3, e3), TwoD(name, a3, d3),
                                           TwoE(name, a3, e3), Xor(w, h))
    BY <2>6 DEF IsOpAtBoth
  <2>8. QED
    BY <1>4, <2>2, <2>3, <2>7
<1>11. QED
  BY <1>8, <1>9, <1>10

LEMMA OneGateMinus ==
  ASSUME NEW g, NEW q \in Nat, IsOneGate(g, q), NEW P \in Ops
  PROVE  Apply(g, Minus(P)) = Minus(Apply(g, P))
<1> DEFINE name == g.name
           X == P.x \ {q}
           Z == P.z \ {q}
           a == BitOf(q \in P.x)
           b == BitOf(q \in P.z)
           s == BitOf(P.neg)
           f == Flips(name, a, b)
<1>1. IsOpAt(P, q, X, Z, a, b, s) /\ name \in OneQubitGates
  BY OpsAreAt DEF IsOneGate
<1> HIDE DEF name, X, Z, a, b, s
<1>2. /\ Apart(q, X) /\ Apart(q, Z) /\ a \in Bits /\ b \in Bits /\ s \in Bits
      /\ P = OpAt(q, X, Z, a, b, s)
  BY <1>1 DEF IsOpAt
<1>3. f \in Bits
  BY <1>1, <1>2, OneGateTwice
<1>4. Xor(s, 1) \in Bits /\ Xor(s, f) \in Bits /\ Xor(Xor(s, 1), f) = Xor(Xor(s, f), 1)
  BY <1>2, <1>3 DEF Xor, Bits
<1>5. IsOpAt(Minus(P), q, X, Z, a, b, Xor(s, 1))
  BY <1>2, <1>4, MinusAt DEF IsOpAt
<1>6. IsOpAt(Apply(g, Minus(P)), q, X, Z, NewX(name, a, b), NewZ(name, a, b), Xor(Xor(s, 1), f))
  BY <1>5, OneGateTakes DEF name
<1>7. IsOpAt(Apply(g, P), q, X, Z, NewX(name, a, b), NewZ(name, a, b), Xor(s, f))
  BY <1>1, OneGateTakes DEF name
<1>8. Minus(Apply(g, P)) = OpAt(q, X, Z, NewX(name, a, b), NewZ(name, a, b), Xor(Xor(s, f), 1))
  BY <1>2, <1>4, <1>7, MinusAt DEF IsOpAt
<1>9. QED
  BY <1>4, <1>6, <1>8 DEF IsOpAt

LEMMA MinusAtBoth ==
  ASSUME NEW P, NEW c, NEW t, NEW X, NEW Z, NEW a, NEW b, NEW d, NEW e, NEW s,
         IsOpAtBoth(P, c, t, X, Z, a, b, d, e, s)
  PROVE  IsOpAtBoth(Minus(P), c, t, X, Z, a, b, d, e, Xor(s, 1))
<1>1. /\ IsPair(c, t) /\ ApartBoth(c, t, X) /\ ApartBoth(c, t, Z) /\ AreBits(a, b, d, e) /\ s \in Bits
      /\ P = OpAtBoth(c, t, X, Z, a, b, d, e, s)
  BY DEF IsOpAtBoth
<1>2. Apart(t, With(X, c, a)) /\ Apart(t, With(Z, c, b)) /\ t \in Nat
  BY <1>1, WithApart DEF IsPair
<1>3. Minus(OpAt(t, With(X, c, a), With(Z, c, b), d, e, s)) = OpAt(t, With(X, c, a), With(Z, c, b), d, e, Xor(s, 1))
  BY <1>1, <1>2, MinusAt
<1>4. Xor(s, 1) \in Bits
  BY <1>1 DEF Xor, Bits
<1>5. QED
  BY <1>1, <1>3, <1>4 DEF IsOpAtBoth, OpAtBoth

LEMMA TwoGateMinus ==
  ASSUME NEW g, NEW c, NEW t, IsTwoGate(g, c, t), NEW P \in Ops
  PROVE  Apply(g, Minus(P)) = Minus(Apply(g, P))
<1> DEFINE name == g.name
           X == P.x \ {c, t}
           Z == P.z \ {c, t}
           a == BitOf(c \in P.x)
           b == BitOf(c \in P.z)
           d == BitOf(t \in P.x)
           e == BitOf(t \in P.z)
           s == BitOf(P.neg)
           f == TwoFlips(name, a, b, d, e)
           nb == TwoB(name, b, d, e)
           nd == TwoD(name, a, d)
           ne == TwoE(name, a, e)
<1>1. IsOpAtBoth(P, c, t, X, Z, a, b, d, e, s) /\ name \in TwoQubitGates
  BY OpsAreAtBoth DEF IsTwoGate
<1> HIDE DEF name, X, Z, a, b, d, e, s
<1>2. AreBits(a, b, d, e) /\ s \in Bits
  BY <1>1 DEF IsOpAtBoth
<1>3. f \in Bits
  BY <1>1, <1>2, TwoGateBits
<1> HIDE DEF f, nb, nd, ne
<1>4. Xor(Xor(s, 1), f) = Xor(Xor(s, f), 1)
  BY <1>2, <1>3 DEF Xor, Bits
<1>5. IsOpAtBoth(Minus(P), c, t, X, Z, a, b, d, e, Xor(s, 1))
  BY <1>1, MinusAtBoth
<1>6. IsOpAtBoth(Apply(g, Minus(P)), c, t, X, Z, a, nb, nd, ne, Xor(Xor(s, 1), f))
  BY <1>5, TwoGateTakes DEF name, nb, nd, ne, f
<1>7. IsOpAtBoth(Apply(g, P), c, t, X, Z, a, nb, nd, ne, Xor(s, f))
  BY <1>1, TwoGateTakes DEF name, nb, nd, ne, f
<1>8. IsOpAtBoth(Minus(Apply(g, P)), c, t, X, Z, a, nb, nd, ne, Xor(Xor(s, f), 1))
  BY <1>7, MinusAtBoth
<1>9. QED
  BY <1>4, <1>6, <1>8 DEF IsOpAtBoth

\* the gates on n qubits
GateOn(g, n) ==
  \/ \E q \in 0 .. n - 1 : IsOneGate(g, q)
  \/ \E c, t \in 0 .. n - 1 : IsTwoGate(g, c, t)

LEMMA GatesAre ==
  ASSUME NEW n \in Nat, NEW g \in GatesOn(0 .. n - 1)
  PROVE  GateOn(g, n)
<1>1. CASE g \in [name : OneQubitGates, on : {<<q>> : q \in 0 .. n - 1}]
  BY <1>1 DEF GateOn, IsOneGate
<1>2. CASE g \in [name : TwoQubitGates, on : {p \in (0 .. n - 1) \X (0 .. n - 1) : p[1] # p[2]}]
  <2>1. g.name \in TwoQubitGates /\ g.on \in (0 .. n - 1) \X (0 .. n - 1) /\ g.on[1] # g.on[2]
    BY <1>2
  <2>2. PICK c, t \in 0 .. n - 1 : g.on = <<c, t>>
    BY <2>1
  <2>3. c # t
    BY <2>1, <2>2
  <2>4. IsTwoGate(g, c, t)
    BY <2>1, <2>2, <2>3 DEF IsTwoGate, IsPair
  <2>5. QED
    BY <2>4 DEF GateOn
<1>3. QED
  BY <1>1, <1>2 DEF GatesOn

(* What the gates do to rows is a symmetry of the Pauli operators: it keeps *)
(* products, signs and what commutes, and it can be undone.                 *)
LEMMA GateKeeps ==
  ASSUME NEW n \in Nat, NEW g, GateOn(g, n), NEW P \in Ops
  PROVE  /\ Apply(g, P) \in Ops
         /\ Apply(g, Minus(P)) = Minus(Apply(g, P))
         /\ Apply(g, Apply(g, Apply(g, Apply(g, P)))) = P
         /\ \A R \in Ops : Commute(Apply(g, P), Apply(g, R)) <=> Commute(P, R)
         /\ \A R \in Ops : Commute(P, R) => Apply(g, Product(P, R)) = Product(Apply(g, P), Apply(g, R))
<1>1. ASSUME NEW q \in 0 .. n - 1, IsOneGate(g, q)
      PROVE  /\ Apply(g, P) \in Ops
             /\ Apply(g, Minus(P)) = Minus(Apply(g, P))
             /\ Apply(g, Apply(g, Apply(g, Apply(g, P)))) = P
             /\ \A R \in Ops : Commute(Apply(g, P), Apply(g, R)) <=> Commute(P, R)
             /\ \A R \in Ops : Commute(P, R) => Apply(g, Product(P, R)) = Product(Apply(g, P), Apply(g, R))
  BY <1>1, OneGateMinus, OneGateFour, OneGateMultiplies
<1>2. ASSUME NEW c \in 0 .. n - 1, NEW t \in 0 .. n - 1, IsTwoGate(g, c, t)
      PROVE  /\ Apply(g, P) \in Ops
             /\ Apply(g, Minus(P)) = Minus(Apply(g, P))
             /\ Apply(g, Apply(g, Apply(g, Apply(g, P)))) = P
             /\ \A R \in Ops : Commute(Apply(g, P), Apply(g, R)) <=> Commute(P, R)
             /\ \A R \in Ops : Commute(P, R) => Apply(g, Product(P, R)) = Product(Apply(g, P), Apply(g, R))
  BY <1>2, TwoGateMinus, TwoGateFour, TwoGateMultiplies
<1>3. QED
  BY <1>1, <1>2 DEF GateOn

LEMMA WithIsWithin ==
  ASSUME NEW S, NEW n, NEW q, q \in S, NEW X, X \subseteq S, NEW a
  PROVE  With(X, q, a) \subseteq S
BY DEF With

LEMMA GateStaysOn ==
  ASSUME NEW n \in Nat, NEW g, GateOn(g, n), NEW P \in OpsOn(n)
  PROVE  Apply(g, P) \in OpsOn(n)
<1> DEFINE S == 0 .. n - 1
<1>1. P \in Ops /\ P.x \subseteq S /\ P.z \subseteq S
  BY OpsOnAreOps DEF OpsOn, PauliOps
<1>2. \A R : R \in Ops /\ R.x \subseteq S /\ R.z \subseteq S => R \in OpsOn(n)
  BY DEF OpsOn, PauliOps, Ops
<1>3. Apply(g, P) \in Ops
  BY <1>1, GateKeeps
<1> HIDE DEF S
<1>4. ASSUME NEW q, q \in S, q \in Nat, IsOneGate(g, q) PROVE Apply(g, P) \in OpsOn(n)
  <2> DEFINE X == P.x \ {q}
             Z == P.z \ {q}
             a == BitOf(q \in P.x)
             b == BitOf(q \in P.z)
             s == BitOf(P.neg)
  <2>1. IsOpAt(P, q, X, Z, a, b, s)
    BY <1>1, <1>4, OpsAreAt
  <2>2. X \subseteq S /\ Z \subseteq S
    BY <1>1
  <2> HIDE DEF X, Z, a, b, s
  <2> DEFINE a2 == NewX(g.name, a, b)
             b2 == NewZ(g.name, a, b)
             s2 == Xor(s, Flips(g.name, a, b))
  <2>3. IsOpAt(Apply(g, P), q, X, Z, a2, b2, s2)
    BY <1>4, <2>1, OneGateTakes
  <2> HIDE DEF a2, b2, s2
  <2>4. Apply(g, P) = OpAt(q, X, Z, a2, b2, s2)
    BY <2>3 DEF IsOpAt
  <2>5. Apply(g, P).x = With(X, q, a2) /\ Apply(g, P).z = With(Z, q, b2)
    BY <2>4 DEF OpAt
  <2>6. With(X, q, a2) \subseteq S /\ With(Z, q, b2) \subseteq S
    BY <1>4, <2>2, WithIsWithin
  <2>7. QED
    BY <1>2, <1>3, <2>5, <2>6
<1>5. ASSUME NEW c, c \in S, NEW t, t \in S, IsTwoGate(g, c, t) PROVE Apply(g, P) \in OpsOn(n)
  <2> DEFINE X == P.x \ {c, t}
             Z == P.z \ {c, t}
             a == BitOf(c \in P.x)
             b == BitOf(c \in P.z)
             d == BitOf(t \in P.x)
             e == BitOf(t \in P.z)
             s == BitOf(P.neg)
  <2>1. IsOpAtBoth(P, c, t, X, Z, a, b, d, e, s)
    BY <1>1, <1>5, OpsAreAtBoth DEF IsTwoGate
  <2>2. X \subseteq S /\ Z \subseteq S
    BY <1>1
  <2> HIDE DEF X, Z, a, b, d, e, s
  <2> DEFINE b2 == TwoB(g.name, b, d, e)
             d2 == TwoD(g.name, a, d)
             e2 == TwoE(g.name, a, e)
             s2 == Xor(s, TwoFlips(g.name, a, b, d, e))
  <2>3. IsOpAtBoth(Apply(g, P), c, t, X, Z, a, b2, d2, e2, s2)
    BY <1>5, <2>1, TwoGateTakes
  <2> HIDE DEF b2, d2, e2, s2
  <2>4. Apply(g, P) = OpAtBoth(c, t, X, Z, a, b2, d2, e2, s2)
    BY <2>3 DEF IsOpAtBoth
  <2>5. Apply(g, P).x = With(With(X, c, a), t, d2) /\ Apply(g, P).z = With(With(Z, c, b2), t, e2)
    BY <2>4 DEF OpAtBoth, OpAt
  <2>6. With(X, c, a) \subseteq S /\ With(Z, c, b2) \subseteq S
    BY <1>5, <2>2, WithIsWithin
  <2>7. With(With(X, c, a), t, d2) \subseteq S /\ With(With(Z, c, b2), t, e2) \subseteq S
    BY <1>5, <2>6, WithIsWithin
  <2>8. QED
    BY <1>2, <1>3, <2>5, <2>7
<1>6. QED
  BY <1>4, <1>5 DEF GateOn, S, IsTwoGate

LEMMA MinusIsOn ==
  ASSUME NEW n \in Nat, NEW P \in OpsOn(n)
  PROVE  Minus(P) \in OpsOn(n)
BY DEF OpsOn, PauliOps, Minus

GateMap(g, n) == [P \in OpsOn(n) |-> Apply(g, P)]

LEMMA GateCarries ==
  ASSUME NEW n \in Nat, NEW g, GateOn(g, n)
  PROVE  Carries(GateMap(g, n), OpsOn(n))
<1> DEFINE F == GateMap(g, n)
           D == OpsOn(n)
<1>1. DOMAIN F = D /\ D \subseteq Ops /\ Identity \in D
  BY OpsOnAreOps DEF GateMap
<1>2. \A P \in D : F[P] = Apply(g, P)
  BY DEF GateMap
<1>3. \A P \in D : P \in Ops /\ Apply(g, P) \in Ops /\ Apply(g, Minus(P)) = Minus(Apply(g, P))
                   /\ Apply(g, Apply(g, Apply(g, Apply(g, P)))) = P
  BY <1>1, GateKeeps
<1>4. \A P, R \in D : /\ Commute(Apply(g, P), Apply(g, R)) <=> Commute(P, R)
                      /\ Commute(P, R) => Apply(g, Product(P, R)) = Product(Apply(g, P), Apply(g, R))
  BY <1>1, GateKeeps
<1>5. \A P \in D : Minus(P) \in D
  BY MinusIsOn
<1>6. \A P, R \in D : Product(P, R) \in D
  BY ProductIsOn
<1> HIDE DEF F, D
<1>7. Apply(g, Identity) = Identity
  <2>1. Commute(Identity, Identity) /\ Product(Identity, Identity) = Identity
    BY IdentityIsOp, ProductWithIdentity
  <2>2. Apply(g, Identity) = Product(Apply(g, Identity), Apply(g, Identity))
    BY <1>1, <1>4, <2>1
  <2>3. QED
    BY <1>1, <1>3, <2>2, ProductWithItself
<1>8. \A P, R \in D : F[P] = F[R] => P = R
  BY <1>2, <1>3
<1>9. QED
  BY <1>1, <1>2, <1>3, <1>4, <1>5, <1>6, <1>7, <1>8 DEF Carries, F, D

(* Gates take the generators of a state to the generators of a state. *)
LEMMA GatesKeepProper ==
  ASSUME NEW rows, IsProper(rows), Completes(rows), NEW g, GateOn(g, Len(rows))
  PROVE  LET new == AfterGate(g, rows) IN
         /\ IsProper(new) /\ Completes(new) /\ Len(new) = Len(rows)
<1> DEFINE n == Len(rows)
           new == AfterGate(g, rows)
           F == GateMap(g, n)
           D == OpsOn(n)
<1>1. /\ IsRows(rows) /\ AreOn(rows, n) /\ n \in Nat
      /\ Cardinality(Span(rows)) = 2 ^ n /\ NoMinus(Span(rows))
      /\ \A i \in 1 .. n : rows[i] \in D
      /\ DOMAIN rows = 1 .. n
  BY RowsCommute DEF IsProper, AreOn
<1>2. Carries(F, D)
  BY <1>1, GateCarries
<1>3. new = [i \in 1 .. n |-> Apply(g, rows[i])]
  BY <1>1 DEF AfterGate
<1>4. \A P \in D : F[P] = Apply(g, P) /\ P \in Ops /\ F[P] \in Ops /\ F[P] \in D
  BY <1>1, OpsOnAreOps, GateKeeps, GateStaysOn DEF GateMap
<1>5. \A P \in D : Apply(g, Apply(g, Apply(g, Apply(g, P)))) = P
  BY <1>1, <1>4, GateKeeps
<1>6. IsGroup(Span(rows)) /\ Span(rows) \subseteq D /\ IsFiniteSet(Span(rows))
  BY <1>1, SpanIsGroup, SpanIsOn, SpanIsFinite
<1> HIDE DEF n, new, F, D
<1>7. /\ new \in Seq(Ops) /\ Len(new) = n
      /\ \A i \in 1 .. n : new[i] = F[rows[i]] /\ new[i] \in D
  <2>1. \A i \in 1 .. n : Apply(g, rows[i]) \in Ops
    BY <1>1, <1>4
  <2>2. new \in [1 .. n -> Ops]
    BY <1>3, <2>1
  <2>3. new \in Seq(Ops) /\ Len(new) = n
    BY <1>1, <2>2
  <2>4. \A i \in 1 .. n : new[i] = F[rows[i]] /\ new[i] \in D
    BY <1>1, <1>3, <1>4
  <2>5. QED
    BY <2>3, <2>4
<1>8. IsRows(new) /\ Span(new) = Image(F, Span(rows))
  BY <1>1, <1>2, <1>7, SpanIsCarried DEF n
<1>9. /\ Cardinality(Span(new)) = 2 ^ n /\ NoMinus(Span(new))
      /\ \A P \in D : F[P] \in Span(new) <=> P \in Span(rows)
  BY <1>1, <1>2, <1>6, <1>8, ImageCounts
<1>10. IsProper(new)
  BY <1>1, <1>7, <1>8, <1>9 DEF IsProper, AreOn, D
<1>11. ASSUME NEW P \in D, \A i \in 1 .. n : Commute(P, new[i])
       PROVE  P \in Span(new) \/ Minus(P) \in Span(new)
  <2> DEFINE R == Apply(g, Apply(g, Apply(g, P)))
  <2>1. R \in D
    BY <1>4
  <2>2. F[R] = P
    BY <1>4, <1>5, <2>1
  <2> HIDE DEF R
  <2>3. \A i \in 1 .. n : Commute(R, rows[i])
    BY <1>1, <1>2, <1>7, <1>11, <2>1, <2>2 DEF Carries
  <2>4. R \in Span(rows) \/ Minus(R) \in Span(rows)
    BY <2>1, <2>3 DEF Completes, n, D
  <2>5. Minus(R) \in D /\ F[Minus(R)] = Minus(P)
    BY <1>2, <2>1, <2>2 DEF Carries
  <2>6. QED
    BY <1>9, <2>1, <2>2, <2>4, <2>5
<1>12. Completes(new)
  BY <1>7, <1>11 DEF Completes, D
<1>13. QED
  BY <1>7, <1>10, <1>12 DEF n, new

LEMMA ObservedIs ==
  ASSUME NEW p \in Nat, NEW b \in {0, 1}
  PROVE  LET O == Observed(p, b) IN
         /\ O \in Ops /\ O.x = NoQubits /\ O.z = {p} /\ O.neg = (b = 1)
         /\ Minus(O) = Observed(p, 1 - b)
         /\ \A P \in Ops : /\ Commute(P, O) <=> p \notin P.x
                           /\ Commute(O, P) <=> p \notin P.x
                           /\ Commute(P, ZAt(p)) <=> p \notin P.x
<1> DEFINE O == Observed(p, b)
<1>1. O.x = NoQubits /\ O.z = {p} /\ O.neg = (b = 1)
  BY DEF Observed, NoQubits
<1>2. {p} \in FinSets /\ NoQubits \in FinSets /\ Cardinality({p}) = 1
  BY FS_EmptySet, FS_Singleton DEF FinSets, NoQubits
<1>3. O \in Ops /\ ZAt(p) \in Ops
  BY <1>2 DEF Observed, ZAt, Ops, NoQubits
<1>4. Minus(O) = Observed(p, 1 - b)
  <2> DEFINE N == Observed(p, 1 - b)
  <2>1. N.x = NoQubits /\ N.z = {p} /\ N.neg = (1 - b = 1)
    BY DEF Observed, NoQubits
  <2>2. N \in Ops
    BY <1>2 DEF Observed, Ops, NoQubits
  <2>3. Minus(O) \in Ops /\ Minus(O).x = O.x /\ Minus(O).z = O.z /\ Minus(O).neg = ~O.neg
    BY <1>3, MinusIs
  <2> HIDE DEF N, O
  <2>4. CASE b = 0
    <3>1. 1 - b = 1 /\ b # 1
      BY <2>4
    <3>2. N.neg = TRUE /\ O.neg = FALSE
      BY <1>1, <2>1, <3>1
    <3>3. Minus(O).x = N.x /\ Minus(O).z = N.z /\ Minus(O).neg = N.neg
      BY ONLY <1>1, <2>1, <2>3, <3>2
    <3>4. Minus(O) = N
      BY ONLY <2>2, <2>3, <3>3, SameFields
    <3>5. QED
      BY ONLY <3>4 DEF N
  <2>5. CASE b = 1
    <3>1. 1 - b # 1
      BY <2>5
    <3>2. N.neg = FALSE /\ O.neg = TRUE
      BY <1>1, <2>1, <2>5, <3>1
    <3>3. Minus(O).x = N.x /\ Minus(O).z = N.z /\ Minus(O).neg = N.neg
      BY ONLY <1>1, <2>1, <2>3, <3>2
    <3>4. Minus(O) = N
      BY ONLY <2>2, <2>3, <3>3, SameFields
    <3>5. QED
      BY ONLY <3>4 DEF N
  <2>6. QED
    BY <2>4, <2>5
<1>5. ASSUME NEW P \in Ops PROVE Commute(P, O) <=> p \notin P.x
  <2>1. Commute(P, O) <=> (Meet(P.x, {p}) + Meet(P.z, NoQubits)) % 2 = 0
    BY <1>1, CommuteIs
  <2>2. Meet(P.z, NoQubits) = 0
    BY MeetNothing
  <2>3. CASE p \in P.x
    <3>1. P.x \cap {p} = {p}
      BY <2>3
    <3>2. Meet(P.x, {p}) = 1
      BY <1>2, <3>1 DEF Meet
    <3>3. QED
      BY <2>1, <2>2, <2>3, <3>2
  <2>4. CASE p \notin P.x
    <3>1. P.x \cap {p} = NoQubits
      BY <2>4 DEF NoQubits
    <3>2. Meet(P.x, {p}) = 0
      BY <3>1, FS_EmptySet DEF Meet, NoQubits
    <3>3. QED
      BY <2>1, <2>2, <2>4, <3>2
  <2>5. QED
    BY <2>3, <2>4
<1>6. ASSUME NEW P \in Ops PROVE Commute(P, ZAt(p)) <=> Commute(P, O)
  BY <1>1, CommuteIs DEF ZAt, NoQubits
<1>7. QED
  BY <1>1, <1>3, <1>4, <1>5, <1>6, CommuteBoth

LEMMA SignWithZ ==
  ASSUME NEW m \in Nat, NEW f \in BOOLEAN, NEW g \in BOOLEAN
  PROVE  SignOfProduct(m, f, 0, g, 0, m) = (f # g)
<1>1. PhaseOf(0, TRUE) = 2 /\ PhaseOf(0, FALSE) = 0
  BY DEF PhaseOf
<1>2. PhaseOf(m, TRUE) = (m + 2) % 4 /\ PhaseOf(m, FALSE) = m % 4
  BY DEF PhaseOf
<1>3. /\ (((m + 2) % 4) + 2 + 2 * 0) % 4 = m % 4
      /\ (((m + 2) % 4) + 0 + 2 * 0) % 4 # m % 4
      /\ ((m % 4) + 2 + 2 * 0) % 4 # m % 4
      /\ ((m % 4) + 0 + 2 * 0) % 4 = m % 4
  OBVIOUS
<1>4. CASE f = TRUE /\ g = TRUE
  BY <1>1, <1>2, <1>3, <1>4 DEF SignOfProduct
<1>5. CASE f = TRUE /\ g = FALSE
  BY <1>1, <1>2, <1>3, <1>5 DEF SignOfProduct
<1>6. CASE f = FALSE /\ g = TRUE
  BY <1>1, <1>2, <1>3, <1>6 DEF SignOfProduct
<1>7. CASE f = FALSE /\ g = FALSE
  BY <1>1, <1>2, <1>3, <1>7 DEF SignOfProduct
<1>8. QED
  BY <1>4, <1>5, <1>6, <1>7

LEMMA ProductWithZ ==
  ASSUME NEW p \in Nat, NEW b \in {0, 1}, NEW P \in Ops, p \notin P.x
  PROVE  /\ Product(P, Observed(p, b)) =
              [x |-> P.x, z |-> SymDiff(P.z, {p}), neg |-> P.neg # (b = 1)]
         /\ Product(P, Observed(p, b)) \in Ops
<1> DEFINE O == Observed(p, b)
<1>1. O \in Ops /\ O.x = NoQubits /\ O.z = {p} /\ O.neg = (b = 1) /\ Commute(P, O)
  BY ObservedIs
<1>2. P.x \in FinSets /\ P.z \in FinSets /\ P.neg \in BOOLEAN /\ {p} \in FinSets
  BY <1>1, OpFields
<1> HIDE DEF O
<1>3. SymDiff(P.x, O.x) = P.x
  BY <1>1, SymDiffGroup
<1>4. Meet(O.x, O.z) = 0 /\ Meet(P.z, O.x) = 0
  BY <1>1, MeetNothing
<1>5. P.x \cap SymDiff(P.z, {p}) = P.x \cap P.z
  BY DEF SymDiff
<1>6. Meet(SymDiff(P.x, O.x), SymDiff(P.z, O.z)) = Meet(P.x, P.z) /\ Meet(P.x, P.z) \in Nat
  BY <1>1, <1>2, <1>3, <1>5, MeetIsNat DEF Meet
<1>7. SignOfProduct(Meet(P.x, P.z), P.neg, 0, O.neg, 0, Meet(P.x, P.z)) = (P.neg # O.neg)
  BY <1>1, <1>2, <1>6, SignWithZ
<1>8. Product(P, O) = [x |-> P.x, z |-> SymDiff(P.z, O.z), neg |-> (P.neg # O.neg)]
  BY <1>3, <1>4, <1>6, <1>7, SignIs
<1>9. Product(P, O) \in Ops
  BY <1>1, ProductIsOp
<1>10. QED
  BY <1>1, <1>8, <1>9 DEF O

-----------------------------------------------------------------------------
(* Leaving out a row and a qubit.                                           *)

Omit(rows, k) == [j \in 1 .. Len(rows) - 1 |-> IF j < k THEN rows[j] ELSE rows[j + 1]]

AreOthers(rest, rows, k) ==
  \A j \in 1 .. Len(rows) - 1 : \E i \in 1 .. Len(rows) : i # k /\ rest[j] = rows[i]

LEMMA OmitIs ==
  ASSUME NEW rows, IsRows(rows), NEW k \in 1 .. Len(rows)
  PROVE  /\ IsWith(rows, Omit(rows, k), rows[k])
         /\ Len(Omit(rows, k)) = Len(rows) - 1
         /\ AreOthers(Omit(rows, k), rows, k)
<1> DEFINE n == Len(rows)
           R == Omit(rows, k)
<1>1. n \in Nat /\ \A i \in 1 .. n : rows[i] \in Ops
  BY RowsCommute
<1>2. R = [j \in 1 .. n - 1 |-> rows[IF j < k THEN j ELSE j + 1]]
  BY DEF Omit
<1> HIDE DEF R, n
<1>3. n - 1 \in Nat /\ k \in 1 .. n
  BY <1>1 DEF n
<1>4. \A j \in 1 .. n - 1 : /\ (IF j < k THEN j ELSE j + 1) \in 1 .. n
                            /\ (IF j < k THEN j ELSE j + 1) # k
  BY <1>1, <1>3
<1>5. R \in [1 .. n - 1 -> Ops]
  BY <1>1, <1>2, <1>4
<1>6. R \in Seq(Ops) /\ Len(R) = n - 1
  BY <1>3, <1>5
<1>7. ASSUME NEW j \in 1 .. n, j # k PROVE \E i \in 1 .. n - 1 : rows[j] = R[i]
  <2>1. CASE j < k
    <3>1. j \in 1 .. n - 1 /\ R[j] = rows[j]
      BY <1>1, <1>2, <1>3, <2>1
    <3>2. QED
      BY <3>1
  <2>2. CASE j > k
    <3>1. j - 1 \in 1 .. n - 1 /\ ~(j - 1 < k) /\ j - 1 + 1 = j
      BY <1>1, <1>3, <2>2
    <3>2. R[j - 1] = rows[j]
      BY <1>2, <3>1
    <3>3. QED
      BY <3>1, <3>2
  <2>3. QED
    BY <1>1, <1>3, <1>7, <2>1, <2>2
<1>8. IsWith(rows, R, rows[k])
  BY <1>1, <1>2, <1>3, <1>4, <1>6, <1>7 DEF IsWith, n
<1>9. AreOthers(R, rows, k)
  BY <1>2, <1>4 DEF AreOthers, n
<1>10. QED
  BY <1>6, <1>8, <1>9 DEF R, n

\* the places after p move up
Rest0(p) == Nat \ {p}
Up(p) == [i \in Rest0(p) |-> IF i > p THEN i - 1 ELSE i]
Down(p) == [i \in Nat |-> IF i >= p THEN i + 1 ELSE i]

LEMMA UpAndDown ==
  ASSUME NEW p \in Nat
  PROVE  /\ IsRelabelling(Up(p), Rest0(p)) /\ IsRelabelling(Down(p), Nat)
         /\ \A i \in Nat : Down(p)[i] \in Rest0(p) /\ Up(p)[Down(p)[i]] = i
         /\ \A n \in Nat, i \in Rest0(p) : p <= n /\ i \in 0 .. n => Up(p)[i] \in 0 .. n - 1
         /\ \A n \in Nat, i \in Nat : p <= n /\ i \in 0 .. n - 1 => Down(p)[i] \in 0 .. n
         /\ \A S : S \subseteq Rest0(p) => MoveUp(S, p) = Relabel(Up(p), S)
<1>1. \A i \in Rest0(p) : Up(p)[i] \in Nat
  BY DEF Up, Rest0
<1>2. \A i, j \in Rest0(p) : Up(p)[i] = Up(p)[j] => i = j
  BY DEF Up, Rest0
<1>3. IsRelabelling(Up(p), Rest0(p))
  <2>1. Up(p) \in [Rest0(p) -> Nat]
    BY <1>1 DEF Up
  <2>2. QED
    BY <1>2, <2>1 DEF IsRelabelling, Rest0
<1>4. \A i, j \in Nat : Down(p)[i] = Down(p)[j] => i = j
  BY DEF Down
<1>5. IsRelabelling(Down(p), Nat)
  <2>1. Down(p) \in [Nat -> Nat]
    BY DEF Down
  <2>2. QED
    BY <1>4, <2>1 DEF IsRelabelling
<1>6. \A i \in Nat : Down(p)[i] \in Rest0(p) /\ Up(p)[Down(p)[i]] = i
  BY DEF Down, Up, Rest0
<1>7. \A n \in Nat, i \in Rest0(p) : p <= n /\ i \in 0 .. n => Up(p)[i] \in 0 .. n - 1
  BY DEF Up, Rest0
<1>8. \A n \in Nat, i \in Nat : p <= n /\ i \in 0 .. n - 1 => Down(p)[i] \in 0 .. n
  BY DEF Down
<1>9. ASSUME NEW S, S \subseteq Rest0(p) PROVE MoveUp(S, p) = Relabel(Up(p), S)
  <2>1. \A i \in S : Up(p)[i] = IF i > p THEN i - 1 ELSE i
    BY <1>9 DEF Up
  <2>2. QED
    BY <2>1 DEF MoveUp, Relabel
<1>10. QED
  BY <1>3, <1>5, <1>6, <1>7, <1>8, <1>9

LEMMA FieldsChange ==
  ASSUME NEW P \in Ops, NEW X, NEW Z
  PROVE  [P EXCEPT !.x = X, !.z = Z] = [x |-> X, z |-> Z, neg |-> P.neg]
<1>1. P = [x |-> P.x, z |-> P.z, neg |-> P.neg]
  BY DEF Ops
<1>2. DOMAIN P = {"x", "z", "neg"}
  BY <1>1
<1>3. [P EXCEPT !.x = X, !.z = Z] =
        [i \in {"x", "z", "neg"} |-> IF i = "x" THEN X ELSE IF i = "z" THEN Z ELSE P[i]]
  BY <1>2
<1>4. [x |-> X, z |-> Z, neg |-> P.neg] =
        [i \in {"x", "z", "neg"} |-> IF i = "x" THEN X ELSE IF i = "z" THEN Z ELSE P[i]]
  OBVIOUS
<1>5. QED
  BY <1>3, <1>4

\* P without p, the places behind p moved up
Lifted(P, p) == [P EXCEPT !.x = MoveUp(@, p), !.z = MoveUp(@, p)]
UpMap(p) == [P \in Within(Rest0(p)) |-> Moved(Up(p), P)]

LEMMA UpCarries ==
  ASSUME NEW p \in Nat
  PROVE  /\ Carries(UpMap(p), Within(Rest0(p)))
         /\ \A P \in Within(Rest0(p)) :
              /\ UpMap(p)[P] = Lifted(P, p)
              /\ UpMap(p)[P] = Moved(Up(p), P)
         /\ \A P \in Ops : P \in Within(Rest0(p)) <=> p \notin P.x /\ p \notin P.z
<1>1. IsRelabelling(Up(p), Rest0(p))
  BY UpAndDown
<1>2. Carries(UpMap(p), Within(Rest0(p)))
  BY <1>1, MovedCarries DEF UpMap
<1>3. ASSUME NEW P \in Within(Rest0(p))
      PROVE  /\ UpMap(p)[P] = Moved(Up(p), P)
             /\ UpMap(p)[P] = Lifted(P, p)
  <2>1. UpMap(p)[P] = Moved(Up(p), P)
    BY <1>3 DEF UpMap
  <2>2. MoveUp(P.x, p) = Relabel(Up(p), P.x) /\ MoveUp(P.z, p) = Relabel(Up(p), P.z)
    BY <1>3, UpAndDown DEF Within
  <2>3. [P EXCEPT !.x = MoveUp(@, p), !.z = MoveUp(@, p)] = [x |-> MoveUp(P.x, p), z |-> MoveUp(P.z, p), neg |-> P.neg]
    <3>1. P \in Ops
      BY <1>3 DEF Within
    <3> DEFINE X == MoveUp(P.x, p)
               Z == MoveUp(P.z, p)
    <3>1a. [P EXCEPT !.x = MoveUp(@, p), !.z = MoveUp(@, p)] = [P EXCEPT !.x = X, !.z = Z]
      OBVIOUS
    <3> HIDE DEF X, Z
    <3>2. [P EXCEPT !.x = X, !.z = Z] = [x |-> X, z |-> Z, neg |-> P.neg]
      BY <3>1, FieldsChange
    <3>3. QED
      BY <3>1a, <3>2 DEF X, Z
  <2>4. QED
    BY <2>1, <2>2, <2>3 DEF Moved, Lifted
<1>4. ASSUME NEW P \in Ops PROVE P \in Within(Rest0(p)) <=> p \notin P.x /\ p \notin P.z
  <2>1. P.x \subseteq Nat /\ P.z \subseteq Nat
    BY OpFields DEF FinSets
  <2>2. QED
    BY <2>1 DEF Within, Rest0
<1>5. QED
  BY <1>2, <1>3, <1>4

\* generators of a state in which p has the outcome b, which the generator k says
HasOutcome(K, k, p, b) ==
  /\ IsProper(K) /\ Completes(K)
  /\ k \in 1 .. Len(K) /\ p \in 0 .. Len(K) - 1 /\ b \in {0, 1}
  /\ K[k] = Observed(p, b)
  /\ \A i \in 1 .. Len(K) : i # k => p \notin K[i].x /\ p \notin K[i].z

\* the other generators without p
IsRestOf(new, K, k, p) ==
  new = [j \in 1 .. Len(K) - 1 |-> UpMap(p)[Omit(K, k)[j]]]

LEMMA OthersLack ==
  ASSUME NEW K, NEW k, NEW p, NEW b, HasOutcome(K, k, p, b)
  PROVE  LET R == Omit(K, k) IN
         /\ IsRows(R) /\ Len(R) = Len(K) - 1 /\ AreOn(R, Len(K))
         /\ \A j \in 1 .. Len(R) : R[j] \in Within(Rest0(p)) /\ R[j] \in OpsOn(Len(K))
         /\ Span(R) \subseteq Within(Rest0(p)) /\ Span(R) \subseteq Span(K)
         /\ Span(K) = WithProducts(Span(R), Observed(p, b))
         /\ CommutesWith(Observed(p, b), Span(R))
         /\ \A P \in Span(K) : p \notin P.x /\ p \notin P.z <=> P \in Span(R)
         /\ IsFiniteSet(Span(R)) /\ Cardinality(Span(R)) = 2 ^ (Len(K) - 1)
         /\ p \in Nat /\ Len(K) \in Nat /\ Len(K) - 1 \in Nat
<1> DEFINE R == Omit(K, k)
           n == Len(K)
           O == Observed(p, b)
           D == Within(Rest0(p))
<1>1. /\ IsProper(K) /\ k \in 1 .. n /\ p \in 0 .. n - 1 /\ b \in {0, 1} /\ K[k] = O
      /\ \A i \in 1 .. n : i # k => p \notin K[i].x /\ p \notin K[i].z
  BY DEF HasOutcome
<1>2. /\ IsRows(K) /\ n \in Nat /\ Cardinality(Span(K)) = 2 ^ n
      /\ \A i \in 1 .. n : K[i] \in Ops /\ K[i] \in OpsOn(n)
  BY <1>1, RowsCommute DEF IsProper, AreOn
<1>3. p \in Nat /\ n - 1 \in Nat /\ n > 0
  BY <1>1, <1>2
<1>4. /\ IsWith(K, R, K[k]) /\ Len(R) = n - 1
      /\ \A j \in 1 .. n - 1 : \E i \in 1 .. n : i # k /\ R[j] = K[i]
  <2>1. IsRows(K) /\ k \in 1 .. Len(K)
    BY <1>1, <1>2
  <2>2. IsWith(K, R, K[k]) /\ Len(R) = n - 1 /\ AreOthers(R, K, k)
    BY ONLY <2>1, OmitIs
  <2>3. QED
    BY <2>2 DEF AreOthers
<1>5. /\ O \in Ops /\ O.z = {p}
  BY <1>1, <1>3, ObservedIs
<1> HIDE DEF R, n, O, D
<1>6. IsRows(R) /\ CommutesWith(O, Span(R)) /\ Span(K) = WithProducts(Span(R), O)
  BY <1>1, <1>2, <1>4, SpanWith
<1>7. \A j \in 1 .. n - 1 : R[j] \in D /\ R[j] \in OpsOn(n)
  BY <1>1, <1>2, <1>3, <1>4, UpCarries DEF D
<1>8. Carries(UpMap(p), D)
  BY <1>3, UpCarries DEF D
<1>9. Span(R) \subseteq D
  BY <1>4, <1>6, <1>7, <1>8, RowsAreIn
<1>10. AreOn(R, n)
  BY <1>2, <1>4, <1>7 DEF AreOn
<1>11. IsGroup(Span(R)) /\ IsFiniteSet(Span(R))
  BY <1>6, <1>10, SpanIsGroup, SpanIsFinite
<1>12. Span(R) \subseteq Span(K)
  BY <1>6 DEF WithProducts
<1>13. \A P \in D : P \in Ops /\ p \notin P.x /\ p \notin P.z
  BY <1>3, UpCarries DEF D, Within
<1>14. ASSUME NEW P \in Span(R) PROVE p \in Product(P, O).z
  <2>1. p \notin P.z
    BY <1>9, <1>13
  <2>2. Product(P, O).z = SymDiff(P.z, {p})
    BY <1>5, ProductFields
  <2>3. QED
    BY <2>1, <2>2 DEF SymDiff
<1>15. \A P \in Span(K) : p \notin P.x /\ p \notin P.z <=> P \in Span(R)
  BY <1>6, <1>9, <1>13, <1>14 DEF WithProducts
<1>16. Cardinality(Span(R)) = 2 ^ (n - 1)
  <2>1. O \notin Span(R)
    BY <1>5, <1>9, <1>13
  <2>2. Cardinality(Span(K)) = 2 * Cardinality(Span(R))
    BY <1>5, <1>6, <1>11, <2>1, CosetCounts
  <2>3. 2 ^ (n - 1 + 1) = 2 * (2 ^ (n - 1)) /\ 2 ^ (n - 1) \in Nat
    BY <1>3, PowersOfTwo
  <2>4. n - 1 + 1 = n
    BY <1>2
  <2>5. Cardinality(Span(R)) \in Nat
    BY <1>11, FS_CardinalityType
  <2>6. 2 * Cardinality(Span(R)) = 2 * (2 ^ (n - 1))
    BY <1>2, <2>2, <2>3, <2>4
  <2> DEFINE u == Cardinality(Span(R))
             v == 2 ^ (n - 1)
  <2>7. u \in Nat /\ v \in Nat /\ 2 * u = 2 * v
    BY <2>3, <2>5, <2>6
  <2> HIDE DEF u, v
  <2>8. u = v
    BY <2>7
  <2>9. QED
    BY <2>8 DEF u, v
<1>17. QED
  BY <1>2, <1>3, <1>4, <1>6, <1>7, <1>9, <1>10, <1>11, <1>12, <1>15, <1>16 DEF R, n, O, D

(* A qubit whose outcome is known can be left out: the other generators,    *)
(* with the places behind it moved up, are generators of what remains.      *)
LEMMA LeavingOut ==
  ASSUME NEW K, NEW k, NEW p, NEW b, HasOutcome(K, k, p, b), NEW new, IsRestOf(new, K, k, p)
  PROVE  /\ IsProper(new) /\ Completes(new) /\ Len(new) = Len(K) - 1
         /\ Span(new) = Without(Span(K), p)
<1> DEFINE R == Omit(K, k)
           n == Len(K)
           O == Observed(p, b)
           Q == Rest0(p)
           D == Within(Q)
           F == UpMap(p)
           G == Span(K)
           H == Span(R)
<1>1. /\ IsRows(R) /\ Len(R) = n - 1 /\ AreOn(R, n)
      /\ \A j \in 1 .. n - 1 : R[j] \in D /\ R[j] \in OpsOn(n)
      /\ H \subseteq D /\ H \subseteq G
      /\ \A P \in G : p \notin P.x /\ p \notin P.z <=> P \in H
      /\ IsFiniteSet(H) /\ Cardinality(H) = 2 ^ (n - 1)
      /\ p \in Nat /\ n \in Nat /\ n - 1 \in Nat
  BY OthersLack
<1>2. /\ IsProper(K) /\ Completes(K) /\ IsRows(K) /\ k \in 1 .. n /\ p \in 0 .. n - 1 /\ b \in {0, 1}
      /\ K[k] = O /\ NoMinus(G)
      /\ \A i \in 1 .. n : i # k => p \notin K[i].x /\ p \notin K[i].z
      /\ \A i \in 1 .. n : K[i] \in Ops
  BY RowsCommute DEF HasOutcome, IsProper
<1>3. /\ Carries(F, D)
      /\ \A P \in D : F[P] = Lifted(P, p)
      /\ \A P \in D : F[P] = Moved(Up(p), P)
      /\ \A P \in Ops : P \in D <=> p \notin P.x /\ p \notin P.z
  BY <1>1, UpCarries
<1>4. /\ Len(new) = n - 1 /\ new = [j \in 1 .. n - 1 |-> F[R[j]]]
      /\ \A j \in 1 .. n - 1 : new[j] = F[R[j]]
  <2>1. new = [j \in 1 .. n - 1 |-> F[R[j]]]
    BY DEF IsRestOf
  <2> HIDE DEF n, F, R
  <2>2. QED
    BY <1>1, <2>1
<1>5. IsGroup(H) /\ IsGroup(G)
  BY <1>1, <1>2, SpanIsGroup
<1>6a. \A i \in 1 .. n : i # k => \E j \in 1 .. n - 1 : K[i] = R[j]
  <2>1. IsWith(K, R, K[k])
    BY <1>2, OmitIs
  <2>2. \A i \in 1 .. n : K[i] = K[k] \/ \E j \in 1 .. Len(R) : K[i] = R[j]
    BY <2>1 DEF IsWith
  <2>3. p \in K[k].z
    BY <1>1, <1>2, ObservedIs
  <2>4. QED
    BY <1>1, <1>2, <2>2, <2>3
<1>7. O \in Ops /\ \A P \in Ops : Commute(P, O) <=> p \notin P.x
  BY <1>1, <1>2, ObservedIs
<1> HIDE DEF R, n, O, D, F, G, H, Q
<1>8. \A P \in D : P \in Ops /\ F[P] \in Ops
  BY <1>3 DEF Carries
<1>9. new \in Seq(Ops)
  <2>1. new \in [1 .. n - 1 -> Ops]
    BY <1>1, <1>4, <1>8
  <2>2. QED
    BY <1>1, <2>1
<1>10. IsRows(new) /\ Span(new) = Image(F, H)
  BY <1>1, <1>3, <1>4, <1>9, SpanIsCarried DEF H
<1>11. NoMinus(H)
  BY <1>1, <1>2 DEF NoMinus
<1>12. /\ Cardinality(Span(new)) = 2 ^ (n - 1) /\ NoMinus(Span(new))
       /\ \A P \in D : F[P] \in Span(new) <=> P \in H
  <2>1. /\ Cardinality(Image(F, H)) = Cardinality(H)
        /\ NoMinus(H) => NoMinus(Image(F, H))
        /\ \A P \in D : F[P] \in Image(F, H) <=> P \in H
    <3>1. Carries(F, D) /\ IsGroup(H) /\ H \subseteq D /\ IsFiniteSet(H)
      BY <1>1, <1>3, <1>5
    <3>2. QED
      BY ONLY <3>1, ImageCounts
  <2>2. QED
    BY <1>1, <1>10, <1>11, <2>1
<1>13. ASSUME NEW P \in D, P \in OpsOn(n) PROVE F[P] \in OpsOn(n - 1)
  <2>1. P.x \subseteq 0 .. n - 1 /\ P.z \subseteq 0 .. n - 1 /\ P.neg \in BOOLEAN
    BY <1>13 DEF OpsOn, PauliOps
  <2>2. P.x \subseteq Q /\ P.z \subseteq Q
    BY <1>13 DEF D, Within
  <2>3. \A i \in Q : i \in 0 .. n - 1 => Up(p)[i] \in 0 .. (n - 1) - 1
    <3>1. p \in Nat /\ n - 1 \in Nat /\ p <= n - 1
      BY <1>1, <1>2
    <3>2. \A m \in Nat, i \in Rest0(p) : p <= m /\ i \in 0 .. m => Up(p)[i] \in 0 .. m - 1
      BY ONLY <3>1, UpAndDown
    <3>3. QED
      BY ONLY <3>1, <3>2 DEF Q
  <2>4. Relabel(Up(p), P.x) \subseteq 0 .. (n - 1) - 1 /\ Relabel(Up(p), P.z) \subseteq 0 .. (n - 1) - 1
    BY <2>1, <2>2, <2>3 DEF Relabel
  <2>5. F[P] = [x |-> Relabel(Up(p), P.x), z |-> Relabel(Up(p), P.z), neg |-> P.neg]
    BY <1>3, <1>13 DEF Moved
  <2>6. QED
    BY <2>1, <2>4, <2>5 DEF OpsOn, PauliOps
<1>14. \A j \in 1 .. n - 1 : new[j] \in OpsOn(n - 1)
  BY <1>1, <1>4, <1>13
<1>15. IsProper(new)
  BY <1>1, <1>4, <1>10, <1>12, <1>14 DEF IsProper, AreOn
<1>16. Span(new) = Without(G, p)
  <2>1. H = {P \in G : p \notin P.x \cup P.z}
    BY <1>1
  <2>2. Without(G, p) = {Lifted(P, p) : P \in H}
    BY <2>1 DEF Without, Lifted
  <2>3. Image(F, H) = {Lifted(P, p) : P \in H}
    BY <1>1, <1>3 DEF Image
  <2>4. QED
    BY <1>10, <2>2, <2>3
<1>17. ASSUME NEW P \in OpsOn(n - 1), \A j \in 1 .. n - 1 : Commute(P, new[j])
       PROVE  P \in Span(new) \/ Minus(P) \in Span(new)
  <2> DEFINE r == Down(p)
             S == Moved(r, P)
  <2>1. P \in Ops /\ P.x \subseteq 0 .. (n - 1) - 1 /\ P.z \subseteq 0 .. (n - 1) - 1 /\ P.neg \in BOOLEAN
    BY <1>1, <1>17, OpsOnAreOps DEF OpsOn, PauliOps
  <2>2. P.x \subseteq Nat /\ P.z \subseteq Nat /\ P.x \in FinSets /\ P.z \in FinSets
    BY <2>1, OpFields DEF FinSets
  <2>3. /\ IsRelabelling(r, Nat)
        /\ \A i \in Nat : r[i] \in Q /\ Up(p)[r[i]] = i
        /\ \A i \in Nat : i \in 0 .. (n - 1) - 1 => r[i] \in 0 .. n - 1
    BY <1>1, <1>2, UpAndDown DEF Q
  <2> HIDE DEF r
  <2>4. Relabel(r, P.x) \in FinSets /\ Relabel(r, P.z) \in FinSets
    BY <2>2, <2>3, RelabelSets
  <2>5. /\ S.x = Relabel(r, P.x) /\ S.z = Relabel(r, P.z) /\ S.neg = P.neg
        /\ S = [x |-> Relabel(r, P.x), z |-> Relabel(r, P.z), neg |-> P.neg]
    BY DEF Moved
  <2>6. /\ Relabel(r, P.x) \subseteq Q /\ Relabel(r, P.z) \subseteq Q
        /\ Relabel(r, P.x) \subseteq 0 .. n - 1 /\ Relabel(r, P.z) \subseteq 0 .. n - 1
    BY <2>1, <2>2, <2>3 DEF Relabel
  <2>7. Relabel(Up(p), Relabel(r, P.x)) = P.x /\ Relabel(Up(p), Relabel(r, P.z)) = P.z
    BY <2>2, <2>3 DEF Relabel
  <2>8. S \in Ops
    BY <2>1, <2>4, <2>5 DEF Ops
  <2>9. S \in OpsOn(n)
    BY <2>1, <2>5, <2>6 DEF OpsOn, PauliOps
  <2>10. S \in D
    BY <2>5, <2>6, <2>8 DEF D, Within
  <2> HIDE DEF S
  <2>11. F[S] = P
    <3>1. F[S] = [x |-> P.x, z |-> P.z, neg |-> P.neg]
      BY <1>3, <2>5, <2>7, <2>10 DEF Moved
    <3>2. P = [x |-> P.x, z |-> P.z, neg |-> P.neg]
      BY <2>1 DEF Ops
    <3>3. QED
      BY <3>1, <3>2
  <2>12. \A j \in 1 .. n - 1 : Commute(S, R[j])
    BY <1>1, <1>3, <1>4, <1>17, <2>10, <2>11 DEF Carries
  <2>13. p \notin S.x /\ p \notin S.z
    BY <1>3, <2>8, <2>10
  <2>14. \A i \in 1 .. n : Commute(S, K[i])
    BY <1>2, <1>6a, <1>7, <2>8, <2>12, <2>13
  <2>15. S \in G \/ Minus(S) \in G
    BY <1>2, <2>9, <2>14 DEF Completes, G, n
  <2>16. Minus(S) \in D /\ F[Minus(S)] = Minus(P) /\ Minus(S).x = S.x /\ Minus(S).z = S.z
    BY <1>3, <2>8, <2>10, <2>11, MinusIs DEF Carries
  <2>17. S \in H \/ Minus(S) \in H
    BY <1>1, <2>13, <2>15, <2>16
  <2>18. QED
    BY <1>12, <2>10, <2>11, <2>16, <2>17
<1>18. Completes(new)
  BY <1>4, <1>17 DEF Completes
<1>19. QED
  BY <1>4, <1>15, <1>16, <1>18 DEF n, G

LEMMA CommutesWithSpan ==
  ASSUME NEW rows, IsRows(rows), NEW P \in Ops, \A i \in 1 .. Len(rows) : Commute(P, rows[i])
  PROVE  \A R \in Span(rows) : Commute(P, R)
<1> DEFINE G == Span(rows)
           S == {R \in G : Commute(P, R)}
<1>1. IsGroup(G) /\ \A i \in 1 .. Len(rows) : rows[i] \in G
  BY SpanIsGroup
<1>2. Len(rows) \in Nat
  BY RowsCommute
<1> HIDE DEF G
<1>3. Identity \in S
  BY <1>1, ProductWithIdentity DEF IsGroup
<1>4. \A R \in S, i \in 1 .. Len(rows) : Product(R, rows[i]) \in S
  BY <1>1, CommutesWithProduct DEF IsGroup
<1> HIDE DEF S
<1>5. Span(rows) \subseteq S
  BY <1>2, <1>3, <1>4, SpanIsLeast
<1>6. QED
  BY <1>5 DEF S

LEMMA SameCompletes ==
  ASSUME NEW rows, IsRows(rows), Completes(rows), NEW other, IsRows(other),
         Len(other) = Len(rows), Span(other) = Span(rows)
  PROVE  Completes(other)
<1>1. Len(rows) \in Nat /\ \A i \in 1 .. Len(rows) : rows[i] \in Span(rows)
  BY RowsCommute, SpanIsGroup
<1>2. ASSUME NEW P \in OpsOn(Len(rows)), \A i \in 1 .. Len(other) : Commute(P, other[i])
      PROVE  P \in Span(rows) \/ Minus(P) \in Span(rows)
  <2>1. P \in Ops
    BY <1>1, OpsOnAreOps
  <2>2. \A R \in Span(other) : Commute(P, R)
    BY <1>2, <2>1, CommutesWithSpan
  <2>3. \A i \in 1 .. Len(rows) : Commute(P, rows[i])
    BY <1>1, <2>2
  <2>4. QED
    BY <1>2, <2>3 DEF Completes
<1>3. QED
  BY <1>2 DEF Completes

\* the tableau that measure prepares for p
IsPrepared(m, n, p) ==
  /\ IsProper(m) /\ Completes(m) /\ Len(m) = n /\ p \in 0 .. n - 1
  /\ \E piv : IsReduced(m, n, Columns(n, p), n + 1, piv)

LEMMA PreparedIs ==
  ASSUME NEW rows, IsProper(rows), Completes(rows), NEW p \in 0 .. Len(rows) - 1
  PROVE  /\ IsPrepared(Prepared(rows, p), Len(rows), p)
         /\ Span(Prepared(rows, p)) = Span(rows)
<1> DEFINE n == Len(rows)
           m == Prepared(rows, p)
<1>1. IsRows(rows) /\ n \in Nat
  BY RowsCommute DEF IsProper
<1>2. IsColumns(Columns(n, p), n)
  BY <1>1, ColumnsAre
<1>3. /\ IsProper(m) /\ Len(m) = n /\ Span(m) = Span(rows)
      /\ \E piv : IsReduced(m, n, Columns(n, p), n + 1, piv)
  BY <1>2, ProperReduces DEF Prepared
<1>4. IsRows(m)
  BY <1>3 DEF IsProper
<1>5. Completes(m)
  BY <1>1, <1>3, <1>4, SameCompletes
<1>6. QED
  BY <1>3, <1>5 DEF IsPrepared

LEMMA PreparedFacts ==
  ASSUME NEW m, NEW n, NEW p, IsPrepared(m, n, p)
  PROVE  /\ IsProper(m) /\ IsRows(m) /\ Completes(m) /\ Len(m) = n /\ n \in Nat /\ n > 0
         /\ AreOn(m, n) /\ NoMinus(Span(m)) /\ Cardinality(Span(m)) = 2 ^ n
         /\ p \in Nat /\ p \in 0 .. n - 1 /\ DOMAIN m = 1 .. n /\ 1 \in 1 .. n
         /\ \A i \in 1 .. n : m[i] \in Ops /\ m[i] \in OpsOn(n) /\ m[i] \in Span(m)
         /\ IsGroup(Span(m)) /\ IsFiniteSet(Span(m))
<1>1. IsProper(m) /\ Completes(m) /\ Len(m) = n /\ p \in 0 .. n - 1
  BY DEF IsPrepared
<1>2. IsRows(m) /\ AreOn(m, n) /\ NoMinus(Span(m)) /\ Cardinality(Span(m)) = 2 ^ n
  BY <1>1 DEF IsProper
<1>3. n \in Nat /\ DOMAIN m = 1 .. n /\ \A i \in 1 .. n : m[i] \in Ops
  BY <1>1, <1>2, RowsCommute
<1>4. n > 0 /\ p \in Nat /\ 1 \in 1 .. n
  BY <1>1, <1>3
<1>5. \A i \in 1 .. n : m[i] \in OpsOn(n)
  BY <1>1, <1>2 DEF AreOn
<1>6. IsGroup(Span(m)) /\ \A i \in 1 .. n : m[i] \in Span(m)
  BY <1>1, <1>2, SpanIsGroup
<1>7. IsFiniteSet(Span(m))
  BY <1>2, SpanIsFinite
<1>8. QED
  BY <1>1, <1>2, <1>3, <1>4, <1>5, <1>6, <1>7

\* only the first generator may have X at p
LEMMA OnlyFirst ==
  ASSUME NEW m, NEW n, NEW p, IsPrepared(m, n, p), NEW j \in 1 .. n, p \in m[j].x
  PROVE  j = 1
<1> DEFINE cols == Columns(n, p)
<1>1. n \in Nat /\ n > 0 /\ p \in 0 .. n - 1 /\ Len(m) = n
  BY PreparedFacts
<1>2. cols[1] = <<"x", p>>
  BY <1>1, ColumnsAre
<1>3. PICK piv : IsReduced(m, n, cols, n + 1, piv)
  BY DEF IsPrepared
<1> DEFINE h == n + 1
<1> HIDE DEF cols, h
<1>4. Bit(m[j], cols[1])
  BY <1>2 DEF Bit
<1>4a. IsReduced(m, n, cols, h, piv)
  BY <1>3 DEF h
<1>4b. /\ \A i \in 1 .. h - 1 : piv[i] \in 1 .. 2 * n + 1
       /\ \A i, k \in 1 .. h - 1 : i < k => piv[i] < piv[k]
       /\ \A c \in 1 .. 2 * n + 1, i \in 1 .. Len(m) : Bit(m[i], cols[c]) => i < h /\ piv[i] <= c
  BY <1>4a, ReducedFacts
<1>4c. h - 1 = n
  BY <1>1 DEF h
<1>5. /\ \A i \in 1 .. n : piv[i] \in 1 .. 2 * n + 1
      /\ \A i, k \in 1 .. n : i < k => piv[i] < piv[k]
      /\ \A c \in 1 .. 2 * n + 1, i \in 1 .. n : Bit(m[i], cols[c]) => piv[i] <= c
  BY <1>1, <1>4b, <1>4c
<1>6. 1 \in 1 .. 2 * n + 1 /\ 1 \in 1 .. n
  BY <1>1
<1>7. piv[j] <= 1
  BY <1>4, <1>5, <1>6
<1>8. piv[1] \in 1 .. 2 * n + 1 /\ piv[j] \in 1 .. 2 * n + 1 /\ (1 < j => piv[1] < piv[j])
  BY <1>5, <1>6
<1> DEFINE u == piv[1]
           v == piv[j]
<1>9. /\ u \in Int /\ u >= 1 /\ v \in Int /\ v <= 1
      /\ 1 < j => u < v
      /\ j \in Int /\ j >= 1
  <2>1. u \in 1 .. 2 * n + 1 /\ v \in 1 .. 2 * n + 1
    BY <1>8
  <2>2. 1 < j => u < v
    BY <1>8
  <2>3. v <= 1
    BY <1>7
  <2> HIDE DEF u, v
  <2>4. QED
    BY <1>1, <2>1, <2>2, <2>3
<1> HIDE DEF u, v
<1>10. QED
  BY <1>9

-----------------------------------------------------------------------------
(* What measure writes, row by row.                                         *)

\* a row in place of the measured qubit, and in a tableau without it
Cut(P, p, b) == [FlipIf(P, b = 1 /\ p \in P.z) EXCEPT !.z = @ \ {p}]
Dropped(P, p) == [P EXCEPT !.x = MoveUp(@ \ {p}, p), !.z = MoveUp(@ \ {p}, p)]

LEMMA FlipIfIs ==
  ASSUME NEW P \in Ops, NEW f \in BOOLEAN
  PROVE  /\ FlipIf(P, f) = [x |-> P.x, z |-> P.z, neg |-> P.neg # f]
         /\ FlipIf(P, f) \in Ops
<1>1. P = [x |-> P.x, z |-> P.z, neg |-> P.neg] /\ P.x \in FinSets /\ P.z \in FinSets /\ P.neg \in BOOLEAN
  BY DEF Ops
<1>2. DOMAIN P = {"x", "z", "neg"}
  BY <1>1
<1>3. FlipIf(P, f) = [i \in {"x", "z", "neg"} |-> IF i = "neg" THEN P.neg # f ELSE P[i]]
  BY <1>2 DEF FlipIf
<1>4. [x |-> P.x, z |-> P.z, neg |-> P.neg # f] =
        [i \in {"x", "z", "neg"} |-> IF i = "neg" THEN P.neg # f ELSE P[i]]
  OBVIOUS
<1>5. FlipIf(P, f) = [x |-> P.x, z |-> P.z, neg |-> P.neg # f]
  BY <1>3, <1>4
<1>6. QED
  BY <1>1, <1>5 DEF Ops

LEMMA CutIs ==
  ASSUME NEW p \in Nat, NEW b \in {0, 1}, NEW P \in Ops, p \notin P.x
  PROVE  /\ p \in P.z => Cut(P, p, b) = Product(P, Observed(p, b))
         /\ p \notin P.z => Cut(P, p, b) = P
         /\ p \notin Cut(P, p, b).x /\ p \notin Cut(P, p, b).z /\ Cut(P, p, b) \in Ops
         /\ Dropped(FlipIf(P, b = 1 /\ p \in P.z), p) = Lifted(Cut(P, p, b), p)
<1> DEFINE f == (b = 1 /\ p \in P.z)
           Q == FlipIf(P, f)
           C == Cut(P, p, b)
           Z == P.z \ {p}
           s == (P.neg # f)
<1>1. f \in BOOLEAN
  OBVIOUS
<1>2. Q = [x |-> P.x, z |-> P.z, neg |-> s] /\ Q \in Ops
  BY <1>1, FlipIfIs
<1>3. C = [Q EXCEPT !.z = Z]
  <2>1. Q.z = P.z
    BY <1>2
  <2>2. C = [Q EXCEPT !.z = @ \ {p}]
    BY DEF Cut
  <2> HIDE DEF Q, C
  <2>3. QED
    BY <2>1, <2>2
<1>4. P.x \in FinSets /\ P.z \in FinSets /\ P.neg \in BOOLEAN /\ {p} \in FinSets
  BY OpFields, ObservedIs
<1>5. Z \in FinSets
  BY <1>4, FiniteParts
<1>6. P = [x |-> P.x, z |-> P.z, neg |-> P.neg]
  BY DEF Ops
<1> HIDE DEF Q, C, Z
<1>7. C = [x |-> P.x, z |-> Z, neg |-> s]
  <2> DEFINE D == [x |-> P.x, z |-> Z, neg |-> s]
  <2>1. D = [i \in {"x", "z", "neg"} |-> IF i = "z" THEN Z ELSE Q[i]]
    BY <1>2
  <2>2. DOMAIN Q = {"x", "z", "neg"}
    BY <1>2
  <2>3. C = [i \in {"x", "z", "neg"} |-> IF i = "z" THEN Z ELSE Q[i]]
    BY <1>3, <2>2
  <2>4. QED
    BY <2>1, <2>3
<1>8. C \in Ops /\ C.x = P.x /\ C.z = Z
  BY <1>1, <1>4, <1>5, <1>7 DEF Ops
<1>9. p \notin Z
  BY DEF Z
<1>10. ASSUME p \in P.z PROVE C = Product(P, Observed(p, b))
  <2>1. Product(P, Observed(p, b)) = [x |-> P.x, z |-> SymDiff(P.z, {p}), neg |-> P.neg # (b = 1)]
    BY ProductWithZ
  <2>2. SymDiff(P.z, {p}) = Z
    BY <1>10 DEF SymDiff, Z
  <2>3. f = (b = 1)
    BY <1>10
  <2>4. QED
    BY <1>7, <2>1, <2>2, <2>3
<1>11. ASSUME p \notin P.z PROVE C = P
  <2>1. Z = P.z
    BY <1>11 DEF Z
  <2>2. f = FALSE
    BY <1>11
  <2>3. s = P.neg
    BY <1>4, <2>2
  <2>4. QED
    BY <1>6, <1>7, <2>1, <2>3
<1>12. Dropped(Q, p) = Lifted(C, p)
  <2> DEFINE X2 == MoveUp(P.x, p)
             Z2 == MoveUp(Z, p)
  <2>1. P.x \ {p} = P.x /\ Q.x = P.x /\ Q.z = P.z /\ Q.neg = s /\ C.neg = s
    BY <1>2, <1>7
  <2>2. Dropped(Q, p) = [Q EXCEPT !.x = MoveUp(Q.x \ {p}, p), !.z = MoveUp(Q.z \ {p}, p)]
    BY DEF Dropped
  <2>3. Dropped(Q, p) = [Q EXCEPT !.x = X2, !.z = Z2]
    BY <2>1, <2>2 DEF Z
  <2>4. Lifted(C, p) = [C EXCEPT !.x = MoveUp(C.x, p), !.z = MoveUp(C.z, p)]
    BY DEF Lifted
  <2>5. Lifted(C, p) = [C EXCEPT !.x = X2, !.z = Z2]
    BY <1>8, <2>4
  <2> HIDE DEF X2, Z2
  <2>6. Dropped(Q, p) = [x |-> X2, z |-> Z2, neg |-> Q.neg]
    BY <1>2, <2>3, FieldsChange
  <2>7. Lifted(C, p) = [x |-> X2, z |-> Z2, neg |-> C.neg]
    BY <1>8, <2>5, FieldsChange
  <2>8. QED
    BY <2>1, <2>6, <2>7
<1>13. QED
  BY <1>8, <1>9, <1>10, <1>11, <1>12 DEF Q, C

\* the generators when the outcome is random
AreRandomRows(m, n, p, b) ==
  /\ Kept(m, p, b) = [i \in 1 .. n |-> IF i = 1 THEN Observed(p, b) ELSE Cut(m[i], p, b)]
  /\ Removed(m, p, b) = [j \in 1 .. n - 1 |-> Dropped(FlipIf(m[j + 1], b = 1 /\ p \in m[j + 1].z), p)]
  /\ Tail(m) = [j \in 1 .. n - 1 |-> m[j + 1]]

LEMMA RandomRows ==
  ASSUME NEW m \in Seq(Ops), NEW n, n \in Nat, n > 0, Len(m) = n, DOMAIN m = 1 .. n,
         NEW p, NEW b, p \in m[1].x
  PROVE  AreRandomRows(m, n, p, b)
<1> DEFINE flip(i) == FlipIf(m[i], b = 1 /\ p \in m[i].z)
           T == [j \in 1 .. n - 1 |-> flip(j + 1)]
           O == Observed(p, b)
<1>1. Signed(m, p, b) = [i \in 1 .. n |-> flip(i)]
  BY DEF Signed
<1> HIDE DEF flip
<1>2. Tail([i \in 1 .. n |-> flip(i)]) = T
  <2>1. Len([i \in 1 .. n |-> flip(i)]) = n
    OBVIOUS
  <2>2. \A j \in 1 .. n - 1 : [i \in 1 .. n |-> flip(i)][j + 1] = flip(j + 1)
    OBVIOUS
  <2> DEFINE s == [i \in 1 .. n |-> flip(i)]
  <2>3. Tail(s) = [j \in 1 .. Len(s) - 1 |-> s[j + 1]]
    OBVIOUS
  <2> HIDE DEF s
  <2>4. QED
    BY <2>1, <2>2, <2>3 DEF s
<1>3. Tail(Signed(m, p, b)) = T /\ DOMAIN T = 1 .. n - 1 /\ Len(T) = n - 1
  BY <1>1, <1>2
<1>4. Removed(m, p, b) = [j \in 1 .. n - 1 |-> Dropped(flip(j + 1), p)]
  <2>1. Removed(m, p, b) = DropColumns(Tail(Signed(m, p, b)), p)
    BY DEF Removed, IsRandom
  <2>2. Removed(m, p, b) = DropColumns(T, p)
    BY <1>3, <2>1
  <2>3. \A j \in 1 .. n - 1 : T[j] = flip(j + 1)
    OBVIOUS
  <2> HIDE DEF T
  <2>4. DropColumns(T, p) = [j \in 1 .. n - 1 |-> Dropped(T[j], p)]
    BY <1>3 DEF DropColumns, Dropped
  <2>5. QED
    BY <2>2, <2>3, <2>4
<1>5. Kept(m, p, b) = [i \in 1 .. n |-> IF i = 1 THEN O ELSE Cut(m[i], p, b)]
  <2> DEFINE C == [j \in 1 .. n - 1 |-> Cut(m[j + 1], p, b)]
             cut(R) == [R EXCEPT !.z = @ \ {p}]
  <2>1. Kept(m, p, b) = <<O>> \o [i \in DOMAIN T |-> cut(T[i])]
    BY <1>3 DEF Kept, IsRandom
  <2>2. \A j \in 1 .. n - 1 : T[j] = flip(j + 1)
    OBVIOUS
  <2>3. \A j \in 1 .. n - 1 : cut(flip(j + 1)) = Cut(m[j + 1], p, b)
    BY DEF Cut, flip
  <2> HIDE DEF T, cut
  <2>4. [i \in DOMAIN T |-> cut(T[i])] = C
    BY <1>3, <2>2, <2>3
  <2>5. Len(C) = n - 1 /\ \A j \in 1 .. n - 1 : C[j] = Cut(m[j + 1], p, b)
    OBVIOUS
  <2> HIDE DEF C
  <2>6. <<O>> \o C = [i \in 1 .. 1 + (n - 1) |-> IF i <= 1 THEN <<O>>[i] ELSE C[i - 1]]
    BY <2>5
  <2>7. 1 + (n - 1) = n
    OBVIOUS
  <2>8. \A i \in 1 .. n : (IF i <= 1 THEN <<O>>[i] ELSE C[i - 1]) = (IF i = 1 THEN O ELSE Cut(m[i], p, b))
    <3>1. ASSUME NEW i \in 1 .. n, i # 1 PROVE C[i - 1] = Cut(m[i], p, b)
      <4>1. i - 1 \in 1 .. n - 1 /\ i - 1 + 1 = i
        BY <3>1
      <4>2. QED
        BY <2>5, <4>1
    <3>2. \A i \in 1 .. n : i <= 1 <=> i = 1
      OBVIOUS
    <3>3. <<O>>[1] = O
      OBVIOUS
    <3>4. QED
      BY <3>1, <3>2, <3>3
  <2>9. QED
    BY <2>1, <2>4, <2>6, <2>7, <2>8
<1>6. Tail(m) = [j \in 1 .. n - 1 |-> m[j + 1]]
  <2> DEFINE t == Tail(m)
  <2>1. m # << >>
    OBVIOUS
  <2>2. t \in Seq(Ops) /\ Len(t) = n - 1 /\ \A j \in 1 .. n - 1 : t[j] = m[j + 1]
    BY <2>1, HeadTailProperties
  <2> HIDE DEF t
  <2>3. t = [j \in 1 .. n - 1 |-> t[j]]
    BY <2>2
  <2>4. t = [j \in 1 .. n - 1 |-> m[j + 1]]
    BY <2>2, <2>3
  <2>5. QED
    BY <2>4 DEF t
<1>7. QED
  BY <1>4, <1>5, <1>6 DEF flip, AreRandomRows

(* With X at p in a generator, both outcomes are possible, and the new      *)
(* generators are those of the collapsed state.                             *)
LEMMA RandomOutcome ==
  ASSUME NEW m, NEW n, NEW p, IsPrepared(m, n, p), p \in m[1].x, NEW b \in {0, 1}
  PROVE  /\ HasOutcome(Kept(m, p, b), 1, p, b) /\ Len(Kept(m, p, b)) = n
         /\ Span(Kept(m, p, b)) = Collapse(Span(m), p, b)
         /\ IsRestOf(Removed(m, p, b), Kept(m, p, b), 1, p)
         /\ CanObserve(Span(m), p, b)
<1> DEFINE G == Span(m)
           T == Tail(m)
           O == Observed(p, b)
           K == Kept(m, p, b)
           H == Span(T)
           W == WithProducts(H, O)
<1>1. /\ IsRows(m) /\ Completes(m) /\ Len(m) = n /\ n \in Nat /\ n > 0
      /\ AreOn(m, n) /\ NoMinus(G) /\ Cardinality(G) = 2 ^ n
      /\ p \in Nat /\ p \in 0 .. n - 1 /\ DOMAIN m = 1 .. n /\ 1 \in 1 .. n
      /\ \A i \in 1 .. n : m[i] \in Ops /\ m[i] \in OpsOn(n) /\ m[i] \in G
      /\ IsGroup(G) /\ IsFiniteSet(G)
  BY PreparedFacts
<1>2. /\ O \in Ops /\ O.x = NoQubits /\ O.z = {p}
      /\ Minus(O) = Observed(p, 1 - b)
      /\ \A P \in Ops : /\ Commute(P, O) <=> p \notin P.x
                        /\ Commute(O, P) <=> p \notin P.x
                        /\ Commute(P, ZAt(p)) <=> p \notin P.x
  BY <1>1, ObservedIs
<1>3. /\ K = [i \in 1 .. n |-> IF i = 1 THEN O ELSE Cut(m[i], p, b)]
      /\ Removed(m, p, b) = [j \in 1 .. n - 1 |-> Dropped(FlipIf(m[j + 1], b = 1 /\ p \in m[j + 1].z), p)]
      /\ T = [j \in 1 .. n - 1 |-> m[j + 1]]
  <2>1. m \in Seq(Ops)
    BY <1>1 DEF IsRows
  <2>2. n \in Nat /\ n > 0 /\ Len(m) = n /\ DOMAIN m = 1 .. n /\ p \in m[1].x
    BY <1>1
  <2>3. AreRandomRows(m, n, p, b)
    BY <2>1, <2>2, RandomRows
  <2>4. QED
    BY <2>3 DEF AreRandomRows
<1>4. \A i \in 1 .. n : i # 1 => p \notin m[i].x
  BY OnlyFirst
<1>5. \A i \in 1 .. n : i # 1 =>
        /\ p \in m[i].z => Cut(m[i], p, b) = Product(m[i], O)
        /\ p \notin m[i].z => Cut(m[i], p, b) = m[i]
        /\ p \notin Cut(m[i], p, b).x /\ p \notin Cut(m[i], p, b).z /\ Cut(m[i], p, b) \in Ops
        /\ Dropped(FlipIf(m[i], b = 1 /\ p \in m[i].z), p) = Lifted(Cut(m[i], p, b), p)
  BY <1>1, <1>4, CutIs
<1>6. \A j \in 1 .. n - 1 : j + 1 \in 1 .. n /\ j + 1 # 1 /\ T[j] = m[j + 1]
  BY <1>1, <1>3
<1>7. n - 1 \in Nat /\ n - 1 + 1 = n
  BY <1>1
<1>8. T \in Seq(Ops) /\ Len(T) = n - 1
  <2>1. \A j \in 1 .. n - 1 : m[j + 1] \in Ops
    BY <1>1, <1>6
  <2>2. T \in [1 .. n - 1 -> Ops]
    BY <1>3, <2>1
  <2> HIDE DEF T
  <2>3. QED
    BY <1>7, <2>2
<1>9. K \in Seq(Ops) /\ Len(K) = n
  <2>1. \A i \in 1 .. n : (IF i = 1 THEN O ELSE Cut(m[i], p, b)) \in Ops
    BY <1>2, <1>5
  <2>2. K \in [1 .. n -> Ops]
    BY <1>3, <2>1
  <2> HIDE DEF K
  <2>3. QED
    BY <1>1, <2>2
<1>10. K[1] = O /\ \A i \in 1 .. n : i # 1 => K[i] = Cut(m[i], p, b)
  BY <1>1, <1>3
<1>11. IsWith(m, T, m[1])
  <2>1. \A j \in 1 .. n : j # 1 => j - 1 \in 1 .. n - 1 /\ T[j - 1] = m[j]
    <3>1. ASSUME NEW j \in 1 .. n, j # 1 PROVE j - 1 \in 1 .. n - 1 /\ T[j - 1] = m[j]
      <4>1. j - 1 \in 1 .. n - 1 /\ j - 1 + 1 = j
        BY <1>1, <3>1
      <4>2. QED
        BY <1>6, <4>1
    <3>2. QED
      BY <3>1
  <2> HIDE DEF T
  <2>2. \A i \in 1 .. Len(T) : \E j \in 1 .. Len(m) : T[i] = m[j]
    BY <1>1, <1>6, <1>8
  <2>3. \A j \in 1 .. Len(m) : m[j] = m[1] \/ \E i \in 1 .. Len(T) : m[j] = T[i]
    BY <1>1, <1>8, <2>1
  <2>4. QED
    BY <1>1, <1>8, <2>2, <2>3 DEF IsWith
<1> HIDE DEF G, T, O, K, H, W
<1>12. IsRows(T) /\ CommutesWith(m[1], H) /\ G = WithProducts(H, m[1])
  BY <1>1, <1>11, SpanWith DEF G, H
<1>13. IsGroup(H) /\ H \subseteq G /\ \A j \in 1 .. n - 1 : T[j] \in H
  BY <1>8, <1>12, SpanIsGroup DEF H, WithProducts
<1>14. IsFiniteSet(H)
  BY <1>1, <1>13, FS_Subset
<1>15. \A P \in H : P \in Ops /\ p \notin P.x
  <2> DEFINE S == {P \in Ops : p \notin P.x}
  <2>0. Len(T) \in Nat /\ Identity \in H
    BY <1>7, <1>8, <1>13 DEF IsGroup
  <2>1. Identity \in S
    BY IdentityIsOp DEF NoQubits
  <2> DEFINE S2 == {P \in H : p \notin P.x}
  <2>2. \A P \in S2, i \in 1 .. Len(T) : Product(P, T[i]) \in S2
    <3>1. ASSUME NEW P \in S2, NEW i \in 1 .. Len(T) PROVE Product(P, T[i]) \in S2
      <4>1. T[i] \in H /\ p \notin T[i].x /\ P \in H /\ p \notin P.x
        BY <1>4, <1>6, <1>8, <1>13
      <4>2. Product(P, T[i]) \in H
        BY <1>13, <4>1 DEF IsGroup
      <4>3. Product(P, T[i]).x = SymDiff(P.x, T[i].x)
        BY ProductFields
      <4>4. p \notin Product(P, T[i]).x
        BY <4>1, <4>3 DEF SymDiff
      <4>5. QED
        BY <4>2, <4>4
    <3>2. QED
      BY <3>1
  <2>3. Identity \in S2
    BY <2>0, <2>1
  <2> HIDE DEF S2
  <2>4. H \subseteq S2
    BY <2>0, <2>2, <2>3, SpanIsLeast DEF H
  <2>5. QED
    BY <1>13, <2>4 DEF S2, IsGroup
<1>16. CommutesWith(O, H)
  BY <1>2, <1>15 DEF CommutesWith
<1>17. \A P \in G : P \in Ops /\ Commute(P, m[1])
  BY <1>1 DEF IsGroup
<1>18. IsGroup(W) /\ H \subseteq W /\ O \in W
  BY <1>2, <1>13, <1>16, GroupGrows DEF W
<1>19. {P \in G : Commute(P, ZAt(p))} = H
  <2>1. \A P \in H : p \in Product(P, m[1]).x
    <3>1. ASSUME NEW P \in H PROVE p \in Product(P, m[1]).x
      <4>1. Product(P, m[1]).x = SymDiff(P.x, m[1].x)
        BY ProductFields
      <4>2. QED
        BY <1>15, <4>1 DEF SymDiff
    <3>2. QED
      BY <3>1
  <2>2. \A P \in G : p \notin P.x => P \in H
    BY <1>12, <2>1 DEF WithProducts
  <2>3. QED
    BY <1>2, <1>13, <1>15, <1>17, <2>2
<1>20. Collapse(G, p, b) = W
  BY <1>19 DEF Collapse, W, WithProducts, O
<1>21. O \notin G /\ Minus(O) \notin G
  <2>1. ~Commute(O, m[1])
    BY <1>1, <1>2
  <2>2. ~Commute(Minus(O), m[1])
    <3>1. Commute(m[1], Minus(O)) <=> Commute(m[1], O)
      BY <1>1, <1>2, CommutesWithMinus
    <3>2. Minus(O) \in Ops
      BY <1>2, MinusIs
    <3>3. Commute(Minus(O), m[1]) <=> Commute(m[1], Minus(O))
      BY <1>1, <3>2, CommuteBoth
    <3>4. QED
      BY <1>1, <1>2, <3>1, <3>3
  <2>3. QED
    BY <1>17, <2>1, <2>2
<1>22. CanObserve(G, p, b)
  BY <1>21 DEF CanObserve, O
<1>23. \A i \in 1 .. n : i # 1 => m[i] \in H
  <2>1. ASSUME NEW i \in 1 .. n, i # 1 PROVE m[i] \in H
    <3>1. i - 1 \in 1 .. n - 1 /\ i - 1 + 1 = i
      BY <1>1, <2>1
    <3>2. QED
      BY <1>6, <1>13, <3>1
  <2>2. QED
    BY <2>1
<1>24. \A i \in 1 .. n : K[i] \in W
  BY <1>5, <1>10, <1>18, <1>23 DEF W, WithProducts
<1>25. IsRows(K) /\ Span(K) \subseteq W
  BY <1>9, <1>18, <1>24, GroupHoldsSpan
<1>26. IsGroup(Span(K)) /\ \A i \in 1 .. n : K[i] \in Span(K)
  BY <1>9, <1>25, SpanIsGroup
<1>27. O \in Span(K) /\ \A i \in 1 .. n : i # 1 => m[i] \in Span(K)
  <2>1. O \in Span(K)
    BY <1>1, <1>10, <1>26
  <2>2. ASSUME NEW i \in 1 .. n, i # 1 PROVE m[i] \in Span(K)
    <3>1. K[i] \in Span(K) /\ K[i] = Cut(m[i], p, b)
      BY <1>10, <1>26, <2>2
    <3>2. CASE p \notin m[i].z
      BY <1>5, <2>2, <3>1, <3>2
    <3>3. CASE p \in m[i].z
      <4>1. K[i] = Product(m[i], O)
        BY <1>5, <2>2, <3>1, <3>3
      <4>2. Commute(m[i], O)
        BY <1>1, <1>2, <1>4, <2>2
      <4>3. Product(Product(m[i], O), O) = m[i]
        BY <1>1, <1>2, <4>2, ProductTwice
      <4>4. Product(K[i], O) \in Span(K)
        BY <1>26, <2>1, <3>1 DEF IsGroup
      <4>5. QED
        BY <4>1, <4>3, <4>4
    <3>4. QED
      BY <3>2, <3>3
  <2>3. QED
    BY <2>1, <2>2
<1>28. W \subseteq Span(K)
  <2>1. IsGroup(Span(K)) /\ T \in Seq(Ops) /\ \A j \in 1 .. Len(T) : T[j] \in Span(K)
    BY <1>6, <1>8, <1>26, <1>27
  <2>2. H \subseteq Span(K)
    BY ONLY <2>1, GroupHoldsSpan DEF H
  <2>3. QED
    BY <1>26, <1>27, <2>2 DEF W, WithProducts, IsGroup
<1>29. Span(K) = W
  BY <1>25, <1>28
<1>30. Cardinality(W) = 2 ^ n
  <2>1. m[1] \notin H
    BY <1>15
  <2>2. Cardinality(G) = 2 * Cardinality(H)
    BY <1>1, <1>12, <1>13, <1>14, <2>1, CosetCounts
  <2>3. Cardinality(W) = 2 * Cardinality(H)
    BY <1>2, <1>13, <1>14, <1>16, <1>21, CosetCounts DEF W
  <2>4. QED
    BY <1>1, <2>2, <2>3
<1>31. NoMinus(W)
  <2>1. SUFFICES ASSUME NEW P \in H, Minus(Identity) = Product(P, O) PROVE FALSE
    BY <1>1, <1>13 DEF W, WithProducts, NoMinus
  <2>2. P \in Ops /\ Commute(P, O)
    BY <1>2, <1>15
  <2>3. Product(P, O).x = SymDiff(P.x, NoQubits) /\ Product(P, O).z = SymDiff(P.z, {p})
    BY <1>2, ProductFields
  <2>4. Minus(Identity).x = NoQubits /\ Minus(Identity).z = NoQubits
    BY IdentityIsOp, MinusIs
  <2>5. P.x = NoQubits
    BY <2>1, <2>3, <2>4, SymDiffGroup
  <2>6. P.z = {p}
    BY <2>1, <2>3, <2>4 DEF SymDiff, NoQubits
  <2>7. P = O \/ P = Minus(O)
    BY <1>2, <2>2, <2>5, <2>6, SameUpToSign
  <2>8. QED
    BY <1>13, <1>21, <2>7
<1>32. \A i \in 1 .. n : K[i] \in OpsOn(n)
  <2>1. O \in OpsOn(n)
    BY <1>1 DEF O, Observed, OpsOn, PauliOps
  <2>2. \A i \in 1 .. n : Product(m[i], O) \in OpsOn(n)
    BY <1>1, <2>1, ProductIsOn
  <2>3. QED
    BY <1>1, <1>5, <1>10, <2>1, <2>2
<1>33. IsProper(K)
  BY <1>1, <1>9, <1>25, <1>29, <1>30, <1>31, <1>32 DEF IsProper, AreOn
<1>34. ASSUME NEW P \in OpsOn(n), \A i \in 1 .. n : Commute(P, K[i])
       PROVE  P \in W \/ Minus(P) \in W
  <2>1. P \in Ops
    BY <1>1, <1>34, OpsOnAreOps
  <2>2. p \notin P.x
    BY <1>1, <1>2, <1>10, <1>34, <2>1
  <2>3. Commute(P, O)
    BY <1>2, <2>1, <2>2
  <2>4. \A i \in 1 .. n : i # 1 => Commute(P, m[i])
    <3>1. ASSUME NEW i \in 1 .. n, i # 1 PROVE Commute(P, m[i])
      <4>1. Commute(P, K[i]) /\ K[i] = Cut(m[i], p, b)
        BY <1>10, <1>34, <3>1
      <4>2. CASE p \notin m[i].z
        BY <1>5, <3>1, <4>1, <4>2
      <4>3. CASE p \in m[i].z
        <5>1. Commute(P, Product(m[i], O))
          BY <1>5, <3>1, <4>1, <4>3
        <5>2. Commute(P, Product(m[i], O)) <=> (Commute(P, m[i]) <=> Commute(P, O))
          BY <1>1, <1>2, <2>1, <3>1, CommutesWithProduct
        <5>3. QED
          BY <2>3, <5>1, <5>2
      <4>4. QED
        BY <4>2, <4>3
    <3>2. QED
      BY <3>1
  <2>5. ASSUME NEW S \in OpsOn(n), S \in Ops, p \notin S.x, \A i \in 1 .. n : Commute(S, m[i])
        PROVE  S \in H \/ Minus(S) \in H
    <3>1. S \in G \/ Minus(S) \in G
      BY <1>1, <2>5 DEF Completes, G
    <3>2. Minus(S) \in Ops /\ Minus(S).x = S.x
      BY <2>5, MinusIs
    <3>3. QED
      BY <1>2, <1>19, <2>5, <3>1, <3>2
  <2>6. CASE Commute(P, m[1])
    <3>1. \A i \in 1 .. n : Commute(P, m[i])
      BY <2>4, <2>6
    <3>2. QED
      BY <1>18, <2>1, <2>2, <2>5, <3>1
  <2>7. CASE ~Commute(P, m[1])
    <3> DEFINE S == Product(P, O)
    <3>1. S \in Ops /\ S.x = P.x
      <4>1. S \in Ops
        BY <1>2, <2>1, <2>3, ProductIsOp
      <4>2. S.x = SymDiff(P.x, NoQubits)
        BY <1>2, ProductFields
      <4>3. QED
        BY <4>1, <4>2, SymDiffGroup
    <3>2. S \in OpsOn(n)
      <4>1. O \in OpsOn(n)
        BY <1>1, <1>10, <1>32
      <4>2. QED
        BY <1>1, <4>1, ProductIsOn
    <3>3. ASSUME NEW i \in 1 .. n PROVE Commute(S, m[i])
      <4>1. Commute(m[i], S) <=> (Commute(m[i], P) <=> Commute(m[i], O))
        BY <1>1, <1>2, <2>1, CommutesWithProduct
      <4>2. Commute(m[i], O) <=> p \notin m[i].x
        BY <1>1, <1>2
      <4>3. Commute(m[i], P) <=> Commute(P, m[i])
        BY <1>1, <2>1, CommuteBoth
      <4>4. Commute(m[i], S)
        BY <1>4, <2>4, <2>7, <4>1, <4>2, <4>3
      <4>5. QED
        BY <1>1, <3>1, <4>4, CommuteBoth
    <3>4. Product(S, O) = P
      BY <1>2, <2>1, <2>3, ProductTwice
    <3>5. Commute(S, O)
      BY <1>2, <2>2, <3>1
    <3> HIDE DEF S
    <3>6. S \in H \/ Minus(S) \in H
      BY <2>2, <2>5, <3>1, <3>2, <3>3
    <3>7. CASE S \in H
      BY <3>4, <3>7 DEF W, WithProducts
    <3>8. CASE Minus(S) \in H
      <4>1. Product(Minus(S), O) \in W
        BY <3>8 DEF W, WithProducts
      <4>2. Minus(S) \in Ops /\ Commute(O, Minus(S)) /\ Commute(O, S)
        BY <1>2, <3>1, <3>5, MinusIs, CommuteBoth, CommutesWithMinus
      <4>3. Product(Minus(S), O) = Product(O, Minus(S)) /\ Product(O, S) = Product(S, O)
        BY <1>2, <3>1, <4>2, ProductCommutes
      <4>4. Product(O, Minus(S)) = Minus(Product(O, S))
        BY <1>2, <3>1, <4>2, ProductOfMinus
      <4>5. QED
        BY <3>4, <4>1, <4>3, <4>4
    <3>9. QED
      BY <3>6, <3>7, <3>8
  <2>8. QED
    BY <2>6, <2>7
<1>35. Completes(K)
  BY <1>9, <1>29, <1>34 DEF Completes
<1>36. HasOutcome(K, 1, p, b)
  <2>1. \A i \in 1 .. n : i # 1 => p \notin K[i].x /\ p \notin K[i].z
    BY <1>5, <1>10
  <2>2. QED
    BY <1>1, <1>9, <1>10, <1>33, <1>35, <2>1 DEF HasOutcome, O
<1>37. IsRestOf(Removed(m, p, b), K, 1, p)
  <2>1. \A j \in 1 .. n - 1 : Omit(K, 1)[j] = K[j + 1]
    <3>1. Omit(K, 1) = [j \in 1 .. n - 1 |-> IF j < 1 THEN K[j] ELSE K[j + 1]]
      BY <1>9 DEF Omit
    <3>2. \A j \in 1 .. n - 1 : ~(j < 1)
      BY <1>7
    <3>3. QED
      BY <3>1, <3>2
  <2>2. \A j \in 1 .. n - 1 : K[j + 1] = Cut(m[j + 1], p, b)
    BY <1>6, <1>10
  <2>3. \A j \in 1 .. n - 1 : UpMap(p)[Cut(m[j + 1], p, b)] = Lifted(Cut(m[j + 1], p, b), p)
    BY <1>1, <1>5, <1>6, UpCarries
  <2>4. \A j \in 1 .. n - 1 : Dropped(FlipIf(m[j + 1], b = 1 /\ p \in m[j + 1].z), p) = UpMap(p)[Omit(K, 1)[j]]
    BY <1>5, <1>6, <2>1, <2>2, <2>3
  <2>5. QED
    BY <1>3, <1>9, <2>4 DEF IsRestOf
<1>38. QED
  BY <1>9, <1>20, <1>22, <1>29, <1>36, <1>37 DEF G, K

\* among the columns that come first for p, only one is the Z column of p
LEMMA OneColumn ==
  ASSUME NEW n \in Nat, NEW p \in 0 .. n - 1, NEW c \in n + 2 .. 2 * n
  PROVE  Columns(n, p)[c] # <<"z", p>>
<1>1. c \in 1 .. 2 * n + 1 /\ ~(c <= n) /\ c <= 2 * n /\ c - n # 1 /\ c - n >= 2
  OBVIOUS
<1> DEFINE q == IF c - n <= p + 1 THEN c - n - 2 ELSE c - n - 1
<1>2. Columns(n, p)[c] = <<"z", q>>
  BY <1>1 DEF Columns
<1>3. q # p
  OBVIOUS
<1> HIDE DEF q
<1>4. QED
  BY <1>2, <1>3

\* With no X at p, Z at p or its opposite stabilizes the state.
IsFixed(m, n, p, b) ==
  /\ b \in {0, 1}
  /\ Observed(p, b) \in Span(m)
  /\ \A P \in Span(m) : P \in Ops /\ p \notin P.x

LEMMA FixedIs ==
  ASSUME NEW m, NEW n, NEW p, IsPrepared(m, n, p), p \notin m[1].x
  PROVE  IsFixed(m, n, p, FixedOutcome(m, p))
<1> DEFINE O == Observed(p, 0)
           I == Observed(p, 1)
           cols == Columns(n, p)
           G == Span(m)
<1>1. /\ IsProper(m) /\ IsRows(m) /\ Completes(m) /\ Len(m) = n /\ n \in Nat /\ n > 0
      /\ p \in Nat /\ p \in 0 .. n - 1 /\ IsGroup(G)
      /\ \A i \in 1 .. n : m[i] \in Ops
  BY PreparedFacts
<1>2. \A i \in 1 .. n : p \notin m[i].x
  BY OnlyFirst
<1>3. /\ O \in Ops /\ O.x = NoQubits /\ O.z = {p} /\ Minus(O) = Observed(p, 1 - 0)
      /\ \A P \in Ops : Commute(O, P) <=> p \notin P.x
  BY <1>1, ObservedIs
<1>4. Minus(O) = I
  BY <1>3
<1>5. Minus(I) = O
  BY <1>3, <1>4, MinusIs
<1>6. IsColumns(cols, Len(m))
  BY <1>1, ColumnsAre
<1>7. O \in OpsOn(n)
  BY <1>1 DEF Observed, OpsOn, PauliOps
<1>8. FixedOutcome(m, p) = IF InGroup(m, O, cols) THEN 0 ELSE 1
  BY <1>1 DEF FixedOutcome
<1> HIDE DEF O, I, cols, G
<1>9. \A i \in 1 .. Len(m) : Commute(O, m[i])
  BY <1>1, <1>2, <1>3
<1>10. \A P \in G : P \in Ops /\ p \notin P.x
  <2>1. \A P \in Span(m) : Commute(O, P)
    BY <1>1, <1>3, <1>9, CommutesWithSpan
  <2>2. QED
    BY <1>1, <1>3, <2>1 DEF G, IsGroup
<1>11. O \in Span(m) \/ I \in Span(m)
  BY <1>1, <1>4, <1>7, <1>9 DEF Completes
<1>12. CASE O \in Span(m)
  <2>1. InGroup(m, O, cols)
    BY <1>1, <1>6, <1>12, InGroupExact
  <2>2. QED
    BY <1>8, <1>10, <1>12, <2>1 DEF IsFixed, O, G
<1>13. CASE I \in Span(m)
  <2>1. ~InGroup(m, Minus(I), cols)
    BY <1>1, <1>6, <1>13, InGroupExact
  <2>2. FixedOutcome(m, p) = 1
    BY <1>5, <1>8, <2>1
  <2>3. QED
    BY <1>10, <1>13, <2>2 DEF IsFixed, I, G
<1>14. QED
  BY <1>11, <1>12, <1>13

\* the state is that of the one outcome it allows
LEMMA FixedCollapse ==
  ASSUME NEW m, NEW n, NEW p, IsPrepared(m, n, p), NEW b, IsFixed(m, n, p, b)
  PROVE  /\ Collapse(Span(m), p, b) = Span(m)
         /\ \A c \in {0, 1} : CanObserve(Span(m), p, c) <=> c = b
<1> DEFINE G == Span(m)
           O == Observed(p, b)
<1>1. IsRows(m) /\ p \in Nat /\ NoMinus(G) /\ IsGroup(G) /\ IsFiniteSet(G)
  BY PreparedFacts
<1>2. b \in {0, 1} /\ O \in G /\ \A P \in G : P \in Ops /\ p \notin P.x
  BY DEF IsFixed
<1>3. /\ O \in Ops /\ Minus(O) = Observed(p, 1 - b)
      /\ \A P \in Ops : /\ Commute(P, O) <=> p \notin P.x
                        /\ Commute(P, ZAt(p)) <=> p \notin P.x
  BY <1>1, <1>2, ObservedIs
<1>4. {P \in G : Commute(P, ZAt(p))} = G
  BY <1>2, <1>3
<1>5. Collapse(G, p, b) = WithProducts(G, O)
  BY <1>4 DEF Collapse, WithProducts
<1> HIDE DEF G, O
<1>6. CommutesWith(O, G)
  BY <1>2, <1>3 DEF CommutesWith
<1>7. WithProducts(G, O) = G
  BY <1>1, <1>2, <1>3, <1>6, CosetCounts
<1>8. Minus(O) \notin G
  BY <1>1, <1>2, NotBothSigns
<1>9. ASSUME NEW c \in {0, 1}, c # b PROVE ~CanObserve(G, p, c)
  <2>1. 1 - c = b
    BY <1>2, <1>9
  <2>2. Minus(Observed(p, c)) = Observed(p, 1 - c)
    BY <1>1, ObservedIs
  <2>3. Minus(Observed(p, c)) = O
    BY <2>1, <2>2 DEF O
  <2>4. QED
    BY <1>2, <2>3 DEF CanObserve
<1>10. CanObserve(G, p, b)
  BY <1>8 DEF CanObserve, O
<1>11. QED
  BY <1>2, <1>5, <1>7, <1>9, <1>10 DEF G

\* one generator says the outcome, and the others have nothing at p
LEMMA FixedGenerator ==
  ASSUME NEW m, NEW n, NEW p, IsPrepared(m, n, p), NEW b, IsFixed(m, n, p, b)
  PROVE  \E k \in 1 .. n : HasOutcome(m, k, p, b)
<1> DEFINE G == Span(m)
           O == Observed(p, b)
           cols == Columns(n, p)
<1>1. /\ IsProper(m) /\ IsRows(m) /\ Completes(m) /\ Len(m) = n /\ n \in Nat /\ n > 0
      /\ p \in Nat /\ p \in 0 .. n - 1 /\ NoMinus(Span(m))
      /\ \A i \in 1 .. n : m[i] \in Ops /\ m[i] \in Span(m)
  BY PreparedFacts
<1>2. b \in {0, 1} /\ O \in Span(m) /\ \A P \in Span(m) : P \in Ops /\ p \notin P.x
  BY DEF IsFixed
<1>3. O \in Ops /\ O.x = NoQubits /\ O.z = {p}
  BY <1>1, <1>2, ObservedIs
<1>4. IsColumns(cols, n) /\ cols[n + 1] = <<"z", p>>
  BY <1>1, ColumnsAre
<1>5. \A c \in n + 2 .. 2 * n : cols[c] # <<"z", p>>
  BY <1>1, OneColumn
<1>6. PICK piv : IsReduced(m, n, cols, n + 1, piv)
  BY DEF IsPrepared
<1> HIDE DEF O, cols, G
<1>7. /\ \A c \in 1 .. n : cols[c][1] = "x"
      /\ \A c \in n + 1 .. 2 * n : cols[c][1] = "z"
  BY <1>4 DEF IsColumns
<1>8. \A c \in 1 .. n : ~Bit(O, cols[c])
  <2>1. ASSUME NEW c \in 1 .. n PROVE ~Bit(O, cols[c])
    <3>1. Bit(O, cols[c]) <=> cols[c][2] \in O.x
      BY <1>7 DEF Bit
    <3>2. QED
      BY <1>3, <3>1 DEF NoQubits
  <2>2. QED
    BY <2>1
<1>9. Bit(O, cols[n + 1])
  BY <1>3, <1>4 DEF Bit
<1>10. \A c \in n + 1 .. 2 * n : Bit(O, cols[c]) => c = n + 1
  <2>1. ASSUME NEW c \in n + 1 .. 2 * n, Bit(O, cols[c]), c # n + 1 PROVE FALSE
    <3>1. cols[c][1] = "z"
      BY <1>7
    <3>2. cols[c][2] = p
      BY <1>3, <2>1, <3>1 DEF Bit
    <3>3. \E q : cols[c] = <<"z", q>>
      <4>1. c \in 1 .. 2 * n + 1 /\ ~(c <= n) /\ c <= 2 * n
        BY <1>1
      <4>2. QED
        BY <4>1 DEF cols, Columns
    <3>4. cols[c] = <<"z", p>>
      BY <3>2, <3>3
    <3>5. c \in n + 2 .. 2 * n
      BY <1>1, <2>1
    <3>6. QED
      BY <1>5, <3>4, <3>5
  <2>2. QED
    BY <2>1
<1> DEFINE h == n + 1
<1>11. h - 1 = n /\ n + 1 \in 1 .. 2 * n
  BY <1>1
<1>12. IsReduced(m, n, cols, h, piv)
  BY <1>6
<1> HIDE DEF h
<1>13. \E k \in 1 .. h - 1 : piv[k] = n + 1
  <2>1. \A d \in 1 .. 2 * n : d < n + 1 => ~Bit(O, cols[d])
    <3>1. ASSUME NEW d \in 1 .. 2 * n, d < n + 1 PROVE ~Bit(O, cols[d])
      <4>1. d \in 1 .. n
        BY <1>1, <3>1
      <4>2. QED
        BY <1>8, <4>1
    <3>2. QED
      BY <3>1
  <2>2. QED
    BY <1>1, <1>2, <1>9, <1>11, <1>12, <2>1, LeadIsPivot
<1>14. PICK k \in 1 .. n : piv[k] = n + 1
  BY <1>11, <1>13
<1>15. /\ \A i \in 1 .. h - 1, j \in 1 .. Len(m) : Bit(m[j], cols[piv[i]]) <=> i = j
       /\ \A i, j \in 1 .. h - 1 : i < j => piv[i] < piv[j]
       /\ \A i \in 1 .. h - 1 : piv[i] \in 1 .. 2 * n + 1
  BY <1>12, ReducedFacts
<1>16. \A i \in 1 .. h - 1 : piv[i] <= 2 * n
  BY <1>1, <1>12, PivotsTell
<1>17. \A i \in 1 .. n : i # k => piv[i] # n + 1
  <2>1. ASSUME NEW i \in 1 .. n, i # k, piv[i] = n + 1 PROVE FALSE
    <3>1. Bit(m[k], cols[piv[k]]) /\ ~Bit(m[k], cols[piv[i]])
      BY <1>1, <1>11, <1>15, <2>1
    <3>2. QED
      BY <1>14, <2>1, <3>1
  <2>2. QED
    BY <2>1
<1>18. \A i \in 1 .. h - 1 : Bit(m[k], cols[piv[i]]) <=> Bit(O, cols[piv[i]])
  <2>1. ASSUME NEW i \in 1 .. n PROVE Bit(m[k], cols[piv[i]]) <=> Bit(O, cols[piv[i]])
    <3>1. CASE i = k
      BY <1>1, <1>9, <1>11, <1>14, <1>15, <3>1
    <3>2. CASE i # k
      <4>1. ~Bit(m[k], cols[piv[i]])
        BY <1>1, <1>11, <1>15, <3>2
      <4> DEFINE c == piv[i]
      <4>2. c \in 1 .. 2 * n + 1 /\ c <= 2 * n /\ c # n + 1
        BY <1>11, <1>15, <1>16, <1>17, <3>2
      <4> HIDE DEF c
      <4>3. c \in 1 .. n \/ c \in n + 1 .. 2 * n
        BY <1>1, <4>2
      <4>4. ~Bit(O, cols[c])
        BY <1>8, <1>10, <4>2, <4>3
      <4>5. QED
        BY <4>1, <4>4 DEF c
    <3>3. QED
      BY <3>1, <3>2
  <2>2. QED
    BY <1>11, <2>1
<1>19. m[k] = O
  <2>1. m[k] \in Span(m)
    BY <1>1
  <2>2. QED
    BY ONLY <1>1, <1>2, <1>12, <1>18, <2>1, SameAtPivots
<1>20. \A i \in 1 .. n : i # k => p \notin m[i].x /\ p \notin m[i].z
  <2>1. ASSUME NEW i \in 1 .. n, i # k PROVE p \notin m[i].x /\ p \notin m[i].z
    <3>1. ~Bit(m[i], cols[piv[k]])
      BY <1>1, <1>11, <1>15, <2>1
    <3>2. ~Bit(m[i], <<"z", p>>)
      BY <1>4, <1>14, <3>1
    <3>3. p \notin m[i].z
      BY <3>2 DEF Bit
    <3>4. QED
      BY <1>1, <1>2, <3>3
  <2>2. QED
    BY <2>1
<1>21. HasOutcome(m, k, p, b)
  BY <1>1, <1>2, <1>19, <1>20 DEF HasOutcome, O
<1>22. QED
  BY <1>21

-----------------------------------------------------------------------------
(* Leaving out the generator with Z at p.                                   *)

KeptUpTo(f, rows, p, k) ==
  f = [i \in 0 .. k |-> IF i = 0 THEN << >>
                        ELSE IF p \in rows[i].z THEN f[i - 1] ELSE Append(f[i - 1], rows[i])]

LEMMA KeptExist ==
  ASSUME NEW rows, NEW p, NEW k \in Nat
  PROVE  \E f : KeptUpTo(f, rows, p, k)
<1> DEFINE Step(d, i) == IF p \in rows[i].z THEN d ELSE Append(d, rows[i])
           base == << >>
           Ups(f, j) == f = [i \in 0 .. j |-> IF i = 0 THEN base ELSE Step(f[i - 1], i)]
           S == {j \in Nat : \E f : Ups(f, j)}
<1> HIDE DEF Step, base
<1>1. 0 \in S
  <2>1. Ups([i \in 0 .. 0 |-> base], 0)
    OBVIOUS
  <2>2. QED
    BY <2>1
<1>2. ASSUME NEW j \in Nat, j \in S
      PROVE  j + 1 \in S
  <2>1. PICK f : Ups(f, j)
    BY <1>2
  <2> DEFINE g == [i \in 0 .. j + 1 |->
                     IF i = j + 1 THEN Step(f[j], j + 1) ELSE f[i]]
  <2>2. ASSUME NEW i \in 0 .. j + 1
        PROVE  g[i] = IF i = 0 THEN base ELSE Step(g[i - 1], i)
    <3>1. CASE i = j + 1
      BY <3>1
    <3>2. CASE i # j + 1
      <4>1. i \in 0 .. j /\ g[i] = f[i] /\ (i # 0 => g[i - 1] = f[i - 1])
        BY <3>2
      <4>2. f[i] = IF i = 0 THEN base ELSE Step(f[i - 1], i)
        BY <2>1, <4>1
      <4>3. QED
        BY <4>1, <4>2
    <3>3. QED
      BY <3>1, <3>2
  <2>3. DOMAIN g = 0 .. j + 1 /\ g = [i \in 0 .. j + 1 |-> g[i]]
    OBVIOUS
  <2> HIDE DEF g
  <2>4. Ups(g, j + 1)
    BY <2>2, <2>3
  <2>5. QED
    BY <2>4
<1>3. k \in S
  <2> HIDE DEF S
  <2> QED BY <1>1, <1>2, SetInduction
<1>4. PICK f : Ups(f, k)
  BY <1>3
<1>5. KeptUpTo(f, rows, p, k)
  BY <1>4 DEF KeptUpTo, Step, base
<1>6. QED
  BY <1>5

\* the first i rows without the row k
IsPart(s, rows, k, i) ==
  /\ s \in Seq(Ops)
  /\ i < k => Len(s) = i
  /\ i >= k => Len(s) = i - 1
  /\ \A j \in 1 .. Len(s) : /\ j < k => s[j] = rows[j]
                            /\ j >= k => s[j] = rows[j + 1]

LEMMA AppendIs ==
  ASSUME NEW s \in Seq(Ops), NEW r \in Ops
  PROVE  /\ Append(s, r) \in Seq(Ops) /\ Len(Append(s, r)) = Len(s) + 1
         /\ \A j \in 1 .. Len(s) : Append(s, r)[j] = s[j]
         /\ Append(s, r)[Len(s) + 1] = r /\ Len(s) \in Nat
  BY AppendProperties

LEMMA PartGrows ==
  ASSUME NEW rows, NEW k \in Nat, k > 0, NEW i \in Nat, NEW s, IsPart(s, rows, k, i), rows[i + 1] \in Ops
  PROVE  /\ i + 1 = k => IsPart(s, rows, k, i + 1)
         /\ i + 1 # k => IsPart(Append(s, rows[i + 1]), rows, k, i + 1)
<1>1. /\ s \in Seq(Ops) /\ Len(s) \in Nat
      /\ i < k => Len(s) = i
      /\ i >= k => Len(s) = i - 1
      /\ \A j \in 1 .. Len(s) : /\ j < k => s[j] = rows[j]
                                /\ j >= k => s[j] = rows[j + 1]
  BY DEF IsPart
<1>2. CASE i + 1 = k
  BY <1>1, <1>2 DEF IsPart
<1>3. CASE i + 1 # k
  <2> DEFINE t == Append(s, rows[i + 1])
             l == Len(s)
  <2>1. /\ t \in Seq(Ops) /\ Len(t) = l + 1 /\ l \in Nat
        /\ \A j \in 1 .. l : t[j] = s[j]
        /\ t[l + 1] = rows[i + 1]
    BY <1>1, AppendIs
  <2>2. /\ i < k => l = i
        /\ i >= k => l = i - 1
        /\ \A j \in 1 .. l : /\ j < k => s[j] = rows[j]
                             /\ j >= k => s[j] = rows[j + 1]
    BY <1>1
  <2> HIDE DEF t, l
  <2>3. /\ i + 1 < k => Len(t) = i + 1
        /\ i + 1 >= k => Len(t) = i + 1 - 1
    BY <1>3, <2>1, <2>2
  <2>4. \A j \in 1 .. l : /\ j < k => t[j] = rows[j]
                          /\ j >= k => t[j] = rows[j + 1]
    BY <2>1, <2>2
  <2>5. /\ l + 1 < k => t[l + 1] = rows[l + 1]
        /\ l + 1 >= k => t[l + 1] = rows[l + 1 + 1]
    <3>1. CASE i < k
      <4>1. l + 1 < k /\ l + 1 = i + 1
        BY <1>3, <2>2, <3>1
      <4>2. QED
        BY <2>1, <4>1
    <3>2. CASE i >= k
      <4>1. ~(l + 1 < k) /\ l + 1 + 1 = i + 1
        BY <1>3, <2>2, <3>2
      <4>2. QED
        BY <2>1, <4>1
    <3>3. QED
      BY <3>1, <3>2
  <2>6. \A j \in 1 .. Len(t) : j \in 1 .. l \/ j = l + 1
    BY <2>1
  <2>7. \A j \in 1 .. Len(t) : /\ j < k => t[j] = rows[j]
                               /\ j >= k => t[j] = rows[j + 1]
    BY <2>4, <2>5, <2>6
  <2>8. IsPart(t, rows, k, i + 1)
    BY <2>1, <2>3, <2>7 DEF IsPart
  <2>9. QED
    BY <1>3, <2>8 DEF t
<1>4. QED
  BY <1>2, <1>3

LEMMA WithoutZIs ==
  ASSUME NEW rows, IsRows(rows), NEW k \in 1 .. Len(rows), NEW p,
         \A i \in 1 .. Len(rows) : p \in rows[i].z <=> i = k
  PROVE  WithoutZ(rows, p) = Omit(rows, k)
<1> DEFINE n == Len(rows)
           all == CHOOSE f : KeptUpTo(f, rows, p, n)
           S == {i \in Nat : i <= n => IsPart(all[i], rows, k, i)}
<1>1. n \in Nat /\ \A i \in 1 .. n : rows[i] \in Ops
  BY RowsCommute
<1>2. KeptUpTo(all, rows, p, n)
  BY <1>1, KeptExist
<1>3. WithoutZ(rows, p) = all[n]
  BY DEF WithoutZ, KeptUpTo
<1> HIDE DEF all, n
<1>4. k \in 1 .. n
  BY DEF n
<1>5. /\ all[0] = << >>
      /\ \A i \in Nat : i + 1 <= n => /\ p \in rows[i + 1].z => all[i + 1] = all[i]
                                      /\ p \notin rows[i + 1].z => all[i + 1] = Append(all[i], rows[i + 1])
  <2> DEFINE step(i) == IF i = 0 THEN << >>
                        ELSE IF p \in rows[i].z THEN all[i - 1] ELSE Append(all[i - 1], rows[i])
  <2>1. all = [i \in 0 .. n |-> step(i)]
    BY <1>2 DEF KeptUpTo
  <2>2. \A i \in 0 .. n : all[i] = step(i)
    <3> HIDE DEF step
    <3>1. QED
      BY ONLY <2>1
  <2>3. 0 \in 0 .. n
    BY <1>1
  <2>4. all[0] = << >>
    BY <2>2, <2>3
  <2>5. ASSUME NEW i \in Nat, i + 1 <= n
        PROVE  /\ p \in rows[i + 1].z => all[i + 1] = all[i]
               /\ p \notin rows[i + 1].z => all[i + 1] = Append(all[i], rows[i + 1])
    <3>1. i + 1 \in 0 .. n /\ i + 1 # 0 /\ i + 1 - 1 = i
      BY <1>1, <2>5
    <3>2. all[i + 1] = step(i + 1)
      BY <2>2, <3>1
    <3>3. QED
      BY <3>1, <3>2
  <2>6. QED
    BY <2>4, <2>5
<1>6. 0 \in S
  <2>1. << >> \in Seq(Ops) /\ Len(<< >>) = 0
    OBVIOUS
  <2>2. IsPart(<< >>, rows, k, 0)
    BY <1>1, <1>4, <2>1 DEF IsPart
  <2>3. QED
    BY <1>5, <2>2
<1>7. ASSUME NEW i \in Nat, i \in S PROVE i + 1 \in S
  <2>1. SUFFICES ASSUME i + 1 <= n PROVE IsPart(all[i + 1], rows, k, i + 1)
    OBVIOUS
  <2>2. IsPart(all[i], rows, k, i)
    BY <1>1, <1>7, <2>1
  <2>3. i + 1 \in 1 .. n /\ k \in Nat /\ k > 0
    BY <1>1, <1>4, <2>1
  <2>4. rows[i + 1] \in Ops /\ (p \in rows[i + 1].z <=> i + 1 = k)
    BY <1>1, <2>3 DEF n
  <2>5. /\ i + 1 = k => IsPart(all[i], rows, k, i + 1)
        /\ i + 1 # k => IsPart(Append(all[i], rows[i + 1]), rows, k, i + 1)
    BY ONLY <1>7, <2>2, <2>3, <2>4, PartGrows
  <2>6. QED
    BY <1>5, <2>1, <2>4, <2>5
<1>8. n \in S
  <2> HIDE DEF S
  <2> QED BY <1>1, <1>6, <1>7, SetInduction
<1>9. IsPart(all[n], rows, k, n)
  BY <1>1, <1>8
<1> DEFINE s == all[n]
<1>10. /\ s \in Seq(Ops) /\ Len(s) = n - 1
       /\ \A j \in 1 .. n - 1 : /\ j < k => s[j] = rows[j]
                                /\ j >= k => s[j] = rows[j + 1]
  BY <1>1, <1>4, <1>9 DEF IsPart
<1> HIDE DEF s
<1>11. s = [j \in 1 .. n - 1 |-> s[j]]
  BY <1>10
<1>12. \A j \in 1 .. n - 1 : s[j] = IF j < k THEN rows[j] ELSE rows[j + 1]
  BY <1>4, <1>10
<1>13. s = [j \in 1 .. n - 1 |-> IF j < k THEN rows[j] ELSE rows[j + 1]]
  BY <1>11, <1>12
<1>14. QED
  BY <1>3, <1>13 DEF s, Omit, n

\* the generators when the outcome is fixed
LEMMA FixedRows ==
  ASSUME NEW m, NEW n, NEW p, IsPrepared(m, n, p), p \notin m[1].x, NEW b, NEW k, HasOutcome(m, k, p, b)
  PROVE  /\ Kept(m, p, b) = m
         /\ IsRestOf(Removed(m, p, b), m, k, p)
<1> DEFINE R == Omit(m, k)
<1>1. IsRows(m) /\ Len(m) = n /\ n \in Nat /\ p \in Nat /\ \A i \in 1 .. n : m[i] \in Ops
  BY PreparedFacts
<1>2. /\ k \in 1 .. n /\ b \in {0, 1} /\ m[k] = Observed(p, b)
      /\ \A i \in 1 .. n : i # k => p \notin m[i].x /\ p \notin m[i].z
  BY <1>1 DEF HasOutcome
<1>3. p \in m[k].z
  BY <1>2 DEF Observed
<1>4. WithoutZ(m, p) = R
  <2>1. \A i \in 1 .. Len(m) : p \in m[i].z <=> i = k
    BY <1>1, <1>2, <1>3
  <2>2. k \in 1 .. Len(m)
    BY <1>1, <1>2
  <2>3. QED
    BY ONLY <1>1, <2>1, <2>2, WithoutZIs
<1>5. Removed(m, p, b) = DropColumns(R, p) /\ Kept(m, p, b) = m
  BY <1>4 DEF Removed, Kept, IsRandom
<1>6. DOMAIN R = 1 .. n - 1
  BY <1>1 DEF Omit
<1>7. Removed(m, p, b) = [j \in 1 .. n - 1 |-> Dropped(R[j], p)]
  BY <1>5, <1>6 DEF DropColumns, Dropped
<1>8. AreOthers(R, m, k)
  BY <1>1, <1>2, OmitIs
<1>9. \A j \in 1 .. n - 1 : R[j] \in Ops /\ p \notin R[j].x /\ p \notin R[j].z
  BY <1>1, <1>2, <1>8 DEF AreOthers
<1> HIDE DEF R
<1>10. \A j \in 1 .. n - 1 : Dropped(R[j], p) = UpMap(p)[R[j]]
  <2>1. ASSUME NEW j \in 1 .. n - 1 PROVE Dropped(R[j], p) = UpMap(p)[R[j]]
    <3> DEFINE P == R[j]
    <3>1. P \in Ops /\ p \notin P.x /\ p \notin P.z
      BY <1>9
    <3> HIDE DEF P
    <3>2. UpMap(p)[P] = Lifted(P, p)
      BY <1>1, <3>1, UpCarries
    <3>3. P.x \ {p} = P.x /\ P.z \ {p} = P.z
      BY <3>1
    <3>4. Dropped(P, p) = Lifted(P, p)
      BY <3>3 DEF Dropped, Lifted
    <3>5. QED
      BY <3>2, <3>4 DEF P
  <2>2. QED
    BY <2>1
<1>11. Removed(m, p, b) = [j \in 1 .. n - 1 |-> UpMap(p)[R[j]]]
  BY <1>7, <1>10
<1>12. QED
  BY <1>1, <1>5, <1>11 DEF IsRestOf, R

-----------------------------------------------------------------------------
(* Measuring.                                                               *)

\* what a measurement of p with outcome b leaves of rows
IsMeasured(rows, m, p, b) ==
  /\ IsProper(Kept(m, p, b)) /\ Completes(Kept(m, p, b)) /\ Len(Kept(m, p, b)) = Len(rows)
  /\ Span(Kept(m, p, b)) = Collapse(Span(rows), p, b)
  /\ IsProper(Removed(m, p, b)) /\ Completes(Removed(m, p, b))
  /\ Len(Removed(m, p, b)) = Len(rows) - 1
  /\ Span(Removed(m, p, b)) = Without(Collapse(Span(rows), p, b), p)

(* Measuring returns exactly the outcomes the state allows, and leaves      *)
(* generators of the state that belongs to the outcome.                     *)
LEMMA MeasureCollapses ==
  ASSUME NEW rows, IsProper(rows), Completes(rows), NEW p \in 0 .. Len(rows) - 1
  PROVE  /\ Outcomes(Prepared(rows, p), p) = {b \in {0, 1} : CanObserve(Span(rows), p, b)}
         /\ \A b \in Outcomes(Prepared(rows, p), p) : IsMeasured(rows, Prepared(rows, p), p, b)
<1> DEFINE m == Prepared(rows, p)
           n == Len(rows)
<1>1. IsPrepared(m, n, p) /\ Span(m) = Span(rows)
  BY PreparedIs
<1> HIDE DEF m
<1>2. ASSUME NEW b, NEW k, HasOutcome(Kept(m, p, b), k, p, b), Len(Kept(m, p, b)) = n,
             Span(Kept(m, p, b)) = Collapse(Span(m), p, b),
             IsRestOf(Removed(m, p, b), Kept(m, p, b), k, p)
      PROVE  IsMeasured(rows, m, p, b)
  <2>1. IsProper(Kept(m, p, b)) /\ Completes(Kept(m, p, b))
    BY <1>2 DEF HasOutcome
  <2>2. /\ IsProper(Removed(m, p, b)) /\ Completes(Removed(m, p, b))
        /\ Len(Removed(m, p, b)) = Len(Kept(m, p, b)) - 1
        /\ Span(Removed(m, p, b)) = Without(Span(Kept(m, p, b)), p)
    BY <1>2, LeavingOut
  <2>3. QED
    BY <1>1, <1>2, <2>1, <2>2 DEF IsMeasured
<1>3. CASE p \in m[1].x
  <2>1. Outcomes(m, p) = {0, 1}
    BY <1>3 DEF Outcomes, IsRandom
  <2>2. ASSUME NEW b \in {0, 1} PROVE CanObserve(Span(m), p, b) /\ IsMeasured(rows, m, p, b)
    <3>1. /\ HasOutcome(Kept(m, p, b), 1, p, b) /\ Len(Kept(m, p, b)) = n
          /\ Span(Kept(m, p, b)) = Collapse(Span(m), p, b)
          /\ IsRestOf(Removed(m, p, b), Kept(m, p, b), 1, p)
          /\ CanObserve(Span(m), p, b)
      BY <1>1, <1>3, RandomOutcome
    <3>2. IsMeasured(rows, m, p, b)
      BY <1>2, <3>1
    <3>3. QED
      BY <3>1, <3>2
  <2>3. QED
    BY <1>1, <2>1, <2>2 DEF m
<1>4. CASE p \notin m[1].x
  <2> DEFINE b == FixedOutcome(m, p)
  <2>1. Outcomes(m, p) = {b}
    BY <1>4 DEF Outcomes, IsRandom
  <2>2. IsFixed(m, n, p, b)
    BY <1>1, <1>4, FixedIs
  <2> HIDE DEF b
  <2>3. /\ Collapse(Span(m), p, b) = Span(m)
        /\ \A c \in {0, 1} : CanObserve(Span(m), p, c) <=> c = b
    BY <1>1, <2>2, FixedCollapse
  <2>4. PICK k \in 1 .. n : HasOutcome(m, k, p, b)
    BY <1>1, <2>2, FixedGenerator
  <2>5. Kept(m, p, b) = m /\ IsRestOf(Removed(m, p, b), m, k, p)
    BY <1>1, <1>4, <2>4, FixedRows
  <2>6. Len(m) = n
    BY <1>1 DEF IsPrepared
  <2>7. IsMeasured(rows, m, p, b)
    BY <1>2, <2>3, <2>4, <2>5, <2>6
  <2>8. b \in {0, 1}
    BY <2>2 DEF IsFixed
  <2>9. {c \in {0, 1} : CanObserve(Span(m), p, c)} = {b}
    BY <2>3, <2>8
  <2>10. QED
    BY <1>1, <2>1, <2>7, <2>9 DEF m
<1>5. QED
  BY <1>3, <1>4

-----------------------------------------------------------------------------
(* The inductive invariant: every tableau is proper, and what commutes with *)
(* all of it is, up to its sign, a stabilizer.                              *)

IsState(rows) == IsProper(rows) /\ Completes(rows)

StatesKept ==
  /\ DOMAIN group = Engines
  /\ \A e \in Engines : IsState(group[e]) /\ numQubits(e) <= MaxQubits[e]

LEMMA StateIs ==
  ASSUME NEW rows, IsState(rows)
  PROVE  /\ IsRows(rows) /\ IsProper(rows) /\ Completes(rows) /\ AreOn(rows, Len(rows))
         /\ Len(rows) \in Nat /\ DOMAIN rows = 1 .. Len(rows)
         /\ \A i \in 1 .. Len(rows) : rows[i] \in Ops /\ rows[i] \in OpsOn(Len(rows))
         /\ rows \in Seq(PauliOps(Positions(rows)))
<1>1. IsProper(rows) /\ Completes(rows) /\ IsRows(rows) /\ AreOn(rows, Len(rows))
  BY DEF IsState, IsProper
<1>2. /\ Len(rows) \in Nat /\ DOMAIN rows = 1 .. Len(rows)
      /\ \A i \in 1 .. Len(rows) : rows[i] \in Ops
  BY <1>1, RowsCommute
<1>3. \A i \in 1 .. Len(rows) : rows[i] \in OpsOn(Len(rows))
  BY <1>1 DEF AreOn
<1>4. PauliOps(Positions(rows)) = OpsOn(Len(rows))
  BY DEF OpsOn, Positions
<1>5. rows \in Seq(Ops)
  BY <1>1 DEF IsRows
<1>6. rows \in Seq(OpsOn(Len(rows)))
  <2> HIDE DEF Ops, OpsOn
  <2>1. rows = [i \in 1 .. Len(rows) |-> rows[i]]
    BY <1>5
  <2>2. rows \in [1 .. Len(rows) -> OpsOn(Len(rows))]
    BY <1>3, <2>1
  <2>3. QED
    BY <1>2, <2>2
<1>7. QED
  BY <1>1, <1>2, <1>3, <1>4, <1>6

LEMMA UpdateKeeps ==
  ASSUME StatesKept, NEW e \in Engines, NEW rows, IsState(rows), Len(rows) <= MaxQubits[e], Update(e, rows)
  PROVE  StatesKept'
<1>1. \A d \in Engines : group'[d] = IF d = e THEN rows ELSE group[d]
  BY DEF StatesKept, Update
<1>2. DOMAIN group' = Engines
  BY DEF StatesKept, Update
<1>3. QED
  BY <1>1, <1>2 DEF StatesKept, numQubits

LEMMA TensorKeeps ==
  ASSUME NEW rows, IsState(rows), NEW other, IsState(other)
  PROVE  IsState(TensorProduct(rows, other)) /\ Len(TensorProduct(rows, other)) = Len(rows) + Len(other)
BY TensorProper, TensorCompletes DEF IsState

LEMMA StandardKeeps ==
  ASSUME NEW rows, IsState(rows)
  PROVE  IsState(StandardForm(rows)) /\ Len(StandardForm(rows)) = Len(rows) /\ Span(StandardForm(rows)) = Span(rows)
<1>1. Len(rows) \in Nat /\ IsRows(rows) /\ IsProper(rows) /\ Completes(rows)
  BY StateIs
<1>2. IsColumns(Columns(Len(rows), 0), Len(rows))
  <2>1. 0 \in 0 .. Len(rows) - 1 \/ Len(rows) = 0
    BY <1>1
  <2>2. QED
    BY <1>1, <2>1, ColumnsAre
<1>3. IsProper(StandardForm(rows)) /\ Len(StandardForm(rows)) = Len(rows) /\ Span(StandardForm(rows)) = Span(rows)
  BY <1>1, <1>2, ProperReduces DEF StandardForm
<1>4. IsRows(StandardForm(rows))
  BY <1>3 DEF IsProper
<1>5. Completes(StandardForm(rows))
  BY <1>1, <1>3, <1>4, SameCompletes
<1>6. QED
  BY <1>3, <1>5 DEF IsState

LEMMA GateOfState ==
  ASSUME NEW rows, IsState(rows), NEW g \in GatesOn(Positions(rows))
  PROVE  IsState(AfterGate(g, rows)) /\ Len(AfterGate(g, rows)) = Len(rows)
<1>1. Len(rows) \in Nat /\ IsProper(rows) /\ Completes(rows)
  BY StateIs
<1>2. GateOn(g, Len(rows))
  BY <1>1, GatesAre DEF Positions
<1>3. QED
  BY <1>1, <1>2, GatesKeepProper DEF IsState

LEMMA StatesStart ==
  ASSUME Init
  PROVE  StatesKept
<1>1. IsState(<< >>) /\ Len(<< >>) = 0
  BY EmptyIsProper DEF IsState
<1>2. \A e \in Engines : group[e] = << >> /\ MaxQubits[e] \in Nat
  BY StabilizerAssumption DEF Init
<1>3. \A e \in Engines : IsState(group[e]) /\ numQubits(e) = 0 /\ MaxQubits[e] \in Nat
  BY <1>1, <1>2 DEF numQubits
<1>4. \A e \in Engines : IsState(group[e]) /\ numQubits(e) <= MaxQubits[e]
  BY <1>3
<1>5. DOMAIN group = Engines
  BY DEF Init
<1>6. QED
  BY <1>4, <1>5 DEF StatesKept

LEMMA FreshKeeps ==
  ASSUME StatesKept, NEW e \in Engines, AddFreshQubit(e)
  PROVE  StatesKept'
<1>1. IsState(<<ZAt(0)>>) /\ Len(<<ZAt(0)>>) = 1
  BY FreshIsProper DEF IsState
<1>2. IsState(group[e]) /\ Len(group[e]) \in Nat /\ MaxQubits[e] \in Nat
  BY StateIs, StabilizerAssumption DEF StatesKept
<1> DEFINE new == TensorProduct(group[e], <<ZAt(0)>>)
<1>3. IsState(new) /\ Len(new) = Len(group[e]) + 1
  BY <1>1, <1>2, TensorKeeps
<1>4. Len(group[e]) < MaxQubits[e] /\ Update(e, new)
  BY DEF AddFreshQubit, numQubits
<1> HIDE DEF new
<1>5. Len(new) <= MaxQubits[e]
  BY <1>2, <1>3, <1>4
<1>6. QED
  BY <1>3, <1>4, <1>5, UpdateKeeps

LEMMA GateOnKeeps ==
  ASSUME StatesKept, NEW e \in Engines, NEW g \in GatesOn(Positions(group[e])), ApplyGate(e, g)
  PROVE  StatesKept'
<1>1. IsState(group[e]) /\ Len(group[e]) <= MaxQubits[e]
  BY DEF StatesKept, numQubits
<1>2. IsState(AfterGate(g, group[e])) /\ Len(AfterGate(g, group[e])) = Len(group[e])
  BY <1>1, GateOfState
<1>3. Update(e, AfterGate(g, group[e]))
  BY DEF ApplyGate
<1>4. Len(AfterGate(g, group[e])) <= MaxQubits[e]
  BY <1>1, <1>2
<1>5. QED
  BY <1>2, <1>3, <1>4, UpdateKeeps

LEMMA MeasureKeeps ==
  ASSUME StatesKept, NEW e \in Engines, NEW p \in Positions(group[e]),
         NEW b \in Outcomes(Prepared(group[e], p), p),
         MeasureQubitInPlace(e, p, Prepared(group[e], p), b) \/ MeasureQubit(e, p, Prepared(group[e], p), b)
  PROVE  StatesKept'
<1> DEFINE m == Prepared(group[e], p)
<1>1. /\ IsState(group[e]) /\ Len(group[e]) <= MaxQubits[e] /\ Len(group[e]) \in Nat
      /\ IsProper(group[e]) /\ Completes(group[e]) /\ MaxQubits[e] \in Nat
  BY StateIs, StabilizerAssumption DEF StatesKept, numQubits
<1>2. p \in 0 .. Len(group[e]) - 1
  BY DEF Positions
<1>3. IsMeasured(group[e], m, p, b)
  BY <1>1, <1>2, MeasureCollapses
<1>4. /\ IsState(Kept(m, p, b)) /\ Len(Kept(m, p, b)) = Len(group[e])
      /\ IsState(Removed(m, p, b)) /\ Len(Removed(m, p, b)) = Len(group[e]) - 1
  BY <1>3 DEF IsMeasured, IsState
<1>5. Update(e, Kept(m, p, b)) \/ Update(e, Removed(m, p, b))
  BY DEF MeasureQubitInPlace, MeasureQubit
<1> HIDE DEF m
<1>6. Len(Kept(m, p, b)) <= MaxQubits[e] /\ Len(Removed(m, p, b)) <= MaxQubits[e]
  BY <1>1, <1>4
<1>7. QED
  BY <1>4, <1>5, <1>6, UpdateKeeps

LEMMA AbsorbKeeps ==
  ASSUME StatesKept, NEW e \in Engines, NEW f \in Engines \ {e}, Absorb(e, f)
  PROVE  StatesKept'
<1> DEFINE new == TensorProduct(group[e], group[f])
<1>1. /\ IsState(group[e]) /\ IsState(group[f])
      /\ \A d \in Engines : IsState(group[d]) /\ Len(group[d]) <= MaxQubits[d]
      /\ DOMAIN group = Engines
  BY DEF StatesKept, numQubits
<1>2. IsState(new) /\ Len(new) = Len(group[e]) + Len(group[f])
  BY <1>1, TensorKeeps
<1>3. Len(new) <= MaxQubits[e]
  BY <1>2 DEF Absorb, numQubits
<1>4. IsState(<< >>) /\ Len(<< >>) = 0 /\ \A d \in Engines : 0 <= MaxQubits[d]
  BY EmptyIsProper, StabilizerAssumption DEF IsState
<1>5. group' = [group EXCEPT ![e] = new, ![f] = << >>]
  BY DEF Absorb
<1> HIDE DEF new
<1>6. DOMAIN group' = Engines
  BY <1>1, <1>5
<1>7. \A d \in Engines : group'[d] = IF d = f THEN << >> ELSE IF d = e THEN new ELSE group[d]
  BY <1>1, <1>5
<1>8. \A d \in Engines : IsState(group'[d]) /\ Len(group'[d]) <= MaxQubits[d]
  BY <1>1, <1>2, <1>3, <1>4, <1>7
<1>9. QED
  BY <1>6, <1>8 DEF StatesKept, numQubits

LEMMA FormKeeps ==
  ASSUME StatesKept, NEW e \in Engines, PutInStandardForm(e)
  PROVE  StatesKept'
<1>1. IsState(group[e]) /\ Len(group[e]) <= MaxQubits[e]
  BY DEF StatesKept, numQubits
<1>2. IsState(StandardForm(group[e])) /\ Len(StandardForm(group[e])) = Len(group[e])
  BY <1>1, StandardKeeps
<1>3. Update(e, StandardForm(group[e]))
  BY DEF PutInStandardForm
<1>4. Len(StandardForm(group[e])) <= MaxQubits[e]
  BY <1>1, <1>2
<1>5. QED
  BY <1>2, <1>3, <1>4, UpdateKeeps

(* Every call of an engine keeps the invariant.                             *)
LEMMA StatesStayKept ==
  ASSUME StatesKept, [Next]_group
  PROVE  StatesKept'
<1>1. CASE Next
  <2>1. PICK e \in Engines :
           \/ AddFreshQubit(e)
           \/ \E g \in GatesOn(Positions(group[e])) : ApplyGate(e, g)
           \/ \E p \in Positions(group[e]) :
                \E b \in Outcomes(Prepared(group[e], p), p) :
                  \/ MeasureQubitInPlace(e, p, Prepared(group[e], p), b)
                  \/ MeasureQubit(e, p, Prepared(group[e], p), b)
           \/ \E f \in Engines \ {e} : Absorb(e, f)
           \/ PutInStandardForm(e)
    BY <1>1 DEF Next
  <2>2. CASE AddFreshQubit(e)
    BY <2>2, FreshKeeps
  <2>3. CASE \E g \in GatesOn(Positions(group[e])) : ApplyGate(e, g)
    BY <2>3, GateOnKeeps
  <2>4. CASE \E p \in Positions(group[e]) :
               \E b \in Outcomes(Prepared(group[e], p), p) :
                 \/ MeasureQubitInPlace(e, p, Prepared(group[e], p), b)
                 \/ MeasureQubit(e, p, Prepared(group[e], p), b)
    BY <2>4, MeasureKeeps
  <2>5. CASE \E f \in Engines \ {e} : Absorb(e, f)
    BY <2>5, AbsorbKeeps
  <2>6. CASE PutInStandardForm(e)
    BY <2>6, FormKeeps
  <2>7. QED
    BY <2>1, <2>2, <2>3, <2>4, <2>5, <2>6
<1>2. CASE UNCHANGED group
  BY <1>2 DEF StatesKept, numQubits
<1>3. QED
  BY <1>1, <1>2

-----------------------------------------------------------------------------
(* What the invariant says.                                                 *)

LEMMA KeptIsTyped == StatesKept => TypeOK
<1>1. SUFFICES ASSUME StatesKept PROVE TypeOK
  OBVIOUS
<1>2. \A e \in Engines : group[e] \in Seq(PauliOps(Positions(group[e])))
  BY <1>1, StateIs DEF StatesKept
<1>3. QED
  BY <1>1, <1>2 DEF TypeOK, StatesKept

LEMMA KeptIsProper == StatesKept => ProperTableau
<1>1. SUFFICES ASSUME StatesKept, NEW e \in Engines
               PROVE  /\ IsSymplectic(group[e])
                      /\ Cardinality(Span(group[e])) = 2 ^ numQubits(e)
                      /\ Minus(Identity) \notin Span(group[e])
  BY DEF ProperTableau
<1>2. IsProper(group[e])
  BY <1>1, StateIs DEF StatesKept
<1>3. QED
  BY <1>2 DEF IsProper, IsRows, NoMinus, numQubits

LEMMA GatesConjugateAll ==
  ASSUME NEW n \in Nat, NEW g, GateOn(g, n), NEW P \in Ops
  PROVE  Apply(g, P) = Conjugate(g, P)
<1>1. CASE \E q \in 0 .. n - 1 : IsOneGate(g, q)
  <2>1. PICK q \in Nat : IsOneGate(g, q)
    BY <1>1
  <2>2. QED
    BY <2>1, OneGateConjugates
<1>2. CASE \E c, t \in 0 .. n - 1 : IsTwoGate(g, c, t)
  <2>1. PICK c, t \in 0 .. n - 1 : IsTwoGate(g, c, t)
    BY <1>2
  <2>2. g.name = "CNOT" \/ g.name = "CZ"
    BY <2>1 DEF IsTwoGate, TwoQubitGates
  <2>3. QED
    BY <2>1, <2>2, CNOTConjugates, CZConjugates
<1>3. QED
  BY <1>1, <1>2 DEF GateOn

LEMMA KeptConjugates == StatesKept => GatesConjugate
<1>1. SUFFICES ASSUME StatesKept, NEW e \in Engines,
                      NEW row \in PauliOps(Positions(group[e])), NEW g \in GatesOn(Positions(group[e]))
               PROVE  Apply(g, row) = Conjugate(g, row)
  BY DEF GatesConjugate
<1>2. Len(group[e]) \in Nat
  BY <1>1, StateIs DEF StatesKept
<1>3. row \in Ops
  BY <1>1, <1>2, OpsOnAreOps DEF Positions, OpsOn
<1>4. GateOn(g, Len(group[e]))
  BY <1>1, <1>2, GatesAre DEF Positions
<1>5. QED
  BY <1>2, <1>3, <1>4, GatesConjugateAll

LEMMA KeptCollapses == StatesKept => MeasurementsCollapse
<1>1. SUFFICES ASSUME StatesKept, NEW e \in Engines, NEW p \in Positions(group[e])
               PROVE  LET m == Prepared(group[e], p) IN
                      /\ Outcomes(m, p) = {b \in {0, 1} : CanObserve(Span(group[e]), p, b)}
                      /\ \A b \in Outcomes(m, p) :
                           /\ Span(Kept(m, p, b)) = Collapse(Span(group[e]), p, b)
                           /\ Span(Removed(m, p, b)) = Without(Collapse(Span(group[e]), p, b), p)
  BY DEF MeasurementsCollapse
<1>2. IsProper(group[e]) /\ Completes(group[e]) /\ p \in 0 .. Len(group[e]) - 1
  BY <1>1, StateIs DEF StatesKept, Positions
<1>3. QED
  BY <1>2, MeasureCollapses DEF IsMeasured

LEMMA KeptJoins == StatesKept => MergesJoin
<1>1. SUFFICES ASSUME StatesKept, NEW e \in Engines, NEW f \in Engines
               PROVE  Span(TensorProduct(group[e], group[f])) =
                        Join(Span(group[e]), Len(group[e]), Span(group[f]))
  BY DEF MergesJoin, numQubits
<1>2. IsRows(group[e]) /\ AreOn(group[e], Len(group[e])) /\ IsRows(group[f])
  BY <1>1, StateIs DEF StatesKept
<1>3. QED
  BY <1>2, TensorJoins

LEMMA KeptContains == StatesKept => ContainsExact
<1>1. SUFFICES ASSUME StatesKept, NEW e \in Engines, NEW P \in Span(group[e])
               PROVE  LET cols == Columns(Len(group[e]), 0) IN
                      InGroup(group[e], P, cols) /\ ~InGroup(group[e], Minus(P), cols)
  BY DEF ContainsExact, numQubits
<1>2. IsProper(group[e]) /\ Len(group[e]) \in Nat
  BY <1>1, StateIs DEF StatesKept
<1>3. 0 \in 0 .. Len(group[e]) - 1 \/ Len(group[e]) = 0
  BY <1>2
<1>4. IsColumns(Columns(Len(group[e]), 0), Len(group[e]))
  BY <1>2, <1>3, ColumnsAre
<1>5. QED
  BY <1>1, <1>2, <1>4, InGroupExact

\* one generator times another
LEMMA MultipliedIs ==
  ASSUME NEW rows, IsState(rows), NEW i \in 1 .. Len(rows), NEW j \in 1 .. Len(rows), i # j
  PROVE  LET new == [rows EXCEPT ![i] = Multiply(@, rows[j])] IN
         IsProper(new) /\ Len(new) = Len(rows) /\ Span(new) = Span(rows)
<1> DEFINE n == Len(rows)
           r == Multiply(rows[i], rows[j])
           new == [rows EXCEPT ![i] = r]
           G == Span(rows)
<1>1. /\ IsRows(rows) /\ IsProper(rows) /\ n \in Nat /\ DOMAIN rows = 1 .. n
      /\ \A k \in 1 .. n : rows[k] \in Ops /\ rows[k] \in OpsOn(n)
  BY StateIs
<1>2. Commute(rows[i], rows[j])
  BY <1>1, RowsCommute
<1>3. r = Product(rows[i], rows[j])
  BY <1>1, <1>2, MultiplyIsProduct
<1>4. r \in Ops /\ r \in OpsOn(n) /\ Product(r, rows[j]) = rows[i]
  BY <1>1, <1>2, <1>3, ProductIsOp, ProductIsOn, ProductTwice
<1>5. IsGroup(G) /\ \A k \in 1 .. n : rows[k] \in G
  BY <1>1, SpanIsGroup
<1>6. r \in G
  BY <1>3, <1>5 DEF IsGroup
<1>7. new = [k \in 1 .. n |-> IF k = i THEN r ELSE rows[k]]
  BY <1>1
<1> HIDE DEF r, G
<1>8. \A k \in 1 .. n : new[k] \in Ops /\ new[k] \in OpsOn(n) /\ new[k] \in G
  BY <1>1, <1>4, <1>5, <1>6, <1>7
<1>9. new[i] = r /\ \A k \in 1 .. n : k # i => new[k] = rows[k]
  BY <1>1, <1>7
<1>10. new = [k \in 1 .. n |-> new[k]]
  BY <1>7
<1> HIDE DEF new
<1>11. new \in Seq(Ops) /\ Len(new) = n
  <2>1. new \in [1 .. n -> Ops]
    BY <1>8, <1>10
  <2>2. QED
    BY <1>1, <2>1
<1>12. IsRows(new) /\ Span(new) \subseteq G
  BY <1>5, <1>8, <1>11, GroupHoldsSpan
<1>13. IsGroup(Span(new)) /\ \A k \in 1 .. n : new[k] \in Span(new)
  BY <1>11, <1>12, SpanIsGroup
<1>14. \A k \in 1 .. n : rows[k] \in Span(new)
  <2>1. \A k \in 1 .. n : k # i => rows[k] \in Span(new)
    BY <1>9, <1>13
  <2>2. r \in Span(new) /\ rows[j] \in Span(new)
    BY <1>9, <1>13, <2>1
  <2>3. rows[i] \in Span(new)
    BY <1>4, <1>13, <2>2 DEF IsGroup
  <2>4. QED
    BY <2>1, <2>3
<1>15. Span(new) = Span(rows)
  BY <1>1, <1>8, <1>11, <1>14, SameSpan DEF G
<1>16. IsProper(new)
  BY <1>1, <1>8, <1>11, <1>12, <1>15 DEF IsProper, AreOn
<1>17. QED
  BY <1>11, <1>15, <1>16 DEF new, r

LEMMA KeptCanonical == StatesKept => StandardFormCanonical
<1>1. SUFFICES ASSUME StatesKept, NEW e \in Engines,
                      NEW i \in DOMAIN group[e], NEW j \in DOMAIN group[e], i # j
               PROVE  StandardForm([group[e] EXCEPT ![i] = Multiply(@, group[e][j])]) =
                        StandardForm(group[e])
  BY DEF StandardFormCanonical
<1> DEFINE rows == group[e]
           new == [rows EXCEPT ![i] = Multiply(@, rows[j])]
<1>2. IsState(rows) /\ IsProper(rows) /\ Len(rows) \in Nat /\ DOMAIN rows = 1 .. Len(rows)
  BY <1>1, StateIs DEF StatesKept
<1>3. IsProper(new) /\ Len(new) = Len(rows) /\ Span(new) = Span(rows)
  BY <1>1, <1>2, MultipliedIs
<1> HIDE DEF rows, new
<1>4. 0 \in 0 .. Len(rows) - 1 \/ Len(rows) = 0
  BY <1>2
<1>5. IsColumns(Columns(Len(rows), 0), Len(rows))
  BY <1>2, <1>4, ColumnsAre
<1>6. Eliminate(new, Columns(Len(rows), 0)) = Eliminate(rows, Columns(Len(rows), 0))
  BY <1>2, <1>3, <1>5, EliminateIsCanonical
<1>7. StandardForm(new) = StandardForm(rows)
  BY <1>3, <1>6 DEF StandardForm
<1>8. QED
  BY <1>7 DEF new, rows

-----------------------------------------------------------------------------
(* What clients rely on, beyond single registers and generators.            *)

(* contains answers exactly whether an operator stabilizes the state.       *)
ContainsDecides ==
  \A e \in Engines : \A P \in PauliOps(Positions(group[e])) :
    InGroup(group[e], P, Columns(numQubits(e), 0)) <=> P \in Span(group[e])

(* Two registers with as many qubits are equal, for __eq__, exactly when    *)
(* they are in the same state.                                              *)
EqualWhenSame ==
  \A e, f \in Engines :
    numQubits(e) = numQubits(f) =>
      (StandardForm(group[e]) = StandardForm(group[f]) <=> Span(group[e]) = Span(group[f]))

(* A gate takes the state of its register to its conjugate and leaves those *)
(* of the others alone.                                                     *)
GateActs(e, g) ==
  ApplyGate(e, g) =>
    /\ Span(group[e])' = {Conjugate(g, P) : P \in Span(group[e])}
    /\ \A d \in Engines : d # e => Span(group[d])' = Span(group[d])

GatesAct == \A e \in Engines : \A g \in GatesOn(Positions(group[e])) : GateActs(e, g)

(* put_in_standard_form changes the generators of no state.                 *)
FormsRewrite ==
  \A e \in Engines : PutInStandardForm(e) => \A d \in Engines : Span(group[d])' = Span(group[d])

\* of an operator that does not commute with the generators contains says no
LEMMA OthersAreNotIn ==
  ASSUME NEW rows, IsState(rows), NEW P \in OpsOn(Len(rows)), NEW cols, InGroup(rows, P, cols)
  PROVE  \A i \in 1 .. Len(rows) : Commute(P, rows[i])
<1> DEFINE n == Len(rows)
           A == Append(rows, P)
<1>1. n \in Nat /\ rows \in Seq(Ops) /\ P \in Ops
  BY StateIs, OpsOnAreOps DEF IsRows
<1>2. Len(A) = n + 1 /\ A[n + 1] = P /\ (\A i \in 1 .. n : A[i] = rows[i]) /\ A \in Seq(Ops)
  BY <1>1, AppendIs
<1>3. IsSymplectic(A)
  BY DEF InGroup
<1> HIDE DEF A, n
<1>4. DOMAIN A = 1 .. n + 1
  BY <1>2
<1>5. \A i \in 1 .. n : i \in DOMAIN A /\ n + 1 \in DOMAIN A
  BY <1>1, <1>4
<1>6. \A i \in 1 .. n : Commute(A[n + 1], A[i])
  BY <1>3, <1>5 DEF IsSymplectic
<1>7. QED
  BY <1>2, <1>6 DEF n

LEMMA KeptDecides == StatesKept => ContainsDecides
<1>1. SUFFICES ASSUME StatesKept, NEW e \in Engines, NEW P \in PauliOps(Positions(group[e]))
               PROVE  InGroup(group[e], P, Columns(Len(group[e]), 0)) <=> P \in Span(group[e])
  BY DEF ContainsDecides, numQubits
<1> DEFINE rows == group[e]
           cols == Columns(Len(rows), 0)
<1>2. IsState(rows) /\ IsProper(rows) /\ Completes(rows) /\ IsRows(rows) /\ Len(rows) \in Nat
  BY <1>1, StateIs DEF StatesKept
<1>3. P \in OpsOn(Len(rows)) /\ P \in Ops
  BY <1>1, <1>2, OpsOnAreOps DEF Positions, OpsOn
<1>4. IsColumns(cols, Len(rows))
  <2>1. 0 \in 0 .. Len(rows) - 1 \/ Len(rows) = 0
    BY <1>2
  <2>2. QED
    BY <1>2, <2>1, ColumnsAre
<1> HIDE DEF rows, cols
<1>5. ASSUME P \in Span(rows) PROVE InGroup(rows, P, cols)
  BY <1>2, <1>4, <1>5, InGroupExact
<1>6. ASSUME InGroup(rows, P, cols) PROVE P \in Span(rows)
  <2>1. \A i \in 1 .. Len(rows) : Commute(P, rows[i])
    BY <1>2, <1>3, <1>6, OthersAreNotIn
  <2>2. P \in Span(rows) \/ Minus(P) \in Span(rows)
    BY <1>2, <1>3, <2>1 DEF Completes
  <2>3. CASE Minus(P) \in Span(rows)
    <3>1. ~InGroup(rows, Minus(Minus(P)), cols)
      BY <1>2, <1>4, <2>3, InGroupExact
    <3>2. QED
      BY <1>3, <1>6, <3>1, MinusIs
  <2>4. QED
    BY <2>2, <2>3
<1>7. QED
  BY <1>5, <1>6 DEF rows, cols

LEMMA KeptEqual == StatesKept => EqualWhenSame
<1>1. SUFFICES ASSUME StatesKept, NEW e \in Engines, NEW f \in Engines, Len(group[e]) = Len(group[f])
               PROVE  StandardForm(group[e]) = StandardForm(group[f]) <=> Span(group[e]) = Span(group[f])
  BY DEF EqualWhenSame, numQubits
<1>2. IsState(group[e]) /\ IsState(group[f])
  BY <1>1 DEF StatesKept
<1>3. IsProper(group[e]) /\ IsProper(group[f]) /\ Len(group[e]) \in Nat
  BY <1>2, StateIs
<1>4. ASSUME StandardForm(group[e]) = StandardForm(group[f]) PROVE Span(group[e]) = Span(group[f])
  <2>1. Span(StandardForm(group[e])) = Span(group[e]) /\ Span(StandardForm(group[f])) = Span(group[f])
    BY <1>2, StandardKeeps
  <2>2. QED
    BY <1>4, <2>1
<1>5. ASSUME Span(group[e]) = Span(group[f]) PROVE StandardForm(group[e]) = StandardForm(group[f])
  <2> DEFINE cols == Columns(Len(group[e]), 0)
  <2>1. IsColumns(cols, Len(group[e]))
    <3>1. 0 \in 0 .. Len(group[e]) - 1 \/ Len(group[e]) = 0
      BY <1>3
    <3>2. QED
      BY <1>3, <3>1, ColumnsAre
  <2>2. StandardForm(group[e]) = Eliminate(group[e], cols) /\ StandardForm(group[f]) = Eliminate(group[f], cols)
    BY <1>1 DEF StandardForm
  <2> HIDE DEF cols
  <2>3. Eliminate(group[f], cols) = Eliminate(group[e], cols)
    BY <1>1, <1>3, <1>5, <2>1, EliminateIsCanonical
  <2>4. QED
    BY <2>2, <2>3
<1>6. QED
  BY <1>4, <1>5

\* the group after a gate
LEMMA GateMoves ==
  ASSUME NEW rows, IsState(rows), NEW g, GateOn(g, Len(rows))
  PROVE  Span(AfterGate(g, rows)) = {Conjugate(g, P) : P \in Span(rows)}
<1> DEFINE n == Len(rows)
           new == AfterGate(g, rows)
           F == GateMap(g, n)
<1>1. /\ n \in Nat /\ IsRows(rows) /\ DOMAIN rows = 1 .. n
      /\ \A i \in 1 .. n : rows[i] \in OpsOn(n) /\ rows[i] \in Ops
  BY StateIs
<1>2. Carries(F, OpsOn(n))
  BY <1>1, GateCarries
<1>3. new = [i \in 1 .. n |-> Apply(g, rows[i])]
  BY <1>1 DEF AfterGate
<1>4. \A P \in OpsOn(n) : F[P] = Apply(g, P)
  BY DEF GateMap
<1>5. \A i \in 1 .. n : Apply(g, rows[i]) \in Ops
  BY <1>1, GateKeeps
<1>6. \A P \in Ops : Apply(g, P) = Conjugate(g, P)
  BY <1>1, GatesConjugateAll
<1> HIDE DEF n, new, F
<1>7. new \in Seq(Ops) /\ Len(new) = n /\ \A i \in 1 .. n : new[i] = Apply(g, rows[i])
  <2>1. new \in [1 .. n -> Ops] /\ \A i \in 1 .. n : new[i] = Apply(g, rows[i])
    BY <1>3, <1>5
  <2>2. QED
    BY <1>1, <2>1
<1>8. Len(rows) = n
  BY DEF n
<1>9. Span(new) = Image(F, Span(rows))
  BY <1>1, <1>2, <1>4, <1>7, <1>8, SpanIsCarried
<1>10. Span(rows) \subseteq OpsOn(n)
  BY <1>1, <1>2, <1>8, RowsAreIn
<1>11. \A P \in Span(rows) : F[P] = Conjugate(g, P)
  <2>1. OpsOn(n) \subseteq Ops
    BY <1>1, OpsOnAreOps
  <2>2. QED
    BY <1>4, <1>6, <1>10, <2>1
<1>12. Span(new) = {Conjugate(g, P) : P \in Span(rows)}
  BY <1>9, <1>11 DEF Image
<1>13. QED
  BY <1>12 DEF new

LEMMA KeptActs == StatesKept => GatesAct
<1>1. SUFFICES ASSUME StatesKept, NEW e \in Engines, NEW g \in GatesOn(Positions(group[e])), ApplyGate(e, g)
               PROVE  /\ Span(group[e])' = {Conjugate(g, P) : P \in Span(group[e])}
                      /\ \A d \in Engines : d # e => Span(group[d])' = Span(group[d])
  BY DEF GatesAct, GateActs
<1>2. IsState(group[e]) /\ DOMAIN group = Engines
  BY <1>1 DEF StatesKept
<1>3. GateOn(g, Len(group[e]))
  BY <1>1, <1>2, StateIs, GatesAre DEF Positions
<1>4. group' = [group EXCEPT ![e] = AfterGate(g, group[e])]
  BY <1>1 DEF ApplyGate, Update
<1>5. group[e]' = AfterGate(g, group[e]) /\ \A d \in Engines : d # e => group[d]' = group[d]
  BY <1>2, <1>4
<1>6. Span(group[e])' = Span(AfterGate(g, group[e])) /\ \A d \in Engines : d # e => Span(group[d])' = Span(group[d])
  BY <1>5
<1>7. QED
  BY <1>2, <1>3, <1>6, GateMoves

LEMMA KeptRewrites == StatesKept => FormsRewrite
<1>1. SUFFICES ASSUME StatesKept, NEW e \in Engines, PutInStandardForm(e), NEW d \in Engines
               PROVE  Span(group[d])' = Span(group[d])
  BY DEF FormsRewrite
<1>2. IsState(group[e]) /\ DOMAIN group = Engines
  BY <1>1 DEF StatesKept
<1>3. group' = [group EXCEPT ![e] = StandardForm(group[e])]
  BY <1>1 DEF PutInStandardForm, Update
<1>4. group[d]' = IF d = e THEN StandardForm(group[e]) ELSE group[d]
  BY <1>2, <1>3
<1>5. Span(StandardForm(group[e])) = Span(group[e])
  BY <1>2, StandardKeeps
<1>6. QED
  BY <1>4, <1>5

-----------------------------------------------------------------------------
(* Theorems about the engine, for any engines and bounds on their qubits.   *)

(* Theorem: in every reachable state every engine holds a proper tableau    *)
(* which determines its state, of at most maxQubits rows.                   *)
THEOREM StatesAlwaysKept == Spec => []StatesKept
<1>1. Init => StatesKept
  BY StatesStart
<1>2. StatesKept /\ [Next]_group => StatesKept'
  BY StatesStayKept
<1>3. QED
  BY <1>1, <1>2, PTL DEF Spec

(* Theorem: an engine never holds more rows than maxQubits, and every row   *)
(* is an operator on the engine's own qubits.                               *)
THEOREM StabilizerTypeCorrect == Spec => []TypeOK
BY StatesAlwaysKept, KeptIsTyped, PTL

(* Theorem: the rows of _group always commute, are independent and do not   *)
(* generate -I, which boolean_gaussian_elimination and _contains take for   *)
(* granted.                                                                 *)
THEOREM TableausAlwaysProper == Spec => []ProperTableau
BY StatesAlwaysKept, KeptIsProper, PTL

(* Theorem: the apply_ methods of StabilizerState change every row there    *)
(* can be as conjugation by the gate does, its sign included.               *)
THEOREM GatesAlwaysConjugate == Spec => []GatesConjugate
BY StatesAlwaysKept, KeptConjugates, PTL

(* Theorem: a measurement returns exactly the outcomes which the state      *)
(* allows and leaves the state which belongs to the outcome, in place or    *)
(* with the qubit removed, whatever generators represent the state.         *)
THEOREM MeasurementsAlwaysCollapse == Spec => []MeasurementsCollapse
BY StatesAlwaysKept, KeptCollapses, PTL

(* Theorem: tensor_product, with which registers are merged and qubits      *)
(* added, puts the states side by side.                                     *)
THEOREM MergesAlwaysJoin == Spec => []MergesJoin
BY StatesAlwaysKept, KeptJoins, PTL

(* Theorem: contains finds all stabilizers and none with the wrong sign,    *)
(* and the standard form does not depend on the generators.                 *)
THEOREM StatesAlwaysRecognized == Spec => []StatesRecognized
<1>1. StatesKept => StatesRecognized
  BY KeptContains, KeptCanonical DEF StatesRecognized
<1>2. QED
  BY <1>1, StatesAlwaysKept, PTL

(* Theorem: of any operator on the qubits of an engine, commuting with the  *)
(* generators or not, contains says whether it stabilizes the state.        *)
THEOREM ContainsAlwaysDecides == Spec => []ContainsDecides
BY StatesAlwaysKept, KeptDecides, PTL

(* Theorem: __eq__, which compares standard forms, says of two registers    *)
(* with as many qubits exactly whether they are in the same state.          *)
THEOREM EqualAlwaysWhenSame == Spec => []EqualWhenSame
BY StatesAlwaysKept, KeptEqual, PTL

(* Theorem: a gate takes the state of its register, not only each row, to   *)
(* its conjugate by the gate, and leaves the other registers alone.         *)
THEOREM GatesAlwaysAct == Spec => [][GatesAct]_group
BY StatesAlwaysKept, KeptActs, PTL DEF Spec

(* Theorem: put_in_standard_form changes the state of no register.          *)
THEOREM FormsAlwaysRewrite == Spec => [][FormsRewrite]_group
BY StatesAlwaysKept, KeptRewrites, PTL DEF Spec
=============================================================================
