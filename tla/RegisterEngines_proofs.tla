----------------------- MODULE RegisterEngines_proofs -----------------------
(***************************************************************************)
(* The promise of the engines that simulate with amplitudes: position p of *)
(* a register is the qubit the calls put there, with QuTip and with        *)
(* ProjectQ, for any engines and bounds, and wherever ProjectQ places bits.*)
(***************************************************************************)
EXTENDS RegisterEngines, SequenceTheorems, FreeNumbers_proofs

-----------------------------------------------------------------------------
(* Sequences.                                                              *)

\* t is s with e inserted at i
IsInserted(t, S, s, i, e) ==
  /\ t \in Seq(S)
  /\ Len(t) = Len(s) + 1
  /\ \A j \in 1 .. Len(s) + 1 : t[j] = IF j < i THEN s[j] ELSE IF j = i THEN e ELSE s[j - 1]

LEMMA InsertAtProperties ==
  ASSUME NEW S, NEW s \in Seq(S), NEW i \in 1 .. Len(s) + 1, NEW e \in S
  PROVE  IsInserted(InsertAt(s, i, e), S, s, i, e)
<1> DEFINE a == SubSeq(s, 1, i - 1)
           b == SubSeq(s, i, Len(s))
<1>1. Len(s) \in Nat /\ i \in Int /\ i - 1 \in Int /\ \A j \in 1 .. Len(s) : s[j] \in S
  BY ElementOfSeq, LenProperties
<1>2. a \in Seq(S) /\ Len(a) = i - 1 /\ \A j \in 1 .. i - 1 : a[j] = s[j]
  <2>1. \A j \in 1 .. i - 1 : s[j] \in S
    BY <1>1
  <2>2. /\ a \in Seq(S)
        /\ Len(a) = IF 1 <= i - 1 THEN i - 1 - 1 + 1 ELSE 0
        /\ \A j \in 1 .. i - 1 - 1 + 1 : a[j] = s[1 + j - 1]
    BY <1>1, <2>1, SubSeqProperties
  <2> HIDE DEF a
  <2>3. QED
    BY <1>1, <2>2
<1>3. b \in Seq(S) /\ Len(b) = Len(s) - i + 1 /\ \A j \in 1 .. Len(s) - i + 1 : b[j] = s[i + j - 1]
  <2>1. \A j \in i .. Len(s) : s[j] \in S
    BY <1>1
  <2>2. /\ b \in Seq(S)
        /\ Len(b) = IF i <= Len(s) THEN Len(s) - i + 1 ELSE 0
        /\ \A j \in 1 .. Len(s) - i + 1 : b[j] = s[i + j - 1]
    BY <1>1, <2>1, SubSeqProperties
  <2> HIDE DEF b
  <2>3. QED
    BY <1>1, <2>2
<1>4. <<e>> \in Seq(S) /\ Len(<<e>>) = 1 /\ <<e>>[1] = e
  OBVIOUS
<1> DEFINE c == a \o <<e>>
<1> HIDE DEF a, b
<1>5. c \in Seq(S) /\ Len(c) = i /\ \A j \in 1 .. i : c[j] = IF j < i THEN s[j] ELSE e
  <2>1. /\ c \in Seq(S) /\ Len(c) = Len(a) + 1
        /\ \A j \in 1 .. Len(a) + 1 : c[j] = IF j <= Len(a) THEN a[j] ELSE <<e>>[j - Len(a)]
    BY <1>2, <1>4, ConcatProperties
  <2> HIDE DEF c
  <2>2. QED
    BY <1>1, <1>2, <2>1
<1> HIDE DEF c
<1>6. /\ c \o b \in Seq(S) /\ Len(c \o b) = Len(c) + Len(b)
      /\ \A j \in 1 .. Len(c) + Len(b) : (c \o b)[j] = IF j <= Len(c) THEN c[j] ELSE b[j - Len(c)]
  BY <1>3, <1>5, ConcatProperties
<1>7. InsertAt(s, i, e) = c \o b
  BY DEF InsertAt, c, a, b
<1> DEFINE d == c \o b
<1>8. d \in Seq(S) /\ Len(d) = Len(s) + 1
  BY <1>1, <1>3, <1>5, <1>6
<1>9. ASSUME NEW j \in 1 .. Len(s) + 1
      PROVE  d[j] = IF j < i THEN s[j] ELSE IF j = i THEN e ELSE s[j - 1]
  <2>1. d[j] = IF j <= i THEN c[j] ELSE b[j - i]
    BY <1>1, <1>3, <1>5, <1>6
  <2>2. CASE j <= i
    BY <1>1, <1>5, <2>1, <2>2
  <2>3. CASE j > i
    <3>1. j - i \in 1 .. Len(s) - i + 1
      BY <1>1, <2>3
    <3>2. b[j - i] = s[i + (j - i) - 1]
      BY <1>3, <3>1
    <3>3. QED
      BY <1>1, <2>1, <2>3, <3>2
  <2>4. j <= i \/ j > i
    BY <1>1
  <2>5. QED
    BY <2>2, <2>3, <2>4
<1> HIDE DEF d
<1>10. IsInserted(d, S, s, i, e)
  BY <1>8, <1>9 DEF IsInserted
<1>11. QED
  BY <1>7, <1>10 DEF d

LEMMA RemoveAtProperties ==
  ASSUME NEW S, NEW s \in Seq(S), NEW i \in 1 .. Len(s)
  PROVE  /\ RemoveAt(s, i) \in Seq(S)
         /\ Len(RemoveAt(s, i)) = Len(s) - 1
         /\ \A j \in 1 .. Len(s) - 1 :
              RemoveAt(s, i)[j] = IF j < i THEN s[j] ELSE s[j + 1]
<1> DEFINE a == SubSeq(s, 1, i - 1)
           b == SubSeq(s, i + 1, Len(s))
<1>1. /\ Len(s) \in Nat /\ i \in Int /\ i - 1 \in Int /\ i + 1 \in Int
      /\ \A j \in 1 .. Len(s) : s[j] \in S
  BY ElementOfSeq, LenProperties
<1>2. a \in Seq(S) /\ Len(a) = i - 1 /\ \A j \in 1 .. i - 1 : a[j] = s[j]
  <2>1. \A j \in 1 .. i - 1 : s[j] \in S
    BY <1>1
  <2>2. /\ a \in Seq(S)
        /\ Len(a) = IF 1 <= i - 1 THEN i - 1 - 1 + 1 ELSE 0
        /\ \A j \in 1 .. i - 1 - 1 + 1 : a[j] = s[1 + j - 1]
    BY <1>1, <2>1, SubSeqProperties
  <2> HIDE DEF a
  <2>3. QED
    BY <1>1, <2>2
<1>3. b \in Seq(S) /\ Len(b) = Len(s) - i /\ \A j \in 1 .. Len(s) - i : b[j] = s[i + j]
  <2>1. \A j \in i + 1 .. Len(s) : s[j] \in S
    BY <1>1
  <2>2. /\ b \in Seq(S)
        /\ Len(b) = IF i + 1 <= Len(s) THEN Len(s) - (i + 1) + 1 ELSE 0
        /\ \A j \in 1 .. Len(s) - (i + 1) + 1 : b[j] = s[(i + 1) + j - 1]
    BY <1>1, <2>1, SubSeqProperties
  <2> HIDE DEF b
  <2>3. Len(s) - (i + 1) + 1 = Len(s) - i /\ (i + 1 <= Len(s) \/ Len(s) - i = 0)
    BY <1>1
  <2>4. ASSUME NEW j \in 1 .. Len(s) - i PROVE b[j] = s[i + j]
    <3>1. (i + 1) + j - 1 = i + j /\ j \in 1 .. Len(s) - (i + 1) + 1
      BY <1>1
    <3>2. b[j] = s[(i + 1) + j - 1]
      BY <2>2, <3>1
    <3>3. QED
      BY <3>1, <3>2
  <2>5. Len(b) = Len(s) - i
    BY <1>1, <2>2, <2>3
  <2>6. QED
    BY <2>2, <2>4, <2>5
<1>4. RemoveAt(s, i) = a \o b
  BY DEF RemoveAt
<1> HIDE DEF a, b
<1>5. /\ a \o b \in Seq(S) /\ Len(a \o b) = Len(a) + Len(b)
      /\ \A j \in 1 .. Len(a) + Len(b) : (a \o b)[j] = IF j <= Len(a) THEN a[j] ELSE b[j - Len(a)]
  BY <1>2, <1>3, ConcatProperties
<1> DEFINE d == a \o b
<1>6. d \in Seq(S) /\ Len(d) = Len(s) - 1
  BY <1>1, <1>2, <1>3, <1>5
<1>7. ASSUME NEW j \in 1 .. Len(s) - 1
      PROVE  d[j] = IF j < i THEN s[j] ELSE s[j + 1]
  <2>1. d[j] = IF j <= i - 1 THEN a[j] ELSE b[j - (i - 1)]
    BY <1>1, <1>2, <1>3, <1>5
  <2>2. CASE j < i
    BY <1>1, <1>2, <2>1, <2>2
  <2>3. CASE j >= i
    <3>1. j - (i - 1) \in 1 .. Len(s) - i
      BY <1>1, <2>3
    <3>2. b[j - (i - 1)] = s[i + (j - (i - 1))]
      BY <1>3, <3>1
    <3>3. QED
      BY <1>1, <2>1, <2>3, <3>2
  <2>4. j < i \/ j >= i
    BY <1>1
  <2>5. QED
    BY <2>2, <2>3, <2>4
<1>8. QED
  BY <1>4, <1>6, <1>7

(* Where the elements come to be: i is the index of the new one. *)
LEMMA ElementsMoveUp ==
  ASSUME NEW S, NEW s \in Seq(S), NEW i \in 1 .. Len(s) + 1, NEW e \in S
  PROVE  /\ InsertAt(s, i, e) \in Seq(S)
         /\ Len(InsertAt(s, i, e)) = Len(s) + 1
         /\ InsertAt(s, i, e)[i] = e
         /\ \A j \in 1 .. Len(s) : j < i => InsertAt(s, i, e)[j] = s[j]
         /\ \A j \in 1 .. Len(s) : j >= i => InsertAt(s, i, e)[j + 1] = s[j]
<1>1. IsInserted(InsertAt(s, i, e), S, s, i, e)
  BY InsertAtProperties
<1> DEFINE n == Len(s)
           t == InsertAt(s, i, e)
<1> HIDE DEF t
<1>0. n \in Nat
  BY LenProperties
<1> HIDE DEF n
<1>10. i \in 1 .. n + 1
  BY DEF n
<1>11. /\ t \in Seq(S) /\ Len(t) = n + 1
       /\ \A j \in 1 .. n + 1 : t[j] = IF j < i THEN s[j] ELSE IF j = i THEN e ELSE s[j - 1]
  BY <1>1 DEF n, t, IsInserted
<1>2. t[i] = e
  BY <1>0, <1>11, <1>10
<1>3. ASSUME NEW j \in 1 .. n, j < i PROVE t[j] = s[j]
  BY <1>0, <1>11, <1>3
<1>4. ASSUME NEW j \in 1 .. n, j >= i PROVE t[j + 1] = s[j]
  <2>1. j + 1 \in 1 .. n + 1 /\ ~(j + 1 < i) /\ j + 1 # i /\ (j + 1) - 1 = j
    BY <1>0, <1>4, <1>10
  <2>2. t[j + 1] = s[(j + 1) - 1]
    BY <1>11, <2>1
  <2>3. QED
    BY <2>1, <2>2
<1>5. QED
  BY <1>11, <1>2, <1>3, <1>4 DEF t, n

(* Where they come to be when the one at i is taken out. *)
LEMMA ElementsMoveDown ==
  ASSUME NEW S, NEW s \in Seq(S), NEW i \in 1 .. Len(s)
  PROVE  /\ RemoveAt(s, i) \in Seq(S)
         /\ Len(RemoveAt(s, i)) = Len(s) - 1
         /\ \A j \in 1 .. Len(s) - 1 : j < i => RemoveAt(s, i)[j] = s[j]
         /\ \A j \in 1 .. Len(s) - 1 : j >= i => RemoveAt(s, i)[j] = s[j + 1]
<1> DEFINE n == Len(s)
           t == RemoveAt(s, i)
<1>1. /\ t \in Seq(S) /\ Len(t) = n - 1
      /\ \A j \in 1 .. n - 1 : t[j] = IF j < i THEN s[j] ELSE s[j + 1]
  <2>1. /\ t \in Seq(S) /\ Len(t) = Len(s) - 1
        /\ \A j \in 1 .. Len(s) - 1 : t[j] = IF j < i THEN s[j] ELSE s[j + 1]
    BY RemoveAtProperties
  <2>2. QED
    BY <2>1
<1> HIDE DEF t
<1>2. n \in Nat
  BY LenProperties
<1> HIDE DEF n
<1>3. ASSUME NEW j \in 1 .. n - 1, j < i PROVE t[j] = s[j]
  BY <1>1, <1>3
<1>4. ASSUME NEW j \in 1 .. n - 1, j >= i PROVE t[j] = s[j + 1]
  <2>1. ~(j < i)
    BY <1>2, <1>4
  <2>2. QED
    BY <1>1, <2>1
<1>5. QED
  BY <1>1, <1>3, <1>4 DEF t, n

(* There is an identifier that is not in use. *)
LEMMA FreshIdIsFresh ==
  ASSUME NEW ids \in Seq(Nat)
  PROVE  FreshId(ids) \in Nat /\ \A j \in 1 .. Len(ids) : ids[j] # FreshId(ids)
<1> DEFINE used == {ids[j] : j \in DOMAIN ids}
           n == Len(ids)
<1>1. n \in Nat /\ DOMAIN ids = 1 .. n /\ ids \in [1 .. n -> Nat]
  BY LenProperties
<1>2. [j \in 1 .. n |-> ids[j]] \in Surjection(1 .. n, used)
  BY <1>1 DEF Surjection
<1> HIDE DEF n, used
<1>3. \E i \in 1 .. n + 1 : i \notin used
  <2>1. SUFFICES ASSUME 1 .. n + 1 \subseteq used PROVE FALSE
    OBVIOUS
  <2>2. IsFiniteSet(1 .. n) /\ Cardinality(1 .. n) = n
    BY <1>1, FS_Interval
  <2>4. IsFiniteSet(used) /\ Cardinality(used) <= Cardinality(1 .. n)
    BY <1>2, <2>2, FS_Surjection
  <2>5. Cardinality(1 .. n + 1) = n + 1
    BY <1>1, FS_Interval
  <2>6. Cardinality(1 .. n + 1) <= Cardinality(used)
    BY <2>1, <2>4, FS_Subset
  <2>7. Cardinality(used) \in Nat
    BY <2>4, FS_CardinalityType
  <2>8. QED
    BY <1>1, <2>2, <2>4, <2>5, <2>6, <2>7
<1>4. FreshId(ids) \in 1 .. n + 1 /\ FreshId(ids) \notin used
  <2>1. FreshId(ids) = CHOOSE i \in 1 .. n + 1 : i \notin used
    BY DEF FreshId, used, n
  <2>2. QED
    BY <1>3, <2>1
<1>5. QED
  BY <1>1, <1>4 DEF used, n

(* Where the only occurrence of an element is. *)
LEMMA IndexOfOccurrence ==
  ASSUME NEW s, NEW n, DOMAIN s = 1 .. n, NEW i \in 1 .. n,
         \A j \in 1 .. n : s[j] = s[i] => j = i
  PROVE  IndexIn(s, s[i]) = i
BY DEF IndexIn

-----------------------------------------------------------------------------
(* The simulator of ProjectQ.                                              *)

\* Each bit of the simulator belongs to one identifier.
IsSimulator(sim) ==
  /\ sim.order \in Seq(Nat) /\ sim.bits \in Seq(Bits)
  /\ Len(sim.order) = Len(sim.bits)
  /\ \A i, j \in 1 .. Len(sim.order) : sim.order[i] = sim.order[j] => i = j

\* the bit of identifier id is b
Carries(sim, id, b) ==
  \E i \in 1 .. Len(sim.order) : sim.order[i] = id /\ sim.bits[i] = b

\* identifier id is in use
InUse(sim, id) == \E i \in 1 .. Len(sim.order) : sim.order[i] = id

(* A new bit with identifier id, anywhere: the others keep theirs. *)
LEMMA BitInserted ==
  ASSUME NEW sim, IsSimulator(sim), NEW place \in 1 .. Len(sim.order) + 1,
         NEW b \in Bits, NEW more,
         more.order = InsertAt(sim.order, place, FreshId(sim.order)),
         more.bits = InsertAt(sim.bits, place, b)
  PROVE  /\ IsSimulator(more)
         /\ Len(more.order) = Len(sim.order) + 1
         /\ FreshId(sim.order) \in Nat
         /\ ~InUse(sim, FreshId(sim.order))
         /\ Carries(more, FreshId(sim.order), b)
         /\ \A id, c : Carries(sim, id, c) => Carries(more, id, c)
         /\ \A id : InUse(more, id) => InUse(sim, id) \/ id = FreshId(sim.order)
<1> DEFINE n == Len(sim.order)
           new == FreshId(sim.order)
           old == sim.order
           oldBits == sim.bits
<1>1. /\ n \in Nat /\ old \in Seq(Nat) /\ oldBits \in Seq(Bits) /\ Len(oldBits) = n
      /\ \A i, j \in 1 .. n : old[i] = old[j] => i = j
      /\ n = Len(old) /\ place \in 1 .. n + 1
  BY LenProperties DEF IsSimulator
<1>2. new \in Nat /\ \A j \in 1 .. n : old[j] # new
  BY <1>1, FreshIdIsFresh
<1>3. more.order = InsertAt(old, place, new) /\ more.bits = InsertAt(oldBits, place, b)
  OBVIOUS
<1> DEFINE ids == more.order
           bs == more.bits
<1> HIDE DEF new, old, oldBits, ids, bs
<1>4. /\ ids \in Seq(Nat) /\ Len(ids) = n + 1 /\ ids[place] = new
      /\ \A j \in 1 .. n : j < place => ids[j] = old[j]
      /\ \A j \in 1 .. n : j >= place => ids[j + 1] = old[j]
  <2>1. ids = InsertAt(old, place, new)
    BY <1>3 DEF ids
  <2>2. place \in 1 .. Len(old) + 1
    BY <1>1
  <2>3. /\ InsertAt(old, place, new) \in Seq(Nat)
        /\ Len(InsertAt(old, place, new)) = Len(old) + 1
        /\ InsertAt(old, place, new)[place] = new
        /\ \A j \in 1 .. Len(old) : j < place => InsertAt(old, place, new)[j] = old[j]
        /\ \A j \in 1 .. Len(old) : j >= place => InsertAt(old, place, new)[j + 1] = old[j]
    BY ONLY <1>1, <1>2, <2>2, ElementsMoveUp
  <2>4. QED
    BY ONLY <1>1, <2>1, <2>3
<1>5. /\ bs \in Seq(Bits) /\ Len(bs) = n + 1 /\ bs[place] = b
      /\ \A j \in 1 .. n : j < place => bs[j] = oldBits[j]
      /\ \A j \in 1 .. n : j >= place => bs[j + 1] = oldBits[j]
  <2>1. bs = InsertAt(oldBits, place, b)
    BY <1>3 DEF bs
  <2>2. place \in 1 .. Len(oldBits) + 1 /\ b \in Bits
    BY <1>1
  <2>3. /\ InsertAt(oldBits, place, b) \in Seq(Bits)
        /\ Len(InsertAt(oldBits, place, b)) = Len(oldBits) + 1
        /\ InsertAt(oldBits, place, b)[place] = b
        /\ \A j \in 1 .. Len(oldBits) : j < place => InsertAt(oldBits, place, b)[j] = oldBits[j]
        /\ \A j \in 1 .. Len(oldBits) : j >= place => InsertAt(oldBits, place, b)[j + 1] = oldBits[j]
    BY ONLY <1>1, <2>2, ElementsMoveUp
  <2>4. QED
    BY ONLY <1>1, <2>1, <2>3
<1> HIDE DEF n
<1>6. ASSUME NEW k \in 1 .. n + 1
      PROVE  \/ k = place /\ ids[k] = new
             \/ \E j \in 1 .. n : k = j /\ j < place /\ ids[k] = old[j]
             \/ \E j \in 1 .. n : k = j + 1 /\ j >= place /\ ids[k] = old[j]
  <2>1. k \in Int /\ place \in Int /\ n \in Int /\ 1 <= k /\ k <= n + 1 /\ 1 <= place /\ place <= n + 1
    BY <1>1
  <2>2. CASE k = place
    BY <1>4, <2>2
  <2>3. CASE k < place
    <3>1. k \in 1 .. n
      BY <2>1, <2>3
    <3>2. QED
      BY <1>4, <2>3, <3>1
  <2>4. CASE k > place
    <3>1. k - 1 \in 1 .. n /\ k - 1 >= place /\ (k - 1) + 1 = k
      BY <2>1, <2>4
    <3>2. ids[(k - 1) + 1] = old[k - 1]
      BY <1>4, <3>1
    <3>3. k = (k - 1) + 1 /\ ids[k] = old[k - 1]
      BY <3>1, <3>2
    <3>4. QED
      BY <3>1, <3>3
  <2>5. k = place \/ k < place \/ k > place
    BY <2>1
  <2>6. QED
    BY <2>2, <2>3, <2>4, <2>5
<1>7. ASSUME NEW i \in 1 .. n + 1, NEW j \in 1 .. n + 1, ids[i] = ids[j]
      PROVE  i = j
  <2>1. CASE i = place /\ ids[i] = new
    BY <1>2, <1>6, <1>7, <2>1
  <2>2. CASE \E k \in 1 .. n : i = k /\ k < place /\ ids[i] = old[k]
    <3>1. PICK k \in 1 .. n : i = k /\ k < place /\ ids[i] = old[k]
      BY <2>2
    <3>2. ~(j = place /\ ids[j] = new)
      BY <1>2, <1>7, <3>1
    <3> DEFINE Stood(l) == ((j = l /\ l < place) \/ (j = l + 1 /\ l >= place)) /\ ids[j] = old[l]
    <3>9. \E l \in 1 .. n : Stood(l)
      <4>1. \/ \E l \in 1 .. n : j = l /\ l < place /\ ids[j] = old[l]
            \/ \E l \in 1 .. n : j = l + 1 /\ l >= place /\ ids[j] = old[l]
        BY <1>6, <3>2
      <4>2. CASE \E l \in 1 .. n : j = l /\ l < place /\ ids[j] = old[l]
        <5>1. PICK l \in 1 .. n : j = l /\ l < place /\ ids[j] = old[l]
          BY <4>2
        <5>2. Stood(l)
          BY <5>1
        <5> HIDE DEF Stood
        <5>3. QED
          BY <5>2
      <4>3. CASE \E l \in 1 .. n : j = l + 1 /\ l >= place /\ ids[j] = old[l]
        <5>1. PICK l \in 1 .. n : j = l + 1 /\ l >= place /\ ids[j] = old[l]
          BY <4>3
        <5>2. Stood(l)
          BY <5>1
        <5> HIDE DEF Stood
        <5>3. QED
          BY <5>2
      <4>4. QED
        BY <4>1, <4>2, <4>3
    <3>3. PICK l \in 1 .. n : Stood(l)
      BY <3>9
    <3>4. k = l
      BY <1>1, <1>7, <3>1, <3>3
    <3>5. ~(k >= place)
      BY <1>1, <3>1
    <3>6. QED
      BY <3>1, <3>3, <3>4, <3>5
  <2>3. CASE \E k \in 1 .. n : i = k + 1 /\ k >= place /\ ids[i] = old[k]
    <3>1. PICK k \in 1 .. n : i = k + 1 /\ k >= place /\ ids[i] = old[k]
      BY <2>3
    <3>2. ~(j = place /\ ids[j] = new)
      BY <1>2, <1>7, <3>1
    <3> DEFINE Stood(l) == ((j = l /\ l < place) \/ (j = l + 1 /\ l >= place)) /\ ids[j] = old[l]
    <3>9. \E l \in 1 .. n : Stood(l)
      <4>1. \/ \E l \in 1 .. n : j = l /\ l < place /\ ids[j] = old[l]
            \/ \E l \in 1 .. n : j = l + 1 /\ l >= place /\ ids[j] = old[l]
        BY <1>6, <3>2
      <4>2. CASE \E l \in 1 .. n : j = l /\ l < place /\ ids[j] = old[l]
        <5>1. PICK l \in 1 .. n : j = l /\ l < place /\ ids[j] = old[l]
          BY <4>2
        <5>2. Stood(l)
          BY <5>1
        <5> HIDE DEF Stood
        <5>3. QED
          BY <5>2
      <4>3. CASE \E l \in 1 .. n : j = l + 1 /\ l >= place /\ ids[j] = old[l]
        <5>1. PICK l \in 1 .. n : j = l + 1 /\ l >= place /\ ids[j] = old[l]
          BY <4>3
        <5>2. Stood(l)
          BY <5>1
        <5> HIDE DEF Stood
        <5>3. QED
          BY <5>2
      <4>4. QED
        BY <4>1, <4>2, <4>3
    <3>3. PICK l \in 1 .. n : Stood(l)
      BY <3>9
    <3>4. k = l
      BY <1>1, <1>7, <3>1, <3>3
    <3>5. ~(k < place)
      BY <1>1, <3>1
    <3>6. QED
      BY <3>1, <3>3, <3>4, <3>5
  <2>4. QED
    BY <1>6, <2>1, <2>2, <2>3
<1>8. Carries(more, new, b)
  <2>1. place \in 1 .. Len(more.order) /\ more.order[place] = new /\ more.bits[place] = b
    BY <1>1, <1>4, <1>5 DEF ids, bs
  <2>2. QED
    BY <2>1 DEF Carries
<1>9. ASSUME NEW id, NEW c, Carries(sim, id, c) PROVE Carries(more, id, c)
  <2>1. PICK i \in 1 .. n : old[i] = id /\ oldBits[i] = c
    BY <1>9 DEF Carries, n, old, oldBits
  <2>2. CASE i < place
    <3>1. i \in 1 .. Len(more.order) /\ more.order[i] = id /\ more.bits[i] = c
      BY <1>1, <1>4, <1>5, <2>1, <2>2 DEF ids, bs
    <3>2. QED
      BY <3>1 DEF Carries
  <2>3. CASE i >= place
    <3>3. i + 1 \in 1 .. n + 1
      BY <1>1
    <3>4. ids[i + 1] = old[i] /\ bs[i + 1] = oldBits[i]
      BY <1>4, <1>5, <2>3
    <3>1. i + 1 \in 1 .. Len(more.order) /\ more.order[i + 1] = id /\ more.bits[i + 1] = c
      BY <1>4, <2>1, <3>3, <3>4 DEF ids, bs
    <3>2. QED
      BY <3>1 DEF Carries
  <2>4. i < place \/ i >= place
    BY <1>1
  <2>5. QED
    BY <2>2, <2>3, <2>4
<1>10. ASSUME NEW id, InUse(more, id) PROVE InUse(sim, id) \/ id = new
  <2>1. PICK i \in 1 .. n + 1 : ids[i] = id
    BY <1>4, <1>10 DEF InUse, ids
  <2>2. id = new \/ \E j \in 1 .. n : id = old[j]
    BY <1>6, <2>1
  <2>3. QED
    BY <2>2 DEF InUse, n, old
<1>11. IsSimulator(more)
  BY <1>4, <1>5, <1>7 DEF IsSimulator, ids, bs
<1>12. ~InUse(sim, new)
  BY <1>2 DEF InUse, n, old
<1>13. QED
  BY <1>2, <1>4, <1>8, <1>9, <1>10, <1>11, <1>12 DEF new, n, ids

(* A bit is taken out: the others keep theirs. *)
LEMMA BitTaken ==
  ASSUME NEW sim, IsSimulator(sim), NEW id, InUse(sim, id)
  PROVE  LET less == Deallocate(sim, id)
         IN  /\ IsSimulator(less)
             /\ Len(less.order) = Len(sim.order) - 1
             /\ \A o, c : o # id /\ Carries(sim, o, c) => Carries(less, o, c)
<1> DEFINE n == Len(sim.order)
           less == Deallocate(sim, id)
           old == sim.order
           oldBits == sim.bits
<1>1. /\ n \in Nat /\ old \in Seq(Nat) /\ oldBits \in Seq(Bits) /\ Len(oldBits) = n
      /\ DOMAIN old = 1 .. n /\ n = Len(old)
      /\ \A i, j \in 1 .. n : old[i] = old[j] => i = j
  BY LenProperties DEF IsSimulator
<1>2. PICK i \in 1 .. n : old[i] = id
  BY DEF InUse
<1> HIDE DEF n, old, oldBits
<1>3. IndexIn(old, id) = i
  BY <1>1, <1>2, IndexOfOccurrence
<1>4. less.order = RemoveAt(old, i) /\ less.bits = RemoveAt(oldBits, i)
  BY <1>3 DEF Deallocate, old, oldBits
<1> HIDE DEF less
<1> DEFINE ids == less.order
           bs == less.bits
<1> HIDE DEF ids, bs
<1>5. /\ ids \in Seq(Nat) /\ Len(ids) = n - 1
      /\ \A j \in 1 .. n - 1 : j < i => ids[j] = old[j]
      /\ \A j \in 1 .. n - 1 : j >= i => ids[j] = old[j + 1]
  <2>1. ids = RemoveAt(old, i) /\ i \in 1 .. Len(old)
    BY <1>1, <1>2, <1>4 DEF ids
  <2>2. /\ RemoveAt(old, i) \in Seq(Nat) /\ Len(RemoveAt(old, i)) = Len(old) - 1
        /\ \A j \in 1 .. Len(old) - 1 : j < i => RemoveAt(old, i)[j] = old[j]
        /\ \A j \in 1 .. Len(old) - 1 : j >= i => RemoveAt(old, i)[j] = old[j + 1]
    BY ONLY <1>1, <2>1, ElementsMoveDown
  <2>3. QED
    BY ONLY <1>1, <2>1, <2>2
<1>6. /\ bs \in Seq(Bits) /\ Len(bs) = n - 1
      /\ \A j \in 1 .. n - 1 : j < i => bs[j] = oldBits[j]
      /\ \A j \in 1 .. n - 1 : j >= i => bs[j] = oldBits[j + 1]
  <2>1. bs = RemoveAt(oldBits, i) /\ i \in 1 .. Len(oldBits)
    BY <1>1, <1>2, <1>4 DEF bs
  <2>2. /\ RemoveAt(oldBits, i) \in Seq(Bits) /\ Len(RemoveAt(oldBits, i)) = Len(oldBits) - 1
        /\ \A j \in 1 .. Len(oldBits) - 1 : j < i => RemoveAt(oldBits, i)[j] = oldBits[j]
        /\ \A j \in 1 .. Len(oldBits) - 1 : j >= i => RemoveAt(oldBits, i)[j] = oldBits[j + 1]
    BY ONLY <1>1, <2>1, ElementsMoveDown
  <2>3. QED
    BY ONLY <1>1, <2>1, <2>2
<1>7. ASSUME NEW k \in 1 .. n - 1
      PROVE  \E l \in 1 .. n : ids[k] = old[l] /\ ((k < i /\ l = k) \/ (k >= i /\ l = k + 1))
  <2>1. CASE k < i
    <3>1. k \in 1 .. n
      BY <1>1
    <3>2. ids[k] = old[k]
      BY <1>5, <2>1
    <3>3. QED
      BY <2>1, <3>1, <3>2
  <2>2. CASE k >= i
    <3>1. k + 1 \in 1 .. n
      BY <1>1
    <3>2. ids[k] = old[k + 1]
      BY <1>5, <2>2
    <3> DEFINE From(l) == ids[k] = old[l] /\ ((k < i /\ l = k) \/ (k >= i /\ l = k + 1))
    <3>3. From(k + 1)
      BY <2>2, <3>2
    <3> HIDE DEF From
    <3>4. \E l \in 1 .. n : From(l)
      BY <3>1, <3>3
    <3>5. QED
      BY <3>4 DEF From
  <2>3. k < i \/ k >= i
    BY <1>1
  <2>4. QED
    BY <2>1, <2>2, <2>3
<1>8. ASSUME NEW j \in 1 .. n - 1, NEW k \in 1 .. n - 1, ids[j] = ids[k]
      PROVE  j = k
  <2>1. PICK l \in 1 .. n : ids[j] = old[l] /\ ((j < i /\ l = j) \/ (j >= i /\ l = j + 1))
    BY <1>7
  <2>2. PICK m \in 1 .. n : ids[k] = old[m] /\ ((k < i /\ m = k) \/ (k >= i /\ m = k + 1))
    BY <1>7
  <2>3. l = m
    BY <1>1, <1>8, <2>1, <2>2
  <2>4. QED
    BY <1>1, <2>1, <2>2, <2>3
<1>9. ASSUME NEW o, NEW c, o # id, Carries(sim, o, c) PROVE Carries(less, o, c)
  <2>1. PICK j \in 1 .. n : old[j] = o /\ oldBits[j] = c
    BY <1>9 DEF Carries, n, old, oldBits
  <2>2. j # i
    BY <1>2, <1>9, <2>1
  <2>3. CASE j < i
    <3>1. j \in 1 .. n - 1
      BY <1>1, <2>3
    <3>2. j \in 1 .. Len(less.order) /\ less.order[j] = o /\ less.bits[j] = c
      BY <1>5, <1>6, <2>1, <2>3, <3>1 DEF ids, bs
    <3>3. QED
      BY <3>2 DEF Carries
  <2>4. CASE j > i
    <3>1. j - 1 \in 1 .. n - 1 /\ j - 1 >= i /\ (j - 1) + 1 = j
      BY <1>1, <2>4
    <3>2. ids[j - 1] = old[(j - 1) + 1] /\ bs[j - 1] = oldBits[(j - 1) + 1]
      BY <1>5, <1>6, <3>1
    <3>3. j - 1 \in 1 .. Len(less.order) /\ less.order[j - 1] = o /\ less.bits[j - 1] = c
      BY <1>5, <2>1, <3>1, <3>2 DEF ids, bs
    <3>4. QED
      BY <3>3 DEF Carries
  <2>5. QED
    BY <1>1, <2>2, <2>3, <2>4
<1>10. IsSimulator(less)
  BY <1>5, <1>6, <1>8 DEF IsSimulator, ids, bs
<1>11. QED
  BY <1>5, <1>9, <1>10 DEF less, n, ids

\* The register reg of the simulator has in order what kept says.
RegisterKept(sim, reg, kept) ==
  /\ IsSimulator(sim)
  /\ reg \in Seq(Nat) /\ kept \in Seq(Bits) /\ Len(reg) = Len(kept)
  /\ \A p, q \in 1 .. Len(reg) : reg[p] = reg[q] => p = q
  /\ \A p \in 1 .. Len(reg) : Carries(sim, reg[p], kept[p])

(* Where the bit of a position is. *)
LEMMA BitFound ==
  ASSUME NEW sim, NEW reg, NEW kept, RegisterKept(sim, reg, kept), NEW p \in 1 .. Len(reg)
  PROVE  /\ IndexIn(sim.order, reg[p]) \in 1 .. Len(sim.order)
         /\ sim.order[IndexIn(sim.order, reg[p])] = reg[p]
         /\ sim.bits[IndexIn(sim.order, reg[p])] = kept[p]
<1>1. PICK i \in 1 .. Len(sim.order) : sim.order[i] = reg[p] /\ sim.bits[i] = kept[p]
  BY DEF RegisterKept, Carries
<1>2. /\ DOMAIN sim.order = 1 .. Len(sim.order)
      /\ \A j \in 1 .. Len(sim.order) : sim.order[j] = sim.order[i] => j = i
  BY LenProperties DEF RegisterKept, IsSimulator
<1>3. IndexIn(sim.order, reg[p]) = i
  BY <1>1, <1>2, IndexOfOccurrence
<1>4. QED
  BY <1>1, <1>3

(* add_fresh_qubit *)
LEMMA KeptWhenAdded ==
  ASSUME NEW sim, NEW reg, NEW kept, RegisterKept(sim, reg, kept),
         NEW place \in 1 .. Len(sim.order) + 1
  PROVE  RegisterKept(Allocate(sim, place), Append(reg, FreshId(sim.order)), Append(kept, 0))
<1> DEFINE more == Allocate(sim, place)
           new == FreshId(sim.order)
           n == Len(reg)
           reg2 == Append(reg, new)
           kept2 == Append(kept, 0)
<1>1. /\ more.order = InsertAt(sim.order, place, FreshId(sim.order))
      /\ more.bits = InsertAt(sim.bits, place, 0)
  BY DEF Allocate
<1>2. /\ IsSimulator(more) /\ new \in Nat /\ ~InUse(sim, new) /\ Carries(more, new, 0)
      /\ \A id, c : Carries(sim, id, c) => Carries(more, id, c)
  <2>1. IsSimulator(sim) /\ 0 \in Bits
    BY DEF RegisterKept, Bits
  <2> HIDE DEF more
  <2>2. QED
    BY <1>1, <2>1, BitInserted
<1> HIDE DEF more, new
<1>3. /\ n \in Nat /\ reg \in Seq(Nat) /\ kept \in Seq(Bits) /\ Len(kept) = n
      /\ \A p, q \in 1 .. n : reg[p] = reg[q] => p = q
      /\ \A p \in 1 .. n : Carries(sim, reg[p], kept[p])
  BY LenProperties DEF RegisterKept
<1>4. /\ reg2 \in Seq(Nat) /\ Len(reg2) = n + 1 /\ reg2[n + 1] = new
      /\ \A p \in 1 .. n : reg2[p] = reg[p]
  BY <1>2, <1>3, AppendProperties
<1>5. /\ kept2 \in Seq(Bits) /\ Len(kept2) = n + 1 /\ kept2[n + 1] = 0
      /\ \A p \in 1 .. n : kept2[p] = kept[p]
  <2>1. 0 \in Bits
    BY DEF Bits
  <2>2. QED
    BY <1>3, <2>1, AppendProperties
<1>6. ASSUME NEW p \in 1 .. n PROVE reg[p] # new
  <2>1. Carries(sim, reg[p], kept[p])
    BY <1>3
  <2>2. InUse(sim, reg[p])
    BY <2>1 DEF Carries, InUse
  <2>3. QED
    BY <1>2, <2>2
<1> HIDE DEF n, reg2, kept2
<1>7. ASSUME NEW p \in 1 .. n + 1 PROVE p \in 1 .. n \/ p = n + 1
  BY <1>3
<1>8. ASSUME NEW p \in 1 .. n + 1, NEW q \in 1 .. n + 1, reg2[p] = reg2[q] PROVE p = q
  <2>1. CASE p \in 1 .. n /\ q \in 1 .. n
    <3>1. reg[p] = reg[q]
      BY <1>4, <1>8, <2>1
    <3>2. QED
      BY <1>3, <2>1, <3>1
  <2>2. CASE p \in 1 .. n /\ q = n + 1
    BY <1>4, <1>6, <1>8, <2>2
  <2>3. CASE p = n + 1 /\ q \in 1 .. n
    BY <1>4, <1>6, <1>8, <2>3
  <2>4. QED
    BY <1>7, <2>1, <2>2, <2>3
<1>9. \A p \in 1 .. n + 1 : Carries(more, reg2[p], kept2[p])
  BY <1>2, <1>3, <1>4, <1>5, <1>7
<1>10. RegisterKept(more, reg2, kept2)
  BY <1>2, <1>4, <1>5, <1>8, <1>9 DEF RegisterKept
<1>11. QED
  BY <1>10 DEF more, new, reg2, kept2

(* A gate writes the bit of one position. *)
LEMMA KeptWhenWritten ==
  ASSUME NEW sim, NEW reg, NEW kept, RegisterKept(sim, reg, kept),
         NEW p \in 1 .. Len(reg), NEW b \in Bits
  PROVE  RegisterKept([order |-> sim.order,
                       bits |-> [sim.bits EXCEPT ![IndexIn(sim.order, reg[p])] = b]],
                      reg, [kept EXCEPT ![p] = b])
<1> DEFINE i == IndexIn(sim.order, reg[p])
           n == Len(sim.order)
           new == [order |-> sim.order, bits |-> [sim.bits EXCEPT ![i] = b]]
           kept2 == [kept EXCEPT ![p] = b]
<1>1. i \in 1 .. n /\ sim.order[i] = reg[p]
  BY BitFound
<1> HIDE DEF i
<1>2. /\ n \in Nat /\ sim.order \in Seq(Nat) /\ sim.bits \in Seq(Bits) /\ Len(sim.bits) = n
      /\ DOMAIN sim.bits = 1 .. n
      /\ \A j, k \in 1 .. n : sim.order[j] = sim.order[k] => j = k
  BY LenProperties DEF RegisterKept, IsSimulator
<1>3. /\ new.order = sim.order /\ new.bits \in Seq(Bits) /\ Len(new.bits) = n
      /\ \A j \in 1 .. n : new.bits[j] = IF j = i THEN b ELSE sim.bits[j]
  BY <1>1, <1>2, ExceptSeq
<1>4. /\ reg \in Seq(Nat) /\ kept \in Seq(Bits) /\ Len(kept) = Len(reg)
      /\ DOMAIN kept = 1 .. Len(reg)
      /\ \A q, r \in 1 .. Len(reg) : reg[q] = reg[r] => q = r
      /\ \A q \in 1 .. Len(reg) : Carries(sim, reg[q], kept[q])
  BY LenProperties DEF RegisterKept
<1>5. /\ kept2 \in Seq(Bits) /\ Len(kept2) = Len(reg)
      /\ \A q \in 1 .. Len(reg) : kept2[q] = IF q = p THEN b ELSE kept[q]
  BY <1>4, ExceptSeq
<1> HIDE DEF new, kept2, n
<1>6. ASSUME NEW q \in 1 .. Len(reg) PROVE Carries(new, reg[q], kept2[q])
  <2>1. CASE q = p
    <3>1. i \in 1 .. Len(new.order) /\ new.order[i] = reg[q] /\ new.bits[i] = kept2[q]
      BY <1>1, <1>3, <1>5, <2>1 DEF n
    <3>2. QED
      BY <3>1 DEF Carries
  <2>2. CASE q # p
    <3>1. PICK j \in 1 .. n : sim.order[j] = reg[q] /\ sim.bits[j] = kept[q]
      BY <1>4 DEF Carries, n
    <3>2. j # i
      BY <1>1, <1>4, <2>2, <3>1
    <3>3. j \in 1 .. Len(new.order) /\ new.order[j] = reg[q] /\ new.bits[j] = kept2[q]
      BY <1>3, <1>5, <2>2, <3>1, <3>2 DEF n
    <3>4. QED
      BY <3>3 DEF Carries
  <2>3. QED
    BY <2>1, <2>2
<1>7. IsSimulator(new)
  BY <1>2, <1>3 DEF IsSimulator, n
<1>8. RegisterKept(new, reg, kept2)
  BY <1>4, <1>5, <1>6, <1>7 DEF RegisterKept
<1>9. QED
  BY <1>8 DEF new, kept2, i

(* measure_qubit and remove_qubit *)
LEMMA KeptWhenRemoved ==
  ASSUME NEW sim, NEW reg, NEW kept, RegisterKept(sim, reg, kept), NEW p \in 1 .. Len(reg)
  PROVE  RegisterKept(Deallocate(sim, reg[p]), RemoveAt(reg, p), RemoveAt(kept, p))
<1> DEFINE less == Deallocate(sim, reg[p])
           n == Len(reg)
           reg2 == RemoveAt(reg, p)
           kept2 == RemoveAt(kept, p)
<1>1. /\ n \in Nat /\ reg \in Seq(Nat) /\ kept \in Seq(Bits) /\ Len(kept) = n
      /\ \A q, r \in 1 .. n : reg[q] = reg[r] => q = r
      /\ \A q \in 1 .. n : Carries(sim, reg[q], kept[q])
  BY LenProperties DEF RegisterKept
<1>2. /\ IsSimulator(less)
      /\ \A o, c : o # reg[p] /\ Carries(sim, o, c) => Carries(less, o, c)
  <2>1. InUse(sim, reg[p])
    BY <1>1 DEF InUse, Carries
  <2>2. IsSimulator(sim)
    BY DEF RegisterKept
  <2>3. QED
    BY <2>1, <2>2, BitTaken
<1> HIDE DEF less
<1>3. /\ reg2 \in Seq(Nat) /\ Len(reg2) = n - 1
      /\ \A j \in 1 .. n - 1 : j < p => reg2[j] = reg[j]
      /\ \A j \in 1 .. n - 1 : j >= p => reg2[j] = reg[j + 1]
  BY <1>1, ElementsMoveDown
<1>4. /\ kept2 \in Seq(Bits) /\ Len(kept2) = n - 1
      /\ \A j \in 1 .. n - 1 : j < p => kept2[j] = kept[j]
      /\ \A j \in 1 .. n - 1 : j >= p => kept2[j] = kept[j + 1]
  <2>1. p \in 1 .. Len(kept)
    BY <1>1
  <2>2. /\ kept2 \in Seq(Bits) /\ Len(kept2) = Len(kept) - 1
        /\ \A j \in 1 .. Len(kept) - 1 : j < p => kept2[j] = kept[j]
        /\ \A j \in 1 .. Len(kept) - 1 : j >= p => kept2[j] = kept[j + 1]
    BY <1>1, <2>1, ElementsMoveDown
  <2> HIDE DEF kept2
  <2>3. QED
    BY <1>1, <2>2
<1> HIDE DEF reg2, kept2
<1> DEFINE From(j) == IF j < p THEN j ELSE j + 1
<1>5. ASSUME NEW j \in 1 .. n - 1
      PROVE  /\ From(j) \in 1 .. n /\ From(j) # p
             /\ reg2[j] = reg[From(j)] /\ kept2[j] = kept[From(j)]
  <2>1. CASE j < p
    BY <1>1, <1>3, <1>4, <2>1
  <2>2. CASE j >= p
    <3>1. From(j) = j + 1 /\ j + 1 \in 1 .. n /\ j + 1 # p
      BY <1>1, <2>2
    <3>2. QED
      BY <1>3, <1>4, <2>2, <3>1
  <2>3. j < p \/ j >= p
    BY <1>1
  <2>4. QED
    BY <2>1, <2>2, <2>3
<1>6. ASSUME NEW j \in 1 .. n - 1, NEW k \in 1 .. n - 1, From(j) = From(k) PROVE j = k
  <2>1. j \in Int /\ k \in Int /\ p \in Int
    BY <1>1
  <2>2. QED
    BY <1>6, <2>1
<1> HIDE DEF From, n
<1>7. ASSUME NEW j \in 1 .. n - 1, NEW k \in 1 .. n - 1, reg2[j] = reg2[k] PROVE j = k
  <2>1. reg[From(j)] = reg[From(k)] /\ From(j) \in 1 .. n /\ From(k) \in 1 .. n
    BY <1>5, <1>7
  <2>2. From(j) = From(k)
    BY <1>1, <2>1
  <2>3. QED
    BY <1>6, <2>2
<1>8. ASSUME NEW j \in 1 .. n - 1 PROVE Carries(less, reg2[j], kept2[j])
  <2>1. reg[From(j)] # reg[p]
    BY <1>1, <1>5 DEF n
  <2>2. Carries(sim, reg[From(j)], kept[From(j)])
    BY <1>1, <1>5
  <2>3. QED
    BY <1>2, <1>5, <2>1, <2>2
<1>9. RegisterKept(less, reg2, kept2)
  BY <1>2, <1>3, <1>4, <1>7, <1>8 DEF RegisterKept
<1>10. QED
  BY <1>9 DEF less, reg2, kept2

-----------------------------------------------------------------------------
(* Absorbing a register: one bit after the other.                          *)

\* a bit and its identifier more, put at place
OneMore(s, place, b) ==
  [order |-> InsertAt(s.order, place, FreshId(s.order)),
   bits |-> InsertAt(s.bits, place, b),
   new |-> Append(s.new, FreshId(s.order))]

\* f holds the simulators after 0 .. k bits of state
AllocatesUpTo(f, k, sim, state, places) ==
  f = [j \in 0 .. k |->
         IF j = 0 THEN [order |-> sim.order, bits |-> sim.bits, new |-> << >>]
         ELSE OneMore(f[j - 1], places[j], state[j])]

LEMMA AllocationsExist ==
  ASSUME NEW sim, NEW state, NEW places, NEW k \in Nat
  PROVE  \E f : AllocatesUpTo(f, k, sim, state, places)
<1> DEFINE Next2(d, i) == OneMore(d, places[i], state[i])
           base == [order |-> sim.order, bits |-> sim.bits, new |-> << >>]
           Ups(f, j) == f = [i \in 0 .. j |-> IF i = 0 THEN base ELSE Next2(f[i - 1], i)]
           S == {j \in Nat : \E f : Ups(f, j)}
<1> HIDE DEF Next2, base
<1>1. 0 \in S
  <2>1. Ups([i \in 0 .. 0 |-> base], 0)
    OBVIOUS
  <2>2. QED
    BY <2>1
<1>2. ASSUME NEW j \in Nat, j \in S
      PROVE  j + 1 \in S
  <2>1. PICK f : Ups(f, j)
    BY <1>2
  <2> DEFINE g == [i \in 0 .. j + 1 |->
                     IF i = j + 1 THEN Next2(f[j], j + 1) ELSE f[i]]
  <2>2. ASSUME NEW i \in 0 .. j + 1
        PROVE  g[i] = IF i = 0 THEN base ELSE Next2(g[i - 1], i)
    <3>1. CASE i = j + 1
      BY <3>1
    <3>2. CASE i # j + 1
      <4>1. i \in 0 .. j /\ g[i] = f[i] /\ (i # 0 => g[i - 1] = f[i - 1])
        BY <3>2
      <4>2. f[i] = IF i = 0 THEN base ELSE Next2(f[i - 1], i)
        BY <2>1, <4>1
      <4>3. QED
        BY <4>1, <4>2
    <3>3. QED
      BY <3>1, <3>2
  <2>3. DOMAIN g = 0 .. j + 1 /\ g = [i \in 0 .. j + 1 |-> g[i]]
    OBVIOUS
  <2> HIDE DEF g
  <2>4. Ups(g, j + 1)
    BY <2>2, <2>3
  <2>5. QED
    BY <2>4
<1>3. k \in S
  <2> HIDE DEF S
  <2> QED BY <1>1, <1>2, SetInduction
<1>4. PICK f : Ups(f, k)
  BY <1>3
<1>5. AllocatesUpTo(f, k, sim, state, places)
  BY <1>4 DEF AllocatesUpTo, Next2, base
<1>6. QED
  BY <1>5

(* WithState is the last of them. *)
LEMMA WithStateAllocates ==
  ASSUME NEW sim, NEW state, NEW places, Len(state) \in Nat
  PROVE  \E f : /\ AllocatesUpTo(f, Len(state), sim, state, places)
                /\ WithState(sim, state, places) = f[Len(state)]
<1> DEFINE all == CHOOSE f : AllocatesUpTo(f, Len(state), sim, state, places)
<1>1. AllocatesUpTo(all, Len(state), sim, state, places)
  BY AllocationsExist
<1>2. WithState(sim, state, places) = all[Len(state)]
  BY DEF WithState, AllocatesUpTo, OneMore
<1>3. QED
  BY <1>1, <1>2

\* s is sim with j bits of state, whose identifiers are listed in s.new
HoldsToo(s, sim, state, j) ==
  /\ IsSimulator(s) /\ Len(s.order) = Len(sim.order) + j
  /\ s.new \in Seq(Nat) /\ Len(s.new) = j
  /\ \A id, c : Carries(sim, id, c) => Carries(s, id, c)
  /\ \A i \in 1 .. j : Carries(s, s.new[i], state[i]) /\ ~InUse(sim, s.new[i])
  /\ \A i, k \in 1 .. j : s.new[i] = s.new[k] => i = k

LEMMA OneMoreBit ==
  ASSUME NEW sim, IsSimulator(sim), NEW state, NEW j \in Nat, NEW s, HoldsToo(s, sim, state, j),
         NEW place \in 1 .. Len(s.order) + 1, state[j + 1] \in Bits
  PROVE  HoldsToo(OneMore(s, place, state[j + 1]), sim, state, j + 1)
<1> DEFINE more == OneMore(s, place, state[j + 1])
           new == FreshId(s.order)
           n == Len(sim.order)
<1>1. /\ more.order = InsertAt(s.order, place, FreshId(s.order))
      /\ more.bits = InsertAt(s.bits, place, state[j + 1])
      /\ more.new = Append(s.new, new)
  BY DEF OneMore
<1> HIDE DEF more
<1>2. /\ IsSimulator(more) /\ Len(more.order) = Len(s.order) + 1 /\ new \in Nat
      /\ ~InUse(s, new) /\ Carries(more, new, state[j + 1])
      /\ \A id, c : Carries(s, id, c) => Carries(more, id, c)
  <2>1. IsSimulator(s)
    BY DEF HoldsToo
  <2>2. QED
    BY <1>1, <2>1, BitInserted
<1> HIDE DEF new
<1>3. /\ Len(s.order) = n + j /\ s.new \in Seq(Nat) /\ Len(s.new) = j
      /\ \A id, c : Carries(sim, id, c) => Carries(s, id, c)
      /\ \A i \in 1 .. j : Carries(s, s.new[i], state[i]) /\ ~InUse(sim, s.new[i])
      /\ \A i, k \in 1 .. j : s.new[i] = s.new[k] => i = k
  BY DEF HoldsToo
<1>4. n \in Nat
  BY LenProperties DEF IsSimulator
<1> HIDE DEF n
<1> DEFINE ids == more.new
<1>5. /\ ids \in Seq(Nat) /\ Len(ids) = j + 1 /\ ids[j + 1] = new
      /\ \A i \in 1 .. j : ids[i] = s.new[i]
  BY <1>1, <1>2, <1>3, AppendProperties
<1> HIDE DEF ids
<1>6. ASSUME NEW i \in 1 .. j + 1 PROVE i \in 1 .. j \/ i = j + 1
  OBVIOUS
<1>7. ASSUME NEW i \in 1 .. j PROVE s.new[i] # new
  <2>1. Carries(s, s.new[i], state[i])
    BY <1>3
  <2>2. InUse(s, s.new[i])
    BY <2>1 DEF Carries, InUse
  <2>3. QED
    BY <1>2, <2>2
<1>8. ~InUse(sim, new)
  <2>1. ASSUME InUse(sim, new) PROVE FALSE
    <3>1. PICK i \in 1 .. Len(sim.order) : sim.order[i] = new
      BY <2>1 DEF InUse
    <3>2. Carries(sim, new, sim.bits[i])
      BY <3>1 DEF Carries
    <3>3. Carries(s, new, sim.bits[i])
      BY <1>3, <3>2
    <3>4. InUse(s, new)
      BY <3>3 DEF Carries, InUse
    <3>5. QED
      BY <1>2, <3>4
  <2>2. QED
    BY <2>1
<1>9. ASSUME NEW i \in 1 .. j + 1
      PROVE  Carries(more, ids[i], state[i]) /\ ~InUse(sim, ids[i])
  <2>1. CASE i \in 1 .. j
    <3>1. ids[i] = s.new[i] /\ Carries(s, s.new[i], state[i]) /\ ~InUse(sim, s.new[i])
      BY <1>3, <1>5, <2>1
    <3>2. QED
      BY <1>2, <3>1
  <2>2. CASE i = j + 1
    BY <1>2, <1>5, <1>8, <2>2
  <2>3. QED
    BY <1>6, <2>1, <2>2
<1>10. ASSUME NEW i \in 1 .. j + 1, NEW k \in 1 .. j + 1, ids[i] = ids[k] PROVE i = k
  <2>1. CASE i \in 1 .. j /\ k \in 1 .. j
    <3>1. s.new[i] = s.new[k]
      BY <1>5, <1>10, <2>1
    <3>2. QED
      BY <1>3, <2>1, <3>1
  <2>2. CASE i \in 1 .. j /\ k = j + 1
    BY <1>5, <1>7, <1>10, <2>2
  <2>3. CASE i = j + 1 /\ k \in 1 .. j
    BY <1>5, <1>7, <1>10, <2>3
  <2>4. QED
    BY <1>6, <2>1, <2>2, <2>3
<1>11. \A id, c : Carries(sim, id, c) => Carries(more, id, c)
  BY <1>2, <1>3
<1>12. Len(more.order) = n + (j + 1)
  BY <1>2, <1>3, <1>4
<1>13. QED
  BY <1>2, <1>5, <1>9, <1>10, <1>11, <1>12 DEF HoldsToo, more, ids, n

(* allocate_qureg: the simulator with all bits of state. *)
LEMMA WithStateHoldsToo ==
  ASSUME NEW sim, IsSimulator(sim), NEW state \in Seq(Bits), NEW places,
         \A j \in 1 .. Len(state) : places[j] \in 1 .. Len(sim.order) + j
  PROVE  HoldsToo(WithState(sim, state, places), sim, state, Len(state))
<1> DEFINE n == Len(state)
<1>1. n \in Nat /\ \A j \in 1 .. n : state[j] \in Bits
  BY LenProperties, ElementOfSeq
<1>2. PICK f : AllocatesUpTo(f, n, sim, state, places) /\ WithState(sim, state, places) = f[n]
  BY <1>1, WithStateAllocates
<1>3. /\ f[0] = [order |-> sim.order, bits |-> sim.bits, new |-> << >>]
      /\ \A j \in 1 .. n : f[j] = OneMore(f[j - 1], places[j], state[j])
  <2> HIDE DEF n
  <2>1. \A j \in 0 .. n : f[j] =
           IF j = 0 THEN [order |-> sim.order, bits |-> sim.bits, new |-> << >>]
           ELSE OneMore(f[j - 1], places[j], state[j])
    BY <1>2 DEF AllocatesUpTo
  <2>2. QED
    BY <1>1, <2>1
<1> HIDE DEF n
<1> DEFINE S == {j \in Nat : j <= n => HoldsToo(f[j], sim, state, j)}
<1>4. 0 \in S
  <2> DEFINE s == f[0]
  <2>1. s.order = sim.order /\ s.bits = sim.bits /\ s.new = << >>
    BY <1>3
  <2> HIDE DEF s
  <2>2. IsSimulator(s) /\ \A id, c : Carries(sim, id, c) => Carries(s, id, c)
    BY <2>1 DEF IsSimulator, Carries
  <2>3. Len(sim.order) \in Nat
    BY LenProperties DEF IsSimulator
  <2>4. << >> \in Seq(Nat) /\ Len(<< >>) = 0
    OBVIOUS
  <2>5. HoldsToo(s, sim, state, 0)
    BY <2>1, <2>2, <2>3, <2>4 DEF HoldsToo
  <2>6. QED
    BY <2>5 DEF s
<1>5. ASSUME NEW j \in Nat, j \in S PROVE j + 1 \in S
  <2>1. SUFFICES ASSUME j + 1 <= n PROVE HoldsToo(f[j + 1], sim, state, j + 1)
    OBVIOUS
  <2>2. HoldsToo(f[j], sim, state, j)
    BY <1>1, <1>5, <2>1
  <2>3. j + 1 \in 1 .. n /\ (j + 1) - 1 = j
    BY <1>1, <2>1
  <2>4. f[j + 1] = OneMore(f[j], places[j + 1], state[j + 1])
    <3>1. f[j + 1] = OneMore(f[(j + 1) - 1], places[j + 1], state[j + 1])
      BY <1>3, <2>3
    <3>2. QED
      BY <2>3, <3>1
  <2>5. places[j + 1] \in 1 .. Len(f[j].order) + 1
    <3>1. places[j + 1] \in 1 .. Len(sim.order) + (j + 1)
      BY <2>3 DEF n
    <3>2. Len(f[j].order) = Len(sim.order) + j
      BY <2>2 DEF HoldsToo
    <3>3. Len(sim.order) \in Nat
      BY LenProperties DEF IsSimulator
    <3> DEFINE a == Len(sim.order)
               b == Len(f[j].order)
    <3> HIDE DEF a, b
    <3>4. a + (j + 1) = b + 1
      <4>1. b = a + j /\ a \in Nat
        BY <3>2, <3>3 DEF a, b
      <4>2. QED
        BY ONLY <4>1, j \in Nat
    <3>5. QED
      BY <3>1, <3>4 DEF a, b
  <2>6. state[j + 1] \in Bits
    BY <1>1, <2>3
  <2>7. QED
    BY <2>2, <2>4, <2>5, <2>6, OneMoreBit
<1>6. n \in S
  <2> HIDE DEF S
  <2> QED BY <1>1, <1>4, <1>5, SetInduction
<1>7. QED
  BY <1>1, <1>2, <1>6 DEF n

(* absorb and absorb_parts *)
LEMMA KeptWhenAbsorbed ==
  ASSUME NEW sim, NEW reg, NEW kept, RegisterKept(sim, reg, kept),
         NEW sim2, NEW reg2, NEW kept2, RegisterKept(sim2, reg2, kept2),
         NEW places,
         \A j \in 1 .. Len(sim2.bits) : places[j] \in 1 .. Len(sim.order) + j
  PROVE  LET all == WithState(sim, sim2.bits, places)
         IN  RegisterKept(all,
                          reg \o [p \in DOMAIN reg2 |-> all.new[IndexIn(sim2.order, reg2[p])]],
                          kept \o kept2)
<1> DEFINE all == WithState(sim, sim2.bits, places)
           n == Len(reg)
           m == Len(reg2)
           k == Len(sim2.bits)
           At2(p) == IndexIn(sim2.order, reg2[p])
           new == [p \in DOMAIN reg2 |-> all.new[At2(p)]]
<1>1. /\ n \in Nat /\ reg \in Seq(Nat) /\ kept \in Seq(Bits) /\ Len(kept) = n
      /\ \A p, q \in 1 .. n : reg[p] = reg[q] => p = q
      /\ \A p \in 1 .. n : Carries(sim, reg[p], kept[p])
  BY LenProperties DEF RegisterKept
<1>2. /\ m \in Nat /\ reg2 \in Seq(Nat) /\ kept2 \in Seq(Bits) /\ Len(kept2) = m
      /\ DOMAIN reg2 = 1 .. m
      /\ \A p, q \in 1 .. m : reg2[p] = reg2[q] => p = q
  BY LenProperties DEF RegisterKept
<1>3. /\ sim2.bits \in Seq(Bits) /\ k \in Nat /\ Len(sim2.order) = k
      /\ IsSimulator(sim)
  BY LenProperties DEF RegisterKept, IsSimulator
<1>4. HoldsToo(all, sim, sim2.bits, k)
  BY <1>3, WithStateHoldsToo
<1> HIDE DEF all
<1>5. /\ IsSimulator(all) /\ all.new \in Seq(Nat) /\ Len(all.new) = k
      /\ \A id, c : Carries(sim, id, c) => Carries(all, id, c)
      /\ \A i \in 1 .. k : Carries(all, all.new[i], sim2.bits[i]) /\ ~InUse(sim, all.new[i])
      /\ \A i, j \in 1 .. k : all.new[i] = all.new[j] => i = j
      /\ \A i \in 1 .. k : all.new[i] \in Nat
  BY <1>4, ElementOfSeq DEF HoldsToo
<1>6. ASSUME NEW p \in 1 .. m
      PROVE  At2(p) \in 1 .. k /\ sim2.order[At2(p)] = reg2[p] /\ sim2.bits[At2(p)] = kept2[p]
  BY <1>3, BitFound
<1> HIDE DEF At2
<1>7. new \in Seq(Nat) /\ Len(new) = m /\ \A p \in 1 .. m : new[p] = all.new[At2(p)]
  <2>1. \A p \in 1 .. m : all.new[At2(p)] \in Nat
    BY <1>5, <1>6
  <2>2. new = [p \in 1 .. m |-> all.new[At2(p)]]
    BY <1>2
  <2>3. new \in [1 .. m -> Nat]
    BY <2>1, <2>2
  <2>4. new \in Seq(Nat) /\ DOMAIN new = 1 .. m
    BY <1>2, <2>3
  <2>5. Len(new) = m
    BY <1>2, <2>4, LenProperties
  <2>6. QED
    BY <2>2, <2>4, <2>5
<1> HIDE DEF new, n, m, k
<1> DEFINE r == reg \o new
           v == kept \o kept2
<1>8. /\ r \in Seq(Nat) /\ Len(r) = n + m
      /\ \A p \in 1 .. n : r[p] = reg[p]
      /\ \A p \in 1 .. m : r[n + p] = new[p]
  <2>1. /\ r \in Seq(Nat) /\ Len(r) = Len(reg) + Len(new)
        /\ \A i \in 1 .. Len(reg) + Len(new) : r[i] = IF i <= Len(reg) THEN reg[i] ELSE new[i - Len(reg)]
    BY <1>1, <1>7, ConcatProperties
  <2> HIDE DEF r
  <2>2. \A i \in 1 .. n + m : r[i] = IF i <= n THEN reg[i] ELSE new[i - n]
    BY <1>7, <2>1 DEF n
  <2>3. ASSUME NEW p \in 1 .. m PROVE r[n + p] = new[p]
    <3>1. n + p \in 1 .. n + m /\ ~(n + p <= n) /\ (n + p) - n = p
      BY <1>1, <1>2
    <3>2. QED
      BY <2>2, <3>1
  <2>4. ASSUME NEW p \in 1 .. n PROVE r[p] = reg[p]
    BY <1>1, <1>2, <2>2
  <2>5. QED
    BY <1>7, <2>1, <2>3, <2>4 DEF n
<1>9. /\ v \in Seq(Bits) /\ Len(v) = n + m
      /\ \A p \in 1 .. n : v[p] = kept[p]
      /\ \A p \in 1 .. m : v[n + p] = kept2[p]
  <2>1. /\ v \in Seq(Bits) /\ Len(v) = Len(kept) + Len(kept2)
        /\ \A i \in 1 .. Len(kept) + Len(kept2) : v[i] = IF i <= Len(kept) THEN kept[i] ELSE kept2[i - Len(kept)]
    <3>1. kept \in Seq(Bits) /\ kept2 \in Seq(Bits)
      BY <1>1, <1>2
    <3>2. QED
      BY ONLY <3>1, ConcatProperties DEF v
  <2> HIDE DEF v
  <2>2. \A i \in 1 .. n + m : v[i] = IF i <= n THEN kept[i] ELSE kept2[i - n]
    BY <1>1, <1>2, <2>1
  <2>3. ASSUME NEW p \in 1 .. m PROVE v[n + p] = kept2[p]
    <3>1. n + p \in 1 .. n + m /\ ~(n + p <= n) /\ (n + p) - n = p
      BY <1>1, <1>2
    <3>2. QED
      BY <2>2, <3>1
  <2>4. ASSUME NEW p \in 1 .. n PROVE v[p] = kept[p]
    <3>1. p \in 1 .. n + m /\ p <= n
      BY <1>1, <1>2
    <3>2. QED
      BY <2>2, <3>1
  <2>5. QED
    BY <1>1, <1>2, <2>1, <2>3, <2>4
<1> HIDE DEF r, v
<1>10. ASSUME NEW p \in 1 .. n + m, p \notin 1 .. n PROVE \E q \in 1 .. m : p = n + q
  <2>1. p - n \in 1 .. m /\ p = n + (p - n)
    BY <1>1, <1>2, <1>10
  <2>2. QED
    BY <2>1
<1>11. ASSUME NEW p \in 1 .. n, NEW q \in 1 .. m PROVE reg[p] # new[q]
  <2>1. InUse(sim, reg[p])
    BY <1>1 DEF Carries, InUse
  <2>2. ~InUse(sim, new[q])
    BY <1>5, <1>6, <1>7
  <2>3. QED
    BY <2>1, <2>2
<1>12. ASSUME NEW p \in 1 .. m, NEW q \in 1 .. m, new[p] = new[q] PROVE p = q
  <2>1. At2(p) = At2(q)
    <3>1. new[p] = all.new[At2(p)] /\ new[q] = all.new[At2(q)]
      BY <1>7
    <3>2. all.new[At2(p)] = all.new[At2(q)]
      BY <1>12, <3>1
    <3>3. At2(p) \in 1 .. k /\ At2(q) \in 1 .. k
      BY <1>6
    <3>4. QED
      BY <1>5, <3>2, <3>3
  <2>2. reg2[p] = reg2[q]
    BY <1>6, <2>1
  <2>3. QED
    BY <1>2, <2>2
<1>13. ASSUME NEW p \in 1 .. n + m, NEW q \in 1 .. n + m, r[p] = r[q] PROVE p = q
  <2>1. CASE p \in 1 .. n /\ q \in 1 .. n
    <3>1. reg[p] = reg[q]
      BY <1>8, <1>13, <2>1
    <3>2. QED
      BY <1>1, <2>1, <3>1
  <2>2. CASE p \in 1 .. n /\ q \notin 1 .. n
    BY <1>8, <1>10, <1>11, <1>13, <2>2
  <2>3. CASE p \notin 1 .. n /\ q \in 1 .. n
    BY <1>8, <1>10, <1>11, <1>13, <2>3
  <2>4. CASE p \notin 1 .. n /\ q \notin 1 .. n
    <3>1. PICK x \in 1 .. m : p = n + x
      BY <1>10, <2>4
    <3>2. PICK y \in 1 .. m : q = n + y
      BY <1>10, <2>4
    <3>3. new[x] = new[y]
      BY <1>8, <1>13, <3>1, <3>2
    <3>4. x = y
      BY <1>12, <3>3
    <3>5. QED
      BY <3>1, <3>2, <3>4
  <2>5. QED
    BY <2>1, <2>2, <2>3, <2>4
<1>14. ASSUME NEW p \in 1 .. n + m PROVE Carries(all, r[p], v[p])
  <2>1. CASE p \in 1 .. n
    <3>1. r[p] = reg[p] /\ v[p] = kept[p] /\ Carries(sim, reg[p], kept[p])
      BY <1>1, <1>8, <1>9, <2>1
    <3>2. QED
      BY <1>5, <3>1
  <2>2. CASE p \notin 1 .. n
    <3>1. PICK x \in 1 .. m : p = n + x
      BY <1>10, <2>2
    <3>2. r[p] = all.new[At2(x)] /\ v[p] = sim2.bits[At2(x)] /\ At2(x) \in 1 .. k
      BY <1>6, <1>7, <1>8, <1>9, <3>1
    <3>3. QED
      BY <1>5, <3>2
  <2>3. QED
    BY <2>1, <2>2
<1>15. RegisterKept(all, r, v)
  BY <1>5, <1>8, <1>9, <1>13, <1>14 DEF RegisterKept
<1>16. QED
  BY <1>15 DEF all, r, v, new, At2

-----------------------------------------------------------------------------
(* The engines.                                                            *)

\* In an engine, position p is the qubit that was promised there.
EngineKept(e) ==
  /\ promised[e] \in Seq(Bits)
  /\ activeQubits[e] = Len(promised[e]) /\ activeQubits[e] <= MaxQubits[e]
  /\ backend = "qutip" => factors[e] = promised[e]
  /\ backend = "projectq" => RegisterKept(Simulator(e), qubitReg[e], promised[e])

\* The bits of the simulator may stand in any order: what is inductive is
\* that each identifier of the register carries its bit.
EnginesKept ==
  /\ backend \in {"stabilizer"} \cup Numerical
  /\ DOMAIN activeQubits = Engines /\ DOMAIN factors = Engines /\ DOMAIN qubitReg = Engines
  /\ DOMAIN order = Engines /\ DOMAIN bits = Engines /\ DOMAIN promised = Engines
  /\ \A e \in Engines : EngineKept(e)

LEMMA NothingKept ==
  RegisterKept([order |-> << >>, bits |-> << >>], << >>, << >>)
<1> DEFINE sim == [order |-> << >>, bits |-> << >>]
<1>1. sim.order = << >> /\ sim.bits = << >>
  OBVIOUS
<1> HIDE DEF sim
<1>2. << >> \in Seq(Nat) /\ << >> \in Seq(Bits) /\ Len(<< >>) = 0
  OBVIOUS
<1>3. 1 .. 0 = {}
  OBVIOUS
<1>4. IsSimulator(sim)
  BY <1>1, <1>2, <1>3 DEF IsSimulator
<1>5. RegisterKept(sim, << >>, << >>)
  BY <1>2, <1>3, <1>4 DEF RegisterKept
<1>6. QED
  BY <1>5 DEF sim

LEMMA EnginesStart ==
  InitBackend => EnginesKept
<1> SUFFICES ASSUME InitBackend PROVE EnginesKept
  OBVIOUS
<1>1. ASSUME NEW e \in Engines PROVE EngineKept(e)
  <2>1. /\ promised[e] = << >> /\ activeQubits[e] = 0 /\ factors[e] = << >>
        /\ qubitReg[e] = << >> /\ Simulator(e) = [order |-> << >>, bits |-> << >>]
    BY DEF InitBackend, Simulator
  <2>2. << >> \in Seq(Bits) /\ Len(<< >>) = 0
    OBVIOUS
  <2>3. 0 <= MaxQubits[e]
    BY StabilizerAssumption
  <2>4. QED
    BY <2>1, <2>2, <2>3, NothingKept DEF EngineKept
<1>2. QED
  BY <1>1 DEF EnginesKept, InitBackend

(* add_fresh_qubit *)
LEMMA KeptByAdd ==
  ASSUME EnginesKept, backend' = backend, NEW e \in Engines, NEW place \in 1 .. MaxInAll,
         AddNumerical(e, place)
  PROVE  EnginesKept'
<1> USE DEF At
<1>1. /\ promised' = [promised EXCEPT ![e] = Append(promised[e], 0)]
      /\ activeQubits' = [activeQubits EXCEPT ![e] = activeQubits[e] + 1]
      /\ activeQubits[e] < MaxQubits[e]
  BY DEF AddNumerical
<1>2. /\ EngineKept(e) /\ DOMAIN promised = Engines /\ DOMAIN activeQubits = Engines
      /\ MaxQubits[e] \in Nat /\ backend \in {"stabilizer"} \cup Numerical
  BY StabilizerAssumption DEF EnginesKept
<1>3. /\ promised[e] \in Seq(Bits) /\ Len(promised[e]) \in Nat
      /\ activeQubits[e] = Len(promised[e])
  BY <1>2, LenProperties DEF EngineKept
<1>4. /\ Append(promised[e], 0) \in Seq(Bits)
      /\ Len(Append(promised[e], 0)) = Len(promised[e]) + 1
  <2>1. 0 \in Bits
    BY DEF Bits
  <2>2. QED
    BY <1>3, <2>1, AppendProperties
<1>5. /\ promised'[e] = Append(promised[e], 0)
      /\ promised'[e] \in Seq(Bits) /\ activeQubits'[e] = Len(promised'[e])
      /\ activeQubits'[e] <= MaxQubits[e]
  BY <1>1, <1>2, <1>3, <1>4
<1>6. CASE backend = "qutip"
  <2>1. /\ factors' = [factors EXCEPT ![e] = Append(factors[e], 0)]
        /\ UNCHANGED projectQVars
    BY <1>6 DEF AddNumerical, QutipAdd
  <2>2. EngineKept(e)'
    BY <1>2, <1>5, <1>6, <2>1 DEF EngineKept, EnginesKept
  <2>3. ASSUME NEW d \in Engines, d # e PROVE EngineKept(d)'
    BY <1>1, <1>6, <2>1, <2>3 DEF EngineKept, EnginesKept
  <2>4. QED
    BY <1>1, <2>1, <2>2, <2>3 DEF EnginesKept, projectQVars
<1>7. CASE backend = "projectq"
  <2> DEFINE sim == Simulator(e)
             more == Allocate(sim, place)
  <2>1. /\ place <= Len(order[e]) + 1
        /\ qubitReg' = [qubitReg EXCEPT ![e] = Append(qubitReg[e], FreshId(order[e]))]
        /\ order' = [order EXCEPT ![e] = more.order]
        /\ bits' = [bits EXCEPT ![e] = more.bits]
        /\ UNCHANGED factors
    BY <1>7 DEF AddNumerical, ProjectQAdd, SetSimulator
  <2>2. RegisterKept(sim, qubitReg[e], promised[e])
    BY <1>2, <1>7 DEF EngineKept
  <2>3. sim.order = order[e] /\ sim.bits = bits[e]
    BY DEF Simulator
  <2>4. place \in 1 .. Len(sim.order) + 1
    <3>1. Len(order[e]) \in Nat
      BY <2>2, <2>3, LenProperties DEF RegisterKept, IsSimulator
    <3>2. MaxInAll \in Nat
      BY StabilizerAssumption
    <3>3. QED
      BY <2>1, <2>3, <3>1, <3>2
  <2>5. RegisterKept(more, Append(qubitReg[e], FreshId(sim.order)), Append(promised[e], 0))
    <3> HIDE DEF sim
    <3>1. QED
      BY <2>2, <2>4, KeptWhenAdded
  <2>6. more = [order |-> more.order, bits |-> more.bits]
    BY DEF Allocate
  <2> HIDE DEF sim, more
  <2>7. /\ order'[e] = more.order /\ bits'[e] = more.bits
        /\ qubitReg'[e] = Append(qubitReg[e], FreshId(sim.order))
    BY <2>1, <2>3 DEF EnginesKept
  <2>8. RegisterKept(Simulator(e)', qubitReg'[e], promised'[e])
    BY <1>5, <2>5, <2>6, <2>7 DEF Simulator
  <2>9. EngineKept(e)'
    BY <1>5, <1>7, <2>8 DEF EngineKept
  <2>10. ASSUME NEW d \in Engines, d # e PROVE EngineKept(d)'
    BY <1>1, <1>7, <2>1, <2>10 DEF EngineKept, EnginesKept, Simulator
  <2>11. QED
    BY <1>1, <2>1, <2>9, <2>10 DEF EnginesKept
<1>8. backend \in Numerical
  BY DEF AddNumerical, Numerical
<1>9. QED
  BY <1>6, <1>7, <1>8 DEF Numerical

(* A write of one position: factors or the bit, and what was promised. *)
LEMMA KeptByWrite ==
  ASSUME EnginesKept, backend' = backend, NEW e \in Engines, NEW p \in Active(e), NEW b \in Bits,
         promised' = [promised EXCEPT ![e] = [promised[e] EXCEPT ![p] = b]],
         \/ /\ backend = "qutip" /\ UNCHANGED bits
            /\ factors' = [factors EXCEPT ![e] = [factors[e] EXCEPT ![p] = b]]
         \/ /\ backend = "projectq" /\ UNCHANGED factors
            /\ bits' = [bits EXCEPT ![e] = [bits[e] EXCEPT ![BitOf(e, p)] = b]],
         UNCHANGED <<activeQubits, qubitReg, order>>
  PROVE  EnginesKept'
<1>1. /\ EngineKept(e) /\ DOMAIN promised = Engines
      /\ promised[e] \in Seq(Bits) /\ p \in 1 .. Len(promised[e])
      /\ activeQubits[e] = Len(promised[e])
  BY DEF EnginesKept, EngineKept, Active
<1>2. promised'[e] = [promised[e] EXCEPT ![p] = b]
  BY <1>1
<1>3. promised'[e] \in Seq(Bits) /\ Len(promised'[e]) = Len(promised[e])
  BY <1>1, <1>2, ExceptSeq
<1>4. CASE backend = "qutip" /\ factors' = [factors EXCEPT ![e] = [factors[e] EXCEPT ![p] = b]]
           /\ UNCHANGED bits
  <2>1. EngineKept(e)'
    BY <1>1, <1>2, <1>3, <1>4 DEF EngineKept, EnginesKept
  <2>2. ASSUME NEW d \in Engines, d # e PROVE EngineKept(d)'
    BY <1>4, <2>2 DEF EngineKept, EnginesKept
  <2>3. QED
    BY <1>4, <2>1, <2>2 DEF EnginesKept
<1>5. CASE backend = "projectq" /\ bits' = [bits EXCEPT ![e] = [bits[e] EXCEPT ![BitOf(e, p)] = b]]
           /\ UNCHANGED factors
  <2> DEFINE sim == Simulator(e)
             new == [order |-> sim.order,
                     bits |-> [sim.bits EXCEPT ![IndexIn(sim.order, qubitReg[e][p])] = b]]
  <2>1. RegisterKept(sim, qubitReg[e], promised[e])
    BY <1>1, <1>5 DEF EngineKept
  <2>2. sim.order = order[e] /\ sim.bits = bits[e]
    BY DEF Simulator
  <2>3. p \in 1 .. Len(qubitReg[e])
    BY <1>1, <2>1 DEF RegisterKept
  <2>4. RegisterKept(new, qubitReg[e], [promised[e] EXCEPT ![p] = b])
    <3> HIDE DEF sim
    <3>1. QED
      BY <2>1, <2>3, KeptWhenWritten
  <2>5. bits'[e] = [bits[e] EXCEPT ![BitOf(e, p)] = b]
    BY <1>5 DEF EnginesKept
  <2>6. Simulator(e)' = new
    BY <2>2, <2>5 DEF Simulator, BitOf
  <2> HIDE DEF new, sim
  <2>7. EngineKept(e)'
    BY <1>1, <1>2, <1>3, <1>5, <2>4, <2>6 DEF EngineKept
  <2>8. ASSUME NEW d \in Engines, d # e PROVE EngineKept(d)'
    BY <1>5, <2>8 DEF EngineKept, EnginesKept, Simulator
  <2>9. QED
    BY <1>5, <2>7, <2>8 DEF EnginesKept
<1>6. QED
  BY <1>4, <1>5

(* The bit that the code finds for a position is the one promised. *)
LEMMA BitIsPromised ==
  ASSUME EnginesKept, NEW e \in Engines, NEW p \in Active(e)
  PROVE  /\ backend = "qutip" => factors[e][p] = promised[e][p]
         /\ backend = "projectq" => /\ bits[e][BitOf(e, p)] = promised[e][p]
                                    /\ BitOf(e, p) \in DOMAIN bits[e]
         /\ promised[e][p] \in Bits /\ p \in DOMAIN promised[e]
<1>1. EngineKept(e) /\ p \in 1 .. Len(promised[e]) /\ promised[e] \in Seq(Bits)
  BY DEF EnginesKept, EngineKept, Active
<1>2. promised[e][p] \in Bits /\ p \in DOMAIN promised[e]
  BY <1>1, ElementOfSeq, LenProperties
<1>3. ASSUME backend = "projectq"
      PROVE  bits[e][BitOf(e, p)] = promised[e][p] /\ BitOf(e, p) \in DOMAIN bits[e]
  <2> DEFINE sim == Simulator(e)
  <2>1. RegisterKept(sim, qubitReg[e], promised[e])
    BY <1>1, <1>3 DEF EngineKept
  <2>2. sim.order = order[e] /\ sim.bits = bits[e]
    BY DEF Simulator
  <2> HIDE DEF sim
  <2>3. p \in 1 .. Len(qubitReg[e])
    BY <1>1, <2>1 DEF RegisterKept
  <2>4. /\ IndexIn(sim.order, qubitReg[e][p]) \in 1 .. Len(sim.order)
        /\ sim.bits[IndexIn(sim.order, qubitReg[e][p])] = promised[e][p]
    BY <2>1, <2>3, BitFound
  <2>5. DOMAIN sim.bits = 1 .. Len(sim.order)
    BY <2>1, LenProperties DEF RegisterKept, IsSimulator
  <2>6. QED
    BY <2>2, <2>4, <2>5 DEF BitOf
<1>4. QED
  BY <1>1, <1>2, <1>3 DEF EngineKept

LEMMA KeptByOneQubit ==
  ASSUME EnginesKept, backend' = backend, NEW e \in Engines, NEW p \in Active(e), OneQubit(e, p)
  PROVE  EnginesKept'
<1> DEFINE b == Flip(promised[e][p])
<1>1. b \in Bits
  BY BitIsPromised DEF Flip, Bits
<1>2. promised' = [promised EXCEPT ![e] = [promised[e] EXCEPT ![p] = b]]
  BY DEF OneQubit, At
<1>3. UNCHANGED <<activeQubits, qubitReg, order>>
  BY DEF OneQubit
<1>4. CASE backend = "qutip" /\ QutipOneQubit(e, p) /\ UNCHANGED bits
  <2>1. factors' = [factors EXCEPT ![e] = [factors[e] EXCEPT ![p] = Flip(factors[e][p])]]
    BY <1>4 DEF QutipOneQubit, At
  <2>2. factors[e][p] = promised[e][p]
    BY <1>4, BitIsPromised
  <2>3. factors' = [factors EXCEPT ![e] = [factors[e] EXCEPT ![p] = b]]
    BY <2>1, <2>2
  <2> HIDE DEF b
  <2>4. QED
    BY <1>1, <1>2, <1>3, <1>4, <2>3, KeptByWrite
<1>5. CASE backend = "projectq" /\ ProjectQOneQubit(e, p) /\ UNCHANGED factors
  <2>1. bits' = [bits EXCEPT ![e] = [bits[e] EXCEPT ![BitOf(e, p)] = Flip(bits[e][BitOf(e, p)])]]
    BY <1>5 DEF ProjectQOneQubit, At
  <2>2. bits[e][BitOf(e, p)] = promised[e][p]
    BY <1>5, BitIsPromised
  <2>3. bits' = [bits EXCEPT ![e] = [bits[e] EXCEPT ![BitOf(e, p)] = b]]
    BY <2>1, <2>2
  <2> HIDE DEF b
  <2>4. QED
    BY <1>1, <1>2, <1>3, <1>5, <2>3, KeptByWrite
<1>6. QED
  BY <1>4, <1>5 DEF OneQubit

LEMMA KeptByTwoQubits ==
  ASSUME EnginesKept, backend' = backend, NEW e \in Engines,
         NEW c \in Active(e), NEW t \in Active(e), TwoQubits(e, c, t)
  PROVE  EnginesKept'
<1> DEFINE b == CNOTs(promised[e][c], promised[e][t])
<1>1. b \in Bits
  <2>1. promised[e][c] \in Bits /\ promised[e][t] \in Bits
    BY BitIsPromised
  <2>2. ASSUME NEW x \in Bits, NEW y \in Bits PROVE CNOTs(x, y) \in Bits
    BY DEF CNOTs, Bits
  <2>3. QED
    BY <2>1, <2>2
<1>2. promised' = [promised EXCEPT ![e] = [promised[e] EXCEPT ![t] = b]]
  BY DEF TwoQubits, At
<1>3. UNCHANGED <<activeQubits, qubitReg, order>>
  BY DEF TwoQubits
<1>4. CASE backend = "qutip" /\ QutipTwoQubits(e, c, t) /\ UNCHANGED bits
  <2>1. factors' = [factors EXCEPT ![e] = [factors[e] EXCEPT ![t] = CNOTs(factors[e][c], factors[e][t])]]
    BY <1>4 DEF QutipTwoQubits, At
  <2>2. factors[e][c] = promised[e][c] /\ factors[e][t] = promised[e][t]
    BY <1>4, BitIsPromised
  <2>3. factors' = [factors EXCEPT ![e] = [factors[e] EXCEPT ![t] = b]]
    BY <2>1, <2>2
  <2> HIDE DEF b
  <2>4. QED
    BY <1>1, <1>2, <1>3, <1>4, <2>3, KeptByWrite
<1>5. CASE backend = "projectq" /\ ProjectQTwoQubits(e, c, t) /\ UNCHANGED factors
  <2>1. bits' = [bits EXCEPT ![e] = [bits[e] EXCEPT ![BitOf(e, t)] =
                                       CNOTs(bits[e][BitOf(e, c)], bits[e][BitOf(e, t)])]]
    BY <1>5 DEF ProjectQTwoQubits, At
  <2>2. bits[e][BitOf(e, c)] = promised[e][c] /\ bits[e][BitOf(e, t)] = promised[e][t]
    BY <1>5, BitIsPromised
  <2>3. bits' = [bits EXCEPT ![e] = [bits[e] EXCEPT ![BitOf(e, t)] = b]]
    BY <2>1, <2>2
  <2> HIDE DEF b
  <2>4. QED
    BY <1>1, <1>2, <1>3, <1>5, <2>3, KeptByWrite
<1>6. QED
  BY <1>4, <1>5 DEF TwoQubits

(* measure_qubit and remove_qubit *)
LEMMA KeptByTake ==
  ASSUME EnginesKept, backend' = backend, NEW e \in Engines, NEW p \in Active(e), Take(e, p)
  PROVE  EnginesKept'
<1> USE DEF At
<1>1. /\ promised' = [promised EXCEPT ![e] = RemoveAt(promised[e], p)]
      /\ activeQubits' = [activeQubits EXCEPT ![e] = activeQubits[e] - 1]
  BY DEF Take
<1>2. /\ EngineKept(e) /\ DOMAIN promised = Engines /\ DOMAIN activeQubits = Engines
      /\ MaxQubits[e] \in Nat
  BY StabilizerAssumption DEF EnginesKept
<1>3. /\ promised[e] \in Seq(Bits) /\ Len(promised[e]) \in Nat
      /\ activeQubits[e] = Len(promised[e]) /\ activeQubits[e] <= MaxQubits[e]
      /\ p \in 1 .. Len(promised[e])
  BY <1>2, LenProperties DEF EngineKept, Active
<1>4. /\ RemoveAt(promised[e], p) \in Seq(Bits)
      /\ Len(RemoveAt(promised[e], p)) = Len(promised[e]) - 1
  BY <1>3, RemoveAtProperties
<1>5. /\ promised'[e] = RemoveAt(promised[e], p)
      /\ promised'[e] \in Seq(Bits) /\ activeQubits'[e] = Len(promised'[e])
      /\ activeQubits'[e] <= MaxQubits[e]
  BY <1>1, <1>2, <1>3, <1>4
<1>6. CASE backend = "qutip"
  <2>1. /\ factors' = [factors EXCEPT ![e] = RemoveAt(factors[e], p)]
        /\ UNCHANGED projectQVars
    BY <1>6 DEF Take, QutipRemove
  <2>2. EngineKept(e)'
    BY <1>2, <1>5, <1>6, <2>1 DEF EngineKept, EnginesKept
  <2>3. ASSUME NEW d \in Engines, d # e PROVE EngineKept(d)'
    BY <1>1, <1>6, <2>1, <2>3 DEF EngineKept, EnginesKept
  <2>4. QED
    BY <1>1, <2>1, <2>2, <2>3 DEF EnginesKept, projectQVars
<1>7. CASE backend = "projectq"
  <2> DEFINE sim == Simulator(e)
             less == Deallocate(sim, qubitReg[e][p])
  <2>1. /\ qubitReg' = [qubitReg EXCEPT ![e] = RemoveAt(qubitReg[e], p)]
        /\ order' = [order EXCEPT ![e] = less.order]
        /\ bits' = [bits EXCEPT ![e] = less.bits]
        /\ UNCHANGED factors
    BY <1>7 DEF Take, ProjectQRemove, SetSimulator
  <2>2. RegisterKept(sim, qubitReg[e], promised[e])
    BY <1>2, <1>7 DEF EngineKept
  <2>3. p \in 1 .. Len(qubitReg[e])
    BY <1>3, <2>2 DEF RegisterKept
  <2>4. RegisterKept(less, RemoveAt(qubitReg[e], p), RemoveAt(promised[e], p))
    <3> HIDE DEF sim
    <3>1. QED
      BY <2>2, <2>3, KeptWhenRemoved
  <2>5. less = [order |-> less.order, bits |-> less.bits]
    BY DEF Deallocate
  <2> HIDE DEF sim, less
  <2>6. /\ order'[e] = less.order /\ bits'[e] = less.bits
        /\ qubitReg'[e] = RemoveAt(qubitReg[e], p)
    BY <2>1 DEF EnginesKept
  <2>7. RegisterKept(Simulator(e)', qubitReg'[e], promised'[e])
    BY <1>5, <2>4, <2>5, <2>6 DEF Simulator
  <2>8. EngineKept(e)'
    BY <1>5, <1>7, <2>7 DEF EngineKept
  <2>9. ASSUME NEW d \in Engines, d # e PROVE EngineKept(d)'
    BY <1>1, <1>7, <2>1, <2>9 DEF EngineKept, EnginesKept, Simulator
  <2>10. QED
    BY <1>1, <2>1, <2>8, <2>9 DEF EnginesKept
<1>8. backend \in Numerical
  BY DEF Take, Numerical
<1>9. QED
  BY <1>6, <1>7, <1>8 DEF Numerical

(* absorb and absorb_parts; the other register is deleted *)
LEMMA KeptByAbsorb ==
  ASSUME EnginesKept, backend' = backend, NEW e \in Engines, NEW f \in Engines \ {e},
         NEW places \in [DOMAIN bits[f] -> 1 .. MaxInAll], AbsorbRegister(e, f, places)
  PROVE  EnginesKept'
<1>1. /\ promised' = [promised EXCEPT ![e] = @ \o promised[f], ![f] = << >>]
      /\ activeQubits' = [activeQubits EXCEPT ![e] = @ + activeQubits[f], ![f] = 0]
      /\ activeQubits[e] + activeQubits[f] <= MaxQubits[e]
  BY DEF AbsorbRegister
<1>2. /\ EngineKept(e) /\ EngineKept(f) /\ DOMAIN promised = Engines /\ DOMAIN activeQubits = Engines
      /\ MaxQubits[f] \in Nat /\ e # f /\ f \in Engines
  BY StabilizerAssumption DEF EnginesKept
<1>3. /\ promised[e] \in Seq(Bits) /\ Len(promised[e]) \in Nat
      /\ promised[f] \in Seq(Bits) /\ Len(promised[f]) \in Nat
      /\ activeQubits[e] = Len(promised[e]) /\ activeQubits[f] = Len(promised[f])
  BY <1>2, LenProperties DEF EngineKept
<1>4. /\ promised[e] \o promised[f] \in Seq(Bits)
      /\ Len(promised[e] \o promised[f]) = Len(promised[e]) + Len(promised[f])
  BY <1>3, ConcatProperties
<1>5. /\ promised'[e] = promised[e] \o promised[f] /\ promised'[f] = << >>
      /\ activeQubits'[e] = activeQubits[e] + activeQubits[f] /\ activeQubits'[f] = 0
  BY <1>1, <1>2
<1>6. << >> \in Seq(Bits) /\ Len(<< >>) = 0
  OBVIOUS
<1>7. /\ promised'[e] \in Seq(Bits) /\ activeQubits'[e] = Len(promised'[e])
      /\ activeQubits'[e] <= MaxQubits[e]
      /\ promised'[f] \in Seq(Bits) /\ activeQubits'[f] = Len(promised'[f])
      /\ activeQubits'[f] <= MaxQubits[f]
  <2>1. promised'[e] \in Seq(Bits) /\ promised'[f] \in Seq(Bits)
    BY <1>4, <1>5, <1>6
  <2>2. activeQubits'[e] = Len(promised'[e])
    BY <1>3, <1>4, <1>5
  <2>3. activeQubits'[f] = Len(promised'[f])
    BY <1>5, <1>6
  <2>4. activeQubits'[e] <= MaxQubits[e]
    BY <1>1, <1>5
  <2>5. activeQubits'[f] <= MaxQubits[f]
    BY <1>2, <1>5
  <2>6. QED
    BY <2>1, <2>2, <2>3, <2>4, <2>5
<1>8. CASE backend = "qutip"
  <2>1. /\ factors' = [factors EXCEPT ![e] = @ \o factors[f], ![f] = << >>]
        /\ UNCHANGED projectQVars
    BY <1>8 DEF AbsorbRegister, QutipAbsorb
  <2>2. factors'[e] = factors[e] \o factors[f] /\ factors'[f] = << >>
    BY <1>2, <2>1 DEF EnginesKept
  <2>3. EngineKept(e)' /\ EngineKept(f)'
    BY <1>2, <1>5, <1>7, <1>8, <2>2 DEF EngineKept
  <2>4. ASSUME NEW d \in Engines, d # e, d # f PROVE EngineKept(d)'
    BY <1>1, <1>8, <2>1, <2>4 DEF EngineKept, EnginesKept
  <2>5. QED
    BY <1>1, <2>1, <2>3, <2>4 DEF EnginesKept, projectQVars
<1>9. CASE backend = "projectq"
  <2> DEFINE sim == Simulator(e)
             sim2 == Simulator(f)
             all == WithState(sim, bits[f], places)
             new == [p \in DOMAIN qubitReg[f] |-> all.new[Places(f)[p]]]
  <2>1. /\ \A j \in DOMAIN bits[f] : places[j] < Len(order[e]) + 1 + j
        /\ order' = [order EXCEPT ![e] = all.order, ![f] = << >>]
        /\ bits' = [bits EXCEPT ![e] = all.bits, ![f] = << >>]
        /\ qubitReg' = [qubitReg EXCEPT ![e] = @ \o new, ![f] = << >>]
        /\ UNCHANGED factors
    BY <1>9 DEF AbsorbRegister, ProjectQAbsorb
  <2>2. /\ RegisterKept(sim, qubitReg[e], promised[e])
        /\ RegisterKept(sim2, qubitReg[f], promised[f])
    BY <1>2, <1>9 DEF EngineKept
  <2>3. sim.order = order[e] /\ sim2.order = order[f] /\ sim2.bits = bits[f]
    BY DEF Simulator
  <2>4. new = [p \in DOMAIN qubitReg[f] |-> all.new[IndexIn(sim2.order, qubitReg[f][p])]]
    BY <2>3 DEF Places, BitOf
  <2> HIDE DEF sim, sim2, new
  <2>5. \A j \in 1 .. Len(sim2.bits) : places[j] \in 1 .. Len(sim.order) + j
    <3>1. Len(order[e]) \in Nat /\ DOMAIN bits[f] = 1 .. Len(sim2.bits) /\ Len(sim2.bits) \in Nat
      BY <2>2, <2>3, LenProperties DEF RegisterKept, IsSimulator
    <3>2. MaxInAll \in Nat
      BY StabilizerAssumption
    <3>3. ASSUME NEW j \in 1 .. Len(sim2.bits) PROVE places[j] \in 1 .. Len(order[e]) + j
      <4>1. j \in DOMAIN bits[f] /\ j \in Nat
        BY <3>1
      <4>2. places[j] \in 1 .. MaxInAll /\ places[j] < Len(order[e]) + 1 + j
        BY <2>1, <4>1
      <4> DEFINE n == Len(order[e])
      <4> HIDE DEF n
      <4>3. n \in Nat /\ places[j] < n + 1 + j
        BY <3>1, <4>2 DEF n
      <4>4. places[j] \in 1 .. n + j
        BY <3>2, <4>1, <4>2, <4>3
      <4>5. QED
        BY <4>4 DEF n
    <3>4. QED
      BY <2>3, <3>3
  <2>6. RegisterKept(all, qubitReg[e] \o new, promised[e] \o promised[f])
    <3>1. all = WithState(sim, sim2.bits, places)
      BY <2>3
    <3> HIDE DEF all
    <3>2. LET a == WithState(sim, sim2.bits, places)
          IN  RegisterKept(a,
                qubitReg[e] \o [p \in DOMAIN qubitReg[f] |-> a.new[IndexIn(sim2.order, qubitReg[f][p])]],
                promised[e] \o promised[f])
      BY <2>2, <2>5, KeptWhenAbsorbed
    <3>3. QED
      BY <2>4, <3>1, <3>2
  <2> HIDE DEF all
  <2>7. /\ order'[e] = all.order /\ bits'[e] = all.bits /\ qubitReg'[e] = qubitReg[e] \o new
        /\ order'[f] = << >> /\ bits'[f] = << >> /\ qubitReg'[f] = << >>
    BY <1>2, <2>1 DEF EnginesKept
  <2>8. RegisterKept(Simulator(e)', qubitReg'[e], promised'[e])
    <3>1. Simulator(e)' = [order |-> all.order, bits |-> all.bits]
      BY <2>7 DEF Simulator
    <3> DEFINE s == [order |-> all.order, bits |-> all.bits]
    <3>2. s.order = all.order /\ s.bits = all.bits
      OBVIOUS
    <3> HIDE DEF s
    <3>3. RegisterKept(s, qubitReg[e] \o new, promised[e] \o promised[f])
      BY <2>6, <3>2 DEF RegisterKept, IsSimulator, Carries
    <3>4. QED
      BY <1>5, <2>7, <3>1, <3>3 DEF s
  <2>9. RegisterKept(Simulator(f)', qubitReg'[f], promised'[f])
    BY <1>5, <2>7, NothingKept DEF Simulator
  <2>10. EngineKept(e)' /\ EngineKept(f)'
    BY <1>7, <1>9, <2>8, <2>9 DEF EngineKept
  <2>11. ASSUME NEW d \in Engines, d # e, d # f PROVE EngineKept(d)'
    BY <1>1, <1>9, <2>1, <2>11 DEF EngineKept, EnginesKept, Simulator
  <2>12. QED
    BY <1>1, <2>1, <2>10, <2>11 DEF EnginesKept
<1>10. backend \in Numerical
  BY DEF AbsorbRegister, Numerical
<1>11. QED
  BY <1>8, <1>9, <1>10 DEF Numerical

LEMMA EnginesStayKept ==
  EnginesKept /\ [NextBackend]_allVars => EnginesKept'
<1> SUFFICES ASSUME EnginesKept, [NextBackend]_allVars PROVE EnginesKept'
  OBVIOUS
<1>1. CASE UNCHANGED <<backend, engineVars>>
  <2>1. /\ backend' = backend /\ activeQubits' = activeQubits /\ factors' = factors
        /\ qubitReg' = qubitReg /\ order' = order /\ bits' = bits /\ promised' = promised
    BY <1>1 DEF engineVars, projectQVars
  <2>2. ASSUME NEW e \in Engines PROVE EngineKept(e)'
    BY <2>1, <2>2 DEF EnginesKept, EngineKept, Simulator
  <2>3. QED
    BY <2>1, <2>2 DEF EnginesKept
<1>2. CASE NumericalNext
  <2>1. backend' = backend
    BY <1>2 DEF NumericalNext
  <2>2. PICK e \in Engines :
          \/ \E place \in 1 .. MaxInAll : AddNumerical(e, place)
          \/ \E p \in Active(e) : OneQubit(e, p) \/ Take(e, p)
          \/ \E c, t \in Active(e) : c # t /\ TwoQubits(e, c, t)
          \/ \E f \in Engines \ {e} : \E places \in [DOMAIN bits[f] -> 1 .. MaxInAll] :
               AbsorbRegister(e, f, places)
    BY <1>2 DEF NumericalNext
  <2>3. CASE \E place \in 1 .. MaxInAll : AddNumerical(e, place)
    BY <2>1, <2>3, KeptByAdd
  <2>4. CASE \E p \in Active(e) : OneQubit(e, p) \/ Take(e, p)
    BY <2>1, <2>4, KeptByOneQubit, KeptByTake
  <2>5. CASE \E c, t \in Active(e) : c # t /\ TwoQubits(e, c, t)
    BY <2>1, <2>5, KeptByTwoQubits
  <2>6. CASE \E f \in Engines \ {e} : \E places \in [DOMAIN bits[f] -> 1 .. MaxInAll] :
               AbsorbRegister(e, f, places)
    BY <2>1, <2>6, KeptByAbsorb
  <2>7. QED
    BY <2>2, <2>3, <2>4, <2>5, <2>6
<1>3. CASE UNCHANGED allVars
  <2>1. UNCHANGED <<backend, engineVars>>
    BY <1>3 DEF allVars
  <2>2. QED
    BY <1>1, <2>1
<1>4. CASE NextBackend
  BY <1>1, <1>2, <1>4 DEF NextBackend
<1>5. QED
  BY <1>3, <1>4

LEMMA KeptIsPromised ==
  EnginesKept => PositionsPromised
<1> SUFFICES ASSUME EnginesKept, backend \in Numerical, NEW e \in Engines
             PROVE  /\ activeQubits[e] = Len(promised[e])
                    /\ activeQubits[e] <= MaxQubits[e]
                    /\ IF backend = "qutip"
                       THEN factors[e] = promised[e]
                       ELSE /\ Len(qubitReg[e]) = activeQubits[e]
                            /\ [p \in DOMAIN qubitReg[e] |-> bits[e][BitOf(e, p)]] = promised[e]
  BY DEF PositionsPromised
<1>1. EngineKept(e)
  BY DEF EnginesKept
<1>2. ASSUME backend # "qutip"
      PROVE  /\ Len(qubitReg[e]) = activeQubits[e]
             /\ [p \in DOMAIN qubitReg[e] |-> bits[e][BitOf(e, p)]] = promised[e]
  <2>1. backend = "projectq"
    BY <1>2 DEF Numerical
  <2>2. /\ RegisterKept(Simulator(e), qubitReg[e], promised[e])
        /\ activeQubits[e] = Len(promised[e])
    BY <1>1, <2>1 DEF EngineKept
  <2>3. /\ Len(qubitReg[e]) = Len(promised[e]) /\ DOMAIN qubitReg[e] = 1 .. Len(promised[e])
        /\ DOMAIN promised[e] = 1 .. Len(promised[e])
        /\ promised[e] = [p \in DOMAIN promised[e] |-> promised[e][p]]
    BY <2>2, LenProperties DEF RegisterKept
  <2>4. ASSUME NEW p \in DOMAIN qubitReg[e] PROVE bits[e][BitOf(e, p)] = promised[e][p]
    BY <2>1, <2>2, <2>3, BitIsPromised DEF Active
  <2>5. QED
    BY <2>2, <2>3, <2>4
<1>3. QED
  BY <1>1, <1>2 DEF EngineKept

(* Theorem: with QuTip and with ProjectQ, in every reachable state, position
   p of a register is the qubit that the calls of quantumEngine put there,
   for any engines and bounds and wherever ProjectQ places its bits. *)
THEOREM PositionsAlwaysPromised ==
  SpecBackend => []PositionsPromised
<1>1. InitBackend => EnginesKept
  BY EnginesStart
<1>2. EnginesKept /\ [NextBackend]_allVars => EnginesKept'
  BY EnginesStayKept
<1>3. EnginesKept => PositionsPromised
  BY KeptIsPromised
<1>4. QED
  BY <1>1, <1>2, <1>3, PTL DEF SpecBackend

(* Theorem: whatever the backend, the calls reach the stabilizer engines as *)
(* Spec of StabilizerStates says, so that what is proved of that holds of   *)
(* them too: calls to one kind of engine leave the other kind alone.        *)
THEOREM BackendsKeepApart ==
  SpecBackend => Spec
<1>1. InitBackend => Init
  BY DEF InitBackend
<1>2. [NextBackend]_allVars => [Next]_group
  <2>1. CASE NextBackend
    BY <2>1 DEF NextBackend, NumericalNext
  <2>2. CASE UNCHANGED allVars
    BY <2>2 DEF allVars
  <2>3. QED
    BY <2>1, <2>2
<1>3. QED
  BY <1>1, <1>2, PTL DEF SpecBackend, Spec
=============================================================================
