----------------------- MODULE NetQASMMessages_proofs -----------------------
(***************************************************************************)
(* Theorems about the messages between applications and the NetQASM server *)
(* of a node, for any number of connections and messages and any chunks,   *)
(* as long as one application uses the server at a time.                   *)
(*                                                                         *)
(* What the two ends of a stream have between them, received (b) and on    *)
(* its way (q), are the parts of a sequence l of messages; chunks change   *)
(* where b ends, never l.                                                  *)
(***************************************************************************)
EXTENDS NetQASMMessages, SequenceTheorems, TLAPS

-----------------------------------------------------------------------------
(* Streams of parts.                                                       *)

PartAt(b, q, i) == IF i <= Len(b) THEN b[i] ELSE q[i - Len(b)]

Size(b, q) == Len(b) + Len(q)

\* what comes last may have been lost
Carries(b, q, l) ==
  /\ Size(b, q) <= 2 * Len(l)
  /\ \A j \in 1 .. Len(l) :
       /\ 2 * j - 1 <= Size(b, q) => PartAt(b, q, 2 * j - 1) = <<l[j], 1>>
       /\ 2 * j <= Size(b, q) => PartAt(b, q, 2 * j) = <<l[j], 2>>

(* A chunk is taken over. *)
LEMMA ChunkMoved ==
  ASSUME NEW S, NEW b \in Seq(S), NEW q \in Seq(S), NEW k \in 1 .. Len(q),
         NEW l, Carries(b, q, l)
  PROVE  /\ b \o Taken(q, k) \in Seq(S) /\ Left(q, k) \in Seq(S)
         /\ Size(b \o Taken(q, k), Left(q, k)) = Size(b, q)
         /\ Carries(b \o Taken(q, k), Left(q, k), l)
<1> DEFINE t == Taken(q, k)
           r == Left(q, k)
           d == b \o t
<1>1. /\ Len(b) \in Nat /\ Len(q) \in Nat /\ k \in Nat /\ k <= Len(q)
      /\ \A i \in 1 .. Len(q) : q[i] \in S
  BY LenProperties, ElementOfSeq
<1>2. t \in Seq(S) /\ Len(t) = k /\ \A i \in 1 .. k : t[i] = q[i]
  <2>1. \A i \in 1 .. k : q[i] \in S
    BY <1>1
  <2>2. /\ SubSeq(q, 1, k) \in Seq(S) /\ Len(SubSeq(q, 1, k)) = IF 1 <= k THEN k - 1 + 1 ELSE 0
        /\ \A i \in 1 .. k - 1 + 1 : SubSeq(q, 1, k)[i] = q[1 + i - 1]
    BY <1>1, <2>1, SubSeqProperties
  <2>3. QED
    BY <1>1, <2>2 DEF Taken
<1>3. r \in Seq(S) /\ Len(r) = Len(q) - k /\ \A i \in 1 .. (Len(q) - k) : r[i] = q[k + i]
  <2>1. k + 1 \in Int /\ \A i \in (k + 1) .. Len(q) : q[i] \in S
    BY <1>1
  <2>2. /\ SubSeq(q, k + 1, Len(q)) \in Seq(S)
        /\ Len(SubSeq(q, k + 1, Len(q))) = IF k + 1 <= Len(q) THEN Len(q) - (k + 1) + 1 ELSE 0
        /\ \A i \in 1 .. Len(q) - (k + 1) + 1 : SubSeq(q, k + 1, Len(q))[i] = q[(k + 1) + i - 1]
    BY <1>1, <2>1, SubSeqProperties
  <2>3. QED
    BY <1>1, <2>2 DEF Left
<1> HIDE DEF t, r
<1>4. /\ d \in Seq(S) /\ Len(d) = Len(b) + k
      /\ \A i \in 1 .. Len(b) + k : d[i] = IF i <= Len(b) THEN b[i] ELSE q[i - Len(b)]
  <2>1. /\ b \o t \in Seq(S) /\ Len(b \o t) = Len(b) + Len(t)
        /\ \A i \in 1 .. Len(b) + Len(t) : (b \o t)[i] = IF i <= Len(b) THEN b[i] ELSE t[i - Len(b)]
    BY <1>2, ConcatProperties
  <2> HIDE DEF d
  <2>2. /\ d \in Seq(S) /\ Len(d) = Len(b) + k
        /\ \A i \in 1 .. Len(b) + k : d[i] = IF i <= Len(b) THEN b[i] ELSE t[i - Len(b)]
    BY <1>2, <2>1 DEF d
  <2>3. ASSUME NEW i \in 1 .. Len(b) + k, ~(i <= Len(b)) PROVE t[i - Len(b)] = q[i - Len(b)]
    BY <1>1, <1>2, <2>3
  <2>4. QED
    BY <2>2, <2>3
<1> HIDE DEF d
<1>5. Size(d, r) = Size(b, q)
  BY <1>1, <1>3, <1>4 DEF Size
<1>6. ASSUME NEW i \in 1 .. Size(b, q) PROVE PartAt(d, r, i) = PartAt(b, q, i)
  <2>1. CASE i <= Len(b)
    BY <1>1, <1>4, <2>1 DEF PartAt
  <2>2. CASE i > Len(b) /\ i <= Len(b) + k
    BY <1>1, <1>4, <2>2 DEF PartAt
  <2>3. CASE i > Len(b) + k
    <3>1. i - (Len(b) + k) \in 1 .. (Len(q) - k)
      BY <1>1, <2>3 DEF Size
    <3>2. r[i - (Len(b) + k)] = q[k + (i - (Len(b) + k))]
      BY <1>3, <3>1
    <3>3. k + (i - (Len(b) + k)) = i - Len(b)
      BY <1>1
    <3>4. QED
      BY <1>1, <1>4, <2>3, <3>2, <3>3 DEF PartAt
  <2>4. QED
    BY <1>1, <2>1, <2>2, <2>3 DEF Size
<1>7. Carries(d, r, l)
  <2>1. Size(b, q) \in Nat
    BY <1>1 DEF Size
  <2>2. \A j \in 1 .. Len(l) :
          /\ 2 * j - 1 <= Size(b, q) => 2 * j - 1 \in 1 .. Size(b, q)
          /\ 2 * j <= Size(b, q) => 2 * j \in 1 .. Size(b, q)
    BY <2>1
  <2>3. QED
    BY <1>5, <1>6, <2>2 DEF Carries
<1>8. QED
  BY <1>3, <1>4, <1>5, <1>7 DEF t, r, d

(* The first message is taken out. *)
LEMMA FirstTaken ==
  ASSUME NEW S, NEW X, NEW b \in Seq(S), NEW q \in Seq(S), NEW l \in Seq(X),
         Carries(b, q, l), Complete(b)
  PROVE  /\ l # << >> /\ First(b) = l[1] /\ Rest(b) \in Seq(S)
         /\ Size(Rest(b), q) = Size(b, q) - 2 /\ Len(Tail(l)) = Len(l) - 1
         /\ Carries(Rest(b), q, Tail(l))
<1> DEFINE r == Rest(b)
           t == Tail(l)
<1>1. /\ Len(b) \in Nat /\ Len(q) \in Nat /\ Len(l) \in Nat /\ 2 <= Len(b)
      /\ \A i \in 1 .. Len(b) : b[i] \in S
  BY LenProperties, ElementOfSeq DEF Complete
<1>2. r \in Seq(S) /\ Len(r) = Len(b) - 2 /\ \A i \in 1 .. (Len(b) - 2) : r[i] = b[i + 2]
  <2>1. \A i \in 3 .. Len(b) : b[i] \in S
    BY <1>1
  <2>2. /\ SubSeq(b, 3, Len(b)) \in Seq(S)
        /\ Len(SubSeq(b, 3, Len(b))) = IF 3 <= Len(b) THEN Len(b) - 3 + 1 ELSE 0
        /\ \A i \in 1 .. Len(b) - 3 + 1 : SubSeq(b, 3, Len(b))[i] = b[3 + i - 1]
    BY <1>1, <2>1, SubSeqProperties
  <2>3. PICK n \in Nat : n = Len(b) /\ 2 <= n
    BY <1>1
  <2>4. Len(r) = n - 2
    BY <2>2, <2>3 DEF Rest
  <2>5. ASSUME NEW i \in 1 .. (n - 2) PROVE r[i] = b[i + 2]
    <3>1. i \in 1 .. n - 3 + 1 /\ 3 + i - 1 = i + 2
      BY <2>3
    <3>2. QED
      BY <2>2, <2>3, <3>1 DEF Rest
  <2>6. QED
    BY <2>2, <2>3, <2>4, <2>5 DEF Rest
<1>3. Len(l) >= 1 /\ l # << >>
  BY <1>1, EmptySeq DEF Carries, Size
<1>4. Len(t) = Len(l) - 1 /\ \A j \in 1 .. (Len(l) - 1) : t[j] = l[j + 1]
  BY <1>1, <1>3, HeadTailProperties
<1> HIDE DEF r, t
<1>5. First(b) = l[1]
  <2>1. PartAt(b, q, 1) = <<l[1], 1>>
    <3>1. 1 \in 1 .. Len(l) /\ 2 * 1 - 1 <= Size(b, q)
      BY <1>1, <1>3 DEF Size
    <3>2. PartAt(b, q, 2 * 1 - 1) = <<l[1], 1>>
      BY <3>1 DEF Carries
    <3>3. QED
      BY <3>2
  <2>2. b[1] = <<l[1], 1>>
    BY <1>1, <2>1 DEF PartAt
  <2>3. QED
    BY <2>2 DEF First
<1>6. Size(r, q) = Size(b, q) - 2 /\ Size(b, q) \in Nat
  BY <1>1, <1>2 DEF Size
<1>7. ASSUME NEW i \in 1 .. Size(r, q) PROVE PartAt(r, q, i) = PartAt(b, q, i + 2)
  <2>1. CASE i <= Len(r)
    BY <1>1, <1>2, <2>1 DEF PartAt
  <2>2. CASE i > Len(r)
    <3>1. i - Len(r) = (i + 2) - Len(b) /\ ~(i + 2 <= Len(b))
      BY <1>1, <1>2, <2>2
    <3>2. QED
      BY <1>1, <1>2, <2>2, <3>1 DEF PartAt
  <2>3. QED
    BY <1>1, <1>2, <2>1, <2>2
<1>8. Carries(r, q, t)
  <2>1. Size(r, q) <= 2 * Len(t)
    BY <1>1, <1>4, <1>6 DEF Carries
  <2>2. ASSUME NEW j \in 1 .. Len(t), 2 * j - 1 <= Size(r, q)
        PROVE  PartAt(r, q, 2 * j - 1) = <<t[j], 1>>
    <3>1. j + 1 \in 1 .. Len(l) /\ 2 * (j + 1) - 1 <= Size(b, q) /\ 2 * j - 1 \in 1 .. Size(r, q)
      BY <1>1, <1>4, <1>6, <2>2
    <3>2. PartAt(b, q, 2 * (j + 1) - 1) = <<l[j + 1], 1>>
      BY <3>1 DEF Carries
    <3>3. (2 * j - 1) + 2 = 2 * (j + 1) - 1
      BY <1>1, <1>4
    <3>4. QED
      BY <1>4, <1>7, <3>1, <3>2, <3>3
  <2>3. ASSUME NEW j \in 1 .. Len(t), 2 * j <= Size(r, q)
        PROVE  PartAt(r, q, 2 * j) = <<t[j], 2>>
    <3>1. j + 1 \in 1 .. Len(l) /\ 2 * (j + 1) <= Size(b, q) /\ 2 * j \in 1 .. Size(r, q)
      BY <1>1, <1>4, <1>6, <2>3
    <3>2. PartAt(b, q, 2 * (j + 1)) = <<l[j + 1], 2>>
      BY <3>1 DEF Carries
    <3>3. 2 * j + 2 = 2 * (j + 1)
      BY <1>1, <1>4
    <3>4. QED
      BY <1>4, <1>7, <3>1, <3>2, <3>3
  <2>4. QED
    BY <2>1, <2>2, <2>3 DEF Carries
<1>9. QED
  BY <1>2, <1>3, <1>4, <1>5, <1>6, <1>8 DEF r, t

(* A message is written. *)
LEMMA MessageAdded ==
  ASSUME NEW S, NEW X, NEW b \in Seq(S), NEW q \in Seq(S), NEW l \in Seq(X), NEW x \in X,
         <<x, 1>> \in S, <<x, 2>> \in S,
         Carries(b, q, l), Size(b, q) = 2 * Len(l)
  PROVE  /\ q \o InParts(x) \in Seq(S)
         /\ Size(b, q \o InParts(x)) = 2 * Len(Append(l, x))
         /\ Carries(b, q \o InParts(x), Append(l, x))
<1> DEFINE p == InParts(x)
           r == q \o p
           m == Append(l, x)
<1>1. Len(b) \in Nat /\ Len(q) \in Nat /\ Len(l) \in Nat
  BY LenProperties
<1>2. p \in Seq(S) /\ Len(p) = 2 /\ p[1] = <<x, 1>> /\ p[2] = <<x, 2>>
  BY DEF InParts
<1> HIDE DEF p
<1>3. /\ r \in Seq(S) /\ Len(r) = Len(q) + 2
      /\ \A i \in 1 .. Len(q) : r[i] = q[i]
      /\ r[Len(q) + 1] = <<x, 1>> /\ r[Len(q) + 2] = <<x, 2>>
  <2>1. /\ q \o p \in Seq(S) /\ Len(q \o p) = Len(q) + Len(p)
        /\ \A i \in 1 .. Len(q) + Len(p) :
             (q \o p)[i] = IF i <= Len(q) THEN q[i] ELSE p[i - Len(q)]
    BY <1>2, ConcatProperties
  <2> HIDE DEF r
  <2>2. /\ r \in Seq(S) /\ Len(r) = Len(q) + 2
        /\ \A i \in 1 .. Len(q) + 2 : r[i] = IF i <= Len(q) THEN q[i] ELSE p[i - Len(q)]
    BY <1>2, <2>1 DEF r
  <2>3. PICK n \in Nat : n = Len(q)
    BY <1>1
  <2>4. \A i \in 1 .. n : r[i] = q[i]
    BY <2>2, <2>3
  <2>5. r[n + 1] = p[1] /\ r[n + 2] = p[2]
    <3>1. /\ n + 1 \in 1 .. n + 2 /\ n + 2 \in 1 .. n + 2 /\ (n + 1) - n = 1 /\ (n + 2) - n = 2
          /\ ~(n + 1 <= n) /\ ~(n + 2 <= n)
      OBVIOUS
    <3>2. QED
      BY <2>2, <2>3, <3>1
  <2>6. QED
    BY <1>2, <2>2, <2>3, <2>4, <2>5
<1> HIDE DEF r
<1>4. Len(m) = Len(l) + 1 /\ m[Len(l) + 1] = x /\ \A j \in 1 .. Len(l) : m[j] = l[j]
  BY <1>1, AppendProperties
<1> HIDE DEF m
<1>5. Size(b, r) = Size(b, q) + 2 /\ Size(b, r) = 2 * Len(m) /\ Size(b, q) \in Nat
  BY <1>1, <1>3, <1>4 DEF Size
<1>6. ASSUME NEW i \in 1 .. Size(b, q) PROVE PartAt(b, r, i) = PartAt(b, q, i)
  BY <1>1, <1>3 DEF PartAt, Size
<1>7. PartAt(b, r, 2 * (Len(l) + 1) - 1) = <<x, 1>> /\ PartAt(b, r, 2 * (Len(l) + 1)) = <<x, 2>>
  <2>1. PICK n \in Nat, k \in Nat, h \in Nat : n = Len(b) /\ k = Len(q) /\ h = Len(l)
    BY <1>1
  <2>2. n + k = 2 * h
    BY <2>1 DEF Size
  <2>3. PICK i \in Nat : i = 2 * (h + 1) - 1
    OBVIOUS
  <2>4. PICK j \in Nat : j = 2 * (h + 1)
    OBVIOUS
  <2>5. ~(i <= n) /\ i - n = k + 1 /\ ~(j <= n) /\ j - n = k + 2
    BY <2>2, <2>3, <2>4
  <2>6. PartAt(b, r, i) = <<x, 1>> /\ PartAt(b, r, j) = <<x, 2>>
    BY <1>3, <2>1, <2>5 DEF PartAt
  <2>7. QED
    BY <2>1, <2>3, <2>4, <2>6
<1>8. ASSUME NEW j \in 1 .. Len(m)
      PROVE  PartAt(b, r, 2 * j - 1) = <<m[j], 1>> /\ PartAt(b, r, 2 * j) = <<m[j], 2>>
  <2>1. CASE j = Len(l) + 1
    BY <1>4, <1>7, <2>1
  <2>2. CASE j \in 1 .. Len(l)
    <3>1. 2 * j - 1 \in 1 .. Size(b, q) /\ 2 * j \in 1 .. Size(b, q)
      BY <1>1, <2>2
    <3>2. PartAt(b, q, 2 * j - 1) = <<l[j], 1>> /\ PartAt(b, q, 2 * j) = <<l[j], 2>>
      BY <2>2, <3>1 DEF Carries
    <3>3. QED
      BY <1>4, <1>6, <2>2, <3>1, <3>2
  <2>3. QED
    BY <1>1, <1>4, <2>1, <2>2
<1>9. Carries(b, r, m)
  BY <1>5, <1>8 DEF Carries
<1>10. QED
  BY <1>3, <1>5, <1>9 DEF r, m, p

(* What is on its way is lost. *)
LEMMA ChunksLost ==
  ASSUME NEW S, NEW b \in Seq(S), NEW q \in Seq(S), NEW l, Carries(b, q, l), Len(l) \in Nat
  PROVE  Carries(b, << >>, l)
<1>1. Len(b) \in Nat /\ Len(q) \in Nat
  BY LenProperties
<1> DEFINE e == << >>
<1>2. Len(e) = 0
  BY EmptySeq
<1> HIDE DEF e
<1>3. Size(b, e) = Len(b) /\ Len(b) <= Size(b, q) /\ Size(b, q) \in Nat
  BY <1>1, <1>2 DEF Size
<1>4. \A i \in 1 .. Len(b) : PartAt(b, e, i) = PartAt(b, q, i)
  BY <1>1 DEF PartAt
<1>5. ASSUME NEW j \in 1 .. Len(l)
      PROVE  /\ 2 * j - 1 <= Len(b) => 2 * j - 1 \in 1 .. Len(b) /\ 2 * j - 1 <= Size(b, q)
             /\ 2 * j <= Len(b) => 2 * j \in 1 .. Len(b) /\ 2 * j <= Size(b, q)
  <2>1. j \in Nat /\ 1 <= j
    BY <1>5
  <2>2. 2 * j - 1 \in Nat /\ 2 * j \in Nat /\ 1 <= 2 * j - 1 /\ 1 <= 2 * j
    BY <2>1
  <2>3. QED
    BY <1>1, <1>3, <2>2
<1>6. Size(b, e) <= 2 * Len(l)
  BY <1>1, <1>3 DEF Carries, Size
<1>7. Carries(b, e, l)
  BY <1>3, <1>4, <1>5, <1>6 DEF Carries
<1>8. QED
  BY <1>7 DEF e

-----------------------------------------------------------------------------
(* Types.                                                                  *)

Handled == [msg : Messages, results : 0 .. MaxResults]

TypeInv == TypeOK /\ handling \subseteq Handled

LEMMA MessageTyped ==
  /\ \A m \in Messages : m[1] \in Clients /\ m[2] \in Ids(m[1]) /\ m[2] \in Nat /\ m = <<m[1], m[2]>>
  /\ \A c \in Clients : \A id \in Ids(c) : <<c, id>> \in Messages /\ id \in Nat
<1>1. \A c \in Clients : Job[c] \in Nat
  BY ClientsAssumption
<1>2. \A c \in Clients : \A id \in Ids(c) : id \in Nat
  BY <1>1 DEF Ids
<1>3. \A c \in Clients : \A id \in Ids(c) : <<c, id>> \in Messages
  BY DEF Messages
<1>4. ASSUME NEW m \in Messages
      PROVE  m[1] \in Clients /\ m[2] \in Ids(m[1]) /\ m = <<m[1], m[2]>>
  <2>1. PICK c \in Clients : m \in {c} \X Ids(c)
    BY DEF Messages
  <2>2. QED
    BY <2>1
<1>5. QED
  BY <1>2, <1>3, <1>4

LEMMA ReplyTyped ==
  /\ \A r \in Replies : r.of \in Messages /\ r.kind \in {"result", "done", "error"}
  /\ \A m \in Messages : /\ Done(m) \in Replies /\ Error(m) \in Replies
                         /\ \A k \in 1 .. MaxResults : Result(m, k) \in Replies
<1>1. \A m, k : /\ Result(m, k).of = m /\ Result(m, k).kind = "result"
                /\ Done(m).of = m /\ Done(m).kind = "done"
                /\ Error(m).of = m /\ Error(m).kind = "error"
  BY DEF Result, Done, Error
<1>2. ASSUME NEW r \in Replies PROVE r.of \in Messages /\ r.kind \in {"result", "done", "error"}
  <2>1. \/ \E m \in Messages, k \in 1 .. MaxResults : r = Result(m, k)
        \/ \E m \in Messages : r = Done(m)
        \/ \E m \in Messages : r = Error(m)
    BY DEF Replies
  <2>2. QED
    BY <1>1, <2>1
<1>3. \A m \in Messages : /\ Done(m) \in Replies /\ Error(m) \in Replies
                          /\ \A k \in 1 .. MaxResults : Result(m, k) \in Replies
  BY DEF Replies
<1>4. QED
  BY <1>2, <1>3

LEMMA StreamTyped ==
  ASSUME NEW S, NEW b \in Seq(S \X Parts), NEW q \in Seq(S \X Parts)
  PROVE  /\ \A k \in 1 .. Len(q) : /\ Left(q, k) \in Seq(S \X Parts)
                                   /\ b \o Taken(q, k) \in Seq(S \X Parts)
         /\ Complete(b) => First(b) \in S /\ Rest(b) \in Seq(S \X Parts)
         /\ \A x \in S : q \o InParts(x) \in Seq(S \X Parts)
<1> DEFINE P == S \X Parts
<1>1. Len(b) \in Nat /\ Len(q) \in Nat
  BY LenProperties
<1>2. /\ \A i \in 1 .. Len(b) : b[i] \in P
      /\ \A i \in 1 .. Len(q) : q[i] \in P
  BY ElementOfSeq
<1>3. ASSUME NEW k \in 1 .. Len(q) PROVE Left(q, k) \in Seq(P) /\ b \o Taken(q, k) \in Seq(P)
  <2>1. k \in Nat /\ k <= Len(q)
    BY <1>1
  <2>2. \A i \in (k + 1) .. Len(q) : q[i] \in P
    BY <1>1, <1>2, <2>1
  <2>3. Left(q, k) \in Seq(P)
    <3> HIDE DEF P
    <3>1. QED
      BY <1>1, <2>1, <2>2, SubSeqProperties DEF Left
  <2>4. \A i \in 1 .. k : q[i] \in P
    BY <1>1, <1>2, <2>1
  <2>5. Taken(q, k) \in Seq(P)
    <3> HIDE DEF P
    <3>1. QED
      BY <2>1, <2>4, SubSeqProperties DEF Taken
  <2>6. b \o Taken(q, k) \in Seq(P)
    BY <2>5, ConcatProperties
  <2>7. QED
    BY <2>3, <2>6
<1>4. ASSUME Complete(b) PROVE First(b) \in S /\ Rest(b) \in Seq(P)
  <2>1. b[1] \in P /\ \A i \in 3 .. Len(b) : b[i] \in P
    BY <1>1, <1>2, <1>4 DEF Complete
  <2>2. Rest(b) \in Seq(P)
    <3> HIDE DEF P
    <3>1. QED
      BY <1>1, <2>1, SubSeqProperties DEF Rest
  <2>3. QED
    BY <2>1, <2>2 DEF First
<1>5. ASSUME NEW x \in S PROVE q \o InParts(x) \in Seq(P)
  <2>1. InParts(x) \in Seq(P)
    BY DEF InParts, Parts
  <2>2. QED
    BY <2>1, ConcatProperties
<1>6. QED
  BY <1>3, <1>4, <1>5

LEMMA WrittenTyped ==
  ASSUME TypeOK, NEW c, NEW r \in Replies
  PROVE  Written(c, r) \in [Clients -> Seq(Replies \X Parts)]
<1>1. outbox \in [Clients -> Seq(Replies \X Parts)]
  BY DEF TypeOK
<1>2. CASE c \in Clients /\ Open(c)
  <2>1. outbox[c] \o InParts(r) \in Seq(Replies \X Parts)
    BY <1>1, <1>2, StreamTyped
  <2>2. QED
    BY <1>1, <1>2, <2>1 DEF Written
<1>3. CASE ~(c \in Clients /\ Open(c))
  BY <1>1, <1>3 DEF Written
<1>4. QED
  BY <1>2, <1>3


LEMMA NextType == TypeInv /\ [Next]_vars => TypeInv'
<1> SUFFICES ASSUME TypeInv, [Next]_vars PROVE TypeInv'
  OBVIOUS
<1> USE DEF TypeInv
<1>1. ASSUME Listen PROVE TypeInv'
  BY <1>1 DEF Listen, TypeOK, streamVars, clientVars
<1>2. ASSUME Stop \/ Terminate PROVE TypeInv'
  <2>1. /\ server' \in {"stopped", "killed"} /\ handling' = {}
        /\ inbox' = [c \in Clients |-> << >>]
        /\ UNCHANGED <<protocol, outcome, buf, rbuf, pc, nextId, waiting, done, memory>>
    BY <1>2 DEF Stop, Terminate, Ended, clientVars
  <2>2. outbox' \in [Clients -> Seq(Replies \X Parts)]
    <3>1. CASE Stop
      BY <3>1 DEF Stop, TypeOK
    <3>2. CASE Terminate
      BY <3>2 DEF Terminate, TypeOK
    <3>3. QED
      BY <1>2, <3>1, <3>2
  <2>3. inbox' \in [Clients -> Seq(Messages \X Parts)]
    BY <2>1, EmptySeq
  <2>4. QED
    BY <2>1, <2>2, <2>3 DEF TypeOK
<1>3. ASSUME NEW h \in handling, ReturnResult(h) PROVE TypeInv'
  <2> DEFINE g == [h EXCEPT !.results = @ + 1]
  <2>1. h \in Handled /\ h.results < MaxResults /\ MaxResults \in Nat
    BY <1>3, ClientsAssumption DEF ReturnResult
  <2>2. h.msg \in Messages /\ h.results + 1 \in 1 .. MaxResults /\ g \in Handled
    BY <2>1 DEF Handled
  <2>3. outbox' \in [Clients -> Seq(Replies \X Parts)]
    BY <1>3, <2>2, WrittenTyped, ReplyTyped DEF ReturnResult
  <2>4. handling' \subseteq Handled
    BY <1>3, <2>2 DEF ReturnResult
  <2>5. \A x \in handling' : x.msg \in Messages /\ x.results \in 0 .. MaxResults
    BY <2>4 DEF Handled
  <2>6. UNCHANGED <<server, protocol, outcome, inbox, buf, rbuf, pc, nextId, waiting, done, memory>>
    BY <1>3 DEF ReturnResult, clientVars
  <2>7. QED
    BY <2>3, <2>4, <2>5, <2>6 DEF TypeOK
<1>4. ASSUME NEW h \in handling, Finish(h) \/ Fail(h) PROVE TypeInv'
  <2>1. h \in Handled /\ MaxResults \in Nat
    BY ClientsAssumption
  <2>2. h.msg \in Messages /\ h.results \in Unended .. MaxResults /\ Failed \in Unended .. MaxResults
    BY <2>1 DEF Handled, Unended, Failed
  <2>3. outbox' \in [Clients -> Seq(Replies \X Parts)]
    BY <1>4, <2>2, WrittenTyped, ReplyTyped DEF Finish, Fail
  <2>4. outcome' \in [Messages -> Unended .. MaxResults]
    BY <1>4, <2>2 DEF Finish, Fail, TypeOK
  <2>5. handling' \subseteq handling /\ server' \in {server, "failing"}
    BY <1>4 DEF Finish, Fail
  <2>6. UNCHANGED <<protocol, inbox, buf, rbuf, pc, nextId, waiting, done, memory>>
    BY <1>4 DEF Finish, Fail, clientVars
  <2>7. QED
    BY <2>3, <2>4, <2>5, <2>6 DEF TypeOK
<1>5. ASSUME NEW c \in Clients, Connect(c) \/ Close(c) \/ Block(c) PROVE TypeInv'
  <2>1. pc' \in [Clients -> {"new", "idle", "waiting", "blocking", "failed", "closed"}]
    BY <1>5 DEF Connect, Close, Block, Goto, TypeOK
  <2>2. protocol' \in {protocol, c}
    BY <1>5 DEF Connect, Close, Block, serverVars
  <2>3. UNCHANGED <<server, handling, outcome, inbox, buf, outbox, rbuf, nextId, waiting, done, memory>>
    BY <1>5 DEF Connect, Close, Block, serverVars, streamVars
  <2>4. QED
    BY <2>1, <2>2, <2>3 DEF TypeOK
<1>6. ASSUME NEW c \in Clients, Commit(c) PROVE TypeInv'
  <2>1. /\ nextId[c] \in Nat /\ nextId[c] < Job[c] /\ Job[c] \in Nat
        /\ inbox[c] \in Seq(Messages \X Parts)
    BY <1>6, ClientsAssumption DEF Commit, TypeOK
  <2>2. <<c, nextId[c]>> \in Messages
    BY <2>1, MessageTyped DEF Ids
  <2>3. pc' \in [Clients -> {"new", "idle", "waiting", "blocking", "failed", "closed"}]
    BY <1>6 DEF Commit, Goto, TypeOK
  <2>4. inbox' \in [Clients -> Seq(Messages \X Parts)]
    <3>1. inbox[c] \o InParts(<<c, nextId[c]>>) \in Seq(Messages \X Parts)
      BY <2>1, <2>2, StreamTyped
    <3>2. inbox' = inbox \/ inbox' = [inbox EXCEPT ![c] = inbox[c] \o InParts(<<c, nextId[c]>>)]
      BY <1>6 DEF Commit
    <3>3. QED
      BY <3>1, <3>2 DEF TypeOK
  <2>5. nextId' \in [Clients -> Nat] /\ waiting' \in [Clients -> SUBSET Nat]
    BY <1>6, <2>1 DEF Commit, TypeOK
  <2>6. UNCHANGED <<server, protocol, handling, outcome, buf, outbox, rbuf, done, memory>>
    BY <1>6 DEF Commit, serverVars
  <2>7. QED
    BY <2>3, <2>4, <2>5, <2>6 DEF TypeOK
<1>7. ASSUME NEW c \in Clients, NEW k \in 1 .. Len(inbox[c]), Receive(c, k) PROVE TypeInv'
  <2> DEFINE b == buf[c] \o Taken(inbox[c], k)
  <2>1. buf[c] \in Seq(Messages \X Parts) /\ inbox[c] \in Seq(Messages \X Parts)
    BY DEF TypeOK
  <2>2. b \in Seq(Messages \X Parts) /\ Left(inbox[c], k) \in Seq(Messages \X Parts)
    BY <2>1, StreamTyped
  <2>3. Complete(b) => First(b) \in Messages /\ Rest(b) \in Seq(Messages \X Parts)
    BY <2>2, StreamTyped
  <2>4. /\ inbox' = [inbox EXCEPT ![c] = Left(inbox[c], k)]
        /\ \/ /\ Complete(b)
              /\ handling' = handling \cup {[msg |-> First(b), results |-> 0]}
              /\ buf' = [buf EXCEPT ![c] = Rest(b)]
           \/ /\ buf' = [buf EXCEPT ![c] = b]
              /\ handling' = handling
        /\ UNCHANGED <<server, protocol, outcome, outbox, rbuf, pc, nextId, waiting, done, memory>>
    BY <1>7 DEF Receive, clientVars
  <2> HIDE DEF b
  <2>5. inbox' \in [Clients -> Seq(Messages \X Parts)] /\ buf' \in [Clients -> Seq(Messages \X Parts)]
    BY <2>2, <2>3, <2>4 DEF TypeOK
  <2>6. handling' \subseteq Handled
    BY <2>3, <2>4, ClientsAssumption DEF Handled
  <2>7. \A x \in handling' : x.msg \in Messages /\ x.results \in 0 .. MaxResults
    BY <2>6 DEF Handled
  <2>8. QED
    BY <2>4, <2>5, <2>6, <2>7 DEF TypeOK
<1>8. ASSUME NEW c \in Clients, NEW k \in 1 .. Len(outbox[c]), ReadMoreData(c, k) PROVE TypeInv'
  <2>1. rbuf[c] \in Seq(Replies \X Parts) /\ outbox[c] \in Seq(Replies \X Parts)
    BY DEF TypeOK
  <2>2. /\ rbuf[c] \o Taken(outbox[c], k) \in Seq(Replies \X Parts)
        /\ Left(outbox[c], k) \in Seq(Replies \X Parts)
    BY <2>1, StreamTyped
  <2>3. /\ rbuf' = [rbuf EXCEPT ![c] = rbuf[c] \o Taken(outbox[c], k)]
        /\ outbox' = [outbox EXCEPT ![c] = Left(outbox[c], k)]
        /\ UNCHANGED <<server, protocol, handling, outcome, inbox, buf, pc, nextId, waiting, done,
                       memory>>
    BY <1>8 DEF ReadMoreData, serverVars, clientVars
  <2>4. rbuf' \in [Clients -> Seq(Replies \X Parts)] /\ outbox' \in [Clients -> Seq(Replies \X Parts)]
    BY <2>2, <2>3 DEF TypeOK
  <2>5. QED
    BY <2>3, <2>4 DEF TypeOK
<1>9. ASSUME NEW c \in Clients, HandleReply(c) PROVE TypeInv'
  <2>1. rbuf[c] \in Seq(Replies \X Parts) /\ Complete(rbuf[c])
    BY <1>9 DEF TypeOK, HandleReply
  <2>2. PICK r \in Replies : r = First(rbuf[c])
    BY <2>1, StreamTyped
  <2>3. Rest(rbuf[c]) \in Seq(Replies \X Parts)
    BY <2>1, StreamTyped
  <2>4. r.of[2] \in Nat
    BY ReplyTyped, MessageTyped
  <2>5. rbuf' \in [Clients -> Seq(Replies \X Parts)]
    BY <1>9, <2>3 DEF HandleReply, TypeOK
  <2>6. /\ memory' = memory \/ memory' = [memory EXCEPT ![c] = memory[c] \cup {r}]
        /\ waiting' = waiting \/ waiting' = [waiting EXCEPT ![c] = waiting[c] \ {r.of[2]}]
        /\ done' = done \/ done' = [done EXCEPT ![c] = done[c] \cup {r.of[2]}]
        /\ \/ pc' = pc
           \/ Goto(c, "idle")
           \/ Goto(c, pc[c])
           \/ Goto(c, "failed")
        /\ UNCHANGED <<server, protocol, handling, outcome, inbox, buf, outbox, nextId>>
    BY <1>9, <2>2 DEF HandleReply, serverVars
  <2>7. memory' \in [Clients -> SUBSET Replies]
    <3>1. memory \in [Clients -> SUBSET Replies] /\ memory[c] \cup {r} \in SUBSET Replies
      BY DEF TypeOK
    <3>2. QED
      BY <2>6, <3>1
  <2>8. waiting' \in [Clients -> SUBSET Nat] /\ done' \in [Clients -> SUBSET Nat]
    <3>1. /\ waiting \in [Clients -> SUBSET Nat] /\ waiting[c] \ {r.of[2]} \in SUBSET Nat
          /\ done \in [Clients -> SUBSET Nat] /\ done[c] \cup {r.of[2]} \in SUBSET Nat
      BY <2>4 DEF TypeOK
    <3>2. QED
      BY <2>6, <3>1
  <2>9. pc' \in [Clients -> {"new", "idle", "waiting", "blocking", "failed", "closed"}]
    BY <2>6 DEF Goto, TypeOK
  <2>10. QED
    BY <2>5, <2>6, <2>7, <2>8, <2>9 DEF TypeOK
<1>10. ASSUME UNCHANGED vars PROVE TypeInv'
  BY <1>10 DEF vars, serverVars, streamVars, clientVars, TypeOK
<1>11. QED
  BY <1>1, <1>2, <1>3, <1>4, <1>5, <1>6, <1>7, <1>8, <1>9, <1>10 DEF Next, Arrive

LEMMA InitType == Init => TypeInv
<1> SUFFICES ASSUME Init PROVE TypeInv
  OBVIOUS
<1>1. /\ << >> \in Seq(Messages \X Parts) /\ << >> \in Seq(Replies \X Parts)
      /\ MaxResults \in Nat /\ Unended \in Unended .. MaxResults
  BY EmptySeq, ClientsAssumption DEF Unended
<1>2. QED
  BY <1>1 DEF Init, TypeInv, TypeOK

(* Every message that is under way, handled or noted is one that its client
   has sent, every reply is about such a message, and the numbers stay in
   their ranges, in any order of chunks, connections and failures. *)
THEOREM MessagesTyped == Spec => []TypeOK
<1>1. TypeInv => TypeOK
  BY DEF TypeInv
<1>2. QED
  BY <1>1, InitType, NextType, PTL DEF Spec

-----------------------------------------------------------------------------
(* One connection after the other.  What is between a client and the       *)
(* server, the messages that are handled, and what the client waits for    *)
(* are about different messages, each at one place.                        *)

Serving == server \notin {"stopped", "killed"}

TurnInv ==
  /\ \A c \in Clients : Open(c) \/ inbox[c] # << >> => protocol = c
  /\ \A h \in handling : h.msg[1] = protocol
  /\ handling # {} => Listening
  /\ server = "down" => \A c \in Clients : pc[c] = "new"
  /\ \A c \in Clients : pc[c] = "new" => nextId[c] = 0

HandledInv ==
  /\ \A m \in Messages : m[2] >= nextId[m[1]] => outcome[m] = Unended
  /\ \A h \in handling :
       /\ h.msg[2] < nextId[h.msg[1]]
       /\ outcome[h.msg] = Unended
       /\ Open(h.msg[1]) => h.msg[2] \in waiting[h.msg[1]]
  /\ \A g, h \in handling : g.msg = h.msg => g = h

\* l: the messages that client c has sent and nobody handles yet
Incoming(c, l) ==
  /\ Carries(buf[c], inbox[c], l)
  /\ Serving => Size(buf[c], inbox[c]) = 2 * Len(l)
  /\ \A i \in 1 .. Len(l) :
       /\ l[i][1] = c /\ l[i][2] < nextId[c]
       /\ outcome[l[i]] = Unended
       /\ Open(c) => l[i][2] \in waiting[c]
       /\ \A h \in handling : h.msg # l[i]
  /\ \A i, j \in 1 .. Len(l) : l[i] = l[j] => i = j

\* result r has reached client c, or will before reply n + 1 of l does
Known(c, l, n, r) == r \in memory[c] \/ \E j \in 1 .. n : l[j] = r

Replied(c, l, i) ==
  /\ l[i].of[1] = c
  /\ l[i].kind = "error" => outcome[l[i].of] = Failed
  /\ l[i].kind = "done" =>
       /\ outcome[l[i].of] >= 0
       /\ \A k \in 1 .. outcome[l[i].of] : Known(c, l, i - 1, Result(l[i].of, k))
       /\ Open(c) => l[i].of[2] \in waiting[c]

\* l: the replies that client c has not handled yet
Outgoing(c, l) ==
  /\ Carries(rbuf[c], outbox[c], l)
  /\ Serving => Size(rbuf[c], outbox[c]) = 2 * Len(l)
  /\ \A i \in 1 .. Len(l) : Replied(c, l, i)
  /\ \A i, j \in 1 .. Len(l) :
       l[i].kind = "done" /\ l[j].kind = "done" /\ l[i].of = l[j].of => i = j
  /\ \A h \in handling : h.msg[1] = c /\ Open(c) =>
       \A k \in 1 .. h.results : Known(c, l, Len(l), Result(h.msg, k))

Informed(c) ==
  /\ done[c] \subseteq Ids(c)
  /\ \A id \in done[c] :
       /\ outcome[<<c, id>>] >= 0
       /\ \A k \in 1 .. outcome[<<c, id>>] : Result(<<c, id>>, k) \in memory[c]
  /\ pc[c] = "failed" => \/ ~Listening
                         \/ \E id \in Ids(c) : outcome[<<c, id>>] = Failed

ClientInv(c) ==
  /\ \E l \in Seq(Messages) : Incoming(c, l)
  /\ \E l \in Seq(Replies) : Outgoing(c, l)
  /\ Informed(c)

MessageInv == TypeInv /\ TurnInv /\ HandledInv /\ \A c \in Clients : ClientInv(c)

LEMMA HandledFacts ==
  ASSUME MessageInv, NEW h \in handling
  PROVE  /\ h \in Handled /\ h.msg \in Messages /\ h.results \in Nat
         /\ protocol \in Clients /\ h.msg[1] = protocol /\ h.msg[2] \in Ids(protocol)
         /\ h.msg = <<protocol, h.msg[2]>>
         /\ outcome[h.msg] = Unended /\ Listening
<1>1. h \in Handled
  BY DEF MessageInv, TypeInv
<1>2. h.msg \in Messages /\ h.results \in Nat
  BY <1>1, ClientsAssumption DEF Handled
<1>3. h.msg[1] = protocol /\ Listening /\ outcome[h.msg] = Unended
  BY DEF MessageInv, TurnInv, HandledInv
<1>4. QED
  BY <1>1, <1>2, <1>3, MessageTyped

LEMMA WrittenTo ==
  ASSUME TypeInv, NEW c \in Clients, NEW r
  PROVE  /\ \A d \in Clients : d # c => Written(c, r)[d] = outbox[d]
         /\ Open(c) => Written(c, r)[c] = outbox[c] \o InParts(r)
         /\ ~Open(c) => Written(c, r) = outbox
<1>1. DOMAIN outbox = Clients
  BY DEF TypeInv, TypeOK
<1>2. QED
  BY <1>1 DEF Written

LEMMA ReplyAdded ==
  ASSUME TypeInv, Serving, NEW c \in Clients, NEW r \in Replies,
         NEW l \in Seq(Replies), Outgoing(c, l)
  PROVE  /\ Size(rbuf[c], outbox[c] \o InParts(r)) = 2 * Len(Append(l, r))
         /\ Carries(rbuf[c], outbox[c] \o InParts(r), Append(l, r))
<1>1. PICK b \in Seq(Replies \X Parts) : b = rbuf[c]
  BY DEF TypeInv, TypeOK
<1>2. PICK q \in Seq(Replies \X Parts) : q = outbox[c]
  BY DEF TypeInv, TypeOK
<1>3. Carries(b, q, l) /\ Size(b, q) = 2 * Len(l)
  BY <1>1, <1>2 DEF Outgoing
<1>4. <<r, 1>> \in Replies \X Parts /\ <<r, 2>> \in Replies \X Parts
  BY DEF Parts
<1> DEFINE P == Replies \X Parts
<1> HIDE DEF P
<1>5. b \in Seq(P) /\ q \in Seq(P) /\ <<r, 1>> \in P /\ <<r, 2>> \in P
  BY <1>4 DEF P
<1>6. Size(b, q \o InParts(r)) = 2 * Len(Append(l, r)) /\ Carries(b, q \o InParts(r), Append(l, r))
  BY <1>3, <1>5, MessageAdded
<1>7. QED
  BY <1>1, <1>2, <1>6

(* Steps that leave a stream as it is. *)
LEMMA IncomingSame ==
  ASSUME NEW c \in Clients, NEW l \in Seq(Messages), Incoming(c, l),
         nextId[c] \in Nat, \A i \in 1 .. Len(l) : l[i][2] \in Nat,
         buf'[c] = buf[c], inbox'[c] = inbox[c], Serving' => Serving,
         nextId'[c] \in {nextId[c], nextId[c] + 1},
         \A i \in 1 .. Len(l) : /\ outcome'[l[i]] = Unended
                                /\ Open(c)' => l[i][2] \in waiting'[c]
                                /\ \A h \in handling' : h.msg # l[i]
  PROVE  Incoming(c, l)'
<1>1. \A i \in 1 .. Len(l) : l[i][1] = c /\ l[i][2] < nextId'[c]
  BY DEF Incoming
<1>2. Carries(buf[c], inbox[c], l)' /\ (Serving' => Size(buf[c], inbox[c])' = 2 * Len(l))
  BY DEF Incoming
<1>3. \A i, j \in 1 .. Len(l) : l[i] = l[j] => i = j
  BY DEF Incoming
<1>4. QED
  BY <1>1, <1>2, <1>3 DEF Incoming

LEMMA OutgoingSame ==
  ASSUME NEW c \in Clients, NEW l \in Seq(Replies), Outgoing(c, l),
         rbuf'[c] = rbuf[c], outbox'[c] = outbox[c], Serving' => Serving,
         memory'[c] = memory[c], waiting[c] \subseteq waiting'[c],
         Open(c)' => \/ Open(c)
                     \/ handling' = {} /\ \A i \in 1 .. Len(l) : l[i].kind # "done",
         \A i \in 1 .. Len(l) : l[i].kind # "result" => outcome'[l[i].of] = outcome[l[i].of],
         \A h \in handling' : h.msg[1] = c /\ Open(c)' => h \in handling \/ h.results = 0
  PROVE  Outgoing(c, l)'
<1>1. Carries(rbuf[c], outbox[c], l)' /\ (Serving' => Size(rbuf[c], outbox[c])' = 2 * Len(l))
  BY DEF Outgoing
<1>2. \A n, r : Known(c, l, n, r)' <=> Known(c, l, n, r)
  BY DEF Known
<1>3. ASSUME NEW i \in 1 .. Len(l) PROVE Replied(c, l, i)'
  <2>1. Replied(c, l, i)
    BY DEF Outgoing
  <2>2. l[i].kind = "error" => outcome'[l[i].of] = Failed
    BY <2>1 DEF Replied
  <2>3. ASSUME l[i].kind = "done"
        PROVE  /\ outcome'[l[i].of] >= 0
               /\ \A k \in 1 .. outcome'[l[i].of] : Known(c, l, i - 1, Result(l[i].of, k))'
               /\ Open(c)' => l[i].of[2] \in waiting'[c]
    <3>1. outcome'[l[i].of] = outcome[l[i].of]
      BY <2>3
    <3>2. Open(c)' => Open(c)
      BY <2>3
    <3>3. QED
      BY <1>2, <2>1, <2>3, <3>1, <3>2 DEF Replied
  <2>4. QED
    BY <2>1, <2>2, <2>3 DEF Replied
<1>4. ASSUME NEW h \in handling', h.msg[1] = c, Open(c)', NEW k \in 1 .. h.results
      PROVE  Known(c, l, Len(l), Result(h.msg, k))'
  <2>1. h.results # 0
    BY <1>4
  <2>2. h \in handling /\ Open(c)
    BY <1>4, <2>1
  <2>3. QED
    BY <1>2, <1>4, <2>2 DEF Outgoing
<1>5. \A i, j \in 1 .. Len(l) :
        l[i].kind = "done" /\ l[j].kind = "done" /\ l[i].of = l[j].of => i = j
  BY DEF Outgoing
<1>6. QED
  BY <1>1, <1>3, <1>4, <1>5 DEF Outgoing

LEMMA StreamFacts ==
  ASSUME MessageInv, NEW c \in Clients
  PROVE  /\ nextId[c] \in Nat
         /\ \A l \in Seq(Messages) : \A i \in 1 .. Len(l) : l[i] \in Messages /\ l[i][2] \in Nat
         /\ \A l \in Seq(Replies) : Len(l) \in Nat /\ \A i \in 1 .. Len(l) :
              l[i].of \in Messages /\ l[i].kind \in {"result", "done", "error"}
         /\ \A l \in Seq(Replies) : Outgoing(c, l) => \A i \in 1 .. Len(l) :
              l[i].kind # "result" => outcome[l[i].of] # Unended
<1>1. nextId[c] \in Nat
  BY DEF MessageInv, TypeInv, TypeOK
<1>2. \A l \in Seq(Messages) : \A i \in 1 .. Len(l) : l[i] \in Messages /\ l[i][2] \in Nat
  BY ElementOfSeq, MessageTyped
<1>3. \A l \in Seq(Replies) : Len(l) \in Nat /\ \A i \in 1 .. Len(l) :
        l[i].of \in Messages /\ l[i].kind \in {"result", "done", "error"}
  BY ElementOfSeq, LenProperties, ReplyTyped
<1>4. \A l \in Seq(Replies) : Outgoing(c, l) => \A i \in 1 .. Len(l) :
        l[i].kind # "result" => outcome[l[i].of] # Unended
  BY <1>3 DEF Outgoing, Replied, Failed, Unended
<1>5. QED
  BY <1>1, <1>2, <1>3, <1>4

(* The server comes up and goes. *)
LEMMA ListenStep ==
  ASSUME MessageInv, Listen
  PROVE  TurnInv' /\ HandledInv' /\ \A c \in Clients : ClientInv(c)'
<1>1. /\ server = "down" /\ server' = "up"
      /\ UNCHANGED <<protocol, handling, outcome, inbox, buf, outbox, rbuf, pc, nextId, waiting,
                     done, memory>>
  BY DEF Listen, streamVars, clientVars
<1>2. Serving /\ \A c \in Clients : pc[c] = "new"
  BY <1>1 DEF Serving, MessageInv, TurnInv
<1>3. TurnInv'
  BY <1>1 DEF MessageInv, TurnInv, Open, Listening
<1>4. HandledInv'
  BY <1>1 DEF MessageInv, HandledInv, Open
<1>5. ASSUME NEW c \in Clients PROVE ClientInv(c)'
  <2>1. PICK l \in Seq(Messages) : Incoming(c, l)
    BY DEF MessageInv, ClientInv
  <2>2. Incoming(c, l)'
    BY <1>1, <1>2, <2>1 DEF Incoming, Open
  <2>3. PICK m \in Seq(Replies) : Outgoing(c, m)
    BY DEF MessageInv, ClientInv
  <2>4. Outgoing(c, m)'
    BY <1>1, <1>2, <2>3 DEF Outgoing, Replied, Known, Open
  <2>5. Informed(c)'
    BY <1>1, <1>2 DEF MessageInv, ClientInv, Informed
  <2>6. QED
    BY <2>2, <2>4, <2>5 DEF ClientInv
<1>6. QED
  BY <1>3, <1>4, <1>5

LEMMA StopStep ==
  ASSUME MessageInv, Stop \/ Terminate
  PROVE  TurnInv' /\ HandledInv' /\ \A c \in Clients : ClientInv(c)'
<1>1. /\ server' \in {"stopped", "killed"} /\ handling' = {}
      /\ inbox' = [c \in Clients |-> << >>]
      /\ UNCHANGED <<protocol, outcome, buf, rbuf, pc, nextId, waiting, done, memory>>
  BY DEF Stop, Terminate, Ended, clientVars
<1>2. \A c \in Clients : outbox'[c] = outbox[c] \/ outbox'[c] = << >>
  BY DEF Stop, Terminate
<1>3. ~Serving' /\ ~Listening'
  BY <1>1 DEF Serving, Listening
<1>4. TurnInv'
  BY <1>1, <1>3 DEF MessageInv, TurnInv, Open
<1>5. HandledInv'
  BY <1>1 DEF MessageInv, HandledInv
<1>6. ASSUME NEW c \in Clients PROVE ClientInv(c)'
  <2>1. PICK l \in Seq(Messages) : Incoming(c, l)
    BY DEF MessageInv, ClientInv
  <2>2. PICK m \in Seq(Replies) : Outgoing(c, m)
    BY DEF MessageInv, ClientInv
  <2>3. /\ buf[c] \in Seq(Messages \X Parts) /\ inbox[c] \in Seq(Messages \X Parts)
        /\ rbuf[c] \in Seq(Replies \X Parts) /\ outbox[c] \in Seq(Replies \X Parts)
        /\ Len(l) \in Nat /\ Len(m) \in Nat
    BY LenProperties DEF MessageInv, TypeInv, TypeOK
  <2>4. Carries(buf[c], inbox[c], l) /\ Carries(rbuf[c], outbox[c], m)
    BY <2>1, <2>2 DEF Incoming, Outgoing
  <2>5. Carries(buf[c], inbox[c], l)'
    <3>1. Carries(buf[c], << >>, l)
      <4>1. PICK b \in Seq(Messages \X Parts), q \in Seq(Messages \X Parts) :
              b = buf[c] /\ q = inbox[c]
        BY <2>3
      <4>2. Carries(b, << >>, l)
        BY <2>3, <2>4, <4>1, ChunksLost
      <4>3. QED
        BY <4>1, <4>2
    <3>2. QED
      BY <1>1, <3>1
  <2>6. Carries(rbuf[c], outbox[c], m)'
    <3>1. Carries(rbuf[c], << >>, m)
      <4>1. PICK b \in Seq(Replies \X Parts), q \in Seq(Replies \X Parts) :
              b = rbuf[c] /\ q = outbox[c]
        BY <2>3
      <4>2. Carries(b, << >>, m)
        BY <2>3, <2>4, <4>1, ChunksLost
      <4>3. QED
        BY <4>1, <4>2
    <3>2. QED
      BY <1>1, <1>2, <2>4, <3>1
  <2>7. Incoming(c, l)'
    BY <1>1, <1>3, <2>1, <2>5 DEF Incoming, Open
  <2>8. Outgoing(c, m)'
    BY <1>1, <1>3, <2>2, <2>6 DEF Outgoing, Replied, Known, Open
  <2>9. Informed(c)'
    BY <1>1, <1>3 DEF MessageInv, ClientInv, Informed
  <2>10. QED
    BY <2>7, <2>8, <2>9 DEF ClientInv
<1>7. QED
  BY <1>4, <1>5, <1>6

(* Connections. *)
LEMMA ConnectStep ==
  ASSUME MessageInv, ~Overlap, NEW c \in Clients, Connect(c)
  PROVE  TurnInv' /\ HandledInv' /\ \A d \in Clients : ClientInv(d)'
<1>1. /\ pc[c] = "new" /\ Listening /\ handling = {} /\ protocol' = c
      /\ \A d \in Clients \ {c} : ~Open(d) /\ inbox[d] = << >>
      /\ pc' = [pc EXCEPT ![c] = "idle"]
      /\ UNCHANGED <<server, handling, outcome, inbox, buf, outbox, rbuf, nextId, waiting, done, memory>>
  BY DEF Connect, Alone, Goto, streamVars
<1>2. DOMAIN pc = Clients /\ nextId[c] = 0
  BY <1>1 DEF MessageInv, TypeInv, TypeOK, TurnInv
<1>3. pc'[c] = "idle" /\ \A d \in Clients : d # c => pc'[d] = pc[d]
  BY <1>1, <1>2
<1>4. \A d \in Clients : d # c => ~Open(d)'
  BY <1>1, <1>3 DEF Open
<1>5. TurnInv'
  <2>1. \A d \in Clients : Open(d)' \/ inbox'[d] # << >> => protocol' = d
    BY <1>1, <1>4
  <2>2. server' # "down"
    BY <1>1 DEF Listening
  <2>3. \A d \in Clients : pc'[d] = "new" => nextId'[d] = 0
    BY <1>1, <1>3 DEF MessageInv, TurnInv
  <2>4. QED
    BY <1>1, <2>1, <2>2, <2>3 DEF TurnInv
<1>6. HandledInv'
  BY <1>1 DEF MessageInv, HandledInv
<1>7. \A m \in Messages : m[1] = c => outcome[m] = Unended
  BY <1>2, MessageTyped DEF MessageInv, HandledInv
<1>8. ASSUME NEW d \in Clients PROVE ClientInv(d)'
  <2>1. PICK l \in Seq(Messages) : Incoming(d, l)
    BY DEF MessageInv, ClientInv
  <2>2. PICK m \in Seq(Replies) : Outgoing(d, m)
    BY DEF MessageInv, ClientInv
  <2>3. Incoming(d, l)'
    <3>1. ASSUME NEW i \in 1 .. Len(l), Open(d)' PROVE l[i][2] \in waiting'[d]
      <4>1. d = c
        BY <1>4, <3>1
      <4>2. l[i][2] \in Nat /\ l[i][2] < 0
        BY <1>2, <2>1, <4>1, StreamFacts DEF Incoming
      <4>3. QED
        BY <4>2
    <3>2. QED
      BY <1>1, <2>1, <3>1 DEF Incoming, Serving
  <2>4. Outgoing(d, m)'
    <3>1. ASSUME Open(d)' PROVE \A i \in 1 .. Len(m) : m[i].kind # "done"
      <4>1. d = c
        BY <1>4, <3>1
      <4>2. \A i \in 1 .. Len(m) : m[i].of[1] = c
        BY <2>2, <4>1 DEF Outgoing, Replied
      <4>3. \A i \in 1 .. Len(m) : m[i].of \in Messages
        BY StreamFacts
      <4>4. \A i \in 1 .. Len(m) : outcome[m[i].of] = Unended
        BY <1>7, <4>2, <4>3
      <4>5. QED
        BY <2>2, <4>4, StreamFacts
    <3>2. QED
      BY <1>1, <2>2, <3>1, OutgoingSame DEF Serving
  <2>5. Informed(d)'
    BY <1>1, <1>3 DEF MessageInv, ClientInv, Informed, Listening
  <2>6. QED
    BY <2>3, <2>4, <2>5 DEF ClientInv
<1>9. QED
  BY <1>5, <1>6, <1>8

LEMMA CloseStep ==
  ASSUME MessageInv, NEW c \in Clients, Close(c) \/ Block(c)
  PROVE  TurnInv' /\ HandledInv' /\ \A d \in Clients : ClientInv(d)'
<1>1. /\ pc[c] = "idle" /\ pc' \in {[pc EXCEPT ![c] = "closed"], [pc EXCEPT ![c] = "blocking"]}
      /\ UNCHANGED <<server, protocol, handling, outcome, inbox, buf, outbox, rbuf, nextId, waiting,
                     done, memory>>
  BY DEF Close, Block, Goto, serverVars, streamVars
<1>2. DOMAIN pc = Clients
  BY DEF MessageInv, TypeInv, TypeOK
<1>3. pc'[c] \in {"closed", "blocking"} /\ \A d \in Clients : d # c => pc'[d] = pc[d]
  BY <1>1, <1>2
<1>4. \A d \in Clients : Open(d)' => Open(d)
  BY <1>1, <1>3 DEF Open
<1>5. TurnInv'
  <2>1. server # "down"
    BY <1>1 DEF MessageInv, TurnInv
  <2>2. QED
    BY <1>1, <1>3, <1>4, <2>1 DEF MessageInv, TurnInv, Listening
<1>6. HandledInv'
  <2>1. \A h \in handling : h.msg[1] \in Clients
    BY HandledFacts
  <2>2. QED
    BY <1>1, <1>4, <2>1 DEF MessageInv, HandledInv
<1>7. ASSUME NEW d \in Clients PROVE ClientInv(d)'
  <2>1. PICK l \in Seq(Messages) : Incoming(d, l)
    BY DEF MessageInv, ClientInv
  <2>2. PICK m \in Seq(Replies) : Outgoing(d, m)
    BY DEF MessageInv, ClientInv
  <2>3. Incoming(d, l)'
    BY <1>1, <1>4, <2>1 DEF Incoming, Serving
  <2>4. Outgoing(d, m)'
    BY <1>1, <1>4, <2>2, OutgoingSame DEF Serving
  <2>5. Informed(d)'
    BY <1>1, <1>3 DEF MessageInv, ClientInv, Informed, Listening
  <2>6. QED
    BY <2>3, <2>4, <2>5 DEF ClientInv
<1>8. QED
  BY <1>5, <1>6, <1>7

(* A message is sent: nobody has seen its number before. *)
LEMMA CommitStep ==
  ASSUME MessageInv, NEW c \in Clients, Commit(c)
  PROVE  TurnInv' /\ HandledInv' /\ \A d \in Clients : ClientInv(d)'
<1> DEFINE id == nextId[c]
<1>1. /\ pc[c] = "idle" /\ id < Job[c]
      /\ nextId' = [nextId EXCEPT ![c] = id + 1]
      /\ waiting' = [waiting EXCEPT ![c] = waiting[c] \cup {id}]
      /\ \/ Listening /\ inbox' = [inbox EXCEPT ![c] = inbox[c] \o InParts(<<c, id>>)]
         \/ ~Listening /\ inbox' = inbox
      /\ UNCHANGED <<server, protocol, handling, outcome, buf, outbox, rbuf, done, memory>>
  BY DEF Commit, serverVars
<1>2. /\ DOMAIN nextId = Clients /\ DOMAIN waiting = Clients /\ DOMAIN inbox = Clients
      /\ id \in Nat /\ Job[c] \in Nat
      /\ \A d \in Clients : nextId[d] \in Nat
  BY ClientsAssumption DEF MessageInv, TypeInv, TypeOK
<1>3. <<c, id>> \in Messages
  BY <1>1, <1>2, MessageTyped DEF Ids
<1>4. /\ nextId'[c] = id + 1 /\ waiting'[c] = waiting[c] \cup {id}
      /\ \A d \in Clients : d # c =>
           nextId'[d] = nextId[d] /\ waiting'[d] = waiting[d] /\ inbox'[d] = inbox[d]
  BY <1>1, <1>2
<1>5. /\ pc'[c] \in {"idle", "waiting", "failed"} /\ (pc'[c] = "failed" => ~Listening)
      /\ \A d \in Clients : d # c => pc'[d] = pc[d]
  <2>1. DOMAIN pc = Clients
    BY DEF MessageInv, TypeInv, TypeOK
  <2>2. \/ Goto(c, IF Blocks[c] THEN "waiting" ELSE "idle")
        \/ ~Listening /\ Goto(c, "failed")
    BY DEF Commit
  <2>3. QED
    BY <2>1, <2>2 DEF Goto
<1>6. Open(c) /\ protocol = c /\ server # "down" /\ (Serving => Listening)
  BY <1>1 DEF Open, MessageInv, TurnInv, Serving, Listening, TypeInv, TypeOK
<1>7. \A d \in Clients : Open(d)' => Open(d)
  BY <1>5, <1>6 DEF Open
<1> HIDE DEF id
<1>8. TurnInv'
  <2>1. \A d \in Clients : Open(d)' \/ inbox'[d] # << >> => protocol' = d
    BY <1>1, <1>4, <1>6, <1>7 DEF MessageInv, TurnInv
  <2>2. \A d \in Clients : pc'[d] = "new" => nextId'[d] = 0
    BY <1>4, <1>5 DEF MessageInv, TurnInv
  <2>3. QED
    BY <1>1, <1>6, <2>1, <2>2 DEF MessageInv, TurnInv, Listening
<1>9. HandledInv'
  <2>1. \A d \in Clients : nextId'[d] \in {nextId[d], nextId[d] + 1}
    BY <1>4 DEF id
  <2>2. \A m \in Messages : m[2] >= nextId'[m[1]] => outcome[m] = Unended
    <3>1. ASSUME NEW m \in Messages, m[2] >= nextId'[m[1]] PROVE m[2] >= nextId[m[1]]
      <4>1. m[1] \in Clients /\ m[2] \in Nat
        BY MessageTyped
      <4>2. QED
        BY <1>2, <2>1, <3>1, <4>1
    <3>2. QED
      BY <3>1 DEF MessageInv, HandledInv
  <2>3. ASSUME NEW h \in handling
        PROVE  /\ h.msg[2] < nextId'[h.msg[1]] /\ outcome[h.msg] = Unended
               /\ Open(h.msg[1])' => h.msg[2] \in waiting'[h.msg[1]]
    <3>1. h.msg[1] \in Clients /\ h.msg[2] \in Nat
      BY HandledFacts, MessageTyped
    <3>2. /\ h.msg[2] < nextId[h.msg[1]] /\ outcome[h.msg] = Unended
          /\ Open(h.msg[1]) => h.msg[2] \in waiting[h.msg[1]]
      BY DEF MessageInv, HandledInv
    <3>3. h.msg[2] < nextId'[h.msg[1]]
      BY <1>2, <2>1, <3>1, <3>2
    <3>4. QED
      BY <1>4, <1>7, <3>1, <3>2, <3>3
  <2>4. \A g, h \in handling : g.msg = h.msg => g = h
    BY DEF MessageInv, HandledInv
  <2>5. QED
    BY <1>1, <2>2, <2>3, <2>4 DEF HandledInv
<1>10. ASSUME NEW d \in Clients PROVE \E l \in Seq(Messages) : Incoming(d, l)'
  <2>1. PICK l \in Seq(Messages) : Incoming(d, l)
    BY DEF MessageInv, ClientInv
  <2>2. CASE d # c \/ inbox' = inbox
    <3>1. Incoming(d, l)'
      <4>1. inbox'[d] = inbox[d]
        BY <1>4, <2>2
      <4>2. \A i \in 1 .. Len(l) : /\ outcome'[l[i]] = Unended
                                   /\ Open(d)' => l[i][2] \in waiting'[d]
                                   /\ \A h \in handling' : h.msg # l[i]
        BY <1>1, <1>4, <1>7, <2>1 DEF Incoming
      <4>3. nextId'[d] \in {nextId[d], nextId[d] + 1}
        BY <1>4 DEF id
      <4>4. QED
        BY <1>1, <2>1, <4>1, <4>2, <4>3, StreamFacts, IncomingSame DEF Serving
    <3>2. QED
      BY <3>1
  <2>3. CASE d = c /\ inbox' # inbox
    <3>1. Listening /\ inbox'[c] = inbox[c] \o InParts(<<c, id>>)
      BY <1>1, <1>2, <2>3
    <3>2. Serving
      BY <3>1 DEF Listening, Serving
    <3>3. PICK x \in Messages : x = <<c, id>>
      BY <1>3
    <3>4. PICK m \in Seq(Messages) : m = Append(l, x)
      BY AppendProperties
    <3>5. Size(buf[c], inbox[c] \o InParts(x)) = 2 * Len(m) /\ Carries(buf[c], inbox[c] \o InParts(x), m)
      <4>1. PICK b \in Seq(Messages \X Parts) : b = buf[c]
        BY DEF MessageInv, TypeInv, TypeOK
      <4>2. PICK q \in Seq(Messages \X Parts) : q = inbox[c]
        BY DEF MessageInv, TypeInv, TypeOK
      <4>3. Carries(b, q, l) /\ Size(b, q) = 2 * Len(l)
        BY <2>1, <2>3, <3>2, <4>1, <4>2 DEF Incoming
      <4>4. <<x, 1>> \in Messages \X Parts /\ <<x, 2>> \in Messages \X Parts
        BY DEF Parts
      <4> DEFINE P == Messages \X Parts
      <4> HIDE DEF P
      <4>5. b \in Seq(P) /\ q \in Seq(P) /\ <<x, 1>> \in P /\ <<x, 2>> \in P
        BY <4>4 DEF P
      <4>6. Size(b, q \o InParts(x)) = 2 * Len(m) /\ Carries(b, q \o InParts(x), m)
        BY <3>4, <4>3, <4>5, MessageAdded
      <4>7. QED
        BY <4>1, <4>2, <4>6
    <3>6. /\ Len(l) \in Nat /\ Len(m) = Len(l) + 1 /\ m[Len(l) + 1] = x
          /\ \A i \in 1 .. Len(l) : m[i] = l[i]
      BY <3>4, AppendProperties, LenProperties
    <3>7. \A i \in 1 .. Len(m) : \/ i \in 1 .. Len(l) /\ m[i] = l[i]
                                 \/ i = Len(l) + 1 /\ m[i] = x
      BY <3>6
    <3>8. /\ outcome[x] = Unended /\ \A h \in handling : h.msg # x
          /\ \A i \in 1 .. Len(l) : l[i] # x
      <4>1. x[1] = c /\ x[2] = id
        BY <3>3
      <4>2. outcome[x] = Unended
        BY <1>2, <4>1 DEF MessageInv, HandledInv, id
      <4>3. \A h \in handling : h.msg # x
        BY <1>2, <4>1 DEF MessageInv, HandledInv, id
      <4>4. \A i \in 1 .. Len(l) : l[i] # x
        BY <1>2, <2>1, <2>3, <4>1 DEF Incoming, id
      <4>5. QED
        BY <4>2, <4>3, <4>4
    <3>9. ASSUME NEW i \in 1 .. Len(m)
          PROVE  /\ m[i][1] = c /\ m[i][2] < nextId'[c]
                 /\ outcome'[m[i]] = Unended
                 /\ Open(c)' => m[i][2] \in waiting'[c]
                 /\ \A h \in handling' : h.msg # m[i]
      <4>1. CASE m[i] = x
        BY <1>1, <1>2, <1>4, <3>3, <3>8, <4>1
      <4>2. CASE i \in 1 .. Len(l) /\ m[i] = l[i]
        <5>1. /\ l[i][1] = c /\ l[i][2] < nextId[c] /\ outcome[l[i]] = Unended
              /\ Open(c) => l[i][2] \in waiting[c]
              /\ \A h \in handling : h.msg # l[i]
          BY <2>1, <2>3, <4>2 DEF Incoming
        <5>2. l[i][2] \in Nat
          BY <4>2, StreamFacts
        <5>3. l[i][2] < nextId'[c]
          BY <1>2, <1>4, <5>1, <5>2 DEF id
        <5>4. QED
          BY <1>1, <1>4, <1>6, <4>2, <5>1, <5>3
      <4>3. QED
        BY <3>7, <4>1, <4>2
    <3>10. \A i, j \in 1 .. Len(m) : m[i] = m[j] => i = j
      BY <2>1, <3>7, <3>8 DEF Incoming
    <3>11. Incoming(c, m)'
      BY <1>1, <3>1, <3>3, <3>5, <3>9, <3>10 DEF Incoming
    <3>12. QED
      BY <2>3, <3>11
  <2>4. QED
    BY <2>2, <2>3
<1>11. ASSUME NEW d \in Clients PROVE \E l \in Seq(Replies) : Outgoing(d, l)'
  <2>1. PICK l \in Seq(Replies) : Outgoing(d, l)
    BY DEF MessageInv, ClientInv
  <2>2. Outgoing(d, l)'
    <3>1. waiting[d] \subseteq waiting'[d]
      BY <1>4
    <3>2. QED
      BY <1>1, <1>7, <2>1, <3>1, OutgoingSame DEF Serving
  <2>3. QED
    BY <2>2
<1>12. ASSUME NEW d \in Clients PROVE Informed(d)'
  <2>1. pc'[d] = "failed" => pc[d] = "failed" \/ ~Listening'
    BY <1>1, <1>5 DEF Listening
  <2>2. QED
    BY <1>1, <2>1 DEF MessageInv, ClientInv, Informed, Listening
<1>13. QED
  BY <1>8, <1>9, <1>10, <1>11, <1>12 DEF ClientInv

(* A reply about a handled message is written. *)
LEMMA ReplyWritten ==
  ASSUME MessageInv, NEW h \in handling, NEW r \in Replies, r.of = h.msg,
         outbox' = Written(protocol, r), Serving' => Serving,
         UNCHANGED <<rbuf, memory, waiting, pc>>,
         \A x \in Messages : x # h.msg => outcome'[x] = outcome[x],
         r.kind = "error" => outcome'[h.msg] = Failed,
         r.kind = "done" => outcome'[h.msg] = h.results,
         \A g \in handling' :
           \/ g \in handling
           \/ /\ g.msg = h.msg /\ g.results = h.results + 1
              /\ r = Result(h.msg, h.results + 1)
  PROVE  \A d \in Clients : \E l \in Seq(Replies) : Outgoing(d, l)'
<1>1. /\ protocol \in Clients /\ h.msg \in Messages /\ h.msg[1] = protocol /\ h.results \in Nat
      /\ h.msg[2] \in Nat /\ outcome[h.msg] = Unended /\ Listening /\ TypeInv
  BY HandledFacts, MessageTyped DEF MessageInv
<1>2. \A g \in handling' : g.msg[1] = protocol
  BY <1>1 DEF MessageInv, TurnInv
<1>3. ASSUME NEW d \in Clients, NEW l \in Seq(Replies), Outgoing(d, l)
      PROVE  \A i \in 1 .. Len(l) : l[i].kind # "result" =>
               l[i].of # h.msg /\ outcome'[l[i].of] = outcome[l[i].of]
  <2>1. \A i \in 1 .. Len(l) : l[i].of \in Messages
                               /\ (l[i].kind # "result" => outcome[l[i].of] # Unended)
    BY <1>3, StreamFacts
  <2>2. QED
    BY <1>1, <2>1
<1>4. \A d \in Clients : Open(d)' <=> Open(d)
  BY DEF Open
<1>5. ASSUME NEW d \in Clients, d # protocol \/ ~Open(d)
      PROVE  \E l \in Seq(Replies) : Outgoing(d, l)'
  <2>1. PICK l \in Seq(Replies) : Outgoing(d, l)
    BY DEF MessageInv, ClientInv
  <2>2. outbox'[d] = outbox[d]
    BY <1>1, <1>5, WrittenTo
  <2>3. \A i \in 1 .. Len(l) : l[i].kind # "result" => outcome'[l[i].of] = outcome[l[i].of]
    BY <1>3, <2>1
  <2>4. \A g \in handling' : ~(g.msg[1] = d /\ Open(d)')
    BY <1>2, <1>4, <1>5
  <2>5. Outgoing(d, l)'
    BY <1>4, <2>1, <2>2, <2>3, <2>4, OutgoingSame
  <2>6. QED
    BY <2>5
<1>6. ASSUME NEW c \in Clients, c = protocol, Open(c)
      PROVE  \E l \in Seq(Replies) : Outgoing(c, l)'
  <2>1. c = protocol
    BY <1>6
  <2>2. PICK l \in Seq(Replies) : Outgoing(c, l)
    BY DEF MessageInv, ClientInv
  <2>3. PICK m \in Seq(Replies) : m = Append(l, r)
    BY AppendProperties
  <2>4. PICK n \in Nat : n = Len(l)
    BY LenProperties
  <2>5. /\ Len(m) = n + 1 /\ m[n + 1] = r
        /\ \A i \in 1 .. n : m[i] = l[i]
    BY <2>3, <2>4, AppendProperties
  <2>6. \A i \in 1 .. Len(m) : \/ i \in 1 .. n /\ m[i] = l[i]
                               \/ i = n + 1 /\ m[i] = r
    BY <2>5
  <2>7. ASSUME NEW a \in 0 .. n, NEW b \in 0 .. (n + 1), a <= b, NEW x, Known(c, l, a, x)
        PROVE  Known(c, m, b, x)'
    <3>1. CASE x \in memory[c]
      BY <3>1 DEF Known
    <3>2. CASE x \notin memory[c]
      <4>1. PICK j \in 1 .. a : l[j] = x
        BY <2>7, <3>2 DEF Known
      <4>2. j \in 1 .. b /\ m[j] = x
        BY <2>5, <2>7, <4>1
      <4>3. QED
        BY <4>2 DEF Known
    <3>3. QED
      BY <3>1, <3>2
  <2>8. Carries(rbuf[c], outbox[c], m)' /\ (Serving' => Size(rbuf[c], outbox[c])' = 2 * Len(m))
    <3>1. Serving
      BY <1>1 DEF Listening, Serving
    <3>2. /\ Size(rbuf[c], outbox[c] \o InParts(r)) = 2 * Len(m)
          /\ Carries(rbuf[c], outbox[c] \o InParts(r), m)
      BY <1>1, <2>2, <2>3, <3>1, ReplyAdded
    <3>3. outbox'[c] = outbox[c] \o InParts(r)
      <4>1. outbox' = Written(c, r)
        BY <2>1
      <4>2. TypeInv /\ Open(c)
        BY <1>1, <1>6
      <4>3. Open(c) => Written(c, r)[c] = outbox[c] \o InParts(r)
        BY <4>2, WrittenTo
      <4>4. QED
        BY <4>1, <4>2, <4>3
    <3>4. QED
      BY <3>2, <3>3
  <2>9. ASSUME NEW i \in 1 .. Len(m) PROVE Replied(c, m, i)'
    <3>1. CASE i \in 1 .. n /\ m[i] = l[i]
      <4>1. Replied(c, l, i)
        BY <2>2, <2>4, <3>1 DEF Outgoing
      <4>2. l[i].kind # "result" => outcome'[l[i].of] = outcome[l[i].of]
        BY <1>3, <2>2, <2>4, <3>1
      <4>3. i - 1 \in 0 .. n /\ i - 1 \in 0 .. (n + 1) /\ i - 1 <= i - 1
        BY <3>1
      <4>4. \A x : Known(c, l, i - 1, x) => Known(c, m, i - 1, x)'
        BY <2>7, <4>3
      <4>5. Open(c)' <=> Open(c)
        BY <1>4
      <4>6. QED
        BY <3>1, <4>1, <4>2, <4>4, <4>5 DEF Replied
    <3>2. CASE i = n + 1 /\ m[i] = r
      <4>1. \A k \in 1 .. h.results : Known(c, l, n, Result(h.msg, k))
        BY <1>1, <1>6, <2>1, <2>2, <2>4 DEF Outgoing
      <4>2. \A k \in 1 .. h.results : Known(c, m, n, Result(h.msg, k))'
        BY <2>7, <4>1
      <4>3. h.msg[2] \in waiting[c]
        BY <1>1, <1>6, <2>1 DEF MessageInv, HandledInv
      <4>4. i - 1 = n
        BY <3>2
      <4>5. h.results >= 0
        BY <1>1
      <4>6. QED
        BY <1>1, <2>1, <3>2, <4>2, <4>3, <4>4, <4>5 DEF Replied
    <3>3. QED
      BY <2>6, <3>1, <3>2
  <2>10. ASSUME NEW i \in 1 .. Len(m), NEW j \in 1 .. Len(m),
                m[i].kind = "done", m[j].kind = "done", m[i].of = m[j].of
         PROVE  i = j
    <3>1. \A a, b \in 1 .. n : l[a].kind = "done" /\ l[b].kind = "done" /\ l[a].of = l[b].of => a = b
      BY <2>2, <2>4 DEF Outgoing
    <3>2. \A a \in 1 .. n : l[a].kind = "done" => l[a].of # h.msg
      BY <1>3, <2>2, <2>4
    <3>3. QED
      BY <2>6, <2>10, <3>1, <3>2
  <2>11. ASSUME NEW g \in handling', Open(c)', NEW k \in 1 .. g.results
         PROVE  Known(c, m, Len(m), Result(g.msg, k))'
    <3>1. n \in 0 .. n /\ Len(m) \in 0 .. (n + 1) /\ n <= Len(m)
      BY <2>5
    <3>2. ASSUME NEW f \in handling
          PROVE  \A i \in 1 .. f.results : Known(c, m, Len(m), Result(f.msg, i))'
      <4>1. f.msg[1] = c
        BY <2>1, HandledFacts
      <4>2. \A i \in 1 .. f.results : Known(c, l, n, Result(f.msg, i))
        BY <1>6, <2>1, <2>2, <2>4, <4>1 DEF Outgoing
      <4>3. QED
        BY <2>7, <3>1, <4>2
    <3>3. CASE g \in handling
      BY <3>2, <3>3
    <3>4. CASE g.msg = h.msg /\ g.results = h.results + 1 /\ r = Result(h.msg, h.results + 1)
      <4>1. k \in 1 .. h.results \/ k = h.results + 1
        BY <1>1, <3>4
      <4>2. CASE k \in 1 .. h.results
        BY <3>2, <3>4, <4>2
      <4>3. CASE k = h.results + 1
        <5>1. m[n + 1] = Result(g.msg, k) /\ n + 1 \in 1 .. Len(m)
          BY <2>5, <3>4, <4>3
        <5>2. QED
          BY <5>1 DEF Known
      <4>4. QED
        BY <4>1, <4>2, <4>3
    <3>5. QED
      BY <3>3, <3>4
  <2>12. Outgoing(c, m)'
    BY <2>8, <2>9, <2>10, <2>11 DEF Outgoing
  <2>13. QED
    BY <2>12
<1>7. QED
  BY <1>5, <1>6

(* The handling of a message goes on, or ends. *)
LEMMA HandlingStep ==
  ASSUME MessageInv, NEW h \in handling,
         UNCHANGED <<protocol, inbox, buf, pc, nextId, waiting>>, Listening',
         handling' \subseteq Handled,
         \A x \in Messages : x # h.msg => outcome'[x] = outcome[x],
         \A g \in handling' :
           \/ g \in handling /\ g # h
           \/ g.msg = h.msg /\ g = [h EXCEPT !.results = @ + 1] /\ outcome'[h.msg] = outcome[h.msg]
  PROVE  /\ TurnInv' /\ HandledInv'
         /\ \A d \in Clients : \E l \in Seq(Messages) : Incoming(d, l)'
<1>1. /\ protocol \in Clients /\ h.msg \in Messages /\ h.msg[1] = protocol /\ h.results \in Nat
      /\ h.msg[2] \in Nat /\ outcome[h.msg] = Unended /\ Listening /\ server # "down"
  BY HandledFacts, MessageTyped DEF Listening
<1>2. Serving /\ Serving' /\ server' # "down"
  BY <1>1 DEF Serving, Listening
<1>3. \A d \in Clients : Open(d)' <=> Open(d)
  BY DEF Open
<1>4. \A g \in handling' : \E f \in handling : g.msg = f.msg
  OBVIOUS
<1>5. \A f \in handling : f # h => f.msg # h.msg
  BY DEF MessageInv, HandledInv
<1>6. TurnInv'
  <2>1. \A g \in handling' : g.msg[1] = protocol
    BY <1>4 DEF MessageInv, TurnInv
  <2>2. QED
    BY <1>2, <1>3, <2>1 DEF MessageInv, TurnInv
<1>7. HandledInv'
  <2>1. \A m \in Messages : m[2] >= nextId[m[1]] => outcome'[m] = Unended
    <3>1. h.msg[2] < nextId[h.msg[1]] /\ nextId[h.msg[1]] \in Nat
      BY <1>1 DEF MessageInv, HandledInv, TypeInv, TypeOK
    <3>2. ~(h.msg[2] >= nextId[h.msg[1]])
      BY <1>1, <3>1
    <3>3. QED
      BY <3>2 DEF MessageInv, HandledInv
  <2>2. ASSUME NEW g \in handling'
        PROVE  /\ g.msg[2] < nextId[g.msg[1]] /\ outcome'[g.msg] = Unended
               /\ Open(g.msg[1]) => g.msg[2] \in waiting[g.msg[1]]
    <3>1. PICK f \in handling : g.msg = f.msg
      BY <1>4
    <3>2. /\ f.msg[2] < nextId[f.msg[1]] /\ outcome[f.msg] = Unended
          /\ Open(f.msg[1]) => f.msg[2] \in waiting[f.msg[1]]
      BY DEF MessageInv, HandledInv
    <3>3. outcome'[f.msg] = Unended
      <4>1. CASE f.msg = h.msg
        BY <1>1, <1>5, <3>1, <4>1
      <4>2. CASE f.msg # h.msg
        BY <3>2, <4>2, HandledFacts
      <4>3. QED
        BY <4>1, <4>2
    <3>4. QED
      BY <3>1, <3>2, <3>3
  <2>3. ASSUME NEW e \in handling', NEW g \in handling', e.msg = g.msg PROVE e = g
    <3>1. \A f, k \in handling : f.msg = k.msg => f = k
      BY DEF MessageInv, HandledInv
    <3>2. QED
      BY <1>5, <2>3, <3>1
  <2>4. QED
    BY <2>1, <2>2, <2>3 DEF HandledInv, Open
<1>8. ASSUME NEW d \in Clients PROVE \E l \in Seq(Messages) : Incoming(d, l)'
  <2>1. PICK l \in Seq(Messages) : Incoming(d, l)
    BY DEF MessageInv, ClientInv
  <2>2. ASSUME NEW i \in 1 .. Len(l)
        PROVE  /\ outcome'[l[i]] = Unended
               /\ Open(d)' => l[i][2] \in waiting'[d]
               /\ \A g \in handling' : g.msg # l[i]
    <3>1. /\ outcome[l[i]] = Unended /\ (Open(d) => l[i][2] \in waiting[d])
          /\ \A g \in handling : g.msg # l[i]
      BY <2>1 DEF Incoming
    <3>2. l[i] \in Messages /\ l[i] # h.msg
      BY <3>1, StreamFacts
    <3>3. QED
      BY <1>3, <1>4, <3>1, <3>2
  <2>3. nextId[d] \in Nat /\ \A i \in 1 .. Len(l) : l[i][2] \in Nat
    BY StreamFacts
  <2>4. nextId'[d] \in {nextId[d], nextId[d] + 1}
    OBVIOUS
  <2>5. Incoming(d, l)'
    BY <1>2, <2>1, <2>2, <2>3, <2>4, IncomingSame
  <2>6. QED
    BY <2>5
<1>9. QED
  BY <1>6, <1>7, <1>8

LEMMA ReturnStep ==
  ASSUME MessageInv, MessageInv => TypeInv', NEW h \in handling, ReturnResult(h)
  PROVE  TurnInv' /\ HandledInv' /\ \A d \in Clients : ClientInv(d)'
<1>1. /\ Listening /\ h.results < MaxResults
      /\ handling' = (handling \ {h}) \cup {[h EXCEPT !.results = @ + 1]}
      /\ outbox' = Written(protocol, Result(h.msg, h.results + 1))
      /\ UNCHANGED <<server, protocol, outcome, inbox, buf, rbuf, pc, nextId, waiting, done, memory>>
  BY DEF ReturnResult, clientVars
<1>2. /\ h \in Handled /\ h.msg \in Messages /\ h.results \in Nat /\ MaxResults \in Nat
  BY HandledFacts, ClientsAssumption
<1>3. DEFINE g == [h EXCEPT !.results = @ + 1]
             r == Result(h.msg, h.results + 1)
<1>4. g.msg = h.msg /\ g.results = h.results + 1
  BY <1>2 DEF Handled
<1>5. r \in Replies /\ r.of = h.msg /\ r.kind = "result"
  <2>1. h.results + 1 \in 1 .. MaxResults
    BY <1>1, <1>2
  <2>2. QED
    BY <1>2, <2>1, ReplyTyped DEF Result
<1>6. \A f \in handling' : (f \in handling /\ f # h) \/ f = g
  BY <1>1
<1>7. handling' \subseteq Handled
  BY DEF TypeInv
<1> HIDE DEF g, r
<1>8. /\ TurnInv' /\ HandledInv'
      /\ \A d \in Clients : \E l \in Seq(Messages) : Incoming(d, l)'
  <2>1. Listening'
    BY <1>1 DEF Listening
  <2>2. \A f \in handling' :
          \/ f \in handling /\ f # h
          \/ f.msg = h.msg /\ f = [h EXCEPT !.results = @ + 1] /\ outcome'[h.msg] = outcome[h.msg]
    BY <1>1, <1>4, <1>6 DEF g
  <2>3. QED
    BY <1>1, <1>7, <2>1, <2>2, HandlingStep
<1>9. \A d \in Clients : \E l \in Seq(Replies) : Outgoing(d, l)'
  <2>1. \A f \in handling' :
          \/ f \in handling
          \/ /\ f.msg = h.msg /\ f.results = h.results + 1
             /\ r = Result(h.msg, h.results + 1)
    BY <1>4, <1>6 DEF r
  <2>2. outbox' = Written(protocol, r)
    BY <1>1 DEF r
  <2>3. Serving' => Serving
    BY <1>1 DEF Serving
  <2>4. QED
    BY <1>1, <1>5, <2>1, <2>2, <2>3, ReplyWritten
<1>10. \A d \in Clients : Informed(d)'
  BY <1>1 DEF MessageInv, ClientInv, Informed, Listening
<1>11. QED
  BY <1>8, <1>9, <1>10 DEF ClientInv

LEMMA EndStep ==
  ASSUME MessageInv, MessageInv => TypeInv', NEW h \in handling, Finish(h) \/ Fail(h)
  PROVE  TurnInv' /\ HandledInv' /\ \A d \in Clients : ClientInv(d)'
<1>1. /\ h \in Handled /\ h.msg \in Messages /\ h.results \in Nat /\ h.msg[1] = protocol
      /\ outcome[h.msg] = Unended /\ h.msg = <<protocol, h.msg[2]>> /\ protocol \in Clients
  BY HandledFacts
<1>2. DOMAIN outcome = Messages
  BY DEF MessageInv, TypeInv, TypeOK
<1>3. /\ Listening' /\ handling' = handling \ {h}
      /\ UNCHANGED <<protocol, inbox, buf, rbuf, pc, nextId, waiting, done, memory>>
  BY DEF Finish, Fail, Listening, clientVars
<1>4. PICK r \in Replies :
        /\ r.of = h.msg /\ r.kind \in {"done", "error"} /\ outbox' = Written(protocol, r)
        /\ r.kind = "error" => outcome'[h.msg] = Failed
        /\ r.kind = "done" => outcome'[h.msg] = h.results
        /\ \A x \in Messages : x # h.msg => outcome'[x] = outcome[x]
  <2>1. CASE Finish(h)
    <3>1. outcome' = [outcome EXCEPT ![h.msg] = h.results] /\ outbox' = Written(protocol, Done(h.msg))
      BY <2>1 DEF Finish
    <3>2. Done(h.msg) \in Replies /\ Done(h.msg).of = h.msg /\ Done(h.msg).kind = "done"
      BY <1>1, ReplyTyped DEF Done
    <3>3. outcome'[h.msg] = h.results /\ \A x \in Messages : x # h.msg => outcome'[x] = outcome[x]
      BY <1>1, <1>2, <3>1
    <3>4. QED
      BY <3>1, <3>2, <3>3
  <2>2. CASE Fail(h)
    <3>1. outcome' = [outcome EXCEPT ![h.msg] = Failed] /\ outbox' = Written(protocol, Error(h.msg))
      BY <1>1, <2>2 DEF Fail
    <3>2. Error(h.msg) \in Replies /\ Error(h.msg).of = h.msg /\ Error(h.msg).kind = "error"
      BY <1>1, ReplyTyped DEF Error
    <3>3. outcome'[h.msg] = Failed /\ \A x \in Messages : x # h.msg => outcome'[x] = outcome[x]
      BY <1>1, <1>2, <3>1
    <3>4. QED
      BY <3>1, <3>2, <3>3
  <2>3. QED
    BY <2>1, <2>2
<1>5. handling' \subseteq Handled
  BY DEF TypeInv
<1>6. \A g \in handling' : g \in handling /\ g # h
  BY <1>3
<1>7. /\ TurnInv' /\ HandledInv'
      /\ \A d \in Clients : \E l \in Seq(Messages) : Incoming(d, l)'
  BY <1>3, <1>4, <1>5, <1>6, HandlingStep
<1>8. \A d \in Clients : \E l \in Seq(Replies) : Outgoing(d, l)'
  <2>1. Serving' => Serving
    BY HandledFacts DEF Serving, Listening
  <2>2. QED
    BY <1>3, <1>4, <1>6, <2>1, ReplyWritten
<1>9. ASSUME NEW d \in Clients PROVE Informed(d)'
  <2>1. Informed(d)
    BY DEF MessageInv, ClientInv
  <2>2. \A id \in Ids(d) : <<d, id>> \in Messages
    BY MessageTyped
  <2>3. \A id \in Ids(d) : outcome[<<d, id>>] # Unended => outcome'[<<d, id>>] = outcome[<<d, id>>]
    BY <1>1, <1>4, <2>2
  <2>4. ASSUME NEW id \in done[d]
        PROVE  /\ outcome'[<<d, id>>] >= 0
               /\ \A k \in 1 .. outcome'[<<d, id>>] : Result(<<d, id>>, k) \in memory[d]
    <3>1. id \in Ids(d) /\ outcome[<<d, id>>] >= 0
      BY <2>1 DEF Informed
    <3>2. outcome[<<d, id>>] # Unended
      BY <3>1 DEF Unended
    <3>3. outcome'[<<d, id>>] = outcome[<<d, id>>]
      BY <2>3, <3>1, <3>2
    <3>4. QED
      BY <2>1, <3>1, <3>3 DEF Informed
  <2>5. ASSUME pc[d] = "failed"
        PROVE  \E id \in Ids(d) : outcome'[<<d, id>>] = Failed
    <3>1. PICK id \in Ids(d) : outcome[<<d, id>>] = Failed
      BY <2>1, <2>5, HandledFacts DEF Informed
    <3>2. outcome'[<<d, id>>] = Failed
      BY <2>3, <3>1 DEF Failed, Unended
    <3>3. QED
      BY <3>2
  <2>6. QED
    BY <1>3, <2>1, <2>4, <2>5 DEF Informed
<1>10. QED
  BY <1>7, <1>8, <1>9 DEF ClientInv

LEMMA TailTyped ==
  ASSUME NEW X, NEW l \in Seq(X), l # << >>
  PROVE  /\ Tail(l) \in Seq(X) /\ Len(l) \in Nat \ {0} /\ Len(Tail(l)) = Len(l) - 1
         /\ \A i \in 1 .. Len(Tail(l)) : i + 1 \in 1 .. Len(l) /\ Tail(l)[i] = l[i + 1]
<1>1. Len(l) \in Nat /\ Len(l) # 0
  BY LenProperties, EmptySeq
<1>2. /\ Tail(l) \in Seq(X) /\ Len(Tail(l)) = Len(l) - 1
      /\ \A i \in 1 .. Len(Tail(l)) : Tail(l)[i] = l[i + 1]
  BY HeadTailProperties
<1>3. \A i \in 1 .. Len(Tail(l)) : i + 1 \in 1 .. Len(l)
  BY <1>1, <1>2
<1>4. QED
  BY <1>1, <1>2, <1>3

(* A chunk comes in.  If it completes a message, that one is handled now. *)
LEMMA ReceiveStep ==
  ASSUME MessageInv, NEW c \in Clients, NEW k \in 1 .. Len(inbox[c]), Receive(c, k)
  PROVE  TurnInv' /\ HandledInv' /\ \A d \in Clients : ClientInv(d)'
<1>1. PICK b \in Seq(Messages \X Parts) : b = buf[c]
  BY DEF MessageInv, TypeInv, TypeOK
<1>2. PICK q \in Seq(Messages \X Parts) : q = inbox[c]
  BY DEF MessageInv, TypeInv, TypeOK
<1>3. PICK l \in Seq(Messages) : Incoming(c, l)
  BY DEF MessageInv, ClientInv
<1>4. PICK s : s = b \o Taken(q, k)
  OBVIOUS
<1>5. PICK r : r = Left(q, k)
  OBVIOUS
<1>6. k \in 1 .. Len(q) /\ Carries(b, q, l) /\ (Serving => Size(b, q) = 2 * Len(l))
  BY <1>1, <1>2, <1>3 DEF Incoming
<1>7. /\ s \in Seq(Messages \X Parts) /\ r \in Seq(Messages \X Parts)
      /\ Size(s, r) = Size(b, q) /\ Carries(s, r, l)
  <2> DEFINE P == Messages \X Parts
  <2> HIDE DEF P
  <2>1. b \in Seq(P) /\ q \in Seq(P)
    BY DEF P
  <2>2. /\ s \in Seq(P) /\ r \in Seq(P) /\ Size(s, r) = Size(b, q) /\ Carries(s, r, l)
    BY <1>4, <1>5, <1>6, <2>1, ChunkMoved
  <2>3. QED
    BY <2>2 DEF P
<1>8. /\ Listening /\ inbox' = [inbox EXCEPT ![c] = r]
      /\ IF Complete(s)
         THEN /\ handling' = handling \cup {[msg |-> First(s), results |-> 0]}
              /\ buf' = [buf EXCEPT ![c] = Rest(s)]
         ELSE buf' = [buf EXCEPT ![c] = s] /\ UNCHANGED handling
      /\ UNCHANGED <<server, protocol, outcome, outbox, rbuf, pc, nextId, waiting, done, memory>>
  BY <1>1, <1>2, <1>4, <1>5 DEF Receive, clientVars
<1>9. /\ inbox'[c] = r
      /\ \A d \in Clients : d # c => inbox'[d] = inbox[d] /\ buf'[d] = buf[d]
      /\ buf'[c] = IF Complete(s) THEN Rest(s) ELSE s
  <2>1. DOMAIN inbox = Clients /\ DOMAIN buf = Clients
    BY DEF MessageInv, TypeInv, TypeOK
  <2>2. QED
    BY <1>8, <2>1
<1>10. protocol = c
  <2>1. inbox[c] # << >>
    <3>1. Len(q) # 0
      BY <1>6
    <3>2. QED
      BY <1>2, <3>1, EmptySeq
  <2>2. QED
    BY <2>1 DEF MessageInv, TurnInv
<1>11. Serving /\ (Listening' <=> Listening) /\ (Serving' <=> Serving) /\ \A d \in Clients : Open(d)' <=> Open(d)
  BY <1>8 DEF Serving, Listening, Open
<1>12. \A g \in handling' : g \in handling \/ (Complete(s) /\ g = [msg |-> First(s), results |-> 0])
  BY <1>8
<1>13. Complete(s) => /\ l # << >> /\ First(s) = l[1] /\ First(s) \in Messages
                      /\ First(s)[1] = c /\ First(s)[2] < nextId[c]
                      /\ outcome[First(s)] = Unended
                      /\ Open(c) => First(s)[2] \in waiting[c]
                      /\ \A h \in handling : h.msg # First(s)
                      /\ Size(Rest(s), r) = Size(s, r) - 2
                      /\ Carries(Rest(s), r, Tail(l))
  <2>1. SUFFICES ASSUME Complete(s)
                 PROVE  /\ l # << >> /\ First(s) = l[1] /\ First(s) \in Messages
                        /\ First(s)[1] = c /\ First(s)[2] < nextId[c]
                        /\ outcome[First(s)] = Unended
                        /\ Open(c) => First(s)[2] \in waiting[c]
                        /\ \A h \in handling : h.msg # First(s)
                        /\ Size(Rest(s), r) = Size(s, r) - 2
                        /\ Carries(Rest(s), r, Tail(l))
    OBVIOUS
  <2>2. /\ l # << >> /\ First(s) = l[1]
        /\ Size(Rest(s), r) = Size(s, r) - 2 /\ Carries(Rest(s), r, Tail(l))
    <3> DEFINE P == Messages \X Parts
    <3> HIDE DEF P
    <3>1. PICK u \in Seq(P), v \in Seq(P) : u = s /\ v = r
      BY <1>7 DEF P
    <3>2. Carries(u, v, l) /\ Complete(u)
      BY <1>7, <2>1, <3>1
    <3>3. /\ l # << >> /\ First(u) = l[1] /\ Rest(u) \in Seq(P)
          /\ Size(Rest(u), v) = Size(u, v) - 2 /\ Len(Tail(l)) = Len(l) - 1
          /\ Carries(Rest(u), v, Tail(l))
      BY <3>2, FirstTaken, Zenon
    <3>4. QED
      BY <3>1, <3>3
  <2>3. 1 \in 1 .. Len(l)
    BY <2>2, TailTyped
  <2>4. l[1] \in Messages
    BY <2>3, StreamFacts
  <2>5. /\ l[1][1] = c /\ l[1][2] < nextId[c] /\ outcome[l[1]] = Unended
        /\ Open(c) => l[1][2] \in waiting[c]
        /\ \A h \in handling : h.msg # l[1]
    BY <1>3, <2>3 DEF Incoming
  <2>6. QED
    BY <2>2, <2>4, <2>5
<1>14. TurnInv'
  <2>1. \A d \in Clients : Open(d)' \/ inbox'[d] # << >> => protocol' = d
    BY <1>8, <1>9, <1>10, <1>11 DEF MessageInv, TurnInv
  <2>2. \A g \in handling' : g.msg[1] = protocol
    BY <1>10, <1>12, <1>13 DEF MessageInv, TurnInv
  <2>3. server' # "down"
    BY <1>8 DEF Listening
  <2>4. QED
    BY <1>8, <1>11, <2>1, <2>2, <2>3 DEF MessageInv, TurnInv
<1>15. HandledInv'
  <2>1. ASSUME NEW g \in handling'
        PROVE  /\ g.msg[2] < nextId[g.msg[1]] /\ outcome[g.msg] = Unended
               /\ Open(g.msg[1]) => g.msg[2] \in waiting[g.msg[1]]
    <3>1. CASE g \in handling
      BY <3>1 DEF MessageInv, HandledInv
    <3>2. CASE Complete(s) /\ g = [msg |-> First(s), results |-> 0]
      BY <1>13, <3>2
    <3>3. QED
      BY <1>12, <3>1, <3>2
  <2>2. \A g, h \in handling' : g.msg = h.msg => g = h
    <3>1. \A g, h \in handling : g.msg = h.msg => g = h
      BY DEF MessageInv, HandledInv
    <3>2. QED
      BY <1>12, <1>13, <3>1
  <2>3. QED
    BY <1>8, <1>10, <1>11, <2>1, <2>2 DEF MessageInv, HandledInv, Open
<1>16. \E m \in Seq(Messages) : Incoming(c, m)'
  <2>1. CASE ~Complete(s)
    <3>1. buf'[c] = s /\ inbox'[c] = r /\ handling' = handling
      BY <1>8, <1>9, <2>1
    <3>2. Incoming(c, l)'
      BY <1>3, <1>6, <1>7, <1>8, <1>11, <3>1 DEF Incoming
    <3>3. QED
      BY <3>2
  <2>2. CASE Complete(s)
    <3>1. PICK t \in Seq(Messages) : t = Tail(l)
      BY <1>13, <2>2, TailTyped
    <3>2. /\ Len(l) \in Nat \ {0} /\ Len(t) = Len(l) - 1
          /\ \A i \in 1 .. Len(t) : i + 1 \in 1 .. Len(l) /\ t[i] = l[i + 1]
      BY <1>13, <2>2, <3>1, TailTyped
    <3>3. buf'[c] = Rest(s) /\ inbox'[c] = r
      BY <1>9, <2>2
    <3>4. Carries(buf[c], inbox[c], t)' /\ Size(buf[c], inbox[c])' = 2 * Len(t)
      <4>1. Size(s, r) = 2 * Len(l)
        BY <1>6, <1>7, <1>11
      <4>2. Size(Rest(s), r) = 2 * Len(t)
        BY <1>13, <2>2, <3>2, <4>1
      <4>3. QED
        BY <1>13, <2>2, <3>1, <3>3, <4>2
    <3>5. \A i, j \in 1 .. Len(l) : l[i] = l[j] => i = j
      BY <1>3 DEF Incoming
    <3>6. \A i \in 1 .. Len(t) : t[i] # First(s)
      <4>1. SUFFICES ASSUME NEW i \in 1 .. Len(t), t[i] = First(s) PROVE FALSE
        OBVIOUS
      <4>2. i + 1 \in 1 .. Len(l) /\ 1 \in 1 .. Len(l) /\ l[i + 1] = l[1] /\ i \in Nat \ {0}
        BY <1>13, <2>2, <3>2, <4>1
      <4>3. i + 1 = 1
        BY <3>5, <4>2
      <4>4. QED
        BY <4>2, <4>3
    <3>7. ASSUME NEW i \in 1 .. Len(t)
          PROVE  /\ t[i][1] = c /\ t[i][2] < nextId[c] /\ outcome[t[i]] = Unended
                 /\ Open(c) => t[i][2] \in waiting[c]
                 /\ \A g \in handling' : g.msg # t[i]
      <4>1. PICK j \in 1 .. Len(l) : t[i] = l[j]
        BY <3>2
      <4>2. /\ l[j][1] = c /\ l[j][2] < nextId[c] /\ outcome[l[j]] = Unended
            /\ Open(c) => l[j][2] \in waiting[c]
            /\ \A g \in handling : g.msg # l[j]
        BY <1>3 DEF Incoming
      <4>3. \A g \in handling' : g.msg # t[i]
        BY <1>12, <3>6, <4>1, <4>2
      <4>4. QED
        BY <4>1, <4>2, <4>3
    <3>8. \A i, j \in 1 .. Len(t) : t[i] = t[j] => i = j
      <4>1. SUFFICES ASSUME NEW i \in 1 .. Len(t), NEW j \in 1 .. Len(t), t[i] = t[j] PROVE i = j
        OBVIOUS
      <4>2. i + 1 \in 1 .. Len(l) /\ j + 1 \in 1 .. Len(l) /\ l[i + 1] = l[j + 1]
        BY <3>2, <4>1
      <4>3. i + 1 = j + 1
        BY <3>5, <4>2
      <4>4. QED
        BY <4>3
    <3>9. Incoming(c, t)'
      BY <1>8, <1>11, <3>4, <3>7, <3>8 DEF Incoming
    <3>10. QED
      BY <3>9
  <2>3. QED
    BY <2>1, <2>2
<1>17. ASSUME NEW d \in Clients, d # c PROVE \E m \in Seq(Messages) : Incoming(d, m)'
  <2>1. PICK m \in Seq(Messages) : Incoming(d, m)
    BY DEF MessageInv, ClientInv
  <2>2. \A i \in 1 .. Len(m) : \A g \in handling' : g.msg # m[i]
    <3>1. \A i \in 1 .. Len(m) : m[i][1] = d /\ \A g \in handling : g.msg # m[i]
      BY <2>1 DEF Incoming
    <3>2. QED
      BY <1>12, <1>13, <1>17, <3>1
  <2>3. inbox'[d] = inbox[d] /\ buf'[d] = buf[d]
    BY <1>9, <1>17
  <2>4. Incoming(d, m)'
    BY <1>8, <1>11, <2>1, <2>2, <2>3 DEF Incoming
  <2>5. QED
    BY <2>4
<1>18. ASSUME NEW d \in Clients PROVE \E m \in Seq(Replies) : Outgoing(d, m)'
  <2>1. PICK m \in Seq(Replies) : Outgoing(d, m)
    BY DEF MessageInv, ClientInv
  <2>2. \A g \in handling' : g \in handling \/ g.results = 0
    BY <1>12
  <2>3. Outgoing(d, m)'
    BY <1>8, <1>11, <2>1, <2>2, OutgoingSame
  <2>4. QED
    BY <2>3
<1>19. \A d \in Clients : Informed(d)'
  BY <1>8, <1>11 DEF MessageInv, ClientInv, Informed
<1>20. QED
  BY <1>14, <1>15, <1>16, <1>17, <1>18, <1>19 DEF ClientInv

(* The client takes over a chunk of what it was sent. *)
LEMMA ReadStep ==
  ASSUME MessageInv, NEW c \in Clients, NEW k \in 1 .. Len(outbox[c]), ReadMoreData(c, k)
  PROVE  TurnInv' /\ HandledInv' /\ \A d \in Clients : ClientInv(d)'
<1>1. PICK b \in Seq(Replies \X Parts) : b = rbuf[c]
  BY DEF MessageInv, TypeInv, TypeOK
<1>2. PICK q \in Seq(Replies \X Parts) : q = outbox[c]
  BY DEF MessageInv, TypeInv, TypeOK
<1>3. /\ rbuf' = [rbuf EXCEPT ![c] = b \o Taken(q, k)]
      /\ outbox' = [outbox EXCEPT ![c] = Left(q, k)]
      /\ UNCHANGED <<server, protocol, handling, outcome, inbox, buf, pc, nextId, waiting, done, memory>>
  BY <1>1, <1>2 DEF ReadMoreData, serverVars, clientVars
<1>4. DOMAIN rbuf = Clients /\ DOMAIN outbox = Clients
  BY DEF MessageInv, TypeInv, TypeOK
<1>5. /\ rbuf'[c] = b \o Taken(q, k) /\ outbox'[c] = Left(q, k)
      /\ \A d \in Clients : d # c => rbuf'[d] = rbuf[d] /\ outbox'[d] = outbox[d]
  BY <1>3, <1>4
<1>6. TurnInv'
  BY <1>3 DEF MessageInv, TurnInv, Open, Listening
<1>7. HandledInv'
  BY <1>3 DEF MessageInv, HandledInv, Open
<1>8. ASSUME NEW d \in Clients PROVE ClientInv(d)'
  <2>1. PICK l \in Seq(Messages) : Incoming(d, l)
    BY DEF MessageInv, ClientInv
  <2>2. PICK m \in Seq(Replies) : Outgoing(d, m)
    BY DEF MessageInv, ClientInv
  <2>3. Incoming(d, l)'
    BY <1>3, <2>1 DEF Incoming, Open, Serving
  <2>4. Outgoing(d, m)'
    <3>1. CASE d # c
      BY <1>3, <1>5, <2>2, <3>1 DEF Outgoing, Replied, Known, Open, Serving
    <3>2. CASE d = c
      <4>1. Carries(b, q, m) /\ k \in 1 .. Len(q)
        BY <1>1, <1>2, <2>2, <3>2 DEF Outgoing
      <4>2. /\ Size(b \o Taken(q, k), Left(q, k)) = Size(b, q)
            /\ Carries(b \o Taken(q, k), Left(q, k), m)
        <5> DEFINE P == Replies \X Parts
        <5> HIDE DEF P
        <5>1. b \in Seq(P) /\ q \in Seq(P)
          BY DEF P
        <5>2. QED
          BY <4>1, <5>1, ChunkMoved
      <4>3. Carries(rbuf[c], outbox[c], m)' /\ Size(rbuf[c], outbox[c])' = Size(rbuf[c], outbox[c])
        BY <1>1, <1>2, <1>5, <4>2
      <4>4. QED
        BY <1>3, <2>2, <3>2, <4>3 DEF Outgoing, Replied, Known, Open, Serving
    <3>3. QED
      BY <3>1, <3>2
  <2>5. Informed(d)'
    BY <1>3 DEF MessageInv, ClientInv, Informed, Listening
  <2>6. QED
    BY <2>3, <2>4, <2>5 DEF ClientInv
<1>9. QED
  BY <1>6, <1>7, <1>8

(* The client handles a reply. *)
LEMMA ReplyStep ==
  ASSUME MessageInv, NEW c \in Clients, HandleReply(c)
  PROVE  TurnInv' /\ HandledInv' /\ \A d \in Clients : ClientInv(d)'
<1>1. PICK b \in Seq(Replies \X Parts) : b = rbuf[c]
  BY DEF MessageInv, TypeInv, TypeOK
<1>2. PICK q \in Seq(Replies \X Parts) : q = outbox[c]
  BY DEF MessageInv, TypeInv, TypeOK
<1>3. PICK l \in Seq(Replies) : Outgoing(c, l)
  BY DEF MessageInv, ClientInv
<1>4. /\ l # << >> /\ First(b) = l[1]
      /\ Size(Rest(b), q) = Size(b, q) - 2
      /\ Carries(Rest(b), q, Tail(l))
  <2>1. Carries(b, q, l) /\ Complete(b)
    BY <1>1, <1>2, <1>3 DEF Outgoing, HandleReply
  <2> DEFINE P == Replies \X Parts
  <2> HIDE DEF P
  <2>2. PICK u \in Seq(P), v \in Seq(P) : u = b /\ v = q
    BY DEF P
  <2>3. Carries(u, v, l) /\ Complete(u)
    BY <2>1, <2>2
  <2>4. /\ l # << >> /\ First(u) = l[1] /\ Rest(u) \in Seq(P)
        /\ Size(Rest(u), v) = Size(u, v) - 2 /\ Len(Tail(l)) = Len(l) - 1
        /\ Carries(Rest(u), v, Tail(l))
    BY <2>3, FirstTaken, Zenon
  <2>5. QED
    BY <2>2, <2>4
<1>5. PICK t \in Seq(Replies) : t = Tail(l)
  BY <1>4, TailTyped
<1>6. PICK n \in Nat : n = Len(t)
  BY LenProperties
<1>7. /\ Len(l) = n + 1 /\ 1 \in 1 .. Len(l)
      /\ \A i \in 1 .. n : i + 1 \in 1 .. Len(l) /\ t[i] = l[i + 1]
  BY <1>4, <1>5, <1>6, TailTyped
<1>8. PICK x \in Replies : x = l[1]
  BY <1>7, ElementOfSeq
<1>9. /\ x.of \in Messages /\ x.of[1] = c /\ x.of[2] \in Ids(c) /\ x.of = <<c, x.of[2]>>
      /\ Replied(c, l, 1)
  <2>1. Replied(c, l, 1)
    BY <1>3, <1>7 DEF Outgoing
  <2>2. x.of \in Messages /\ x.of[1] = c
    BY <1>8, <2>1, ReplyTyped DEF Replied
  <2>3. QED
    BY <2>1, <2>2, MessageTyped
<1>10. PICK id : id = x.of[2] /\ x.of = <<c, id>>
  BY <1>9
<1>11. pc[c] \in {"waiting", "blocking"} /\ Open(c)
  BY DEF HandleReply, Open
<1>12. x.kind = "done" => id \in waiting[c]
  BY <1>8, <1>9, <1>10, <1>11 DEF Replied
<1>13. /\ rbuf' = [rbuf EXCEPT ![c] = Rest(b)]
       /\ \/ /\ x.kind = "result"
             /\ memory' = [memory EXCEPT ![c] = memory[c] \cup {x}]
             /\ UNCHANGED <<pc, waiting, done>>
          \/ /\ x.kind = "done"
             /\ waiting' = [waiting EXCEPT ![c] = waiting[c] \ {id}]
             /\ done' = [done EXCEPT ![c] = done[c] \cup {id}]
             /\ pc' \in {[pc EXCEPT ![c] = "idle"], [pc EXCEPT ![c] = pc[c]]}
             /\ UNCHANGED memory
          \/ /\ x.kind = "error"
             /\ pc' = [pc EXCEPT ![c] = "failed"]
             /\ UNCHANGED <<waiting, done, memory>>
       /\ UNCHANGED <<server, protocol, handling, outcome, inbox, buf, outbox, nextId>>
  <2>1. First(rbuf[c]) = x
    BY <1>1, <1>4, <1>8
  <2>2. QED
    BY <1>1, <1>10, <1>12, <2>1 DEF HandleReply, Goto, serverVars
<1>14. /\ DOMAIN rbuf = Clients /\ DOMAIN memory = Clients /\ DOMAIN waiting = Clients
       /\ DOMAIN done = Clients /\ DOMAIN pc = Clients
  BY DEF MessageInv, TypeInv, TypeOK
<1>15. /\ rbuf'[c] = Rest(b)
       /\ memory[c] \subseteq memory'[c] /\ (x.kind = "result" => x \in memory'[c])
       /\ waiting'[c] = IF x.kind = "done" THEN waiting[c] \ {id} ELSE waiting[c]
       /\ done'[c] = IF x.kind = "done" THEN done[c] \cup {id} ELSE done[c]
       /\ pc'[c] \in {"waiting", "blocking", "idle", "failed"}
       /\ pc'[c] = "failed" => x.kind = "error"
  BY <1>11, <1>13, <1>14
<1>16. \A d \in Clients : d # c =>
         /\ rbuf'[d] = rbuf[d] /\ memory'[d] = memory[d] /\ waiting'[d] = waiting[d]
         /\ done'[d] = done[d] /\ pc'[d] = pc[d]
  BY <1>13, <1>14
<1>17. (Listening' <=> Listening) /\ (Serving' <=> Serving) /\ \A d \in Clients : Open(d)' => Open(d)
  BY <1>11, <1>13, <1>16 DEF Listening, Serving, Open
<1>18. x.kind = "done" => outcome[<<c, id>>] # Unended
  <2>1. x.kind = "done" => outcome[x.of] >= 0
    BY <1>8, <1>9 DEF Replied
  <2>2. x.kind = "done" => outcome[x.of] # Unended
    BY <2>1 DEF Unended
  <2>3. QED
    BY <1>10, <2>2
<1>19. TurnInv'
  <2>1. \A d \in Clients : pc'[d] = "new" => pc[d] = "new"
    BY <1>15, <1>16
  <2>2. server # "down"
    BY <1>11 DEF MessageInv, TurnInv
  <2>3. QED
    BY <1>13, <1>17, <2>1, <2>2 DEF MessageInv, TurnInv
<1>20. HandledInv'
  <2>1. ASSUME NEW h \in handling, Open(h.msg[1])'
        PROVE  h.msg[2] \in waiting'[h.msg[1]]
    <3>1. h.msg[1] \in Clients /\ h.msg = <<h.msg[1], h.msg[2]>> /\ outcome[h.msg] = Unended
      BY HandledFacts
    <3>2. h.msg[2] \in waiting[h.msg[1]]
      BY <1>13, <1>17, <2>1, <3>1 DEF MessageInv, HandledInv
    <3>3. CASE h.msg[1] # c
      BY <1>16, <3>1, <3>2, <3>3
    <3>4. CASE h.msg[1] = c
      <4>1. x.kind = "done" => h.msg[2] # id
        BY <1>18, <3>1, <3>4
      <4>2. QED
        BY <1>15, <3>2, <3>4, <4>1
    <3>5. QED
      BY <3>3, <3>4
  <2>2. QED
    BY <1>13, <2>1 DEF MessageInv, HandledInv
<1>21. ASSUME NEW d \in Clients PROVE \E m \in Seq(Messages) : Incoming(d, m)'
  <2>1. PICK m \in Seq(Messages) : Incoming(d, m)
    BY DEF MessageInv, ClientInv
  <2>2. ASSUME NEW i \in 1 .. Len(m), Open(d)' PROVE m[i][2] \in waiting'[d]
    <3>1. m[i] \in Messages /\ m[i][1] = d /\ outcome[m[i]] = Unended /\ m[i][2] \in waiting[d]
      BY <1>17, <2>1, <2>2, StreamFacts DEF Incoming
    <3>2. m[i] = <<d, m[i][2]>>
      BY <3>1, MessageTyped
    <3>3. d = c /\ x.kind = "done" => m[i][2] # id
      BY <1>18, <3>1, <3>2
    <3>4. QED
      BY <1>15, <1>16, <3>1, <3>3
  <2>3. Incoming(d, m)'
    BY <1>13, <1>17, <2>1, <2>2 DEF Incoming
  <2>4. QED
    BY <2>3
<1>22. ASSUME NEW j \in 0 .. n, NEW y, Known(c, l, j + 1, y), y.kind = "result"
       PROVE  Known(c, t, j, y)'
  <2>1. CASE y \in memory[c] \/ y = x
    BY <1>15, <1>22, <2>1 DEF Known
  <2>2. CASE y \notin memory[c] /\ y # x
    <3>1. PICK i \in 1 .. (j + 1) : l[i] = y
      BY <1>22, <2>2 DEF Known
    <3>2. i # 1
      BY <1>8, <2>2, <3>1
    <3>3. i - 1 \in 1 .. j /\ i - 1 \in 1 .. n /\ (i - 1) + 1 = i
      BY <3>1, <3>2
    <3>4. t[i - 1] = y
      BY <1>7, <3>1, <3>3
    <3>5. QED
      BY <3>3, <3>4 DEF Known
  <2>3. QED
    BY <2>1, <2>2
<1>23. \A y, k : Result(y, k).kind = "result"
  BY DEF Result
<1>24. ASSUME NEW i \in 1 .. n PROVE Replied(c, t, i)'
  <2>1. i + 1 \in 1 .. Len(l) /\ t[i] = l[i + 1] /\ Replied(c, l, i + 1)
    BY <1>3, <1>7 DEF Outgoing
  <2>2. ASSUME t[i].kind = "done"
        PROVE  /\ \A k \in 1 .. outcome[t[i].of] : Known(c, t, i - 1, Result(t[i].of, k))'
               /\ Open(c)' => t[i].of[2] \in waiting'[c]
    <3>1. i - 1 \in 0 .. n /\ (i - 1) + 1 = (i + 1) - 1
      OBVIOUS
    <3>2. \A k \in 1 .. outcome[t[i].of] : Known(c, l, (i - 1) + 1, Result(t[i].of, k))
      BY <2>1, <2>2, <3>1 DEF Replied
    <3>3. \A k \in 1 .. outcome[t[i].of] : Known(c, t, i - 1, Result(t[i].of, k))'
      BY <1>22, <1>23, <3>1, <3>2
    <3>4. ASSUME Open(c)' PROVE t[i].of[2] \in waiting'[c]
      <4>1. t[i].of[2] \in waiting[c] /\ t[i].of[1] = c
        BY <1>17, <2>1, <2>2, <3>4 DEF Replied
      <4>2. t[i].of \in Messages
        BY <2>1, StreamFacts
      <4>3. ASSUME x.kind = "done", t[i].of[2] = id PROVE FALSE
        <5>1. l[i + 1].of = l[1].of
          <6>1. t[i].of = <<t[i].of[1], t[i].of[2]>>
            BY <4>2, MessageTyped
          <6>2. QED
            BY <1>8, <1>10, <2>1, <4>1, <4>3, <6>1
        <5>2. i + 1 = 1
          BY <1>3, <1>7, <1>8, <2>1, <2>2, <4>3, <5>1 DEF Outgoing
        <5>3. QED
          BY <5>2
      <4>4. QED
        BY <1>15, <4>1, <4>3
    <3>5. QED
      BY <3>3, <3>4
  <2>3. QED
    BY <1>13, <2>1, <2>2 DEF Replied
<1>25. Outgoing(c, t)'
  <2>1. Carries(rbuf[c], outbox[c], t)' /\ (Serving' => Size(rbuf[c], outbox[c])' = 2 * Len(t))
    <3>1. Serving => Size(b, q) = 2 * Len(l)
      BY <1>1, <1>2, <1>3 DEF Outgoing
    <3>2. Serving => Size(Rest(b), q) = 2 * Len(t)
      BY <1>4, <1>6, <1>7, <3>1
    <3>3. rbuf'[c] = Rest(b) /\ outbox'[c] = q
      BY <1>2, <1>13, <1>15
    <3>4. QED
      BY <1>4, <1>5, <1>17, <3>2, <3>3
  <2>2. ASSUME NEW i \in 1 .. n, NEW j \in 1 .. n,
               t[i].kind = "done", t[j].kind = "done", t[i].of = t[j].of
        PROVE  i = j
    <3>1. /\ i + 1 \in 1 .. Len(l) /\ t[i] = l[i + 1]
          /\ j + 1 \in 1 .. Len(l) /\ t[j] = l[j + 1]
      BY <1>7
    <3>2. i + 1 = j + 1
      BY <1>3, <2>2, <3>1 DEF Outgoing
    <3>3. QED
      BY <3>2
  <2>3. ASSUME NEW h \in handling, h.msg[1] = c, NEW k \in 1 .. h.results
        PROVE  Known(c, t, n, Result(h.msg, k))'
    <3>1. Known(c, l, n + 1, Result(h.msg, k))
      BY <1>3, <1>7, <1>11, <2>3 DEF Outgoing
    <3>2. QED
      BY <1>22, <1>23, <3>1
  <2>4. QED
    BY <1>6, <1>13, <1>24, <2>1, <2>2, <2>3 DEF Outgoing
<1>26. ASSUME NEW d \in Clients, d # c PROVE \E m \in Seq(Replies) : Outgoing(d, m)'
  <2>1. PICK m \in Seq(Replies) : Outgoing(d, m)
    BY DEF MessageInv, ClientInv
  <2>2. waiting[d] \subseteq waiting'[d]
    BY <1>16, <1>26
  <2>3. Outgoing(d, m)'
    BY <1>13, <1>16, <1>17, <1>26, <2>1, <2>2, OutgoingSame
  <2>4. QED
    BY <2>3
<1>27. ASSUME NEW d \in Clients PROVE Informed(d)'
  <2>1. Informed(d)
    BY DEF MessageInv, ClientInv
  <2>2. CASE d # c
    BY <1>13, <1>16, <1>17, <2>1, <2>2 DEF Informed
  <2>3. CASE d = c
    <3>1. id \in Ids(c) /\ x.of = <<c, id>>
      BY <1>9, <1>10
    <3>2. x.kind = "done" =>
            /\ outcome[<<c, id>>] >= 0
            /\ \A k \in 1 .. outcome[<<c, id>>] : Result(<<c, id>>, k) \in memory'[c]
      <4>1. SUFFICES ASSUME x.kind = "done"
                     PROVE  /\ outcome[x.of] >= 0
                            /\ \A k \in 1 .. outcome[x.of] : Result(x.of, k) \in memory'[c]
        BY <3>1
      <4>2. outcome[x.of] >= 0 /\ \A k \in 1 .. outcome[x.of] : Known(c, l, 0, Result(x.of, k))
        BY <1>8, <1>9, <4>1 DEF Replied
      <4>3. \A y : Known(c, l, 0, y) => y \in memory[c]
        BY DEF Known
      <4>4. QED
        BY <1>15, <4>2, <4>3
    <3>3. pc'[c] = "failed" => outcome[<<c, id>>] = Failed
      BY <1>8, <1>9, <1>15, <3>1 DEF Replied
    <3>4. \A e \in done'[c] : e \in done[c] \/ (x.kind = "done" /\ e = id)
      BY <1>15
    <3>5. QED
      BY <1>13, <1>15, <2>1, <2>3, <3>1, <3>2, <3>3, <3>4 DEF Informed
  <2>4. QED
    BY <2>2, <2>3
<1>28. QED
  BY <1>19, <1>20, <1>21, <1>25, <1>26, <1>27 DEF ClientInv

LEMMA NextMessage == ~Overlap /\ MessageInv /\ [Next]_vars => MessageInv'
<1> SUFFICES ASSUME ~Overlap, MessageInv, [Next]_vars PROVE MessageInv'
  OBVIOUS
<1>1. TypeInv'
  BY NextType DEF MessageInv
<1>2. TurnInv' /\ HandledInv' /\ \A d \in Clients : ClientInv(d)'
  <2>1. CASE Listen
    BY <2>1, ListenStep
  <2>2. CASE Stop \/ Terminate
    BY <2>2, StopStep
  <2>3. ASSUME NEW h \in handling, ReturnResult(h) \/ Finish(h) \/ Fail(h)
        PROVE  TurnInv' /\ HandledInv' /\ \A d \in Clients : ClientInv(d)'
    <3>1. CASE ReturnResult(h)
      BY <1>1, <3>1, ReturnStep
    <3>2. CASE Finish(h) \/ Fail(h)
      BY <1>1, <3>2, EndStep
    <3>3. QED
      BY <2>3, <3>1, <3>2
  <2>4. ASSUME NEW c \in Clients, Connect(c) \/ Close(c) \/ Commit(c) \/ Block(c)
        PROVE  TurnInv' /\ HandledInv' /\ \A d \in Clients : ClientInv(d)'
    <3>1. CASE Connect(c)
      BY <3>1, ConnectStep
    <3>2. CASE Close(c) \/ Block(c)
      BY <3>2, CloseStep
    <3>3. CASE Commit(c)
      BY <3>3, CommitStep
    <3>4. QED
      BY <2>4, <3>1, <3>2, <3>3
  <2>5. ASSUME NEW c \in Clients, Arrive(c)
        PROVE  TurnInv' /\ HandledInv' /\ \A d \in Clients : ClientInv(d)'
    <3>1. CASE \E k \in 1 .. Len(inbox[c]) : Receive(c, k)
      BY <3>1, ReceiveStep
    <3>2. CASE \E k \in 1 .. Len(outbox[c]) : ReadMoreData(c, k)
      BY <3>2, ReadStep
    <3>3. CASE HandleReply(c)
      BY <3>3, ReplyStep
    <3>4. QED
      BY <2>5, <3>1, <3>2, <3>3 DEF Arrive
  <2>6. CASE UNCHANGED vars
    <3>1. UNCHANGED <<server, protocol, handling, outcome, inbox, buf, outbox, rbuf, pc, nextId,
                      waiting, done, memory>>
      BY <2>6 DEF vars, serverVars, streamVars, clientVars
    <3>2. TurnInv' /\ HandledInv'
      BY <3>1 DEF MessageInv, TurnInv, HandledInv, Open, Listening
    <3>3. ASSUME NEW d \in Clients PROVE ClientInv(d)'
      <4>1. PICK l \in Seq(Messages) : Incoming(d, l)
        BY DEF MessageInv, ClientInv
      <4>2. PICK m \in Seq(Replies) : Outgoing(d, m)
        BY DEF MessageInv, ClientInv
      <4>3. Incoming(d, l)'
        BY <3>1, <4>1 DEF Incoming, Open, Serving
      <4>4. Outgoing(d, m)'
        BY <3>1, <4>2 DEF Outgoing, Replied, Known, Open, Serving
      <4>5. Informed(d)'
        BY <3>1 DEF MessageInv, ClientInv, Informed, Listening
      <4>6. QED
        BY <4>3, <4>4, <4>5 DEF ClientInv
    <3>4. QED
      BY <3>2, <3>3
  <2>7. QED
    BY <2>1, <2>2, <2>3, <2>4, <2>5, <2>6 DEF Next
<1>3. QED
  BY <1>1, <1>2 DEF MessageInv

LEMMA InitMessage == Init => MessageInv
<1> SUFFICES ASSUME Init PROVE MessageInv
  OBVIOUS
<1>1. TypeInv
  BY InitType
<1>2. /\ server = "down" /\ handling = {}
      /\ \A m \in Messages : outcome[m] = Unended
      /\ \A c \in Clients : /\ inbox[c] = << >> /\ buf[c] = << >> /\ outbox[c] = << >>
                            /\ rbuf[c] = << >> /\ pc[c] = "new" /\ nextId[c] = 0 /\ done[c] = {}
  BY DEF Init
<1>3. TurnInv
  BY <1>2 DEF TurnInv, Open
<1>4. HandledInv
  BY <1>2 DEF HandledInv
<1>5. ASSUME NEW c \in Clients PROVE ClientInv(c)
  <2>1. \A X : << >> \in Seq(X) /\ Len(<< >>) = 0
    OBVIOUS
  <2>2. Size(<< >>, << >>) = 0 /\ Carries(<< >>, << >>, << >>)
    BY <2>1 DEF Size, Carries
  <2>3. Incoming(c, << >>)
    BY <1>2, <2>1, <2>2 DEF Incoming
  <2>4. Outgoing(c, << >>)
    BY <1>2, <2>1, <2>2 DEF Outgoing
  <2>5. Informed(c)
    BY <1>2 DEF Informed
  <2>6. QED
    BY <2>1, <2>3, <2>4, <2>5 DEF ClientInv
<1>6. QED
  BY <1>1, <1>3, <1>4, <1>5 DEF MessageInv

LEMMA AlwaysMessage == ASSUME ~Overlap PROVE Spec => []MessageInv
<1>1. MessageInv /\ [Next]_vars => MessageInv'
  BY NextMessage
<1>2. QED
  BY <1>1, InitMessage, PTL DEF Spec

(* What the SDK takes for done is done: whatever the chunks in which        *)
(* messages and replies came, when _done_msg_ids has the number of a        *)
(* message, the server has handled that message to its end, and every       *)
(* register and array it returned is in shared memory.                      *)
THEOREM DoneIsDone == ASSUME ~Overlap PROVE Spec => []DoneMeansDone
<1>1. MessageInv => DoneMeansDone
  <2>1. SUFFICES ASSUME MessageInv, NEW c \in Clients, NEW id \in done[c]
                 PROVE  LET n == outcome[<<c, id>>]
                        IN  n >= 0 /\ {Result(<<c, id>>, k) : k \in 1 .. n} \subseteq memory[c]
    BY DEF DoneMeansDone
  <2>2. /\ outcome[<<c, id>>] >= 0
        /\ \A k \in 1 .. outcome[<<c, id>>] : Result(<<c, id>>, k) \in memory[c]
    BY <2>1 DEF MessageInv, ClientInv, Informed
  <2>3. QED
    BY <2>2
<1>2. QED
  BY <1>1, AlwaysMessage, PTL

(* An application does not fail without a reason: _handle_reply raises only *)
(* because the handling of one of its own messages failed, or the server    *)
(* was gone.  Above all, remove never meets a number that is not waited     *)
(* for.                                                                     *)
THEOREM FailuresHaveReasons == ASSUME ~Overlap PROVE Spec => []FailsForAReason
<1>1. MessageInv => FailsForAReason
  BY DEF MessageInv, ClientInv, Informed, FailsForAReason
<1>2. QED
  BY <1>1, AlwaysMessage, PTL
=============================================================================
