-------------------------- MODULE EprDelivery_proofs --------------------------
(***************************************************************************)
(* Theorems about EprDelivery, for any nodes, sockets and subroutines.     *)
(***************************************************************************)
EXTENDS EprDelivery, FreeNumbers_proofs, FunctionTheorems, SequenceTheorems

-----------------------------------------------------------------------------
(* The factory's lock.  An acquisition that does not wait leaves Nobody in *)
(* the queue and may send the first in the queue inside before the holder  *)
(* has left; the next releases pass through what Nobody stands for.  So    *)
(* there are as many sessions inside as the lock is taken times: once, and *)
(* once more for each Nobody in the queue.                                 *)

Lock == [taken : BOOLEAN, queue : Seq(Sessions \cup {Nobody})]

Nobodies(l) == {i \in DOMAIN l.queue : l.queue[i] = Nobody}

InsideAt(n) == {c \in Sessions : Home[c] = n /\ Inside(c)}
WaitingAt(n) == {c \in Sessions : Home[c] = n /\ pc[c] = "locking"}

\* l is taken as often as the sessions in "inside" say, and "waiting" wait
\* in its queue, each of them once
Governs(l, inside, waiting) ==
  /\ l \in Lock
  /\ IsFiniteSet(inside)
  /\ Cardinality(inside) = (IF l.taken THEN 1 ELSE 0) + Cardinality(Nobodies(l))
  /\ ~l.taken => l.queue = << >>
  /\ \A i \in DOMAIN l.queue : l.queue[i] # Nobody => l.queue[i] \in waiting
  /\ \A i, j \in DOMAIN l.queue :
       l.queue[i] # Nobody /\ l.queue[i] = l.queue[j] => i = j
  /\ \A c \in waiting : \E i \in DOMAIN l.queue : l.queue[i] = c
  /\ inside \cap waiting = {}
  /\ inside \cup waiting \subseteq Sessions

LockInv ==
  /\ lock \in [Nodes -> Lock]
  /\ pc \in [Sessions -> Stages]
  /\ \A n \in Nodes : Governs(lock[n], InsideAt(n), WaitingAt(n))

LEMMA NobodiesFinite ==
  ASSUME NEW l \in Lock
  PROVE  IsFiniteSet(Nobodies(l)) /\ Cardinality(Nobodies(l)) \in Nat
<1>1. l.queue \in Seq(Sessions \cup {Nobody})
  BY DEF Lock
<1>2. Len(l.queue) \in Nat /\ DOMAIN l.queue = 1 .. Len(l.queue)
  BY <1>1, LenProperties
<1>3. IsFiniteSet(1 .. Len(l.queue))
  BY <1>2, FS_Interval
<1>4. Nobodies(l) \in SUBSET (1 .. Len(l.queue))
  BY <1>2 DEF Nobodies
<1>5. QED
  BY <1>3, <1>4, FS_Subset, FS_CardinalityType

LEMMA NobodiesAppend ==
  ASSUME NEW l \in Lock, NEW m \in Lock, NEW s \in Sessions \cup {Nobody},
         m.queue = Append(l.queue, s)
  PROVE  Cardinality(Nobodies(m)) =
           Cardinality(Nobodies(l)) + (IF s = Nobody THEN 1 ELSE 0)
<1>1. l.queue \in Seq(Sessions \cup {Nobody})
  BY DEF Lock
<1> DEFINE q == l.queue
           n == Len(q)
<1>2. n \in Nat /\ DOMAIN q = 1 .. n
  BY <1>1, LenProperties
<1>3. /\ DOMAIN m.queue = 1 .. (n + 1)
      /\ m.queue[n + 1] = s
      /\ \A i \in 1 .. n : m.queue[i] = q[i]
  BY <1>1, <1>2, AppendProperties, LenProperties
<1>4. CASE s = Nobody
  <2>1. Nobodies(m) = Nobodies(l) \cup {n + 1}
    BY <1>2, <1>3, <1>4 DEF Nobodies
  <2>2. n + 1 \notin Nobodies(l)
    BY <1>2 DEF Nobodies
  <2>3. QED
    BY <1>4, <2>1, <2>2, NobodiesFinite, FS_AddElement
<1>5. CASE s # Nobody
  <2>1. Nobodies(m) = Nobodies(l)
    BY <1>2, <1>3, <1>5 DEF Nobodies
  <2>2. QED
    BY <1>5, <2>1, NobodiesFinite
<1>6. QED
  BY <1>4, <1>5

LEMMA NobodiesTail ==
  ASSUME NEW l \in Lock, NEW m \in Lock, l.queue # << >>,
         m.queue = Tail(l.queue)
  PROVE  Cardinality(Nobodies(m)) =
           Cardinality(Nobodies(l)) - (IF Head(l.queue) = Nobody THEN 1 ELSE 0)
<1>1. l.queue \in Seq(Sessions \cup {Nobody})
  BY DEF Lock
<1> DEFINE q == l.queue
           n == Len(q)
           shift == [i \in Nobodies(m) |-> i + 1]
           rest == Nobodies(l) \ {1}
<1>2. n \in Nat \ {0} /\ DOMAIN q = 1 .. n /\ Head(q) = q[1]
  BY <1>1, LenProperties, EmptySeq
<1>3. /\ DOMAIN m.queue = 1 .. (n - 1)
      /\ \A i \in 1 .. (n - 1) : m.queue[i] = q[i + 1]
  BY <1>1, <1>2, HeadTailProperties, LenProperties
<1>4. shift \in Bijection(Nobodies(m), rest)
  <2>1. shift \in [Nobodies(m) -> rest]
    BY <1>2, <1>3 DEF Nobodies
  <2>2. \A i, j \in Nobodies(m) : shift[i] = shift[j] => i = j
    BY <1>2, <1>3 DEF Nobodies
  <2>3. ASSUME NEW k \in rest PROVE \E i \in Nobodies(m) : shift[i] = k
    <3>1. k - 1 \in Nobodies(m)
      BY <1>2, <1>3 DEF Nobodies
    <3>2. shift[k - 1] = k
      BY <1>2, <3>1 DEF Nobodies
    <3>3. QED
      BY <3>1, <3>2
  <2>4. QED
    <3> HIDE DEF shift, rest
    <3>1. QED
      BY <2>1, <2>2, <2>3, Fun_IsBij
<1>5. Cardinality(Nobodies(m)) = Cardinality(rest)
  BY <1>4, NobodiesFinite, FS_Bijection DEF ExistsBijection
<1>6. CASE Head(q) = Nobody
  <2>1. 1 \in Nobodies(l)
    BY <1>2, <1>6 DEF Nobodies
  <2>2. QED
    BY <1>5, <1>6, <2>1, NobodiesFinite, FS_RemoveElement
<1>7. CASE Head(q) # Nobody
  <2>1. rest = Nobodies(l)
    BY <1>2, <1>7 DEF Nobodies
  <2>2. Cardinality(Nobodies(m)) = Cardinality(Nobodies(l))
    BY <1>5, <2>1
  <2>3. QED
    BY <1>7, <2>2, NobodiesFinite
<1>8. QED
  BY <1>6, <1>7

LEMMA AcquireGoverns ==
  ASSUME NEW l, NEW inside, NEW waiting, NEW c \in Sessions,
         Governs(l, inside, waiting), c \notin inside \cup waiting
  PROVE  IF l.taken THEN Governs(Acquired(l, c), inside, waiting \cup {c})
                    ELSE Governs(Acquired(l, c), inside \cup {c}, waiting)
<1> DEFINE m == Acquired(l, c)
<1>1. l \in Lock /\ l.queue \in Seq(Sessions \cup {Nobody})
  BY DEF Governs, Lock
<1>2. c # Nobody
  BY EprAssumption
<1>3. CASE l.taken
  <2>1. m \in Lock /\ m.queue = Append(l.queue, c) /\ m.taken = l.taken
    BY <1>1, <1>3, AppendProperties DEF Acquired, Lock
  <2>2. Cardinality(Nobodies(m)) = Cardinality(Nobodies(l))
    BY <1>1, <1>2, <2>1, NobodiesAppend, NobodiesFinite
  <2>3. /\ Len(l.queue) \in Nat
        /\ DOMAIN l.queue = 1 .. Len(l.queue)
        /\ DOMAIN m.queue = 1 .. (Len(l.queue) + 1)
        /\ m.queue[Len(l.queue) + 1] = c
        /\ \A i \in 1 .. Len(l.queue) : m.queue[i] = l.queue[i]
    BY <1>1, <2>1, AppendProperties, LenProperties
  <2>4. \A i \in DOMAIN l.queue : l.queue[i] # c
    BY <1>2 DEF Governs
  <2>5. /\ \A i \in DOMAIN m.queue :
             m.queue[i] # Nobody => m.queue[i] \in waiting \cup {c}
        /\ \A i, j \in DOMAIN m.queue :
             m.queue[i] # Nobody /\ m.queue[i] = m.queue[j] => i = j
    <3> HIDE DEF m
    <3>1. \A i \in DOMAIN m.queue :
            \/ i \in DOMAIN l.queue /\ m.queue[i] = l.queue[i]
            \/ i = Len(l.queue) + 1 /\ m.queue[i] = c
      BY <2>3
    <3>2. QED
      BY <2>4, <3>1 DEF Governs
  <2>6. \A s \in waiting \cup {c} : \E i \in DOMAIN m.queue : m.queue[i] = s
    <3>1. ASSUME NEW s \in waiting PROVE \E i \in DOMAIN m.queue : m.queue[i] = s
      <4>1. PICK i \in DOMAIN l.queue : l.queue[i] = s
        BY DEF Governs
      <4>2. QED
        BY <2>3, <4>1
    <3>2. \E i \in DOMAIN m.queue : m.queue[i] = c
      BY <2>3
    <3>3. QED
      BY <3>1, <3>2
  <2>7. Governs(m, inside, waiting \cup {c})
    <3> HIDE DEF m
    <3>1. QED
      BY <1>3, <2>1, <2>2, <2>5, <2>6 DEF Governs
  <2>8. QED
    BY <1>3, <2>7
<1>4. CASE ~l.taken
  <2>1. m \in Lock /\ m.queue = l.queue /\ m.taken /\ l.queue = << >>
    BY <1>1, <1>4 DEF Acquired, Lock, Governs
  <2>2. Nobodies(m) = Nobodies(l) /\ Nobodies(l) = {}
    BY <2>1 DEF Nobodies
  <2>3. Cardinality(inside) = 0
    BY <1>4, <2>2, FS_EmptySet DEF Governs
  <2>4. IsFiniteSet(inside \cup {c}) /\ Cardinality(inside \cup {c}) = 1
    BY <2>3, FS_AddElement DEF Governs
  <2>5. waiting = {}
    BY <2>1 DEF Governs
  <2>6. Governs(m, inside \cup {c}, waiting)
    <3> HIDE DEF m
    <3>1. QED
      BY <1>4, <2>1, <2>2, <2>4, <2>5, FS_EmptySet DEF Governs
  <2>7. QED
    BY <1>4, <2>6
<1>5. QED
  BY <1>3, <1>4

LEMMA ReleaseGoverns ==
  ASSUME NEW l, NEW inside, NEW waiting, NEW c \in inside,
         Governs(l, inside, waiting)
  PROVE  Governs(Released(l), (inside \ {c}) \cup Woken(l), waiting \ Woken(l))
<1> DEFINE m == Released(l)
           left == inside \ {c}
<1>1. l \in Lock /\ l.queue \in Seq(Sessions \cup {Nobody})
  BY DEF Governs, Lock
<1>2. /\ IsFiniteSet(inside)
      /\ Cardinality(inside) \in Nat
      /\ IsFiniteSet(left)
      /\ Cardinality(left) = Cardinality(inside) - 1
      /\ Cardinality(Nobodies(l)) \in Nat
  BY <1>1, NobodiesFinite, FS_RemoveElement, FS_CardinalityType DEF Governs
<1>3. CASE l.queue = << >>
  <2>1. m \in Lock /\ m.queue = l.queue /\ ~m.taken /\ Woken(l) = {}
    BY <1>1, <1>3 DEF Released, Lock, Woken
  <2>2. Nobodies(m) = Nobodies(l) /\ Nobodies(l) = {}
    BY <1>3, <2>1 DEF Nobodies
  <2>3. Cardinality(Nobodies(l)) = 0
    BY <2>2, FS_EmptySet
  <2>4. inside # {} /\ Cardinality(inside) # 0
    BY <1>2, FS_EmptySet
  <2>5. Cardinality(left) = 0
    BY <1>2, <2>3, <2>4 DEF Governs
  <2>6. waiting = {}
    BY <1>3 DEF Governs
  <2>7. QED
    <3> HIDE DEF m
    <3>1. Governs(m, left \cup Woken(l), waiting \ Woken(l))
      BY <1>2, <1>3, <2>1, <2>2, <2>3, <2>5, <2>6 DEF Governs
    <3>2. QED
      BY <3>1 DEF m
<1>4. CASE l.queue # << >>
  <2> DEFINE s == Head(l.queue)
  <2>1. m \in Lock /\ m.queue = Tail(l.queue) /\ m.taken = l.taken
    BY <1>1, <1>4, HeadTailProperties DEF Released, Lock
  <2>2. l.taken
    BY <1>4 DEF Governs
  <2>3. /\ Len(l.queue) \in Nat \ {0}
        /\ DOMAIN l.queue = 1 .. Len(l.queue)
        /\ DOMAIN m.queue = 1 .. (Len(l.queue) - 1)
        /\ s = l.queue[1]
        /\ \A i \in DOMAIN m.queue : i + 1 \in DOMAIN l.queue /\ m.queue[i] = l.queue[i + 1]
    BY <1>1, <1>4, <2>1, HeadTailProperties, LenProperties, EmptySeq
  <2>4. Cardinality(Nobodies(m)) =
           Cardinality(Nobodies(l)) - (IF s = Nobody THEN 1 ELSE 0)
    BY <1>1, <1>4, <2>1, NobodiesTail
  <2>5. Woken(l) = IF s = Nobody THEN {} ELSE {s}
    BY <1>4 DEF Woken
  <2>6. s # Nobody => s \in waiting /\ s \notin inside /\ s \in Sessions
    BY <2>3 DEF Governs
  <2>7. /\ IsFiniteSet(left \cup Woken(l))
        /\ Cardinality(left \cup Woken(l)) =
             Cardinality(left) + (IF s = Nobody THEN 0 ELSE 1)
    <3>1. CASE s = Nobody
      <4>1. left \cup Woken(l) = left /\ Cardinality(left) \in Nat
        BY <1>2, <2>5, <3>1, FS_CardinalityType
      <4>2. QED
        <5> HIDE DEF left
        <5>1. Cardinality(left \cup Woken(l)) = Cardinality(left)
          BY <4>1
        <5>2. IsFiniteSet(left \cup Woken(l))
          BY <1>2, <4>1
        <5>3. QED BY <3>1, <4>1, <5>1, <5>2
    <3>2. CASE s # Nobody
      <4>1. left \cup Woken(l) = left \cup {s} /\ s \notin left
        BY <2>5, <2>6, <3>2
      <4>2. QED
        <5> HIDE DEF left, s
        <5>1. QED BY <1>2, <3>2, <4>1, FS_AddElement
    <3>3. QED
      BY <3>1, <3>2
  <2>8. Cardinality(left \cup Woken(l)) = 1 + Cardinality(Nobodies(m))
    <3> HIDE DEF left, m, s
    <3>1. CASE s = Nobody
      BY <1>2, <2>2, <2>4, <2>7, <3>1 DEF Governs
    <3>2. CASE s # Nobody
      BY <1>2, <2>2, <2>4, <2>7, <3>2 DEF Governs
    <3>3. QED
      BY <3>1, <3>2
  <2>9. /\ \A i \in DOMAIN m.queue :
             m.queue[i] # Nobody => m.queue[i] \in waiting \ Woken(l)
        /\ \A i, j \in DOMAIN m.queue :
             m.queue[i] # Nobody /\ m.queue[i] = m.queue[j] => i = j
    <3> HIDE DEF m, s
    <3>1. ASSUME NEW i \in DOMAIN m.queue, m.queue[i] # Nobody
          PROVE  m.queue[i] \in waiting \ Woken(l)
      <4>1. /\ i + 1 \in DOMAIN l.queue /\ 1 \in DOMAIN l.queue /\ i + 1 # 1
            /\ m.queue[i] = l.queue[i + 1]
        BY <2>3
      <4>2. m.queue[i] # s
        BY <2>3, <3>1, <4>1 DEF Governs
      <4>3. QED
        BY <2>5, <3>1, <4>1, <4>2 DEF Governs
    <3>2. ASSUME NEW i \in DOMAIN m.queue, NEW j \in DOMAIN m.queue,
                 m.queue[i] # Nobody, m.queue[i] = m.queue[j]
          PROVE  i = j
      <4>1. /\ i + 1 \in DOMAIN l.queue /\ j + 1 \in DOMAIN l.queue
            /\ l.queue[i + 1] # Nobody /\ l.queue[i + 1] = l.queue[j + 1]
        BY <2>3, <3>2
      <4>2. i + 1 = j + 1
        BY <4>1 DEF Governs
      <4>3. QED
        BY <2>3, <4>2
    <3>3. QED
      BY <3>1, <3>2
  <2>10. ASSUME NEW d \in waiting \ Woken(l)
         PROVE  \E i \in DOMAIN m.queue : m.queue[i] = d
    <3> HIDE DEF m, s
    <3>1. PICK i \in DOMAIN l.queue : l.queue[i] = d
      BY DEF Governs
    <3>2. d # Nobody
      BY EprAssumption DEF Governs
    <3>3. i # 1
      BY <2>3, <2>5, <3>1, <3>2
    <3>4. i - 1 \in DOMAIN m.queue /\ m.queue[i - 1] = l.queue[i]
      BY <2>3, <3>3
    <3>5. QED
      BY <3>1, <3>4
  <2>11. /\ (left \cup Woken(l)) \cap (waiting \ Woken(l)) = {}
         /\ (left \cup Woken(l)) \cup (waiting \ Woken(l)) \subseteq Sessions
    BY <2>5, <2>6 DEF Governs
  <2>12. Governs(m, left \cup Woken(l), waiting \ Woken(l))
    <3> HIDE DEF m, s, left
    <3>1. QED
      BY <2>1, <2>2, <2>7, <2>8, <2>9, <2>10, <2>11 DEF Governs
  <2>13. QED
    BY <2>12
<1>5. QED
  BY <1>3, <1>4

(* An acquisition that does not wait, and the release that follows. *)
LEMMA ReceptionGoverns ==
  ASSUME NEW l, NEW inside, NEW waiting, Governs(l, inside, waiting)
  PROVE  LET asked == Acquired(l, Nobody)
         IN  Governs(Released(asked), inside \cup Woken(asked),
                     waiting \ Woken(asked))
<1> DEFINE asked == Acquired(l, Nobody)
           m == Released(asked)
           s == Head(l.queue)
           woken == Woken(asked)
<1>1. l \in Lock /\ l.queue \in Seq(Sessions \cup {Nobody})
  BY DEF Governs, Lock
<1>2. CASE ~l.taken \/ l.queue = << >>
  <2>1. l.queue = << >>
    BY <1>2 DEF Governs
  <2>2. m = l /\ woken = {}
    <3>1. CASE ~l.taken
      BY <1>1, <2>1, <3>1 DEF Acquired, Released, Woken, Lock
    <3>2. CASE l.taken
      <4>1. asked = [l EXCEPT !.queue = <<Nobody>>]
        BY <2>1, <3>2 DEF Acquired
      <4>2. Head(<<Nobody>>) = Nobody /\ Tail(<<Nobody>>) = << >> /\ <<Nobody>> # << >>
        OBVIOUS
      <4>3. QED
        BY <1>1, <2>1, <3>2, <4>1, <4>2 DEF Released, Woken, Lock
    <3>3. QED
      BY <3>1, <3>2
  <2>3. Governs(m, inside \cup woken, waiting \ woken)
    <3> HIDE DEF m, woken
    <3>1. inside \cup woken = inside /\ waiting \ woken = waiting
      BY <2>2
    <3>2. QED
      BY <2>2, <3>1
  <2>4. QED
    BY <2>3
<1>3. CASE l.taken /\ l.queue # << >>
  <2> DEFINE rest == [l EXCEPT !.queue = Tail(l.queue)]
  <2>1. asked = [l EXCEPT !.queue = Append(l.queue, Nobody)]
    BY <1>3 DEF Acquired
  <2>2. /\ Append(l.queue, Nobody) # << >>
        /\ Head(Append(l.queue, Nobody)) = s
        /\ Tail(Append(l.queue, Nobody)) = Append(Tail(l.queue), Nobody)
    BY <1>1, <1>3, HeadTailAppend, AppendProperties
  <2>3. /\ Tail(l.queue) \in Seq(Sessions \cup {Nobody})
        /\ Append(Tail(l.queue), Nobody) \in Seq(Sessions \cup {Nobody})
    BY <1>1, <1>3, HeadTailProperties, AppendProperties
  <2>4. m \in Lock /\ m.queue = Append(Tail(l.queue), Nobody) /\ m.taken
    BY <1>1, <1>3, <2>1, <2>2, <2>3 DEF Released, Lock
  <2>5. woken = IF s = Nobody THEN {} ELSE {s}
    BY <1>1, <2>1, <2>2 DEF Woken, Lock
  <2>6. rest \in Lock /\ rest.queue = Tail(l.queue)
    BY <1>1, <2>3 DEF Lock
  <2>7. /\ Cardinality(Nobodies(m)) = Cardinality(Nobodies(rest)) + 1
        /\ Cardinality(Nobodies(rest)) =
             Cardinality(Nobodies(l)) - (IF s = Nobody THEN 1 ELSE 0)
        /\ Cardinality(Nobodies(l)) \in Nat
    <3> HIDE DEF m, rest
    <3>1. QED
      BY <1>1, <1>3, <2>4, <2>6, NobodiesTail, NobodiesAppend, NobodiesFinite
  <2>8. /\ Len(l.queue) \in Nat \ {0}
        /\ DOMAIN l.queue = 1 .. Len(l.queue)
        /\ DOMAIN m.queue = 1 .. Len(l.queue)
        /\ s = l.queue[1]
        /\ m.queue[Len(l.queue)] = Nobody
        /\ \A i \in 1 .. Len(l.queue) - 1 : m.queue[i] = l.queue[i + 1]
    <3>1. /\ Len(l.queue) \in Nat \ {0}
          /\ DOMAIN l.queue = 1 .. Len(l.queue)
          /\ s = l.queue[1]
      BY <1>1, <1>3, LenProperties, EmptySeq
    <3>2. /\ Len(Tail(l.queue)) = Len(l.queue) - 1
          /\ \A i \in 1 .. Len(l.queue) - 1 : Tail(l.queue)[i] = l.queue[i + 1]
      BY <1>1, <1>3, HeadTailProperties
    <3>3. /\ Len(m.queue) = Len(l.queue)
          /\ m.queue[Len(l.queue)] = Nobody
          /\ \A i \in 1 .. Len(l.queue) - 1 : m.queue[i] = Tail(l.queue)[i]
      <4> HIDE DEF m
      <4>1. QED
        BY <2>3, <2>4, <3>1, <3>2, AppendProperties
    <3>4. DOMAIN m.queue = 1 .. Len(m.queue)
      <4> HIDE DEF m
      <4>1. QED
        BY <2>3, <2>4, LenProperties
    <3>5. QED
      <4> HIDE DEF m
      <4>1. QED
        BY <3>1, <3>2, <3>3, <3>4
  <2> HIDE DEF m, woken, asked, rest, s
  <2>9. s # Nobody => s \in waiting /\ s \notin inside /\ s \in Sessions
    BY <2>8 DEF Governs
  <2>10. /\ IsFiniteSet(inside \cup woken)
         /\ Cardinality(inside \cup woken) = 1 + Cardinality(Nobodies(m))
    <3>1. CASE s = Nobody
      <4>1. inside \cup woken = inside
        BY <2>5, <3>1
      <4>2. Cardinality(inside) = 1 + Cardinality(Nobodies(m))
        BY <1>3, <2>7, <3>1 DEF Governs
      <4>3. QED
        BY <4>1, <4>2 DEF Governs
    <3>2. CASE s # Nobody
      <4>1. inside \cup woken = inside \cup {s} /\ s \notin inside
        BY <2>5, <2>9, <3>2
      <4>2. /\ IsFiniteSet(inside \cup {s})
            /\ Cardinality(inside \cup {s}) = Cardinality(inside) + 1
        BY <4>1, FS_AddElement DEF Governs
      <4>3. Cardinality(inside) + 1 = 1 + Cardinality(Nobodies(m))
        BY <1>3, <2>7, <3>2 DEF Governs
      <4>4. QED
        BY <4>1, <4>2, <4>3
    <3>3. QED
      BY <3>1, <3>2
  <2>11. /\ \A i \in DOMAIN m.queue :
              m.queue[i] # Nobody => m.queue[i] \in waiting \ woken
         /\ \A i, j \in DOMAIN m.queue :
              m.queue[i] # Nobody /\ m.queue[i] = m.queue[j] => i = j
    <3>1. ASSUME NEW i \in DOMAIN m.queue, m.queue[i] # Nobody
          PROVE  /\ i + 1 \in DOMAIN l.queue
                 /\ m.queue[i] = l.queue[i + 1]
                 /\ i \in Nat
                 /\ m.queue[i] \in waiting \ woken
      <4>1. /\ i + 1 \in DOMAIN l.queue /\ 1 \in DOMAIN l.queue /\ i + 1 # 1
            /\ m.queue[i] = l.queue[i + 1] /\ i \in Nat
        BY <2>8, <3>1
      <4>2. m.queue[i] # s
        BY <2>8, <3>1, <4>1 DEF Governs
      <4>3. QED
        BY <2>5, <3>1, <4>1, <4>2 DEF Governs
    <3>2. ASSUME NEW i \in DOMAIN m.queue, NEW j \in DOMAIN m.queue,
                 m.queue[i] # Nobody, m.queue[i] = m.queue[j]
          PROVE  i = j
      <4>1. /\ i + 1 \in DOMAIN l.queue /\ j + 1 \in DOMAIN l.queue
            /\ l.queue[i + 1] # Nobody /\ l.queue[i + 1] = l.queue[j + 1]
            /\ i \in Nat /\ j \in Nat
        BY <3>1, <3>2
      <4>2. i + 1 = j + 1
        BY <4>1 DEF Governs
      <4>3. QED
        BY <4>1, <4>2
    <3>3. QED
      BY <3>1, <3>2
  <2>12. ASSUME NEW d \in waiting \ woken
         PROVE  \E i \in DOMAIN m.queue : m.queue[i] = d
    <3>1. PICK i \in DOMAIN l.queue : l.queue[i] = d
      BY DEF Governs
    <3>2. d # Nobody
      BY EprAssumption DEF Governs
    <3>3. i # 1
      BY <2>5, <2>8, <3>1, <3>2
    <3>4. i - 1 \in DOMAIN m.queue /\ m.queue[i - 1] = l.queue[i]
      BY <2>8, <3>3
    <3>5. QED
      BY <3>1, <3>4
  <2>13. /\ (inside \cup woken) \cap (waiting \ woken) = {}
         /\ (inside \cup woken) \cup (waiting \ woken) \subseteq Sessions
    BY <2>5, <2>9 DEF Governs
  <2>14. Governs(m, inside \cup woken, waiting \ woken)
    BY <2>4, <2>10, <2>11, <2>12, <2>13 DEF Governs
  <2>15. QED
    BY <2>14 DEF m, woken, asked
<1>4. QED
  BY <1>2, <1>3

(* Those that are woken were waiting. *)
LEMMA WokenWaits ==
  ASSUME NEW l, NEW inside, NEW waiting, Governs(l, inside, waiting)
  PROVE  /\ Woken(l) \subseteq waiting
         /\ Woken(Acquired(l, Nobody)) \subseteq waiting
<1>1. l \in Lock /\ l.queue \in Seq(Sessions \cup {Nobody})
  BY DEF Governs, Lock
<1>2. ASSUME l.queue # << >>, Head(l.queue) # Nobody
      PROVE  Head(l.queue) \in waiting
  <2>1. 1 \in DOMAIN l.queue /\ Head(l.queue) = l.queue[1]
    BY <1>1, <1>2, LenProperties, EmptySeq
  <2>2. QED
    BY <1>2, <2>1 DEF Governs
<1>3. Woken(l) \subseteq waiting
  BY <1>2 DEF Woken
<1>4. Woken(Acquired(l, Nobody)) \subseteq waiting
  <2>1. CASE l.taken
    <3>1. Acquired(l, Nobody).queue = Append(l.queue, Nobody)
      BY <1>1, <2>1 DEF Acquired, Lock
    <3>2. Head(Append(l.queue, Nobody)) = IF l.queue = << >> THEN Nobody ELSE Head(l.queue)
      BY <1>1, HeadTailAppend
    <3>3. QED
      BY <1>2, <3>1, <3>2 DEF Woken
  <2>2. CASE ~l.taken
    <3>1. Acquired(l, Nobody).queue = l.queue
      BY <1>1, <2>2 DEF Acquired, Lock
    <3>2. QED
      BY <1>2, <3>1 DEF Woken
  <2>3. QED
    BY <2>1, <2>2
<1>5. QED
  BY <1>3, <1>4

(* A step of session c that leaves the other nodes alone and governs its own. *)
LEMMA LockStep ==
  ASSUME LockInv, NEW c \in Sessions,
         pc' \in [Sessions -> Stages],
         lock' \in [Nodes -> Lock],
         \A m \in Nodes : m # Home[c] => lock'[m] = lock[m],
         \A s \in Sessions : Home[s] # Home[c] => pc'[s] = pc[s],
         Governs(lock'[Home[c]], InsideAt(Home[c])', WaitingAt(Home[c])')
  PROVE  LockInv'
<1>1. ASSUME NEW m \in Nodes
      PROVE  Governs(lock'[m], InsideAt(m)', WaitingAt(m)')
  <2>1. CASE m = Home[c]
    BY <2>1
  <2>2. CASE m # Home[c]
    <3>1. InsideAt(m)' = InsideAt(m) /\ WaitingAt(m)' = WaitingAt(m)
      BY <2>2 DEF InsideAt, WaitingAt, Inside
    <3>2. QED
      BY <2>2, <3>1 DEF LockInv
  <2>3. QED
    BY <2>1, <2>2
<1>2. QED
  BY <1>1 DEF LockInv

(* A step of c outside the lock, or inside it without releasing it. *)
LEMMA LockUntouched ==
  ASSUME LockInv, NEW c \in Sessions, NEW stage \in Stages,
         Goto(c, stage), lock' = lock,
         pc[c] # "locking", stage # "locking",
         Inside(c) <=> stage \in {"making", "made", "refused"}
  PROVE  LockInv'
<1>1. /\ pc' \in [Sessions -> Stages]
      /\ pc'[c] = stage
      /\ \A s \in Sessions : s # c => pc'[s] = pc[s]
  BY DEF Goto, LockInv
<1>2. InsideAt(Home[c])' = InsideAt(Home[c])
  BY <1>1 DEF InsideAt, Inside
<1>3. WaitingAt(Home[c])' = WaitingAt(Home[c])
  BY <1>1 DEF WaitingAt
<1>4. Home[c] \in Nodes
  BY EprAssumption
<1>5. QED
  BY <1>1, <1>2, <1>3, <1>4, LockStep DEF LockInv

(* A session that is outside asks for the lock. *)
LEMMA LockAsked ==
  ASSUME LockInv, NEW c \in Sessions,
         lock' = [lock EXCEPT ![Home[c]] = Acquired(@, c)],
         Goto(c, Asking(lock[Home[c]])),
         pc[c] # "locking", ~Inside(c)
  PROVE  LockInv'
<1> DEFINE n == Home[c]
<1>1. n \in Nodes /\ Governs(lock[n], InsideAt(n), WaitingAt(n))
  BY EprAssumption DEF LockInv
<1>2. /\ pc' \in [Sessions -> Stages]
      /\ pc'[c] = Asking(lock[n])
      /\ \A s \in Sessions : s # c => pc'[s] = pc[s]
  BY DEF Goto, LockInv, Asking, Stages
<1>3. c \notin InsideAt(n) \cup WaitingAt(n)
  BY DEF InsideAt, WaitingAt
<1>4. /\ InsideAt(n)' = IF lock[n].taken THEN InsideAt(n) ELSE InsideAt(n) \cup {c}
      /\ WaitingAt(n)' = IF lock[n].taken THEN WaitingAt(n) \cup {c} ELSE WaitingAt(n)
  BY <1>2, <1>3 DEF InsideAt, WaitingAt, Inside, Asking
<1>5. Governs(Acquired(lock[n], c), InsideAt(n)', WaitingAt(n)')
  BY <1>1, <1>3, <1>4, AcquireGoverns
<1>6. /\ lock'[n] = Acquired(lock[n], c)
      /\ \A m \in Nodes : m # n => lock'[m] = lock[m]
      /\ lock' \in [Nodes -> Lock]
  BY <1>1, <1>5 DEF LockInv, Governs
<1>7. QED
  BY <1>1, <1>2, <1>5, <1>6, LockStep

(* A session inside releases the lock and goes on outside. *)
LEMMA LockReleased ==
  ASSUME LockInv, NEW c \in Sessions, NEW stage \in Stages,
         lock' = [lock EXCEPT ![Home[c]] = Released(@)],
         GotoAndWake(c, stage, Woken(lock[Home[c]])),
         Inside(c), stage \notin {"locking", "making", "made", "refused"}
  PROVE  LockInv'
<1> DEFINE n == Home[c]
           woken == Woken(lock[n])
<1>1. n \in Nodes /\ Governs(lock[n], InsideAt(n), WaitingAt(n)) /\ c \in InsideAt(n)
  BY EprAssumption DEF LockInv, InsideAt
<1>2. Governs(Released(lock[n]), (InsideAt(n) \ {c}) \cup woken, WaitingAt(n) \ woken)
  BY <1>1, ReleaseGoverns
<1>3. woken \subseteq WaitingAt(n)
  BY <1>1, WokenWaits
<1>4. /\ pc' \in [Sessions -> Stages]
      /\ pc'[c] = stage
      /\ \A s \in Sessions : s # c => pc'[s] = IF s \in woken THEN "making" ELSE pc[s]
  BY DEF GotoAndWake, LockInv, Stages
<1>5. c \notin woken
  BY <1>3 DEF WaitingAt, Inside
<1>6. InsideAt(n)' = (InsideAt(n) \ {c}) \cup woken
  <2> HIDE DEF woken
  <2>1. QED
    BY <1>3, <1>4, <1>5 DEF InsideAt, WaitingAt, Inside
<1>7. WaitingAt(n)' = WaitingAt(n) \ woken
  <2> HIDE DEF woken
  <2>1. QED
    BY <1>3, <1>4, <1>5 DEF WaitingAt, Inside
<1>8. \A s \in Sessions : Home[s] # Home[c] => pc'[s] = pc[s]
  <2> HIDE DEF woken
  <2>1. QED
    BY <1>3, <1>4 DEF WaitingAt
<1>9. /\ lock'[n] = Released(lock[n])
      /\ \A m \in Nodes : m # n => lock'[m] = lock[m]
      /\ lock' \in [Nodes -> Lock]
  BY <1>1, <1>2 DEF LockInv, Governs
<1>10. QED
  <2> HIDE DEF woken
  <2>1. QED
    BY <1>1, <1>2, <1>4, <1>6, <1>7, <1>8, <1>9, LockStep

(* The first half of a pair is entered: release the lock and ask again. *)
LEMMA LockReacquired ==
  ASSUME LockInv, NEW c \in Sessions,
         lock' = [lock EXCEPT ![Home[c]] = Acquired(Released(@), c)],
         GotoAndWake(c, Asking(Released(lock[Home[c]])), Woken(lock[Home[c]])),
         Inside(c)
  PROVE  LockInv'
<1> DEFINE n == Home[c]
           woken == Woken(lock[n])
           released == Released(lock[n])
           inside == (InsideAt(n) \ {c}) \cup woken
           waiting == WaitingAt(n) \ woken
<1>1. n \in Nodes /\ Governs(lock[n], InsideAt(n), WaitingAt(n)) /\ c \in InsideAt(n)
  BY EprAssumption DEF LockInv, InsideAt
<1>2. Governs(released, inside, waiting)
  BY <1>1, ReleaseGoverns
<1>3. woken \subseteq WaitingAt(n)
  BY <1>1, WokenWaits
<1>4. /\ pc' \in [Sessions -> Stages]
      /\ pc'[c] = Asking(released)
      /\ \A s \in Sessions : s # c => pc'[s] = IF s \in woken THEN "making" ELSE pc[s]
  BY DEF GotoAndWake, LockInv, Stages, Asking
<1>5. c \notin inside \cup waiting
  BY <1>3 DEF WaitingAt, Inside
<1>6. lock'[n] = Acquired(released, c) /\ \A m \in Nodes : m # n => lock'[m] = lock[m]
  BY <1>1 DEF LockInv
<1>7. Governs(lock'[n], InsideAt(n)', WaitingAt(n)')
  <2>1. CASE released.taken
    <3>1. InsideAt(n)' = inside
      <4> HIDE DEF woken, released
      <4>1. QED
        BY <1>3, <1>4, <1>5, <2>1 DEF InsideAt, WaitingAt, Inside, Asking
    <3>2. WaitingAt(n)' = waiting \cup {c}
      <4> HIDE DEF woken, released
      <4>1. QED
        BY <1>3, <1>4, <1>5, <2>1 DEF WaitingAt, Asking
    <3>3. Governs(Acquired(released, c), inside, waiting \cup {c})
      <4> HIDE DEF released, inside, waiting
      <4>1. QED
        BY <1>2, <1>5, <2>1, AcquireGoverns
    <3>4. QED
      BY <1>6, <3>1, <3>2, <3>3
  <2>2. CASE ~released.taken
    <3>1. InsideAt(n)' = inside \cup {c}
      <4> HIDE DEF woken, released
      <4>1. QED
        BY <1>3, <1>4, <1>5, <2>2 DEF InsideAt, WaitingAt, Inside, Asking
    <3>2. WaitingAt(n)' = waiting
      <4> HIDE DEF woken, released
      <4>1. QED
        BY <1>3, <1>4, <1>5, <2>2 DEF WaitingAt, Asking
    <3>3. Governs(Acquired(released, c), inside \cup {c}, waiting)
      <4> HIDE DEF released, inside, waiting
      <4>1. QED
        BY <1>2, <1>5, <2>2, AcquireGoverns
    <3>4. QED
      BY <1>6, <3>1, <3>2, <3>3
  <2>3. QED
    BY <2>1, <2>2
<1>8. \A s \in Sessions : Home[s] # Home[c] => pc'[s] = pc[s]
  <2> HIDE DEF woken
  <2>1. QED
    BY <1>3, <1>4 DEF WaitingAt
<1>9. lock' \in [Nodes -> Lock]
  BY <1>1, <1>6, <1>7 DEF LockInv, Governs
<1>10. QED
  <2> HIDE DEF woken
  <2>1. QED
    BY <1>1, <1>4, <1>6, <1>7, <1>8, <1>9, LockStep

(* A session outside accepts a qubit: the lock is acquired without waiting
   and released. *)
LEMMA LockPassed ==
  ASSUME LockInv, NEW c \in Sessions, NEW stage \in Stages,
         lock' = [lock EXCEPT ![Home[c]] = Released(Acquired(@, Nobody))],
         GotoAndWake(c, stage, Woken(Acquired(lock[Home[c]], Nobody))),
         pc[c] # "locking", ~Inside(c),
         stage \notin {"locking", "making", "made", "refused"}
  PROVE  LockInv'
<1> DEFINE n == Home[c]
           asked == Acquired(lock[n], Nobody)
           woken == Woken(asked)
<1>1. n \in Nodes /\ Governs(lock[n], InsideAt(n), WaitingAt(n))
  BY EprAssumption DEF LockInv
<1>2. Governs(Released(asked), InsideAt(n) \cup woken, WaitingAt(n) \ woken)
  BY <1>1, ReceptionGoverns
<1>3. woken \subseteq WaitingAt(n)
  BY <1>1, WokenWaits
<1>4. /\ pc' \in [Sessions -> Stages]
      /\ pc'[c] = stage
      /\ \A s \in Sessions : s # c => pc'[s] = IF s \in woken THEN "making" ELSE pc[s]
  BY DEF GotoAndWake, LockInv, Stages
<1>5. c \notin woken
  BY <1>3 DEF WaitingAt
<1> HIDE DEF woken
<1>6. InsideAt(n)' = InsideAt(n) \cup woken
  BY <1>3, <1>4, <1>5 DEF InsideAt, WaitingAt, Inside
<1>7. WaitingAt(n)' = WaitingAt(n) \ woken
  BY <1>3, <1>4, <1>5 DEF WaitingAt
<1>8. \A s \in Sessions : Home[s] # Home[c] => pc'[s] = pc[s]
  BY <1>3, <1>4 DEF WaitingAt
<1>9. /\ lock'[n] = Released(asked)
      /\ \A m \in Nodes : m # n => lock'[m] = lock[m]
      /\ lock' \in [Nodes -> Lock]
  BY <1>1, <1>2 DEF LockInv, Governs
<1>10. QED
  BY <1>1, <1>2, <1>4, <1>6, <1>7, <1>8, <1>9, LockStep

LEMMA NextLock == LockInv /\ [Next]_vars => LockInv'
<1> SUFFICES ASSUME LockInv, [Next]_vars PROVE LockInv'
  OBVIOUS
<1>1. ASSUME NEW c \in Sessions, StartMaking(c) PROVE LockInv'
  BY <1>1, LockAsked DEF StartMaking, Inside
<1>2. ASSUME NEW c \in Sessions,
             \/ NewQubit(c)
             \/ RefuseQubit(c)
      PROVE  LockInv'
  BY <1>2, LockUntouched DEF NewQubit, RefuseQubit, nodeVars, Inside, Stages
<1>3. ASSUME NEW c \in Sessions, GotQubit(c) PROVE LockInv'
  <2>1. CASE Job[c].kind = "create" /\ work[c].half = 0
    BY <1>3, <2>1, LockReacquired DEF GotQubit, Inside
  <2>2. CASE ~(Job[c].kind = "create" /\ work[c].half = 0)
    <3> DEFINE stage == IF Job[c].kind = "create" THEN "entangling" ELSE "measuring"
    <3>1. /\ pc[c] = "made"
          /\ lock' = [lock EXCEPT ![Home[c]] = Released(@)]
          /\ GotoAndWake(c, stage, Woken(lock[Home[c]]))
      BY <1>3, <2>2 DEF GotQubit
    <3>2. stage \in Stages /\ stage \notin {"locking", "making", "made", "refused"}
      BY DEF Stages
    <3>3. Inside(c)
      BY <3>1 DEF Inside
    <3>4. QED
      <4> HIDE DEF stage
      <4>1. QED
        BY <3>1, <3>2, <3>3, LockReleased
  <2>3. QED
    BY <2>1, <2>2
<1>4. ASSUME NEW c \in Sessions, QubitRefused(c) PROVE LockInv'
  BY <1>4, LockReleased DEF QubitRefused, Inside, Stages
<1>5. ASSUME NEW c \in Sessions,
             \/ Entangle(c)
             \/ AddHalf(c)
             \/ RefuseHalf(c)
             \/ StrikeHalf(c)
             \/ ListHalf(c)
             \/ Measure(c)
             \/ Measured(c)
             \/ StartReceiving(c)
             \/ Fetch(c)
             \/ Timeout(c)
      PROVE  LockInv'
  <2>1. PICK stage \in Stages \ {"locking", "making", "made", "refused"} :
          Goto(c, stage) /\ lock' = lock /\ pc[c] # "locking" /\ ~Inside(c)
    BY <1>5, Zenon DEF Entangle, AddHalf, RefuseHalf, StrikeHalf, ListHalf, Measure,
       Measured, StartReceiving, Fetch, Timeout, nodeVars, Inside, Stages
  <2>2. QED
    BY <2>1, LockUntouched
<1>6. ASSUME NEW c \in Sessions, PairSent(c) PROVE LockInv'
  <2>1. CASE MorePairs(c)
    BY <1>6, <2>1, LockAsked DEF PairSent, Inside
  <2>2. CASE ~MorePairs(c)
    <3>1. lock' = lock /\ Goto(c, "done") /\ pc[c] = "sent"
      BY <1>6, <2>2 DEF PairSent, LockInv
    <3>2. QED
      BY <3>1, LockUntouched DEF Stages, Inside
  <2>3. QED
    BY <2>1, <2>2
<1>7. ASSUME NEW c \in Sessions, Accept(c) PROVE LockInv'
  <2> DEFINE stage == IF MorePairs(c) THEN "polling" ELSE "done"
  <2>1. stage \in Stages /\ stage \notin {"locking", "making", "made", "refused"}
    BY DEF Stages
  <2>2. pc[c] = "fetched" /\ ~Inside(c)
    BY <1>7 DEF Accept, Inside
  <2>3. CASE IsMeasured(c)
    <3>1. Goto(c, stage) /\ lock' = lock
      BY <1>7, <2>3 DEF Accept
    <3>2. QED
      <4> HIDE DEF stage
      <4>1. QED
        BY <2>1, <2>2, <3>1, LockUntouched
  <2>4. CASE ~IsMeasured(c)
    <3>1. /\ lock' = [lock EXCEPT ![Home[c]] = Released(Acquired(@, Nobody))]
          /\ GotoAndWake(c, stage, Woken(Acquired(lock[Home[c]], Nobody)))
      BY <1>7, <2>4 DEF Accept, LockInv
    <3>2. QED
      <4> HIDE DEF stage
      <4>1. QED
        BY <2>1, <2>2, <3>1, LockPassed
  <2>5. QED
    BY <2>3, <2>4
<1>8. CASE UNCHANGED vars
  BY <1>8 DEF vars, LockInv, InsideAt, WaitingAt, Inside
<1>9. QED
  BY <1>1, <1>2, <1>3, <1>4, <1>5, <1>6, <1>7, <1>8 DEF Next, Start, Step

LEMMA InitLock == Init => LockInv
<1> SUFFICES ASSUME Init PROVE LockInv
  OBVIOUS
<1>1. lock \in [Nodes -> Lock] /\ pc \in [Sessions -> Stages]
  BY EmptySeq DEF Init, Lock, Stages
<1>2. ASSUME NEW n \in Nodes PROVE Governs(lock[n], InsideAt(n), WaitingAt(n))
  <2>1. lock[n] = [taken |-> FALSE, queue |-> << >>]
    BY DEF Init
  <2>2. InsideAt(n) = {} /\ WaitingAt(n) = {}
    BY DEF Init, InsideAt, WaitingAt, Inside
  <2>3. Nobodies(lock[n]) = {} /\ DOMAIN lock[n].queue = {}
    BY <2>1 DEF Nobodies
  <2>4. lock[n] \in Lock /\ ~lock[n].taken /\ lock[n].queue = << >>
    <3>1. lock[n] \in Lock
      BY <1>1
    <3>2. lock[n].queue = << >>
      BY <2>1
    <3>3. lock[n].taken = FALSE
      BY <2>1
    <3>4. QED
      BY <3>1, <3>2, <3>3
  <2>5. Governs(lock[n], {}, {})
    <3>1. IsFiniteSet({}) /\ Cardinality({}) = 0 /\ Cardinality(Nobodies(lock[n])) = 0
      BY <2>3, FS_EmptySet
    <3>2. QED
      BY <2>3, <2>4, <3>1 DEF Governs
  <2>6. QED
    BY <2>2, <2>5
<1>3. QED
  BY <1>1, <1>2 DEF LockInv

LEMMA AlwaysGoverned == Spec => []LockInv
BY InitLock, NextLock, PTL DEF Spec

(* The lock of a factory is taken exactly while a session is inside that will
   release it, although receptions acquire it without waiting and so hand it
   on before its holder has left (executioner.py:768). *)
THEOREM LockComesFree == Spec => []LockNeverStuck
<1>1. LockInv => LockNeverStuck
  <2> SUFFICES ASSUME LockInv, NEW n \in Nodes
               PROVE  lock[n].taken <=> \E c \in Sessions : Home[c] = n /\ Inside(c)
    BY DEF LockNeverStuck
  <2>1. /\ Governs(lock[n], InsideAt(n), WaitingAt(n))
        /\ Cardinality(Nobodies(lock[n])) \in Nat
    BY NobodiesFinite DEF LockInv
  <2>2. CASE lock[n].taken
    <3>1. Cardinality(InsideAt(n)) # 0
      BY <2>1, <2>2 DEF Governs
    <3>2. InsideAt(n) # {}
      BY <3>1, FS_EmptySet
    <3>3. QED
      BY <2>2, <3>2 DEF InsideAt
  <2>3. CASE ~lock[n].taken
    <3>1. Nobodies(lock[n]) = {}
      BY <2>1, <2>3 DEF Governs, Nobodies
    <3>2. Cardinality(InsideAt(n)) = 0
      BY <2>1, <2>3, <3>1, FS_EmptySet DEF Governs
    <3>3. InsideAt(n) = {}
      BY <2>1, <3>2, FS_EmptySet DEF Governs
    <3>4. QED
      BY <2>3, <3>3 DEF InsideAt
  <2>4. QED
    BY <2>2, <2>3
<1>2. QED
  BY <1>1, AlwaysGoverned, PTL

-----------------------------------------------------------------------------
(* Sessions, requests and qubits.                                          *)

Active(c) == pc[c] \notin {"idle", "done", "failed"}

\* the qubit at hand is still to be made
Unmade == {"idle", "locking", "making", "refused"}

\* where a session can be, by what it executes
Staged(c) ==
  /\ Job[c].kind = "recv" => pc[c] \in {"idle", "polling", "fetched", "done", "failed"}
  /\ pc[c] \in {"polling", "fetched"} => Job[c].kind = "recv"
  /\ Job[c].kind = "local" =>
       pc[c] \notin {"entangling", "sending", "striking", "listing", "sent"}
  /\ pc[c] \in {"sending", "striking"} => Job[c].type = "K"
  /\ pc[c] \in {"measuring", "measured"} /\ Job[c].kind = "create" =>
       Job[c].type = "M"
  /\ pc[c] = "striking" => work[c].num # NoNum
  /\ pc[c] = "listing" => (work[c].num = NoNum <=> Job[c].type = "M")
  /\ pc[c] = "idle" => work[c].pair = 0 /\ work[c].half = 0
  /\ pc[c] # "idle" => work[c].pair \in 1 .. Job[c].pairs
  /\ Job[c].kind = "local" /\ pc[c] # "done" => work[c].half = 0

\* pairs that sessions still expect, and responses that requests still await
Owed(side, x) ==
  {p \in Pairs : /\ Job[p[1]].kind = side
                 /\ Socket(p[1]) = x
                 /\ pc[p[1]] \notin {"idle", "done"}
                 /\ p[2] \in work[p[1]].pair .. Job[p[1]].pairs}
Left(q) == {p \in Nat \X Nat : p[1] \in DOMAIN q /\ p[2] \in 1 .. q[p[1]].left}

\* no response comes without a request: not every session gets its own, but
\* there are as many as are owed
Requested(side, x) ==
  /\ IsFiniteSet(Owed(side, x))
  /\ IsFiniteSet(Left(requests[side][x]))
  /\ Cardinality(Owed(side, x)) = Cardinality(Left(requests[side][x]))
  /\ \A i \in DOMAIN requests[side][x] :
       LET c == requests[side][x][i].session
       IN  Job[c].kind = side /\ Socket(c) = x

\* half h of the pair at hand is not at home, the second one not there
NotHere(c, h) ==
  \/ h = 0 /\ work[c].half = 0 /\ pc[c] \in Unmade \cup {"measured"}
  \/ h = 1 /\ pc[c] \in Unmade \cup {"listing", "sent"}
  \/ h = 1 /\ work[c].half = 0 /\ pc[c] = "made"
  \/ h = 1 /\ work[c].half = 1 /\ pc[c] = "measured"
NotThere(c) ==
  pc[c] \in Unmade \cup {"made", "entangling", "sending", "measuring", "measured"}

\* whose qubit v at n can be
Placed(n, v) ==
  LET c == v[2][1]
      current == v[2][2] = work[c].pair
  IN  /\ v[2][2] <= work[c].pair
      /\ \/ Home[c] = n /\ ~(current /\ NotHere(c, v[2][3]))
         \/ /\ Home[c] # n
            /\ Job[c].kind = "create" /\ Job[c].type = "K" /\ Target(c) = n
            /\ v[2][3] = 1
            /\ ~(current /\ NotThere(c))
            /\ current /\ pc[c] \in {"striking", "listing"} => v[1] = work[c].num

Held(n) ==
  /\ IsFiniteSet(virt[n])
  /\ \A v \in virt[n] : Placed(n, v)
  /\ \A v, w \in virt[n] : v[1] = w[1] <=> v[2] = w[2]

\* the second half of a pair is held under its number
HeldAs(n, pair, num) == <<num, <<pair[1], pair[2], 1>>>> \in virt[n]

Comes(pair, x) == Job[pair[1]].kind = "create" /\ Peer[Socket(pair[1])] = x

Underway(c) ==
  /\ pc[c] \in {"striking", "listing"} /\ Job[c].type = "K" =>
       HeldAs(Target(c), PairOf(c), work[c].num)
  /\ pc[c] = "fetched" =>
       /\ Comes(work[c].gotPair, Socket(c))
       /\ ~IsMeasured(c) =>
            work[c].gotQubit = <<work[c].gotPair[1], work[c].gotPair[2], 1>>

Listed(x) ==
  \A i \in DOMAIN eprList[x] :
    LET e == eprList[x][i]
    IN  /\ Comes(e.pair, x)
        /\ e.num = NoNum <=> Job[e.pair[1]].type = "M"
        /\ e.num # NoNum => HeldAs(x[1], e.pair, e.num)

EprInv ==
  /\ TypeOK
  /\ \A n \in Nodes : IsFiniteSet(used[n]) /\ Held(n)
  /\ \A c \in Sessions : Staged(c) /\ Underway(c)
  /\ \A x \in Sockets : Listed(x)
  /\ \A side \in Sides, x \in Sockets : Requested(side, x)

-----------------------------------------------------------------------------
(* Addresses.                                                              *)

InUse(n, a) == IF a >= 0 THEN a \in used[n] ELSE -(1 + a) \in used[n]

\* what is entered under an address of the session is its own qubit
OwnAddress(c) ==
  Active(c) =>
    /\ work[c].addr \in used[Home[c]]
    /\ \A d \in Sessions : d # c /\ Active(d) /\ Home[d] = Home[c] =>
         work[d].addr # work[c].addr
    /\ \A e \in qubitList[Home[c]], h \in {0, 1} : e[1] = Address(c, h) =>
         /\ Job[c].kind # "recv"
         /\ e[2] = HalfOf(c, h)
         /\ h = 0 => ~(work[c].half = 0 /\ pc[c] \in Unmade \cup {"made"})
         /\ h = 1 => Job[c].kind = "create" /\ pc[c] \notin Unmade \cup {"made"}

\* the half that stays keeps its address from the moment it is entered
Kept(c) ==
  Job[c].kind = "create" /\ Job[c].type = "K" /\
  (\/ pc[c] \in {"locking", "making", "made"} /\ work[c].half = 1
   \/ pc[c] \in {"entangling", "sending", "striking", "listing", "sent"}) =>
    <<work[c].addr, HalfOf(c, 0)>> \in qubitList[Home[c]]

\* every qubit can be reached
Reached(n, v) ==
  \/ \E e \in qubitList[n] : e[2] = v[2]
  \/ \E s \in SocketIds : \E i \in DOMAIN eprList[<<n, s>>] :
       eprList[<<n, s>>][i].num = v[1]
  \/ \E c \in Sessions :
       \/ Home[c] = n /\ pc[c] = "made" /\ v[2] = HalfOf(c, work[c].half)
       \/ Home[c] = n /\ pc[c] = "fetched" /\ ~IsMeasured(c) /\ v[2] = work[c].gotQubit
       \/ /\ Target(c) = n
          /\ pc[c] \in {"striking", "listing"}
          /\ v = <<work[c].num, HalfOf(c, 1)>>

Result1(c, r) ==
  /\ Job[c].kind \in Sides
  /\ Job[r.pair[1]].kind = "create"
  /\ Job[r.pair[1]].type = "K" =>
       <<r.addr, <<r.pair[1], r.pair[2], SideOf(c)>>>> \in qubitList[Home[c]]

AddressInv ==
  /\ \A n \in Nodes : \A e \in qubitList[n] : InUse(n, e[1])
  /\ \A c \in Sessions : OwnAddress(c) /\ Kept(c)
  /\ \A n \in Nodes : \A v \in virt[n] : Reached(n, v)
  /\ \A c \in Sessions : \A i \in DOMAIN got[c] : Result1(c, got[c][i])

-----------------------------------------------------------------------------
(* What the parts of the actions do.                                       *)

LEMMA SocketFacts ==
  ASSUME NEW c \in Sessions
  PROVE  /\ Home[c] \in Nodes /\ Socket(c) \in Sockets /\ Socket(c)[1] = Home[c]
         /\ Target(c) \in Nodes /\ Target(c) # Home[c]
         /\ Peer[Socket(c)] \in Sockets /\ Peer[Socket(c)][1] = Target(c)
         /\ Job[c].kind \in Kinds /\ Job[c].type \in {"K", "M"}
         /\ Job[c].pairs \in Nat \ {0}
BY EprAssumption, SocketsPaired DEF Socket, Target, Sockets

LEMMA WorkUpdated ==
  ASSUME NEW w \in Work
  PROVE  /\ \A half \in {0, 1} : [w EXCEPT !.half = half] \in Work
         /\ \A pair \in Nat, half \in {0, 1}, addr \in Nat :
              [w EXCEPT !.pair = pair, !.half = half, !.addr = addr] \in Work
         /\ \A ent \in Nat, half \in {0, 1} : [w EXCEPT !.ent = ent, !.half = half] \in Work
         /\ \A num \in Nat \cup {NoNum} : [w EXCEPT !.num = num] \in Work
         /\ \A half \in {0, 1}, num \in Nat \cup {NoNum} :
              [w EXCEPT !.half = half, !.num = num] \in Work
         /\ \A pair \in Pairs, ent \in Nat, qubit \in Halves :
              [w EXCEPT !.gotPair = pair, !.gotEnt = ent, !.gotQubit = qubit] \in Work
BY DEF Work

(* A new number is not in use. *)
LEMMA NewNumFree ==
  ASSUME TypeOK, NEW n \in Nodes, IsFiniteSet(virt[n])
  PROVE  NewNum(n) \in Nat /\ \A v \in virt[n] : v[1] # NewNum(n)
<1> DEFINE nums == {v[1] : v \in virt[n]}
<1>1. nums \in SUBSET Nat
  BY DEF TypeOK
<1>2. IsFiniteSet(nums)
  <2> DEFINE num == [v \in virt[n] |-> v[1]]
  <2>1. num \in [virt[n] -> nums] /\ \A k \in nums : \E v \in virt[n] : num[v] = k
    OBVIOUS
  <2>2. num \in Surjection(virt[n], nums)
    <3> HIDE DEF num, nums
    <3>1. QED
      BY <2>1, Fun_IsSurj
  <2>3. QED
    <3> HIDE DEF num, nums
    <3>1. QED
      BY <2>2, FS_Surjection
<1>3. NthFree(nums, 0) \in Nat /\ NthFree(nums, 0) \notin nums
  <2> HIDE DEF nums
  <2>1. QED
    BY <1>1, <1>2, NthFreeSpec
<1>4. QED
  BY <1>3 DEF NewNum, FirstFree

(* The next pair has an address that was not in use. *)
LEMMA NextPairEffect ==
  ASSUME TypeOK, NEW c \in Sessions, IsFiniteSet(used[Home[c]]), NextPair(c)
  PROVE  /\ work' \in [Sessions -> Work]
         /\ used' \in [Nodes -> SUBSET Nat]
         /\ \A d \in Sessions : d # c => work'[d] = work[d]
         /\ \A n \in Nodes : n # Home[c] => used'[n] = used[n]
         /\ IsFiniteSet(used'[Home[c]])
         /\ MorePairs(c) =>
              /\ work'[c] = [work[c] EXCEPT !.pair = work[c].pair + 1, !.half = 0,
                                            !.addr = work'[c].addr]
              /\ work'[c].addr \notin used[Home[c]]
              /\ used'[Home[c]] = used[Home[c]] \cup {work'[c].addr}
         /\ ~MorePairs(c) => work' = work /\ used' = used
<1> DEFINE a == FirstFree(used[Home[c]])
<1>1. Home[c] \in Nodes /\ used[Home[c]] \in SUBSET Nat
  BY SocketFacts DEF TypeOK
<1>2. a \in Nat /\ a \notin used[Home[c]]
  BY <1>1, NthFreeSpec DEF FirstFree
<1>3. CASE MorePairs(c)
  <2>1. /\ used' = [used EXCEPT ![Home[c]] = used[Home[c]] \cup {a}]
        /\ work' = [work EXCEPT ![c].pair = work[c].pair + 1, ![c].half = 0, ![c].addr = a]
    BY <1>3 DEF NextPair, TypeOK
  <2> HIDE DEF a
  <2>2. work[c] \in Work
    BY DEF TypeOK
  <2>3. /\ work'[c] = [work[c] EXCEPT !.pair = work[c].pair + 1, !.half = 0, !.addr = a]
        /\ \A d \in Sessions : d # c => work'[d] = work[d]
        /\ DOMAIN work' = Sessions
        /\ work' = [d \in Sessions |-> work'[d]]
    BY <2>1 DEF TypeOK
  <2>4. work'[c] \in Work /\ work'[c].addr = a
    <3>1. work[c].pair + 1 \in Nat /\ work[c].addr \in Nat /\ "addr" \in DOMAIN work[c]
      BY <2>2 DEF Work
    <3>2. work'[c] \in Work
      <4>1. [work[c] EXCEPT !.pair = work[c].pair + 1, !.half = 0, !.addr = a] \in Work
        BY <1>2, <2>2, <3>1, WorkUpdated
      <4>2. QED
        BY <2>3, <4>1, Zenon
    <3>3. work'[c].addr = a
      BY <2>3, <3>1
    <3>4. QED
      BY <3>2, <3>3
  <2>5. work' \in [Sessions -> Work]
    BY <2>3, <2>4 DEF TypeOK
  <2>6. /\ used' \in [Nodes -> SUBSET Nat]
        /\ used'[Home[c]] = used[Home[c]] \cup {a}
        /\ \A n \in Nodes : n # Home[c] => used'[n] = used[n]
    BY <1>1, <1>2, <2>1 DEF TypeOK
  <2>7. IsFiniteSet(used'[Home[c]])
    BY <2>6, FS_AddElement
  <2>8. QED
    BY <1>2, <1>3, <2>3, <2>4, <2>5, <2>6, <2>7
<1>4. CASE ~MorePairs(c)
  BY <1>4 DEF NextPair, TypeOK
<1>5. QED
  BY <1>3, <1>4

(* A response goes to a request of the same side and socket. *)
LEMMA RespondEffect ==
  ASSUME TypeOK, NEW side \in Sides, NEW x \in Sockets, requests[side][x] # << >>,
         NEW pair \in Pairs, NEW ent \in Nat, NEW addr \in Nat,
         Respond(side, x, pair, ent, addr)
  PROVE  LET r == Head(requests[side][x])
             q == requests'[side][x]
         IN  /\ requests' \in [Sides -> [Sockets -> Seq(Request)]]
             /\ got' \in [Sessions -> Seq(Result)]
             /\ slots' \in [Sides -> [Sockets -> Seq(Slot)]]
             /\ \A s \in Sides, y \in Sockets : s # side \/ y # x =>
                  requests'[s][y] = requests[s][y] /\ slots'[s][y] = slots[s][y]
             /\ r = requests[side][x][1] /\ r \in Request
             /\ r.left = 1 => q = Tail(requests[side][x])
             /\ r.left # 1 => q = [requests[side][x] EXCEPT ![1] =
                                    [session |-> r.session, left |-> r.left - 1]]
             /\ \A c \in Sessions : c # r.session => got'[c] = got[c]
             /\ got'[r.session] = Append(got[r.session], [pair |-> pair, addr |-> addr])
             /\ slots'[side][x] = Append(slots[side][x], [pair |-> pair, ent |-> ent])
<1> DEFINE old == requests[side][x]
           r == Head(old)
           new == IF r.left = 1 THEN Tail(old) ELSE [old EXCEPT ![1].left = r.left - 1]
<1>1. old \in Seq(Request) /\ Len(old) \in Nat \ {0} /\ r = old[1] /\ r \in Request
      /\ DOMAIN old = 1 .. Len(old)
  BY HeadTailProperties, EmptySeq, LenProperties DEF TypeOK
<1>2. r = [session |-> r.session, left |-> r.left] /\ r.left \in Nat \ {0}
      /\ r.session \in Sessions
  BY <1>1 DEF Request
<1>3. r.left # 1 => [old EXCEPT ![1].left = r.left - 1] =
                    [old EXCEPT ![1] = [session |-> r.session, left |-> r.left - 1]]
  <2>1. [old[1] EXCEPT !.left = r.left - 1] = [session |-> r.session, left |-> r.left - 1]
    BY <1>1, <1>2
  <2>2. QED
    BY <2>1
<1>4. r.left # 1 => [session |-> r.session, left |-> r.left - 1] \in Request
  BY <1>2 DEF Request
<1>5. r.left # 1 => [old EXCEPT ![1] = [session |-> r.session, left |-> r.left - 1]] \in Seq(Request)
  BY <1>1, <1>4, ExceptSeq
<1>6. Tail(old) \in Seq(Request)
  BY <1>1, HeadTailProperties
<1>7. new \in Seq(Request)
  BY <1>3, <1>5, <1>6
<1>8. /\ requests' = [requests EXCEPT ![side] = [requests[side] EXCEPT ![x] = new]]
      /\ got' = [got EXCEPT ![r.session] = Append(got[r.session], [pair |-> pair, addr |-> addr])]
      /\ slots' = [slots EXCEPT ![side] = [slots[side] EXCEPT ![x] =
                     Append(slots[side][x], [pair |-> pair, ent |-> ent])]]
  BY DEF Respond, TypeOK
<1>9. /\ requests' \in [Sides -> [Sockets -> Seq(Request)]]
      /\ requests'[side][x] = new
      /\ \A s \in Sides, y \in Sockets : s # side \/ y # x => requests'[s][y] = requests[s][y]
  <2> HIDE DEF new
  <2>1. QED
    BY <1>7, <1>8 DEF TypeOK
<1>10. [pair |-> pair, addr |-> addr] \in Result /\ [pair |-> pair, ent |-> ent] \in Slot
  BY DEF Result, Slot
<1>11. /\ got' \in [Sessions -> Seq(Result)]
       /\ got'[r.session] = Append(got[r.session], [pair |-> pair, addr |-> addr])
       /\ \A c \in Sessions : c # r.session => got'[c] = got[c]
  <2> HIDE DEF r
  <2>1. Append(got[r.session], [pair |-> pair, addr |-> addr]) \in Seq(Result)
    BY <1>2, <1>10, AppendProperties DEF TypeOK
  <2>2. QED
    BY <1>2, <1>8, <2>1 DEF TypeOK
<1>12. /\ slots' \in [Sides -> [Sockets -> Seq(Slot)]]
       /\ slots'[side][x] = Append(slots[side][x], [pair |-> pair, ent |-> ent])
       /\ \A s \in Sides, y \in Sockets : s # side \/ y # x => slots'[s][y] = slots[s][y]
  <2>1. Append(slots[side][x], [pair |-> pair, ent |-> ent]) \in Seq(Slot)
    BY <1>10, AppendProperties DEF TypeOK
  <2>2. QED
    BY <1>8, <2>1 DEF TypeOK
<1>13. r.left = 1 => requests'[side][x] = Tail(old)
  BY <1>9
<1>14. r.left # 1 => requests'[side][x] = [old EXCEPT ![1] = [session |-> r.session, left |-> r.left - 1]]
  BY <1>3, <1>9
<1>15. QED
  <2> HIDE DEF new
  <2>1. QED
    BY <1>1, <1>9, <1>11, <1>12, <1>13, <1>14

-----------------------------------------------------------------------------
(* Counting what requests await.                                           *)

Row(a, m) == {<<a, k>> : k \in 1 .. m}

LEMMA RowCounted ==
  ASSUME NEW a, NEW m \in Nat
  PROVE  /\ IsFiniteSet(Row(a, m))
         /\ Cardinality(Row(a, m)) = m
<1> DEFINE row == Row(a, m)
           f == [k \in 1 .. m |-> <<a, k>>]
<1>1. /\ f \in [1 .. m -> row]
      /\ \A i, j \in 1 .. m : f[i] = f[j] => i = j
      /\ \A p \in row : \E k \in 1 .. m : f[k] = p
  BY DEF Row
<1> HIDE DEF row, f
<1>2. f \in Bijection(1 .. m, row)
  BY <1>1, Fun_IsBij
<1>3. ExistsBijection(1 .. m, row)
  BY <1>2 DEF ExistsBijection
<1>4. IsFiniteSet(1 .. m) /\ Cardinality(1 .. m) = m
  BY FS_Interval
<1>5. IsFiniteSet(row) /\ Cardinality(row) = m
  BY <1>3, <1>4, FS_Bijection
<1>6. QED
  BY <1>5 DEF row

(* Rows are added to sets that hold none of them. *)
LEMMA RowAdded ==
  ASSUME NEW S, IsFiniteSet(S), NEW a, NEW m \in Nat, \A k \in 1 .. m : <<a, k>> \notin S
  PROVE  /\ IsFiniteSet(S \cup Row(a, m))
         /\ Cardinality(S \cup Row(a, m)) = Cardinality(S) + m
<1> DEFINE row == Row(a, m)
<1>1. S \cap row = {}
  BY DEF Row
<1>2. IsFiniteSet(row) /\ Cardinality(row) = m
  BY RowCounted
<1> HIDE DEF row
<1>3. /\ IsFiniteSet(S \cup row)
      /\ Cardinality(S \cup row) = Cardinality(S) + Cardinality(row) - Cardinality(S \cap row)
  BY <1>2, FS_Union
<1>4. Cardinality(S) \in Nat /\ Cardinality(S \cap row) = 0
  BY <1>1, FS_CardinalityType, FS_EmptySet
<1>5. Cardinality(S \cup row) = Cardinality(S) + m
  BY <1>2, <1>3, <1>4
<1>6. QED
  BY <1>3, <1>5 DEF row

LEMMA LeftAppended ==
  ASSUME NEW q \in Seq(Request), NEW r \in Request, IsFiniteSet(Left(q))
  PROVE  /\ IsFiniteSet(Left(Append(q, r)))
         /\ Cardinality(Left(Append(q, r))) = Cardinality(Left(q)) + r.left
<1> DEFINE n == Len(q)
<1>1. n \in Nat /\ DOMAIN q = 1 .. n /\ r.left \in Nat
  BY LenProperties DEF Request
<1>2. /\ DOMAIN Append(q, r) = 1 .. (n + 1)
      /\ Append(q, r)[n + 1] = r
      /\ \A i \in 1 .. n : Append(q, r)[i] = q[i]
  BY <1>1, AppendProperties, LenProperties
<1>3. Left(Append(q, r)) = Left(q) \cup Row(n + 1, r.left)
  <2>1. ASSUME NEW p \in Left(Append(q, r))
        PROVE  p \in Left(q) \cup Row(n + 1, r.left)
    <3>1. p = <<p[1], p[2]>> /\ p[1] \in 1 .. (n + 1) /\ p[2] \in Nat
      BY <1>2 DEF Left
    <3>2. CASE p[1] = n + 1
      BY <1>1, <1>2, <3>1, <3>2 DEF Left, Row
    <3>3. CASE p[1] # n + 1
      BY <1>1, <1>2, <3>1, <3>3 DEF Left
    <3>4. QED
      BY <3>2, <3>3
  <2>2. ASSUME NEW p \in Left(q)
        PROVE  p \in Left(Append(q, r))
    BY <1>1, <1>2 DEF Left
  <2>3. Row(n + 1, r.left) \subseteq Left(Append(q, r))
    BY <1>1, <1>2 DEF Left, Row
  <2>4. QED
    BY <2>1, <2>2, <2>3
<1>4. \A k \in 1 .. r.left : <<n + 1, k>> \notin Left(q)
  BY <1>1 DEF Left
<1>5. /\ IsFiniteSet(Left(q) \cup Row(n + 1, r.left))
      /\ Cardinality(Left(q) \cup Row(n + 1, r.left)) =
           Cardinality(Left(q)) + r.left
  <2> HIDE DEF n
  <2>1. QED
    BY <1>1, <1>4, RowAdded
<1>6. QED
  <2> HIDE DEF n
  <2>1. QED
    BY <1>3, <1>5, Zenon

LEMMA LeftShortened ==
  ASSUME NEW q, NEW m, NEW n \in Nat \ {0}, NEW l \in Nat \ {0},
         DOMAIN q = 1 .. n, DOMAIN m = 1 .. n, q[1].left = l, m[1].left = l - 1,
         \A i \in 2 .. n : m[i] = q[i]
  PROVE  Left(m) = Left(q) \ {<<1, l>>}
<1>1. ASSUME NEW i \in Nat, NEW k \in Nat
      PROVE  <<i, k>> \in Left(m) <=> <<i, k>> \in Left(q) /\ <<i, k>> # <<1, l>>
  <2>1. CASE i = 1
    BY <2>1 DEF Left
  <2>2. CASE i # 1
    BY <2>2 DEF Left
  <2>3. QED
    BY <2>1, <2>2
<1>2. Left(m) \subseteq Nat \X Nat /\ Left(q) \subseteq Nat \X Nat
  BY DEF Left
<1>3. QED
  BY <1>1, <1>2

(* A response takes one away, from the request or with it. *)
LEMMA LeftReduced ==
  ASSUME NEW q \in Seq(Request), q # << >>, NEW m \in Seq(Request), IsFiniteSet(Left(q)),
         q[1].left = 1 => m = Tail(q),
         q[1].left # 1 => m = [q EXCEPT ![1] =
                                [session |-> q[1].session, left |-> q[1].left - 1]]
  PROVE  /\ IsFiniteSet(Left(m))
         /\ Cardinality(Left(m)) = Cardinality(Left(q)) - 1
<1> DEFINE n == Len(q)
           l == q[1].left
<1>1. n \in Nat \ {0} /\ DOMAIN q = 1 .. n /\ q[1] \in Request /\ l \in Nat \ {0}
  <2>1. n \in Nat \ {0} /\ DOMAIN q = 1 .. n
    BY LenProperties, EmptySeq
  <2>2. q[1] \in Request
    BY <2>1, ElementOfSeq
  <2>3. QED
    BY <2>1, <2>2 DEF Request
<1>2. <<1, l>> \in Left(q)
  BY <1>1 DEF Left
<1> DEFINE rest == Left(q) \ {<<1, l>>}
<1>3. IsFiniteSet(rest) /\ Cardinality(rest) = Cardinality(Left(q)) - 1
  BY <1>2, FS_RemoveElement
<1>4. CASE l = 1
  <2> DEFINE f == [p \in rest |-> <<p[1] - 1, p[2]>>]
  <2>1. /\ DOMAIN m = 1 .. (n - 1)
        /\ \A i \in 1 .. (n - 1) : m[i] = q[i + 1]
    BY <1>1, <1>4, HeadTailProperties, LenProperties
  <2>2. \A p \in rest : /\ p = <<p[1], p[2]>> /\ p[1] \in 2 .. n /\ p[2] \in Nat
                         /\ p[2] \in 1 .. q[p[1]].left
    BY <1>1, <1>4 DEF Left
  <2>3. ASSUME NEW p \in rest PROVE <<p[1] - 1, p[2]>> \in Left(m)
    <3> HIDE DEF rest
    <3>1. /\ p[1] \in 2 .. n /\ p[2] \in Nat
          /\ p[2] \in 1 .. q[p[1]].left
      BY <2>2
    <3>2. p[1] - 1 \in 1 .. (n - 1) /\ (p[1] - 1) + 1 = p[1] /\ p[1] - 1 \in Nat
      BY <1>1, <3>1
    <3>3. m[p[1] - 1] = q[p[1]]
      BY <2>1, <3>2
    <3>4. QED
      BY <2>1, <3>1, <3>2, <3>3 DEF Left
  <2>4. ASSUME NEW p \in Left(m) PROVE \E o \in rest : f[o] = p
    <3>1. /\ p = <<p[1], p[2]>> /\ p[1] \in 1 .. (n - 1) /\ p[2] \in Nat
          /\ p[2] \in 1 .. q[p[1] + 1].left
      BY <2>1 DEF Left
    <3>2. <<p[1] + 1, p[2]>> \in rest
      BY <1>1, <3>1 DEF Left
    <3> DEFINE o == <<p[1] + 1, p[2]>>
    <3>3. f[o] = <<o[1] - 1, o[2]>>
      <4> HIDE DEF rest, o
      <4>1. QED BY <3>2 DEF o
    <3>4. o[1] - 1 = p[1] /\ o[2] = p[2]
      BY <3>1
    <3>5. QED
      <4> HIDE DEF rest, f, o
      <4>1. QED BY <3>1, <3>2, <3>3, <3>4 DEF o
  <2>5. \A p, o \in rest : f[p] = f[o] => p = o
    <3> HIDE DEF rest
    <3>1. QED BY <2>2
  <2>6. f \in [rest -> Left(m)]
    <3> HIDE DEF rest
    <3>1. QED BY <2>3
  <2>7. ExistsBijection(rest, Left(m))
    <3> HIDE DEF rest, f
    <3>1. f \in Bijection(rest, Left(m))
      BY <2>4, <2>5, <2>6, Fun_IsBij
    <3>2. QED
      BY <3>1 DEF ExistsBijection
  <2>8. QED
    <3> HIDE DEF rest
    <3>1. QED BY <1>3, <2>7, FS_Bijection
<1>5. CASE l # 1
  <2>1. /\ DOMAIN m = 1 .. n
        /\ m[1].left = l - 1
        /\ \A i \in 2 .. n : m[i] = q[i]
    BY <1>1, <1>5
  <2>2. Left(m) = rest
    <3> HIDE DEF n, l
    <3>1. Left(m) = Left(q) \ {<<1, l>>}
      BY <1>1, <2>1, LeftShortened DEF l
    <3>2. QED
      BY <3>1
  <2>3. QED
    BY <1>3, <2>2
<1>6. QED
  BY <1>4, <1>5

-----------------------------------------------------------------------------
(* Answers on their way: the sessions in a queue are those that wait for an *)
(* answer on the connection, each of them once.                            *)

Queued(q, waiting) ==
  /\ q \in Seq(Sessions)
  /\ \A i \in DOMAIN q : q[i] \in waiting
  /\ \A i, j \in DOMAIN q : q[i] = q[j] => i = j
  /\ \A c \in waiting : \E i \in DOMAIN q : q[i] = c

Link(c) == <<Home[c], Target(c)>>
SentOn(l) == {c \in Sessions : pc[c] = "sent" /\ Link(c) = l}
FetchedAt(n) == {c \in Sessions : pc[c] = "fetched" /\ Home[c] = n}

QueueInv ==
  /\ sent = [l \in Nodes \X Nodes |-> sent[l]]
  /\ fetched = [n \in Nodes |-> fetched[n]]
  /\ \A l \in Nodes \X Nodes : Queued(sent[l], SentOn(l))
  /\ \A n \in Nodes : Queued(fetched[n], FetchedAt(n))

LEMMA QueuedAppend ==
  ASSUME NEW q, NEW waiting, NEW c \in Sessions, Queued(q, waiting), c \notin waiting
  PROVE  Queued(Append(q, c), waiting \cup {c})
<1> DEFINE m == Append(q, c)
           n == Len(q)
<1>1. n \in Nat /\ DOMAIN q = 1 .. n
  BY LenProperties DEF Queued
<1>2. /\ m \in Seq(Sessions) /\ DOMAIN m = 1 .. (n + 1) /\ m[n + 1] = c
      /\ \A i \in 1 .. n : m[i] = q[i]
  BY <1>1, AppendProperties, LenProperties DEF Queued
<1>3. \A i \in DOMAIN m :
        \/ i \in DOMAIN q /\ m[i] = q[i]
        \/ i = n + 1 /\ m[i] = c
  <2> HIDE DEF m
  <2>1. QED
    BY <1>1, <1>2
<1>4. \A d \in waiting \cup {c} : \E i \in DOMAIN m : m[i] = d
  <2>1. ASSUME NEW d \in waiting PROVE \E i \in DOMAIN m : m[i] = d
    <3>1. PICK i \in DOMAIN q : q[i] = d
      BY DEF Queued
    <3>2. QED
      <4> HIDE DEF m
      <4>1. QED
        BY <1>1, <1>2, <3>1
  <2>2. \E i \in DOMAIN m : m[i] = c
    <3> HIDE DEF m
    <3>1. QED
      BY <1>1, <1>2
  <2>3. QED
    BY <2>1, <2>2
<1>5. QED
  <2> HIDE DEF m, n
  <2>1. Queued(m, waiting \cup {c})
    BY <1>2, <1>3, <1>4 DEF Queued
  <2>2. QED
    BY <2>1 DEF m

LEMMA QueuedTail ==
  ASSUME NEW q, NEW waiting, NEW c \in waiting, Queued(q, waiting), Head(q) = c
  PROVE  /\ q # << >> /\ Len(q) \in Nat \ {0} /\ DOMAIN q = 1 .. Len(q) /\ q[1] = c
         /\ Queued(Tail(q), waiting \ {c})
<1> DEFINE m == Tail(q)
           n == Len(q)
<1>1. PICK k \in DOMAIN q : q[k] = c
  BY DEF Queued
<1>2. q # << >> /\ n \in Nat \ {0} /\ DOMAIN q = 1 .. n /\ q[1] = c
  BY <1>1, LenProperties, EmptySeq DEF Queued
<1>3. /\ m \in Seq(Sessions) /\ DOMAIN m = 1 .. (n - 1)
      /\ \A i \in 1 .. (n - 1) : m[i] = q[i + 1]
  BY <1>2, HeadTailProperties, LenProperties DEF Queued
<1> HIDE DEF m, n
<1>4. \A i \in DOMAIN m : /\ i \in Nat /\ i + 1 \in DOMAIN q /\ i + 1 # 1 /\ 1 \in DOMAIN q
                         /\ m[i] = q[i + 1]
  BY <1>2, <1>3
<1>5. \A i \in DOMAIN m : m[i] \in waiting \ {c}
  BY <1>2, <1>4 DEF Queued
<1>6. \A i, j \in DOMAIN m : m[i] = m[j] => i = j
  <2>1. SUFFICES ASSUME NEW i \in DOMAIN m, NEW j \in DOMAIN m, m[i] = m[j] PROVE i = j
    OBVIOUS
  <2>2. i + 1 = j + 1
    BY <1>4, <2>1 DEF Queued
  <2>3. QED
    BY <1>4, <2>2
<1>7. ASSUME NEW d \in waiting \ {c} PROVE \E i \in DOMAIN m : m[i] = d
  <2>1. PICK i \in DOMAIN q : q[i] = d
    BY DEF Queued
  <2>2. i - 1 \in DOMAIN m /\ (i - 1) + 1 = i
    BY <1>2, <1>3, <2>1
  <2>3. m[i - 1] = q[i]
    BY <1>3, <2>2
  <2>4. QED
    BY <2>1, <2>2, <2>3
<1>8. Queued(m, waiting \ {c})
  BY <1>3, <1>5, <1>6, <1>7 DEF Queued
<1>9. QED
  BY <1>2, <1>8 DEF m, n

LEMMA WokenWait ==
  ASSUME LockInv, NEW n \in Nodes
  PROVE  /\ \A d \in Woken(lock[n]) : pc[d] = "locking"
         /\ \A d \in Woken(Acquired(lock[n], Nobody)) : pc[d] = "locking"
<1>1. Governs(lock[n], InsideAt(n), WaitingAt(n))
  BY DEF LockInv
<1>2. QED
  BY <1>1, WokenWaits DEF WaitingAt

(* Steps that neither begin nor end a wait for an answer. *)
LEMMA QueuesKept ==
  ASSUME QueueInv, sent' = sent, fetched' = fetched,
         \A d \in Sessions : /\ pc'[d] = "sent" <=> pc[d] = "sent"
                             /\ pc'[d] = "fetched" <=> pc[d] = "fetched"
  PROVE  QueueInv'
<1>1. \A l : SentOn(l)' = SentOn(l)
  BY DEF SentOn
<1>2. \A n : FetchedAt(n)' = FetchedAt(n)
  BY DEF FetchedAt
<1>3. QED
  BY <1>1, <1>2 DEF QueueInv

LEMMA NextQueue == LockInv /\ QueueInv /\ [Next]_vars => QueueInv'
<1> SUFFICES ASSUME LockInv, QueueInv, [Next]_vars PROVE QueueInv'
  OBVIOUS
<1>1. ASSUME NEW c \in Sessions,
             \/ StartMaking(c)
             \/ StartReceiving(c)
             \/ NewQubit(c)
             \/ RefuseQubit(c)
             \/ Entangle(c)
             \/ AddHalf(c)
             \/ RefuseHalf(c)
             \/ StrikeHalf(c)
             \/ Measure(c)
             \/ Measured(c)
             \/ Timeout(c)
      PROVE  QueueInv'
  <2>1. PICK stage : /\ Goto(c, stage) /\ stage \notin {"sent", "fetched"}
                     /\ pc[c] \notin {"sent", "fetched"}
                     /\ UNCHANGED <<sent, fetched>>
    BY <1>1, Zenon DEF StartMaking, StartReceiving, NewQubit, RefuseQubit, Entangle, AddHalf,
       RefuseHalf, StrikeHalf, Measure, Measured, Timeout, Asking, listVars
  <2>2. \A d \in Sessions : pc'[d] = IF d = c THEN stage ELSE pc[d]
    BY <2>1 DEF Goto, LockInv
  <2>3. QED
    BY <2>1, <2>2, QueuesKept
<1>2. ASSUME NEW c \in Sessions, GotQubit(c) \/ QubitRefused(c) PROVE QueueInv'
  <2> DEFINE stage == pc'[c]
  <2>1. /\ GotoAndWake(c, stage, Woken(lock[Home[c]]))
        /\ stage \notin {"sent", "fetched"}
        /\ pc[c] \notin {"sent", "fetched"}
        /\ UNCHANGED <<sent, fetched>>
    <3>1. CASE GotQubit(c)
      BY <3>1 DEF GotQubit, GotoAndWake, Asking, listVars
    <3>2. CASE QubitRefused(c)
      BY <3>2 DEF QubitRefused, GotoAndWake, listVars
    <3>3. QED
      BY <1>2, <3>1, <3>2
  <2> HIDE DEF stage
  <2>2. \A d \in Woken(lock[Home[c]]) : pc[d] = "locking"
    BY WokenWait, EprAssumption
  <2>3. \A d \in Sessions : pc'[d] = IF d = c THEN stage
                                     ELSE IF d \in Woken(lock[Home[c]]) THEN "making" ELSE pc[d]
    BY <2>1 DEF GotoAndWake
  <2>4. QED
    BY <2>1, <2>2, <2>3, QueuesKept
<1>3. ASSUME NEW c \in Sessions, ListHalf(c) PROVE QueueInv'
  <2>1. /\ \A d \in Sessions : pc'[d] = IF d = c THEN "sent" ELSE pc[d]
        /\ pc[c] = "listing"
        /\ sent' = [sent EXCEPT ![Link(c)] = Append(sent[Link(c)], c)]
        /\ fetched' = fetched
    BY <1>3 DEF ListHalf, Goto, LockInv, Link
  <2>2. Link(c) \in Nodes \X Nodes
    BY EprAssumption, SocketFacts DEF Link
  <2>3. Queued(Append(sent[Link(c)], c), SentOn(Link(c)) \cup {c})
    BY <2>1, <2>2, QueuedAppend DEF QueueInv, SentOn
  <2>4. SentOn(Link(c))' = SentOn(Link(c)) \cup {c}
    BY <2>1 DEF SentOn
  <2>5. \A l : l # Link(c) => SentOn(l)' = SentOn(l)
    BY <2>1 DEF SentOn
  <2>6. \A n : FetchedAt(n)' = FetchedAt(n)
    BY <2>1 DEF FetchedAt
  <2>7. QED
    BY <2>1, <2>2, <2>3, <2>4, <2>5, <2>6 DEF QueueInv
<1>4. ASSUME NEW c \in Sessions, PairSent(c) PROVE QueueInv'
  <2> DEFINE stage == IF MorePairs(c) THEN Asking(lock[Home[c]]) ELSE "done"
  <2>1. /\ Goto(c, stage) /\ stage \notin {"sent", "fetched"}
    BY <1>4 DEF PairSent, Asking
  <2> HIDE DEF stage
  <2>2. /\ \A d \in Sessions : pc'[d] = IF d = c THEN stage ELSE pc[d]
        /\ pc[c] = "sent" /\ Head(sent[Link(c)]) = c
        /\ sent' = [sent EXCEPT ![Link(c)] = Tail(sent[Link(c)])]
        /\ fetched' = fetched
    BY <1>4, <2>1 DEF PairSent, Goto, LockInv, Link
  <2>3. Link(c) \in Nodes \X Nodes /\ c \in SentOn(Link(c))
    BY <2>2, SocketFacts DEF Link, SentOn
  <2>4. Queued(Tail(sent[Link(c)]), SentOn(Link(c)) \ {c})
    BY <2>2, <2>3, QueuedTail DEF QueueInv
  <2>5. SentOn(Link(c))' = SentOn(Link(c)) \ {c}
    BY <2>1, <2>2 DEF SentOn
  <2>6. \A l : l # Link(c) => SentOn(l)' = SentOn(l)
    BY <2>1, <2>2 DEF SentOn
  <2>7. \A n : FetchedAt(n)' = FetchedAt(n)
    BY <2>1, <2>2 DEF FetchedAt
  <2>8. QED
    BY <2>2, <2>3, <2>4, <2>5, <2>6, <2>7 DEF QueueInv
<1>5. ASSUME NEW c \in Sessions, Fetch(c) PROVE QueueInv'
  <2>1. /\ \A d \in Sessions : pc'[d] = IF d = c THEN "fetched" ELSE pc[d]
        /\ pc[c] = "polling"
        /\ fetched' = [fetched EXCEPT ![Home[c]] = Append(fetched[Home[c]], c)]
        /\ sent' = sent
    BY <1>5 DEF Fetch, Goto, LockInv
  <2>2. Home[c] \in Nodes
    BY EprAssumption
  <2>3. Queued(Append(fetched[Home[c]], c), FetchedAt(Home[c]) \cup {c})
    BY <2>1, <2>2, QueuedAppend DEF QueueInv, FetchedAt
  <2>4. FetchedAt(Home[c])' = FetchedAt(Home[c]) \cup {c}
    BY <2>1 DEF FetchedAt
  <2>5. \A n : n # Home[c] => FetchedAt(n)' = FetchedAt(n)
    BY <2>1 DEF FetchedAt
  <2>6. \A l : SentOn(l)' = SentOn(l)
    BY <2>1 DEF SentOn
  <2>7. QED
    BY <2>1, <2>2, <2>3, <2>4, <2>5, <2>6 DEF QueueInv
<1>6. ASSUME NEW c \in Sessions, Accept(c) PROVE QueueInv'
  <2> DEFINE woken == Woken(Acquired(lock[Home[c]], Nobody))
  <2>1. PICK stage : /\ stage \notin {"sent", "fetched"}
                     /\ Goto(c, stage) \/ GotoAndWake(c, stage, woken)
    BY <1>6, Zenon DEF Accept
  <2>2. \A d \in woken : pc[d] = "locking"
    BY WokenWait, EprAssumption
  <2>3. /\ pc'[c] = stage
        /\ \A d \in Sessions : d # c => /\ pc'[d] = "sent" <=> pc[d] = "sent"
                                        /\ pc'[d] = "fetched" <=> pc[d] = "fetched"
    <3> HIDE DEF woken
    <3>1. CASE Goto(c, stage)
      BY <3>1 DEF Goto, LockInv
    <3>2. CASE GotoAndWake(c, stage, woken)
      BY <2>2, <3>2 DEF GotoAndWake
    <3>3. QED
      BY <2>1, <3>1, <3>2
  <2>4. /\ pc[c] = "fetched" /\ Head(fetched[Home[c]]) = c
        /\ fetched' = [fetched EXCEPT ![Home[c]] = Tail(fetched[Home[c]])]
        /\ sent' = sent
    BY <1>6 DEF Accept
  <2>5. Home[c] \in Nodes /\ c \in FetchedAt(Home[c])
    BY <2>4, EprAssumption DEF FetchedAt
  <2>6. Queued(Tail(fetched[Home[c]]), FetchedAt(Home[c]) \ {c})
    BY <2>4, <2>5, QueuedTail DEF QueueInv
  <2> HIDE DEF woken
  <2>11. /\ \A d \in Sessions : pc'[d] = "fetched" <=> (d # c /\ pc[d] = "fetched")
         /\ \A d \in Sessions : pc'[d] = "sent" <=> pc[d] = "sent"
    <3>1. pc'[c] # "fetched" /\ pc'[c] # "sent" /\ pc[c] # "sent"
      BY <2>1, <2>3, <2>4
    <3>2. ASSUME NEW d \in Sessions
          PROVE  /\ pc'[d] = "fetched" <=> (d # c /\ pc[d] = "fetched")
                 /\ pc'[d] = "sent" <=> pc[d] = "sent"
      <4>1. CASE d = c
        BY <3>1, <4>1
      <4>2. CASE d # c
        BY <2>3, <4>2
      <4>3. QED
        BY <4>1, <4>2
    <3>3. QED
      BY <3>2
  <2>7. FetchedAt(Home[c])' = FetchedAt(Home[c]) \ {c}
    BY <2>11 DEF FetchedAt
  <2>8. \A n : n # Home[c] => FetchedAt(n)' = FetchedAt(n)
    BY <2>11 DEF FetchedAt
  <2>9. \A l : SentOn(l)' = SentOn(l)
    BY <2>11 DEF SentOn
  <2>10. QED
    BY <2>4, <2>5, <2>6, <2>7, <2>8, <2>9 DEF QueueInv
<1>7. CASE UNCHANGED vars
  BY <1>7, QueuesKept DEF vars
<1>8. QED
  BY <1>1, <1>2, <1>3, <1>4, <1>5, <1>6, <1>7 DEF Next, Start, Step

LEMMA InitQueue == Init => QueueInv
<1> SUFFICES ASSUME Init PROVE QueueInv
  OBVIOUS
<1>1. \A l : SentOn(l) = {}
  BY DEF Init, SentOn
<1>2. \A n : FetchedAt(n) = {}
  BY DEF Init, FetchedAt
<1>3. Queued(<< >>, {})
  BY EmptySeq DEF Queued
<1>4. \A l \in Nodes \X Nodes : sent[l] = << >>
  BY DEF Init
<1>5. \A n \in Nodes : fetched[n] = << >>
  BY DEF Init
<1>6. sent = [l \in Nodes \X Nodes |-> sent[l]] /\ fetched = [n \in Nodes |-> fetched[n]]
  BY DEF Init
<1>7. QED
  BY <1>1, <1>2, <1>3, <1>4, <1>5, <1>6 DEF QueueInv

-----------------------------------------------------------------------------
(* Types.  A step of one session leaves the others as they are, except that *)
(* it may wake one that waits for the lock.                                *)

Same(d) ==
  /\ work'[d] = work[d]
  /\ \/ pc'[d] = pc[d]
     \/ pc[d] = "locking" /\ pc'[d] = "making"

UsedFinite == \A n \in Nodes : IsFiniteSet(used[n])

\* a step of c that is as far as types go
WellTyped(c) ==
  /\ TypeOK'
  /\ UsedFinite'
  /\ \A d \in Sessions : d # c => Same(d)

LEMMA GotoSame ==
  ASSUME TypeOK, NEW c \in Sessions, NEW stage, Goto(c, stage),
         \A d \in Sessions : d # c => work'[d] = work[d]
  PROVE  pc'[c] = stage /\ \A d \in Sessions : d # c => Same(d)
BY DEF Goto, TypeOK, Same

LEMMA WakeSame ==
  ASSUME TypeOK, NEW c \in Sessions, NEW stage, NEW woken, GotoAndWake(c, stage, woken),
         \A d \in woken : pc[d] = "locking",
         \A d \in Sessions : d # c => work'[d] = work[d]
  PROVE  pc'[c] = stage /\ \A d \in Sessions : d # c => Same(d)
BY DEF GotoAndWake, Same

(* A record of local variables is set as a whole. *)
LEMMA WorkSet ==
  ASSUME TypeOK, NEW c \in Sessions, NEW w \in Work, work' = [work EXCEPT ![c] = w]
  PROVE  /\ work' \in [Sessions -> Work]
         /\ work'[c] = w
         /\ \A d \in Sessions : d # c => work'[d] = work[d]
BY DEF TypeOK

LEMMA LockTypes == LockInv => lock \in [Nodes -> [taken : BOOLEAN, queue : Seq(Sessions \cup {Nobody})]]
                             /\ pc \in [Sessions -> Stages]
BY DEF LockInv, Lock

LEMMA EnqueueEffect ==
  ASSUME TypeOK, NEW c \in Sessions, Job[c].kind \in Sides, Enqueue(c)
  PROVE  /\ requests' \in [Sides -> [Sockets -> Seq(Request)]]
         /\ requests'[Job[c].kind][Socket(c)] =
              Append(requests[Job[c].kind][Socket(c)], [session |-> c, left |-> Job[c].pairs])
         /\ \A s \in Sides, y \in Sockets : s # Job[c].kind \/ y # Socket(c) =>
              requests'[s][y] = requests[s][y]
<1> DEFINE side == Job[c].kind
           x == Socket(c)
           new == Append(requests[side][x], [session |-> c, left |-> Job[c].pairs])
<1>1. [session |-> c, left |-> Job[c].pairs] \in Request
  BY SocketFacts DEF Request
<1>2. x \in Sockets /\ requests[side][x] \in Seq(Request)
  BY SocketFacts DEF TypeOK
<1>3. new \in Seq(Request)
  BY <1>1, <1>2, AppendProperties
<1>4. requests' = [requests EXCEPT ![side] = [requests[side] EXCEPT ![x] = new]]
  BY DEF Enqueue, TypeOK
<1>5. QED
  <2> HIDE DEF new, side, x
  <2>1. /\ requests' \in [Sides -> [Sockets -> Seq(Request)]]
        /\ requests'[side][x] = new
        /\ \A s \in Sides, y \in Sockets : s # side \/ y # x => requests'[s][y] = requests[s][y]
    BY <1>2, <1>3, <1>4 DEF TypeOK, side
  <2>2. QED
    BY <2>1 DEF new, side, x

LEMMA StartMakingTyped ==
  ASSUME EprInv, LockInv, LockInv', NEW c \in Sessions, StartMaking(c)
  PROVE  WellTyped(c)
<1>1. TypeOK /\ UsedFinite /\ Home[c] \in Nodes
  BY SocketFacts DEF EprInv, UsedFinite
<1>2. /\ pc[c] = "idle"
      /\ NextPair(c)
      /\ Job[c].kind = "create" => Enqueue(c)
      /\ Job[c].kind # "create" => requests' = requests
      /\ Goto(c, Asking(lock[Home[c]]))
      /\ UNCHANGED <<virt, qubitList, got, slots, nextEnt, timeouts, eprList, sent, fetched>>
  BY DEF StartMaking, listVars
<1>3. /\ work' \in [Sessions -> Work]
      /\ used' \in [Nodes -> SUBSET Nat]
      /\ \A d \in Sessions : d # c => work'[d] = work[d]
      /\ UsedFinite'
  BY <1>1, <1>2, NextPairEffect DEF UsedFinite
<1>4. requests' \in [Sides -> [Sockets -> Seq(Request)]]
  BY <1>1, <1>2, EnqueueEffect DEF Sides, TypeOK
<1>5. \A d \in Sessions : d # c => Same(d)
  BY <1>1, <1>2, <1>3, GotoSame
<1>6. TypeOK'
  BY <1>1, <1>2, <1>3, <1>4, LockTypes DEF TypeOK, LockInv, Lock
<1>7. QED
  BY <1>3, <1>5, <1>6 DEF WellTyped

LEMMA StartReceivingTyped ==
  ASSUME EprInv, LockInv, LockInv', NEW c \in Sessions, StartReceiving(c)
  PROVE  WellTyped(c)
<1>1. TypeOK /\ UsedFinite /\ Home[c] \in Nodes
  BY SocketFacts DEF EprInv, UsedFinite
<1>2. /\ Job[c].kind = "recv"
      /\ NextPair(c)
      /\ Enqueue(c)
      /\ Goto(c, "polling")
      /\ UNCHANGED <<virt, qubitList, lock, got, slots, nextEnt, timeouts, eprList, sent, fetched>>
  BY DEF StartReceiving, listVars
<1>3. /\ work' \in [Sessions -> Work]
      /\ used' \in [Nodes -> SUBSET Nat]
      /\ \A d \in Sessions : d # c => work'[d] = work[d]
      /\ UsedFinite'
  BY <1>1, <1>2, NextPairEffect DEF UsedFinite
<1>4. requests' \in [Sides -> [Sockets -> Seq(Request)]]
  BY <1>1, <1>2, EnqueueEffect DEF Sides
<1>5. \A d \in Sessions : d # c => Same(d)
  BY <1>1, <1>2, <1>3, GotoSame
<1>6. TypeOK'
  BY <1>1, <1>2, <1>3, <1>4, LockTypes DEF TypeOK, LockInv, Lock
<1>7. QED
  BY <1>3, <1>5, <1>6 DEF WellTyped

(* Actions that change only where the session is. *)
LEMMA OnlyPcTyped ==
  ASSUME EprInv, LockInv, LockInv', NEW c \in Sessions,
         \/ RefuseQubit(c)
         \/ QubitRefused(c)
         \/ RefuseHalf(c)
         \/ Timeout(c)
  PROVE  WellTyped(c)
<1>1. TypeOK /\ UsedFinite /\ Home[c] \in Nodes
  BY SocketFacts DEF EprInv, UsedFinite
<1>2. /\ UNCHANGED <<virt, qubitList, used, eprList, sent, fetched, requests, got, slots,
                     nextEnt, work>>
      /\ timeouts' \in 0 .. MaxTimeouts
  BY <1>1, EprAssumption DEF RefuseQubit, QubitRefused, RefuseHalf, Timeout, nodeVars,
     listVars, resultVars, TypeOK
<1>3. \A d \in Sessions : d # c => Same(d)
  <2>1. CASE QubitRefused(c)
    BY <1>1, <1>2, <2>1, WakeSame, WokenWait DEF QubitRefused
  <2>2. CASE RefuseQubit(c) \/ RefuseHalf(c) \/ Timeout(c)
    BY <1>1, <1>2, <2>2, GotoSame DEF RefuseQubit, RefuseHalf, Timeout
  <2>3. QED
    BY <2>1, <2>2
<1>4. TypeOK'
  BY <1>1, <1>2, LockTypes DEF TypeOK, LockInv, Lock
<1>5. UsedFinite'
  BY <1>1, <1>2 DEF UsedFinite
<1>6. QED
  BY <1>3, <1>4, <1>5 DEF WellTyped

LEMMA HalfTyped ==
  ASSUME TypeOK, NEW c \in Sessions, NEW h \in {0, 1}
  PROVE  HalfOf(c, h) \in Halves /\ PairOf(c) \in Pairs /\ work[c] \in Work
         /\ work[c].half \in {0, 1} /\ work[c].addr \in Nat /\ Address(c, h) \in Int
         /\ work[c].ent \in Nat /\ work[c].pair \in Nat /\ work[c].num \in Nat \cup {NoNum}
BY DEF TypeOK, Work, HalfOf, PairOf, Halves, Pairs, Address

LEMMA VirtTyped ==
  ASSUME EprInv, LockInv, LockInv', NEW c \in Sessions,
         \/ NewQubit(c)
         \/ AddHalf(c)
         \/ StrikeHalf(c)
         \/ Measure(c)
  PROVE  WellTyped(c)
<1>1. TypeOK /\ UsedFinite /\ Home[c] \in Nodes /\ Target(c) \in Nodes
      /\ IsFiniteSet(virt[Home[c]]) /\ IsFiniteSet(virt[Target(c)])
  BY SocketFacts DEF EprInv, UsedFinite, Held
<1>2. /\ UNCHANGED <<qubitList, used, eprList, sent, fetched, requests, got, slots,
                     nextEnt, timeouts>>
  BY DEF NewQubit, AddHalf, StrikeHalf, Measure, listVars, resultVars
<1>3. /\ virt' \in [Nodes -> SUBSET (Nat \X Halves)]
      /\ work' \in [Sessions -> Work]
      /\ \A d \in Sessions : d # c => work'[d] = work[d]
  <2>1. CASE NewQubit(c)
    <3>1. <<NewNum(Home[c]), HalfOf(c, work[c].half)>> \in Nat \X Halves
      BY <1>1, NewNumFree, HalfTyped
    <3>2. virt' = [virt EXCEPT ![Home[c]] = virt[Home[c]] \cup {<<NewNum(Home[c]), HalfOf(c, work[c].half)>>}]
      BY <2>1 DEF NewQubit
    <3>3. virt' \in [Nodes -> SUBSET (Nat \X Halves)]
      BY <1>1, <3>1, <3>2 DEF TypeOK
    <3>4. work' = work
      BY <2>1 DEF NewQubit
    <3>5. QED
      BY <1>1, <3>3, <3>4 DEF TypeOK
  <2>2. CASE AddHalf(c)
    <3>1. NewNum(Target(c)) \in Nat /\ <<NewNum(Target(c)), HalfOf(c, 1)>> \in Nat \X Halves
      BY <1>1, NewNumFree, HalfTyped
    <3>2. virt' = [virt EXCEPT ![Target(c)] = virt[Target(c)] \cup {<<NewNum(Target(c)), HalfOf(c, 1)>>}]
      BY <2>2 DEF AddHalf
    <3>3. virt' \in [Nodes -> SUBSET (Nat \X Halves)]
      BY <1>1, <3>1, <3>2 DEF TypeOK
    <3>4. work' = [work EXCEPT ![c] = [work[c] EXCEPT !.num = NewNum(Target(c))]]
      BY <1>1, <2>2 DEF AddHalf, TypeOK
    <3>5. [work[c] EXCEPT !.num = NewNum(Target(c))] \in Work
      BY <1>1, <3>1, WorkUpdated, HalfTyped
    <3>6. QED
      BY <1>1, <3>3, <3>4, <3>5, WorkSet
  <2>3. CASE StrikeHalf(c) \/ Measure(c)
    <3>1. PICK q : virt' = Drop(Home[c], q) /\ work' = work
      BY <2>3 DEF StrikeHalf, Measure
    <3>2. virt' = [virt EXCEPT ![Home[c]] = {v \in virt[Home[c]] : v[2] # q}]
      BY <1>1, <3>1 DEF Drop, TypeOK
    <3>3. virt' \in [Nodes -> SUBSET (Nat \X Halves)]
      BY <1>1, <3>2 DEF TypeOK
    <3>4. QED
      BY <1>1, <3>1, <3>3 DEF TypeOK
  <2>4. QED
    BY <2>1, <2>2, <2>3
<1>4. \A d \in Sessions : d # c => Same(d)
  BY <1>1, <1>3, GotoSame DEF NewQubit, AddHalf, StrikeHalf, Measure
<1>5. TypeOK'
  BY <1>1, <1>2, <1>3, LockTypes DEF TypeOK, LockInv, Lock
<1>6. UsedFinite'
  BY <1>1, <1>2 DEF UsedFinite
<1>7. QED
  BY <1>4, <1>5, <1>6 DEF WellTyped

LEMMA EntangleTyped ==
  ASSUME EprInv, LockInv, LockInv', NEW c \in Sessions, Entangle(c)
  PROVE  WellTyped(c)
<1>1. TypeOK /\ UsedFinite /\ Socket(c) \in Sockets /\ nextEnt[Socket(c)] \in Nat
  BY SocketFacts DEF EprInv, UsedFinite, TypeOK
<1>2. UNCHANGED <<virt, qubitList, used, eprList, sent, fetched, requests, got, slots, timeouts>>
  BY DEF Entangle, nodeVars, listVars, resultVars
<1>3. work' = [work EXCEPT ![c] = [work[c] EXCEPT !.ent = nextEnt[Socket(c)], !.half = 0]]
  BY <1>1 DEF Entangle, TypeOK
<1>4. [work[c] EXCEPT !.ent = nextEnt[Socket(c)], !.half = 0] \in Work
  BY <1>1, WorkUpdated, HalfTyped
<1>5. work' \in [Sessions -> Work] /\ \A d \in Sessions : d # c => work'[d] = work[d]
  BY <1>1, <1>3, <1>4, WorkSet
<1>6. nextEnt' \in [Sockets -> Nat]
  BY <1>1 DEF Entangle, TypeOK
<1>7. \A d \in Sessions : d # c => Same(d)
  BY <1>1, <1>5, GotoSame DEF Entangle
<1>8. TypeOK'
  BY <1>1, <1>2, <1>5, <1>6, LockTypes DEF TypeOK, LockInv, Lock
<1>9. UsedFinite'
  BY <1>1, <1>2 DEF UsedFinite
<1>10. QED
  BY <1>7, <1>8, <1>9 DEF WellTyped

LEMMA GotQubitTyped ==
  ASSUME EprInv, LockInv, LockInv', NEW c \in Sessions, GotQubit(c)
  PROVE  WellTyped(c)
<1> DEFINE h == work[c].half
           half == IF Job[c].kind = "create" /\ h = 0 THEN 1 ELSE 0
           n == Home[c]
<1>1. TypeOK /\ UsedFinite /\ Home[c] \in Nodes
  BY SocketFacts DEF EprInv, UsedFinite
<1>2. UNCHANGED <<virt, used, eprList, sent, fetched, requests, got, slots, nextEnt, timeouts>>
  BY DEF GotQubit, listVars, resultVars
<1>3. work' = [work EXCEPT ![c] = [work[c] EXCEPT !.half = half]]
  BY <1>1 DEF GotQubit, TypeOK
<1>4. [work[c] EXCEPT !.half = half] \in Work
  BY <1>1, WorkUpdated, HalfTyped
<1>5. work' \in [Sessions -> Work] /\ \A d \in Sessions : d # c => work'[d] = work[d]
  <2> HIDE DEF half
  <2>1. QED
    BY <1>1, <1>3, <1>4, WorkSet
<1>6. qubitList' \in [Nodes -> SUBSET (Int \X Halves)]
  <2>1. qubitList' = [qubitList EXCEPT ![n] = Others(n, Address(c, h)) \cup {<<Address(c, h), HalfOf(c, h)>>}]
    BY DEF GotQubit
  <2>2. <<Address(c, h), HalfOf(c, h)>> \in Int \X Halves
    BY <1>1, HalfTyped
  <2>3. Others(n, Address(c, h)) \subseteq qubitList[n]
    BY DEF Others
  <2>4. QED
    <3> HIDE DEF h
    <3>1. QED
      BY <1>1, <2>1, <2>2, <2>3 DEF TypeOK
<1>7. \A d \in Sessions : d # c => Same(d)
  <2>1. PICK stage : GotoAndWake(c, stage, Woken(lock[Home[c]]))
    BY DEF GotQubit
  <2>2. QED
    BY <1>1, <1>5, <2>1, WakeSame, WokenWait
<1>8. TypeOK'
  BY <1>1, <1>2, <1>5, <1>6, LockTypes DEF TypeOK, LockInv, Lock
<1>9. UsedFinite'
  BY <1>1, <1>2 DEF UsedFinite
<1>10. QED
  BY <1>7, <1>8, <1>9 DEF WellTyped

LEMMA MeasuredTyped ==
  ASSUME EprInv, LockInv, LockInv', NEW c \in Sessions, Measured(c)
  PROVE  WellTyped(c)
<1> DEFINE n == Home[c]
<1>1. TypeOK /\ UsedFinite /\ Home[c] \in Nodes
  BY SocketFacts DEF EprInv, UsedFinite
<1>2. UNCHANGED <<virt, eprList, sent, fetched, requests, got, slots, nextEnt, timeouts>>
  BY DEF Measured, listVars, resultVars
<1>3. work' = [work EXCEPT ![c] = [work[c] EXCEPT !.half = 1, !.num = NoNum]]
  BY <1>1 DEF Measured, TypeOK
<1>4. [work[c] EXCEPT !.half = 1, !.num = NoNum] \in Work
  BY <1>1, WorkUpdated, HalfTyped
<1>5. work' \in [Sessions -> Work] /\ \A d \in Sessions : d # c => work'[d] = work[d]
  BY <1>1, <1>3, <1>4, WorkSet
<1>6. qubitList' \in [Nodes -> SUBSET (Int \X Halves)]
  <2>1. PICK a : qubitList' = [qubitList EXCEPT ![n] = Others(n, a)]
    BY DEF Measured
  <2>2. Others(n, a) \subseteq qubitList[n]
    BY DEF Others
  <2>3. QED
    BY <1>1, <2>1, <2>2 DEF TypeOK
<1>7. used' \in [Nodes -> SUBSET Nat] /\ UsedFinite'
  <2>1. PICK s \in SUBSET used[n] : used' = [used EXCEPT ![n] = s]
    BY DEF Measured
  <2>2. IsFiniteSet(s)
    BY <1>1, <2>1, FS_Subset DEF UsedFinite
  <2>3. QED
    BY <1>1, <2>1, <2>2 DEF TypeOK, UsedFinite
<1>8. \A d \in Sessions : d # c => Same(d)
  <2>1. PICK stage : Goto(c, stage)
    BY DEF Measured
  <2>2. QED
    BY <1>1, <1>5, <2>1, GotoSame
<1>9. TypeOK'
  BY <1>1, <1>2, <1>5, <1>6, <1>7, LockTypes DEF TypeOK, LockInv, Lock
<1>10. QED
  BY <1>7, <1>8, <1>9 DEF WellTyped

LEMMA ListHalfTyped ==
  ASSUME EprInv, LockInv, LockInv', NEW c \in Sessions, ListHalf(c)
  PROVE  WellTyped(c)
<1> DEFINE x == Peer[Socket(c)]
           link == <<Home[c], Target(c)>>
           e == [num |-> work[c].num, ent |-> work[c].ent, pair |-> PairOf(c)]
<1>1. TypeOK /\ UsedFinite /\ x \in Sockets /\ link \in Nodes \X Nodes
  BY SocketFacts DEF EprInv, UsedFinite
<1>2. UNCHANGED <<virt, qubitList, used, fetched, requests, got, slots, nextEnt, work, timeouts>>
  BY DEF ListHalf, nodeVars, resultVars
<1>3. e \in Entry
  BY <1>1, HalfTyped DEF Entry
<1>4. eprList' = [eprList EXCEPT ![x] = Append(eprList[x], e)]
      /\ sent' = [sent EXCEPT ![link] = Append(sent[link], c)]
  BY DEF ListHalf
<1>5. eprList' \in [Sockets -> Seq(Entry)]
  <2> HIDE DEF e, x
  <2>1. Append(eprList[x], e) \in Seq(Entry)
    BY <1>1, <1>3, AppendProperties DEF TypeOK
  <2>2. QED
    BY <1>1, <1>4, <2>1 DEF TypeOK
<1>6. sent' \in [Nodes \X Nodes -> Seq(Sessions)]
  <2> HIDE DEF link
  <2>1. Append(sent[link], c) \in Seq(Sessions)
    BY <1>1, AppendProperties DEF TypeOK
  <2>2. QED
    BY <1>1, <1>4, <2>1 DEF TypeOK
<1>7. \A d \in Sessions : d # c => Same(d)
  BY <1>1, <1>2, GotoSame DEF ListHalf
<1>8. TypeOK'
  BY <1>1, <1>2, <1>5, <1>6, LockTypes DEF TypeOK, LockInv, Lock
<1>9. UsedFinite'
  BY <1>1, <1>2 DEF UsedFinite
<1>10. QED
  BY <1>7, <1>8, <1>9 DEF WellTyped

(* The oldest entry of a list leads to the half it was made for. *)
LEMMA HeadListed ==
  ASSUME EprInv, NEW x \in Sockets, eprList[x] # << >>
  PROVE  LET e == Head(eprList[x])
         IN  /\ e \in Entry /\ e = eprList[x][1]
             /\ Len(eprList[x]) \in Nat \ {0} /\ DOMAIN eprList[x] = 1 .. Len(eprList[x])
             /\ Comes(e.pair, x)
             /\ e.num = NoNum <=> Job[e.pair[1]].type = "M"
             /\ e.num # NoNum =>
                  /\ HeldAs(x[1], e.pair, e.num)
                  /\ \E v \in virt[x[1]] :
                       /\ v = CHOOSE w \in virt[x[1]] : w[1] = e.num
                       /\ v[1] = e.num
                       /\ v[2] = <<e.pair[1], e.pair[2], 1>>
<1> DEFINE e == Head(eprList[x])
<1>1. /\ e \in Entry /\ e = eprList[x][1]
      /\ Len(eprList[x]) \in Nat \ {0} /\ DOMAIN eprList[x] = 1 .. Len(eprList[x])
  BY HeadTailProperties, EmptySeq, LenProperties DEF EprInv, TypeOK
<1>2. 1 \in DOMAIN eprList[x] /\ Listed(x)
  BY <1>1 DEF EprInv
<1>3. /\ Comes(e.pair, x)
      /\ e.num = NoNum <=> Job[e.pair[1]].type = "M"
      /\ e.num # NoNum => HeldAs(x[1], e.pair, e.num)
  BY <1>1, <1>2 DEF Listed
<1>4. ASSUME e.num # NoNum
      PROVE  \E v \in virt[x[1]] :
               /\ v = CHOOSE w \in virt[x[1]] : w[1] = e.num
               /\ v[1] = e.num
               /\ v[2] = <<e.pair[1], e.pair[2], 1>>
  <2> DEFINE u == <<e.num, <<e.pair[1], e.pair[2], 1>>>>
             v == CHOOSE w \in virt[x[1]] : w[1] = e.num
  <2>1. u \in virt[x[1]] /\ u[1] = e.num /\ u[2] = <<e.pair[1], e.pair[2], 1>>
    BY <1>3, <1>4 DEF HeldAs
  <2>2. \E w \in virt[x[1]] : w[1] = e.num
    <3> HIDE DEF u, e
    <3>1. QED
      BY <2>1
  <2>3. v \in virt[x[1]] /\ v[1] = e.num
    <3> HIDE DEF u, e
    <3>1. QED
      BY <2>2
  <2>4. x[1] \in Nodes /\ Held(x[1])
    BY DEF Sockets, EprInv
  <2>5. v[2] = u[2]
    <3> HIDE DEF u, e, v
    <3>1. QED
      BY <2>1, <2>3, <2>4 DEF Held
  <2>6. QED
    <3> HIDE DEF u, e
    <3>1. QED
      BY <2>1, <2>3, <2>5
<1>5. QED
  <2> HIDE DEF e
  <2>1. QED
    BY <1>1, <1>3, <1>4 DEF e

\* what a poll brings
FetchedWork(c) ==
  LET e == Head(eprList[Socket(c)])
  IN  [work[c] EXCEPT !.gotPair = e.pair, !.gotEnt = e.ent,
                      !.gotQubit = IF e.num = NoNum THEN work[c].gotQubit
                                   ELSE <<e.pair[1], e.pair[2], 1>>]

LEMMA FetchedWorkTyped ==
  ASSUME EprInv, NEW c \in Sessions, Fetch(c)
  PROVE  /\ FetchedWork(c) \in Work
         /\ work' = [work EXCEPT ![c] = FetchedWork(c)]
<1> DEFINE x == Socket(c)
           e == Head(eprList[x])
           v == CHOOSE w \in virt[x[1]] : w[1] = e.num
           q == IF e.num = NoNum THEN work[c].gotQubit ELSE <<e.pair[1], e.pair[2], 1>>
<1>1. TypeOK /\ x \in Sockets /\ eprList[x] # << >> /\ x[1] = Home[c] /\ work[c] \in Work
  BY SocketFacts DEF EprInv, Fetch, TypeOK
<1>2. /\ e \in Entry
      /\ e.num # NoNum => v[2] = <<e.pair[1], e.pair[2], 1>>
  BY <1>1, HeadListed
<1>3. e.pair \in Pairs /\ e.ent \in Nat /\ q \in Halves
  <2> HIDE DEF e
  <2>1. e.pair \in Pairs /\ e.ent \in Nat
    BY <1>2 DEF Entry
  <2>2. <<e.pair[1], e.pair[2], 1>> \in Halves
    BY <2>1 DEF Pairs, Halves
  <2>3. work[c].gotQubit \in Halves
    BY <1>1 DEF Work
  <2>4. QED
    BY <2>1, <2>2, <2>3
<1>4. FetchedWork(c) \in Work
  <2> HIDE DEF e, q
  <2>1. [work[c] EXCEPT !.gotPair = e.pair, !.gotEnt = e.ent, !.gotQubit = q] \in Work
    BY <1>1, <1>3, WorkUpdated
  <2>2. QED
    BY <2>1 DEF FetchedWork, e, q
<1>5. work' = [work EXCEPT ![c] = [work[c] EXCEPT !.gotPair = e.pair, !.gotEnt = e.ent,
                 !.gotQubit = IF e.num = NoNum THEN work[c].gotQubit ELSE v[2]]]
  <2> DEFINE w == CHOOSE w \in virt[Home[c]] : w[1] = e.num
  <2>1. w = v
    BY <1>1
  <2>2. work' = [work EXCEPT ![c].gotPair = e.pair, ![c].gotEnt = e.ent,
                   ![c].gotQubit = IF e.num = NoNum THEN @ ELSE w[2]]
    BY DEF Fetch
  <2> HIDE DEF v, w, e
  <2>3. QED
    BY <1>1, <2>1, <2>2 DEF TypeOK
<1>6. (IF e.num = NoNum THEN work[c].gotQubit ELSE v[2]) = q
  BY <1>2
<1>7. QED
  <2> HIDE DEF e, v
  <2>1. QED
    BY <1>4, <1>5, <1>6 DEF FetchedWork, e

LEMMA FetchTyped ==
  ASSUME EprInv, LockInv, LockInv', NEW c \in Sessions, Fetch(c)
  PROVE  WellTyped(c)
<1> DEFINE x == Socket(c)
<1>1. TypeOK /\ UsedFinite /\ x \in Sockets /\ Home[c] \in Nodes
  BY SocketFacts DEF EprInv, UsedFinite
<1>2. UNCHANGED <<virt, qubitList, used, sent, requests, got, slots, nextEnt, timeouts>>
  BY DEF Fetch, nodeVars, resultVars
<1>3. work' \in [Sessions -> Work] /\ \A d \in Sessions : d # c => work'[d] = work[d]
  BY <1>1, FetchedWorkTyped, WorkSet
<1>4. eprList' \in [Sockets -> Seq(Entry)]
  <2>1. eprList[x] # << >> /\ eprList' = [eprList EXCEPT ![x] = Tail(eprList[x])]
    BY DEF Fetch
  <2>2. Tail(eprList[x]) \in Seq(Entry)
    BY <1>1, <2>1, HeadTailProperties DEF TypeOK
  <2>3. QED
    BY <1>1, <2>1, <2>2 DEF TypeOK
<1>5. fetched' \in [Nodes -> Seq(Sessions)]
  <2>1. fetched' = [fetched EXCEPT ![Home[c]] = Append(fetched[Home[c]], c)]
    BY DEF Fetch
  <2>2. Append(fetched[Home[c]], c) \in Seq(Sessions)
    BY <1>1, AppendProperties DEF TypeOK
  <2>3. QED
    BY <1>1, <2>1, <2>2 DEF TypeOK
<1>6. \A d \in Sessions : d # c => Same(d)
  BY <1>1, <1>3, GotoSame DEF Fetch
<1>7. TypeOK'
  BY <1>1, <1>2, <1>3, <1>4, <1>5, LockTypes DEF TypeOK, LockInv, Lock
<1>8. UsedFinite'
  BY <1>1, <1>2 DEF UsedFinite
<1>9. QED
  BY <1>6, <1>7, <1>8 DEF WellTyped

(* Whoever has a pair to report finds a request. *)
LEMMA RequestThere ==
  ASSUME EprInv, NEW c \in Sessions, Job[c].kind \in Sides, pc[c] \notin {"idle", "done"}
  PROVE  /\ requests[Job[c].kind][Socket(c)] # << >>
         /\ PairOf(c) \in Owed(Job[c].kind, Socket(c))
<1> DEFINE side == Job[c].kind
           x == Socket(c)
           q == requests[side][x]
<1>1. x \in Sockets /\ work[c].pair \in 1 .. Job[c].pairs /\ PairOf(c) \in Pairs
      /\ Job[c].pairs \in Nat
  BY SocketFacts, HalfTyped DEF EprInv, Staged
<1>2. PairOf(c) \in Owed(side, x)
  BY <1>1 DEF Owed, PairOf
<1>3. Requested(side, x)
  BY <1>1 DEF EprInv
<1>4. Cardinality(Owed(side, x)) # 0
  BY <1>2, <1>3, FS_EmptySet DEF Requested
<1>5. Left(q) # {}
  BY <1>3, <1>4, FS_EmptySet DEF Requested
<1>6. Left(<< >>) = {}
  BY DEF Left
<1>7. QED
  BY <1>2, <1>5, <1>6

LEMMA PairSentTyped ==
  ASSUME EprInv, LockInv, LockInv', QueueInv', NEW c \in Sessions, PairSent(c)
  PROVE  WellTyped(c)
<1> DEFINE n == Home[c]
<1>1. TypeOK /\ UsedFinite /\ Home[c] \in Nodes /\ Socket(c) \in Sockets
  BY SocketFacts DEF EprInv, UsedFinite
<1>2. /\ pc[c] = "sent"
      /\ NextPair(c)
      /\ Respond("create", Socket(c), PairOf(c), work[c].ent, work[c].addr)
      /\ UNCHANGED <<virt, eprList, fetched, nextEnt, timeouts>>
  BY DEF PairSent
<1>3. Job[c].kind = "create"
  BY <1>2, SocketFacts DEF EprInv, Staged, Kinds
<1>4. requests["create"][Socket(c)] # << >>
  BY <1>2, <1>3, RequestThere DEF Sides
<1>5. PairOf(c) \in Pairs /\ work[c].ent \in Nat /\ work[c].addr \in Nat
  BY <1>1, HalfTyped
<1>6. /\ requests' \in [Sides -> [Sockets -> Seq(Request)]]
      /\ got' \in [Sessions -> Seq(Result)]
      /\ slots' \in [Sides -> [Sockets -> Seq(Slot)]]
  BY <1>1, <1>2, <1>4, <1>5, RespondEffect DEF Sides
<1>7. /\ work' \in [Sessions -> Work]
      /\ used' \in [Nodes -> SUBSET Nat]
      /\ \A d \in Sessions : d # c => work'[d] = work[d]
      /\ UsedFinite'
  BY <1>1, <1>2, NextPairEffect DEF UsedFinite
<1>8. qubitList' \in [Nodes -> SUBSET (Int \X Halves)]
  <2>1. qubitList' = [qubitList EXCEPT ![n] = Others(n, Address(c, 1))]
    BY DEF PairSent
  <2>2. Others(n, Address(c, 1)) \subseteq qubitList[n]
    BY DEF Others
  <2>3. QED
    BY <1>1, <2>1, <2>2 DEF TypeOK
<1>9. sent' \in [Nodes \X Nodes -> Seq(Sessions)]
  BY DEF QueueInv, Queued
<1>10. \A d \in Sessions : d # c => Same(d)
  <2>1. PICK stage : Goto(c, stage)
    BY DEF PairSent
  <2>2. QED
    BY <1>1, <1>7, <2>1, GotoSame
<1>11. TypeOK'
  BY <1>1, <1>2, <1>6, <1>7, <1>8, <1>9, LockTypes DEF TypeOK, LockInv, Lock
<1>12. QED
  BY <1>7, <1>10, <1>11 DEF WellTyped

LEMMA AcceptTyped ==
  ASSUME EprInv, LockInv, LockInv', QueueInv', NEW c \in Sessions, Accept(c)
  PROVE  WellTyped(c)
<1> DEFINE n == Home[c]
           woken == Woken(Acquired(lock[n], Nobody))
           stage == IF MorePairs(c) THEN "polling" ELSE "done"
<1>1. TypeOK /\ UsedFinite /\ Home[c] \in Nodes /\ Socket(c) \in Sockets
  BY SocketFacts DEF EprInv, UsedFinite
<1>2. /\ pc[c] = "fetched"
      /\ NextPair(c)
      /\ Respond("recv", Socket(c), work[c].gotPair, work[c].gotEnt, work[c].addr)
      /\ UNCHANGED <<virt, eprList, sent, nextEnt, timeouts>>
  BY DEF Accept
<1>3. Job[c].kind = "recv"
  BY <1>2 DEF EprInv, Staged
<1>4. requests["recv"][Socket(c)] # << >>
  BY <1>2, <1>3, RequestThere DEF Sides
<1>5. work[c].gotPair \in Pairs /\ work[c].gotEnt \in Nat /\ work[c].addr \in Nat
      /\ work[c].gotQubit \in Halves
  BY <1>1 DEF TypeOK, Work
<1>6. /\ requests' \in [Sides -> [Sockets -> Seq(Request)]]
      /\ got' \in [Sessions -> Seq(Result)]
      /\ slots' \in [Sides -> [Sockets -> Seq(Slot)]]
  BY <1>1, <1>2, <1>4, <1>5, RespondEffect DEF Sides
<1>7. /\ work' \in [Sessions -> Work]
      /\ used' \in [Nodes -> SUBSET Nat]
      /\ \A d \in Sessions : d # c => work'[d] = work[d]
      /\ UsedFinite'
  BY <1>1, <1>2, NextPairEffect DEF UsedFinite
<1>8. qubitList' \in [Nodes -> SUBSET (Int \X Halves)]
  <2>1. CASE IsMeasured(c)
    BY <1>1, <2>1 DEF Accept, TypeOK
  <2>2. CASE ~IsMeasured(c)
    <3>1. qubitList' = [qubitList EXCEPT ![n] =
            Others(n, work[c].addr) \cup {<<work[c].addr, work[c].gotQubit>>}]
      BY <2>2 DEF Accept
    <3>2. Others(n, work[c].addr) \subseteq qubitList[n]
      BY DEF Others
    <3>3. <<work[c].addr, work[c].gotQubit>> \in Int \X Halves
      BY <1>5
    <3>4. QED
      BY <1>1, <3>1, <3>2, <3>3 DEF TypeOK
  <2>3. QED
    BY <2>1, <2>2
<1>9. fetched' \in [Nodes -> Seq(Sessions)]
  BY DEF QueueInv, Queued
<1>10. \A d \in Sessions : d # c => Same(d)
  <2>1. Goto(c, stage) \/ GotoAndWake(c, stage, woken)
    BY DEF Accept
  <2> HIDE DEF stage
  <2>2. CASE Goto(c, stage)
    BY <1>1, <1>7, <2>2, GotoSame
  <2>3. CASE GotoAndWake(c, stage, woken)
    BY <1>1, <1>7, <2>3, WakeSame, WokenWait
  <2>4. QED
    BY <2>1, <2>2, <2>3
<1>11. TypeOK'
  BY <1>1, <1>2, <1>6, <1>7, <1>8, <1>9, LockTypes DEF TypeOK, LockInv, Lock
<1>12. QED
  BY <1>7, <1>10, <1>11 DEF WellTyped

Acts(c) == Start(c) \/ Step(c) \/ Timeout(c)

LEMMA ActsTyped ==
  ASSUME EprInv, LockInv, LockInv', QueueInv', NEW c \in Sessions, Acts(c)
  PROVE  WellTyped(c)
<1>1. CASE Start(c)
  BY <1>1, StartMakingTyped, StartReceivingTyped DEF Start
<1>2. CASE Step(c)
  BY <1>2, OnlyPcTyped, VirtTyped, EntangleTyped, GotQubitTyped, MeasuredTyped,
     ListHalfTyped, FetchTyped, PairSentTyped, AcceptTyped DEF Step
<1>3. CASE Timeout(c)
  BY <1>3, OnlyPcTyped
<1>4. QED
  BY <1>1, <1>2, <1>3 DEF Acts

-----------------------------------------------------------------------------
(* Where the actions take a session, and its local variables with it.      *)

\* what only the next pair changes
SamePair(c) ==
  work'[c].pair = work[c].pair /\ work'[c].addr = work[c].addr

LEMMA Moves ==
  ASSUME TypeOK, UsedFinite, NEW c \in Sessions
  PROVE  /\ StartMaking(c) \/ StartReceiving(c) =>
              pc[c] = "idle" /\ NextPair(c) /\ pc'[c] \in {"locking", "making", "polling"}
         /\ StartMaking(c) => Job[c].kind # "recv" /\ pc'[c] # "polling"
         /\ StartReceiving(c) => Job[c].kind = "recv" /\ pc'[c] = "polling"
         /\ NewQubit(c) => pc[c] = "making" /\ pc'[c] = "made" /\ work' = work
         /\ RefuseQubit(c) => pc[c] = "making" /\ pc'[c] = "refused" /\ work' = work
         /\ QubitRefused(c) => pc[c] = "refused" /\ pc'[c] = "failed" /\ work' = work
         /\ RefuseHalf(c) => pc[c] = "sending" /\ pc'[c] = "failed" /\ work' = work
         /\ StrikeHalf(c) => pc[c] = "striking" /\ pc'[c] = "listing" /\ work' = work
         /\ ListHalf(c) => pc[c] = "listing" /\ pc'[c] = "sent" /\ work' = work
         /\ Measure(c) => pc[c] = "measuring" /\ pc'[c] = "measured" /\ work' = work
         /\ Timeout(c) => pc[c] = "polling" /\ pc'[c] = "failed" /\ work' = work
         /\ PairSent(c) => pc[c] = "sent" /\ NextPair(c)
                           /\ pc'[c] \in IF MorePairs(c) THEN {"locking", "making"} ELSE {"done"}
         /\ Accept(c) => pc[c] = "fetched" /\ NextPair(c)
                         /\ pc'[c] = IF MorePairs(c) THEN "polling" ELSE "done"
<1>2. \A stage : Goto(c, stage) => pc'[c] = stage
  BY DEF Goto, TypeOK
<1>3. \A stage, woken : GotoAndWake(c, stage, woken) => pc'[c] = stage
  BY DEF GotoAndWake
<1>4. StartMaking(c) => pc[c] = "idle" /\ NextPair(c) /\ pc'[c] \in {"locking", "making"}
                        /\ Job[c].kind # "recv"
  BY <1>2 DEF StartMaking, Asking
<1>5. StartReceiving(c) => pc[c] = "idle" /\ NextPair(c) /\ pc'[c] = "polling"
                           /\ Job[c].kind = "recv"
  BY <1>2 DEF StartReceiving
<1>6. /\ NewQubit(c) => pc[c] = "making" /\ pc'[c] = "made" /\ work' = work
      /\ RefuseQubit(c) => pc[c] = "making" /\ pc'[c] = "refused" /\ work' = work
      /\ QubitRefused(c) => pc[c] = "refused" /\ pc'[c] = "failed" /\ work' = work
      /\ RefuseHalf(c) => pc[c] = "sending" /\ pc'[c] = "failed" /\ work' = work
      /\ StrikeHalf(c) => pc[c] = "striking" /\ pc'[c] = "listing" /\ work' = work
  BY <1>2, <1>3 DEF NewQubit, RefuseQubit, QubitRefused, RefuseHalf, StrikeHalf
<1>7. /\ ListHalf(c) => pc[c] = "listing" /\ pc'[c] = "sent" /\ work' = work
      /\ Measure(c) => pc[c] = "measuring" /\ pc'[c] = "measured" /\ work' = work
      /\ Timeout(c) => pc[c] = "polling" /\ pc'[c] = "failed" /\ work' = work
  BY <1>2, <1>3 DEF ListHalf, Measure, Timeout
<1>8. PairSent(c) => pc[c] = "sent" /\ NextPair(c)
                     /\ pc'[c] \in IF MorePairs(c) THEN {"locking", "making"} ELSE {"done"}
  BY <1>2 DEF PairSent, Asking
<1>9. Accept(c) => pc[c] = "fetched" /\ NextPair(c)
                   /\ pc'[c] = IF MorePairs(c) THEN "polling" ELSE "done"
  <2> SUFFICES ASSUME Accept(c)
               PROVE  pc'[c] = IF MorePairs(c) THEN "polling" ELSE "done"
    BY DEF Accept
  <2> DEFINE stage == IF MorePairs(c) THEN "polling" ELSE "done"
             woken == Woken(Acquired(lock[Home[c]], Nobody))
  <2>1. Goto(c, stage) \/ GotoAndWake(c, stage, woken)
    BY DEF Accept
  <2>2. QED
    <3> HIDE DEF stage, woken
    <3>1. pc'[c] = stage
      BY <1>2, <1>3, <2>1
    <3>2. QED
      BY <3>1 DEF stage
<1>10. QED
  BY <1>4, <1>5, <1>6, <1>7, <1>8, <1>9

(* Actions that change the local variables. *)
LEMMA WorkMoves ==
  ASSUME TypeOK, NEW c \in Sessions
  PROVE  /\ GotQubit(c) =>
              /\ pc[c] = "made" /\ SamePair(c) /\ work'[c].num = work[c].num
              /\ Job[c].kind = "create" /\ work[c].half = 0 =>
                   work'[c].half = 1 /\ pc'[c] \in {"locking", "making"}
              /\ ~(Job[c].kind = "create" /\ work[c].half = 0) =>
                   /\ work'[c].half = 0
                   /\ pc'[c] = IF Job[c].kind = "create" THEN "entangling" ELSE "measuring"
         /\ Entangle(c) =>
              /\ pc[c] = "entangling" /\ SamePair(c) /\ work'[c].num = work[c].num
              /\ work'[c].half = 0 /\ work'[c].ent = nextEnt[Socket(c)]
              /\ pc'[c] = IF Job[c].type = "K" THEN "sending" ELSE "measuring"
         /\ AddHalf(c) =>
              /\ pc[c] = "sending" /\ pc'[c] = "striking" /\ SamePair(c)
              /\ work'[c].num = NewNum(Target(c)) /\ work'[c].half = work[c].half
              /\ work'[c].ent = work[c].ent
         /\ Measured(c) =>
              /\ pc[c] = "measured" /\ SamePair(c)
              /\ work'[c].num = NoNum /\ work'[c].half = 1 /\ work'[c].ent = work[c].ent
              /\ pc'[c] = IF Job[c].kind = "local" THEN "done"
                          ELSE IF work[c].half = 0 THEN "measuring" ELSE "listing"
<1>1. \A stage : Goto(c, stage) => pc'[c] = stage
  BY DEF Goto, TypeOK
<1>2. \A stage, woken : GotoAndWake(c, stage, woken) => pc'[c] = stage
  BY DEF GotoAndWake
<1>3. work[c] \in Work
  BY DEF TypeOK
<1>4. ASSUME GotQubit(c)
      PROVE  /\ pc[c] = "made" /\ SamePair(c) /\ work'[c].num = work[c].num
             /\ Job[c].kind = "create" /\ work[c].half = 0 =>
                  work'[c].half = 1 /\ pc'[c] \in {"locking", "making"}
             /\ ~(Job[c].kind = "create" /\ work[c].half = 0) =>
                  /\ work'[c].half = 0
                  /\ pc'[c] = IF Job[c].kind = "create" THEN "entangling" ELSE "measuring"
  <2> DEFINE half == IF Job[c].kind = "create" /\ work[c].half = 0 THEN 1 ELSE 0
  <2>1. work'[c] = [work[c] EXCEPT !.half = half]
    BY <1>4 DEF GotQubit, TypeOK
  <2>2. SamePair(c) /\ work'[c].num = work[c].num /\ work'[c].half = half
    <3> HIDE DEF half
    <3>1. QED
      BY <1>3, <2>1 DEF Work, SamePair
  <2>3. CASE Job[c].kind = "create" /\ work[c].half = 0
    BY <1>2, <1>4, <2>2, <2>3 DEF GotQubit, Asking
  <2>4. CASE ~(Job[c].kind = "create" /\ work[c].half = 0)
    <3>1. pc'[c] = IF Job[c].kind = "create" THEN "entangling" ELSE "measuring"
      BY <1>4, <2>4 DEF GotQubit, GotoAndWake
    <3>2. QED
      BY <1>4, <2>2, <2>4, <3>1 DEF GotQubit
  <2>5. QED
    BY <2>3, <2>4
<1>5. ASSUME Entangle(c)
      PROVE  /\ pc[c] = "entangling" /\ SamePair(c) /\ work'[c].num = work[c].num
             /\ work'[c].half = 0 /\ work'[c].ent = nextEnt[Socket(c)]
             /\ pc'[c] = IF Job[c].type = "K" THEN "sending" ELSE "measuring"
  <2>1. work'[c] = [work[c] EXCEPT !.ent = nextEnt[Socket(c)], !.half = 0]
    BY <1>5 DEF Entangle, TypeOK
  <2>2. SamePair(c) /\ work'[c].num = work[c].num /\ work'[c].half = 0
        /\ work'[c].ent = nextEnt[Socket(c)]
    BY <1>3, <2>1 DEF Work, SamePair
  <2>3. QED
    BY <1>1, <1>5, <2>2 DEF Entangle
<1>6. ASSUME AddHalf(c)
      PROVE  /\ pc[c] = "sending" /\ pc'[c] = "striking" /\ SamePair(c)
             /\ work'[c].num = NewNum(Target(c)) /\ work'[c].half = work[c].half
             /\ work'[c].ent = work[c].ent
  <2>1. work'[c] = [work[c] EXCEPT !.num = NewNum(Target(c))]
    BY <1>6 DEF AddHalf, TypeOK
  <2>2. SamePair(c) /\ work'[c].num = NewNum(Target(c)) /\ work'[c].half = work[c].half
        /\ work'[c].ent = work[c].ent
    BY <1>3, <2>1 DEF Work, SamePair
  <2>3. QED
    BY <1>1, <1>6, <2>2 DEF AddHalf
<1>7. ASSUME Measured(c)
      PROVE  /\ pc[c] = "measured" /\ SamePair(c)
             /\ work'[c].num = NoNum /\ work'[c].half = 1 /\ work'[c].ent = work[c].ent
             /\ pc'[c] = IF Job[c].kind = "local" THEN "done"
                         ELSE IF work[c].half = 0 THEN "measuring" ELSE "listing"
  <2>1. work'[c] = [work[c] EXCEPT !.half = 1, !.num = NoNum]
    BY <1>7 DEF Measured, TypeOK
  <2>2. SamePair(c) /\ work'[c].num = NoNum /\ work'[c].half = 1 /\ work'[c].ent = work[c].ent
    BY <1>3, <2>1 DEF Work, SamePair
  <2>3. QED
    BY <1>1, <1>7, <2>2 DEF Measured
<1>8. QED
  BY <1>4, <1>5, <1>6, <1>7

LEMMA FetchMoves ==
  ASSUME EprInv, NEW c \in Sessions, Fetch(c)
  PROVE  LET e == Head(eprList[Socket(c)])
         IN  /\ pc[c] = "polling" /\ pc'[c] = "fetched" /\ SamePair(c)
             /\ work'[c].half = work[c].half /\ work'[c].num = work[c].num
             /\ e \in Entry /\ Comes(e.pair, Socket(c))
             /\ e.num = NoNum <=> Job[e.pair[1]].type = "M"
             /\ e.num # NoNum => HeldAs(Home[c], e.pair, e.num)
             /\ work'[c].gotPair = e.pair /\ work'[c].gotEnt = e.ent
             /\ work'[c].gotQubit = IF e.num = NoNum THEN work[c].gotQubit
                                    ELSE <<e.pair[1], e.pair[2], 1>>
<1> DEFINE e == Head(eprList[Socket(c)])
           q == IF e.num = NoNum THEN work[c].gotQubit ELSE <<e.pair[1], e.pair[2], 1>>
<1>1. TypeOK /\ Socket(c) \in Sockets /\ Socket(c)[1] = Home[c] /\ work[c] \in Work
  BY SocketFacts DEF EprInv, TypeOK
<1>2. /\ e \in Entry /\ Comes(e.pair, Socket(c))
      /\ e.num = NoNum <=> Job[e.pair[1]].type = "M"
      /\ e.num # NoNum => HeldAs(Home[c], e.pair, e.num)
  <2>1. eprList[Socket(c)] # << >>
    BY DEF Fetch
  <2>2. QED
    BY <1>1, <2>1, HeadListed
<1>3. work'[c] = [work[c] EXCEPT !.gotPair = e.pair, !.gotEnt = e.ent, !.gotQubit = q]
  <2>1. work'[c] = FetchedWork(c)
    BY <1>1, FetchedWorkTyped DEF TypeOK
  <2>2. QED
    BY <2>1 DEF FetchedWork
<1>4. /\ SamePair(c)
      /\ work'[c].half = work[c].half /\ work'[c].num = work[c].num
      /\ work'[c].gotPair = e.pair /\ work'[c].gotEnt = e.ent
      /\ work'[c].gotQubit = q
  <2> HIDE DEF e, q
  <2>1. QED
    BY <1>1, <1>3 DEF Work, SamePair
<1>5. pc[c] = "polling" /\ pc'[c] = "fetched"
  BY <1>1 DEF Fetch, Goto, TypeOK
<1>6. QED
  BY <1>2, <1>4, <1>5

LEMMA NextPairMoves ==
  ASSUME EprInv, NEW c \in Sessions, NextPair(c)
  PROVE  /\ MorePairs(c) =>
              /\ work'[c].pair = work[c].pair + 1 /\ work'[c].half = 0
              /\ work'[c].num = work[c].num
              /\ work'[c].addr \notin used[Home[c]]
              /\ used'[Home[c]] = used[Home[c]] \cup {work'[c].addr}
         /\ ~MorePairs(c) => work' = work /\ used' = used
         /\ work[c].pair \in Nat /\ work'[c].pair \in Nat /\ work'[c].addr \in Nat
         /\ pc[c] = "idle" => MorePairs(c)
         /\ MorePairs(c) => work[c].pair < Job[c].pairs
<1>1. TypeOK /\ IsFiniteSet(used[Home[c]])
  BY SocketFacts DEF EprInv
<1>2. work[c] \in Work
  BY <1>1 DEF TypeOK
<1>3. /\ MorePairs(c) =>
           /\ work'[c] = [work[c] EXCEPT !.pair = work[c].pair + 1, !.half = 0,
                                         !.addr = work'[c].addr]
           /\ work'[c].addr \notin used[Home[c]]
           /\ used'[Home[c]] = used[Home[c]] \cup {work'[c].addr}
      /\ ~MorePairs(c) => work' = work /\ used' = used
      /\ work' \in [Sessions -> Work]
  BY <1>1, NextPairEffect
<1>4. MorePairs(c) => /\ work'[c].pair = work[c].pair + 1 /\ work'[c].half = 0
                      /\ work'[c].num = work[c].num
  <2> DEFINE a == work'[c].addr
  <2>1. MorePairs(c) => work'[c] = [work[c] EXCEPT !.pair = work[c].pair + 1, !.half = 0, !.addr = a]
    BY <1>3
  <2>2. a \in Nat
    BY <1>3 DEF Work
  <2>3. QED
    <3> HIDE DEF a
    <3>1. QED
      BY <1>2, <2>1, <2>2 DEF Work
<1>5. work[c].pair \in Nat /\ work'[c].pair \in Nat /\ work'[c].addr \in Nat
  BY <1>2, <1>3 DEF Work
<1>6. pc[c] = "idle" => MorePairs(c)
  BY SocketFacts DEF EprInv, Staged, MorePairs
<1>7. QED
  BY <1>3, <1>4, <1>5, <1>6 DEF MorePairs

(* Sessions go through their stages in order. *)
LEMMA ActsStaged ==
  ASSUME EprInv, NEW c \in Sessions, Acts(c), WellTyped(c)
  PROVE  \A d \in Sessions : Staged(d)'
<1>1. TypeOK /\ UsedFinite /\ Staged(c) /\ work[c].pair \in Nat /\ Job[c].kind \in Kinds
      /\ Job[c].type \in {"K", "M"} /\ Job[c].pairs \in Nat \ {0}
      /\ work[c].half \in {0, 1}
  BY SocketFacts, HalfTyped DEF EprInv, UsedFinite
<1>2. ASSUME NEW d \in Sessions, d # c PROVE Staged(d)'
  <2>1. Same(d) /\ Staged(d)
    BY <1>2 DEF WellTyped, EprInv
  <2>2. QED
    BY <2>1 DEF Staged, Same
<1>13. SUFFICES Staged(c)'
  BY <1>2
<1>3. CASE Start(c)
  <2>1. NextPair(c) /\ pc[c] = "idle"
    BY <1>1, <1>3, Moves DEF Start
  <2>2. CASE StartMaking(c)
    BY <1>1, <2>1, <2>2, Moves, NextPairMoves DEF Staged
  <2>3. CASE StartReceiving(c)
    BY <1>1, <2>1, <2>3, Moves, NextPairMoves DEF Staged
  <2>4. QED
    BY <1>3, <2>2, <2>3 DEF Start
<1>4. CASE \/ NewQubit(c) \/ RefuseQubit(c) \/ QubitRefused(c) \/ RefuseHalf(c)
           \/ Measure(c) \/ Timeout(c)
  BY <1>1, <1>4, Moves DEF Staged
<1>5. CASE StrikeHalf(c) \/ ListHalf(c)
  BY <1>1, <1>5, Moves DEF Staged
<1>6. CASE GotQubit(c)
  BY <1>1, <1>6, WorkMoves DEF Staged, SamePair, Kinds
<1>7. CASE Entangle(c)
  BY <1>1, <1>7, WorkMoves DEF Staged, SamePair
<1>8. CASE AddHalf(c)
  <2>1. NewNum(Target(c)) \in Nat
    BY NewNumFree, SocketFacts DEF EprInv, Held
  <2>2. QED
    BY <1>1, <1>8, <2>1, WorkMoves DEF Staged, SamePair, NoNum
<1>9. CASE Measured(c)
  BY <1>1, <1>9, WorkMoves DEF Staged, SamePair, Kinds
<1>10. CASE Fetch(c)
  BY <1>1, <1>10, FetchMoves DEF Staged, SamePair
<1>11. CASE PairSent(c)
  <2>1. Job[c].kind = "create"
    BY <1>1, <1>11, Moves DEF Staged, Kinds
  <2>2. QED
    BY <1>1, <1>11, <2>1, Moves, NextPairMoves DEF Staged
<1>12. CASE Accept(c)
  BY <1>1, <1>12, Moves, NextPairMoves DEF Staged
<1>14. QED
  BY <1>3, <1>4, <1>5, <1>6, <1>7, <1>8, <1>9, <1>10, <1>11, <1>12 DEF Acts, Step

-----------------------------------------------------------------------------
(* Qubits at the virtual nodes.                                            *)

\* half h is struck from n
Struck(n, c, h) ==
  /\ virt'[n] = {v \in virt[n] : v[2] # HalfOf(c, h)}
  /\ \A m \in Nodes : m # n => virt'[m] = virt[m]

\* half h is entered at n
Entered(n, c, h) ==
  /\ virt'[n] = virt[n] \cup {<<NewNum(n), HalfOf(c, h)>>}
  /\ \A m \in Nodes : m # n => virt'[m] = virt[m]

LEMMA VirtMoves ==
  ASSUME TypeOK, NEW c \in Sessions, Acts(c)
  PROVE  /\ NewQubit(c) => Entered(Home[c], c, work[c].half)
         /\ AddHalf(c) => Entered(Target(c), c, 1)
         /\ StrikeHalf(c) => Struck(Home[c], c, 1)
         /\ Measure(c) => Struck(Home[c], c, work[c].half)
         /\ \/ NewQubit(c) \/ AddHalf(c) \/ StrikeHalf(c) \/ Measure(c)
            \/ virt' = virt
<1>1. Home[c] \in Nodes /\ Target(c) \in Nodes
  BY SocketFacts
<1>2. NewQubit(c) => Entered(Home[c], c, work[c].half)
  BY <1>1 DEF NewQubit, Entered, TypeOK
<1>3. AddHalf(c) => Entered(Target(c), c, 1)
  BY <1>1 DEF AddHalf, Entered, TypeOK
<1>4. StrikeHalf(c) => Struck(Home[c], c, 1)
  BY <1>1 DEF StrikeHalf, Struck, Drop, TypeOK
<1>5. Measure(c) => Struck(Home[c], c, work[c].half)
  BY <1>1 DEF Measure, Struck, Drop, TypeOK
<1>6. /\ StartMaking(c) => virt' = virt
      /\ StartReceiving(c) => virt' = virt
      /\ RefuseQubit(c) => virt' = virt
      /\ GotQubit(c) => virt' = virt
      /\ QubitRefused(c) => virt' = virt
      /\ Entangle(c) => virt' = virt
      /\ RefuseHalf(c) => virt' = virt
      /\ ListHalf(c) => virt' = virt
      /\ PairSent(c) => virt' = virt
      /\ Measured(c) => virt' = virt
      /\ Fetch(c) => virt' = virt
      /\ Timeout(c) => virt' = virt
      /\ Accept(c) => virt' = virt
  BY DEF StartMaking, StartReceiving, RefuseQubit, GotQubit, QubitRefused, Entangle,
     RefuseHalf, ListHalf, PairSent, Measured, Fetch, Timeout, Accept, nodeVars
<1>7. QED
  BY <1>2, <1>3, <1>4, <1>5, <1>6 DEF Acts, Start, Step

(* A second half stays where it was sent to. *)
LEMMA HeldStays ==
  ASSUME TypeOK, NEW c \in Sessions, Acts(c), NEW n \in Nodes, NEW pair \in Pairs,
         NEW num, HeldAs(n, pair, num), pair[1] # c \/ n # Home[c]
  PROVE  <<num, <<pair[1], pair[2], 1>>>> \in virt'[n]
<1> DEFINE u == <<num, <<pair[1], pair[2], 1>>>>
<1>1. u \in virt[n] /\ u[2][1] = pair[1]
  BY DEF HeldAs
<1>2. \A h : HalfOf(c, h)[1] = c
  BY DEF HalfOf
<1>3. u \in virt'[n]
  <2> HIDE DEF u
  <2>1. CASE virt' = virt
    BY <1>1, <2>1
  <2>2. CASE NewQubit(c) \/ AddHalf(c)
    BY <1>1, <2>2, VirtMoves DEF Entered
  <2>3. CASE StrikeHalf(c) \/ Measure(c)
    BY <1>1, <1>2, <2>3, VirtMoves DEF Struck
  <2>4. QED
    BY <2>1, <2>2, <2>3, VirtMoves
<1>4. QED
  BY <1>3

LEMMA PlacedOthers ==
  ASSUME TypeOK, NEW c \in Sessions, WellTyped(c), NEW n \in Nodes, NEW v \in virt[n],
         v[2][1] # c, Placed(n, v)
  PROVE  Placed(n, v)'
<1> DEFINE d == v[2][1]
<1>1. d \in Sessions
  BY DEF TypeOK, Halves
<1>2. Same(d)
  BY <1>1 DEF WellTyped
<1>3. NotHere(d, v[2][3])' => NotHere(d, v[2][3])
  BY <1>2 DEF Same, NotHere, Unmade
<1>4. NotThere(d)' => NotThere(d)
  BY <1>2 DEF Same, NotThere, Unmade
<1>5. QED
  <2> HIDE DEF d
  <2>1. work'[d] = work[d] /\ (pc'[d] \in {"striking", "listing"} => pc[d] \in {"striking", "listing"})
    BY <1>2 DEF Same
  <2>2. QED
    BY <1>3, <1>4, <2>1 DEF Placed, d, Target, Socket

LEMMA PlacedOwn ==
  ASSUME EprInv, NEW c \in Sessions, Acts(c), WellTyped(c), NEW n \in Nodes,
         NEW v \in virt[n], v \in virt'[n], v[2][1] = c, Placed(n, v)
  PROVE  Placed(n, v)'
<1> DEFINE h == v[2][3]
           k == v[2][2]
<1>1. /\ TypeOK /\ UsedFinite /\ Staged(c) /\ work[c].pair \in Nat
      /\ k \in Nat /\ h \in {0, 1} /\ v[2] = <<c, k, h>> /\ work[c].half \in {0, 1}
  <2>1. TypeOK /\ UsedFinite /\ Staged(c)
    BY DEF EprInv, UsedFinite
  <2>2. v[2] \in Halves
    BY <2>1 DEF TypeOK
  <2>3. k \in Nat /\ h \in {0, 1} /\ v[2] = <<c, k, h>>
    BY <2>2 DEF Halves
  <2>4. QED
    BY <2>1, <2>3, HalfTyped
<1> HIDE DEF h, k
<1>2. /\ k <= work[c].pair
      /\ \/ Home[c] = n /\ ~(k = work[c].pair /\ NotHere(c, h))
         \/ /\ Home[c] # n
            /\ Job[c].kind = "create" /\ Job[c].type = "K" /\ Target(c) = n
            /\ h = 1
            /\ ~(k = work[c].pair /\ NotThere(c))
            /\ k = work[c].pair /\ pc[c] \in {"striking", "listing"} => v[1] = work[c].num
  BY DEF Placed, h, k
<1>3. Target(c)' = Target(c)
  BY DEF Target, Socket
<1>4. SUFFICES
        /\ k <= work'[c].pair
        /\ \/ Home[c] = n /\ ~(k = work'[c].pair /\ NotHere(c, h)')
           \/ /\ Home[c] # n
              /\ Job[c].kind = "create" /\ Job[c].type = "K" /\ Target(c) = n
              /\ h = 1
              /\ ~(k = work'[c].pair /\ NotThere(c)')
              /\ k = work'[c].pair /\ pc'[c] \in {"striking", "listing"} => v[1] = work'[c].num
  BY <1>3 DEF Placed, h, k
<1>5. CASE NextPair(c) /\ MorePairs(c)
  <2>1. work'[c].pair = work[c].pair + 1
    BY <1>5, NextPairMoves
  <2>2. k # work'[c].pair /\ k <= work'[c].pair
    BY <1>1, <1>2, <2>1
  <2>3. QED
    BY <1>2, <2>2
<1>6. CASE NextPair(c) /\ ~MorePairs(c) /\ pc'[c] = "done"
  <2>1. work'[c] = work[c]
    BY <1>6, NextPairMoves
  <2>2. ~NotHere(c, h)' /\ ~NotThere(c)'
    BY <1>6 DEF NotHere, NotThere, Unmade
  <2>3. QED
    BY <1>2, <1>6, <2>1, <2>2
<1>7. CASE StartMaking(c) \/ StartReceiving(c)
  <2>1. NextPair(c) /\ pc[c] = "idle"
    BY <1>1, <1>7, Moves
  <2>2. MorePairs(c)
    BY <2>1, NextPairMoves
  <2>3. QED
    BY <1>5, <2>1, <2>2
<1>8. CASE PairSent(c) \/ Accept(c)
  <2>1. NextPair(c) /\ (~MorePairs(c) => pc'[c] = "done")
    BY <1>1, <1>8, Moves
  <2>2. QED
    BY <1>5, <1>6, <2>1
<1>9. CASE \/ NewQubit(c) \/ RefuseQubit(c) \/ QubitRefused(c) \/ RefuseHalf(c)
           \/ Timeout(c) \/ ListHalf(c)
  <2>1. work' = work
    BY <1>1, <1>9, Moves
  <2>2. NotHere(c, h)' => NotHere(c, h)
    BY <1>1, <1>9, <2>1, Moves DEF NotHere, Unmade
  <2>3. NotThere(c)' => NotThere(c)
    BY <1>1, <1>9, Moves DEF NotThere, Unmade
  <2>4. pc'[c] \notin {"striking", "listing"}
    BY <1>1, <1>9, Moves
  <2>5. QED
    BY <1>2, <2>1, <2>2, <2>3, <2>4
<1>10. CASE StrikeHalf(c) \/ Measure(c)
  <2>1. work' = work
    BY <1>1, <1>10, Moves
  <2>2. k = work[c].pair /\ NotHere(c, h)' /\ Home[c] = n => NotHere(c, h)
    <3>1. CASE StrikeHalf(c)
      <4>1. Struck(Home[c], c, 1)
        BY <1>1, <3>1, VirtMoves
      <4>2. Home[c] = n => v[2] # HalfOf(c, 1)
        BY <4>1 DEF Struck
      <4>3. NotHere(c, h)' => h = 1
        BY <1>1, <2>1, <3>1, Moves DEF NotHere, Unmade
      <4>4. QED
        BY <1>1, <4>2, <4>3 DEF HalfOf
    <3>2. CASE Measure(c)
      <4>1. Struck(Home[c], c, work[c].half)
        BY <1>1, <3>2, VirtMoves
      <4>2. Home[c] = n => v[2] # HalfOf(c, work[c].half)
        BY <4>1 DEF Struck
      <4>3. NotHere(c, h)' => h = work[c].half
        BY <1>1, <2>1, <3>2, Moves DEF NotHere, Unmade
      <4>4. QED
        BY <1>1, <4>2, <4>3 DEF HalfOf
    <3>3. QED
      BY <1>10, <3>1, <3>2
  <2>3. NotThere(c)' => NotThere(c)
    BY <1>1, <1>10, Moves DEF NotThere, Unmade
  <2>4. pc'[c] \in {"striking", "listing"} => pc[c] \in {"striking", "listing"}
    BY <1>1, <1>10, Moves
  <2>5. QED
    BY <1>2, <2>1, <2>2, <2>3, <2>4
<1>11. CASE GotQubit(c) \/ Entangle(c) \/ Fetch(c)
  <2>1. work'[c].pair = work[c].pair
    BY <1>1, <1>11, WorkMoves, FetchMoves DEF SamePair
  <2>2. NotHere(c, h)' => NotHere(c, h)
    <3>1. CASE GotQubit(c)
      BY <1>1, <3>1, WorkMoves DEF NotHere, Unmade
    <3>2. CASE Entangle(c)
      BY <1>1, <3>2, WorkMoves DEF NotHere, Unmade
    <3>3. CASE Fetch(c)
      BY <1>1, <3>3, FetchMoves DEF NotHere, Unmade
    <3>4. QED
      BY <1>11, <3>1, <3>2, <3>3
  <2>3. NotThere(c)' => NotThere(c)
    BY <1>1, <1>11, WorkMoves, FetchMoves DEF NotThere, Unmade
  <2>4. pc'[c] \notin {"striking", "listing"}
    <3>1. CASE GotQubit(c)
      BY <1>1, <3>1, WorkMoves
    <3>2. CASE Entangle(c)
      BY <1>1, <3>2, WorkMoves
    <3>3. CASE Fetch(c)
      <4>1. pc'[c] = "fetched"
        BY <3>3, FetchMoves
      <4>2. QED
        BY <4>1
    <3>4. QED
      BY <1>11, <3>1, <3>2, <3>3
  <2>5. QED
    BY <1>2, <2>1, <2>2, <2>3, <2>4
<1>12. CASE AddHalf(c)
  <2>1. work'[c].pair = work[c].pair /\ pc[c] = "sending" /\ pc'[c] = "striking"
    BY <1>1, <1>12, WorkMoves DEF SamePair
  <2>2. ~NotHere(c, h)' /\ NotThere(c)
    BY <2>1 DEF NotHere, NotThere, Unmade
  <2>3. QED
    BY <1>2, <2>1, <2>2
<1>13. CASE Measured(c)
  <2>1. /\ work'[c].pair = work[c].pair /\ pc[c] = "measured" /\ work'[c].half = 1
        /\ pc'[c] = IF Job[c].kind = "local" THEN "done"
                    ELSE IF work[c].half = 0 THEN "measuring" ELSE "listing"
    BY <1>1, <1>13, WorkMoves DEF SamePair
  <2>2. NotHere(c, h)' => NotHere(c, h)
    BY <1>1, <2>1 DEF NotHere, Unmade
  <2>3. NotThere(c)
    BY <2>1 DEF NotThere
  <2>4. Job[c].kind = "create" => Job[c].type = "M"
    BY <1>1, <2>1 DEF Staged
  <2>5. QED
    BY <1>2, <2>1, <2>2, <2>3, <2>4
<1>14. QED
  BY <1>7, <1>8, <1>9, <1>10, <1>11, <1>12, <1>13 DEF Acts, Start, Step

LEMMA EnteredHeld ==
  ASSUME EprInv, NEW c \in Sessions, Acts(c), WellTyped(c), NEW n \in Nodes, NEW h \in {0, 1},
         \/ NewQubit(c) /\ n = Home[c] /\ h = work[c].half
         \/ AddHalf(c) /\ n = Target(c) /\ h = 1
  PROVE  Held(n)'
<1> DEFINE u == <<NewNum(n), HalfOf(c, h)>>
<1>1. TypeOK /\ UsedFinite /\ Held(n) /\ Staged(c) /\ Target(c) # Home[c] /\ work[c].pair \in Nat
      /\ Job[c].kind \in Kinds /\ Target(c)' = Target(c)
  BY SocketFacts, HalfTyped DEF EprInv, UsedFinite, Target, Socket
<1>2. /\ Entered(n, c, h) /\ work'[c].pair = work[c].pair
      /\ pc'[c] \in {"made", "striking"}
  <2>1. CASE NewQubit(c) /\ n = Home[c] /\ h = work[c].half
    BY <1>1, <2>1, VirtMoves, Moves
  <2>2. CASE AddHalf(c) /\ n = Target(c) /\ h = 1
    BY <1>1, <2>2, VirtMoves, WorkMoves DEF SamePair
  <2>3. QED
    BY <2>1, <2>2
<1>3. NewNum(n) \in Nat /\ \A v \in virt[n] : v[1] # NewNum(n)
  BY <1>1, NewNumFree DEF Held
<1>4. virt'[n] = virt[n] \cup {u}
  BY <1>2 DEF Entered
<1>5. \A v \in virt[n] : v[2] # HalfOf(c, h)
  <2> SUFFICES ASSUME NEW v \in virt[n], v[2] = HalfOf(c, h) PROVE FALSE
    OBVIOUS
  <2>1. v[2][1] = c /\ v[2][2] = work[c].pair /\ v[2][3] = h /\ Placed(n, v)
    BY <1>1 DEF HalfOf, Held
  <2>2. CASE NewQubit(c) /\ n = Home[c] /\ h = work[c].half
    <3>1. pc[c] = "making"
      BY <2>2 DEF NewQubit
    <3>2. NotHere(c, h)
      BY <2>2, <3>1 DEF NotHere, Unmade
    <3>3. QED
      BY <2>1, <2>2, <3>2 DEF Placed
  <2>3. CASE AddHalf(c) /\ n = Target(c) /\ h = 1
    <3>1. NotThere(c)
      BY <2>3 DEF NotThere, AddHalf
    <3>2. QED
      BY <1>1, <2>1, <2>3, <3>1 DEF Placed
  <2>4. QED
    BY <2>2, <2>3
<1>6. u[1] = NewNum(n) /\ u[2] = HalfOf(c, h)
  OBVIOUS
<1>7. \A v \in virt[n] : Placed(n, v)'
  BY <1>1, <1>4, PlacedOthers, PlacedOwn DEF Held
<1>8. ASSUME NEW v, v = u PROVE Placed(n, v)'
  <2>1. v[2][1] = c /\ v[2][2] = work'[c].pair /\ v[2][3] = h /\ v[1] = NewNum(n)
    BY <1>2, <1>8 DEF HalfOf
  <2>2. CASE NewQubit(c) /\ n = Home[c] /\ h = work[c].half
    <3>1. pc'[c] = "made" /\ work' = work
      BY <1>1, <2>2, Moves
    <3>2. ~NotHere(c, h)'
      BY <2>2, <3>1 DEF NotHere, Unmade
    <3>3. QED
      BY <1>1, <2>1, <2>2, <3>1, <3>2 DEF Placed
  <2>3. CASE AddHalf(c) /\ n = Target(c) /\ h = 1
    <3>1. pc[c] = "sending" /\ pc'[c] = "striking" /\ work'[c].num = v[1]
      BY <1>1, <2>1, <2>3, WorkMoves
    <3>2. Job[c].kind = "create" /\ Job[c].type = "K"
      BY <1>1, <3>1 DEF Staged, Kinds
    <3>3. ~NotThere(c)'
      BY <3>1 DEF NotThere, Unmade
    <3>4. work'[c].pair \in Nat
      BY <1>1, <1>2
    <3>5. QED
      BY <1>1, <2>1, <2>3, <3>1, <3>2, <3>3, <3>4 DEF Placed
  <2>4. QED
    BY <2>2, <2>3
<1>9. IsFiniteSet(virt'[n])
  BY <1>1, <1>4, FS_AddElement DEF Held
<1> HIDE DEF u
<1>10. \A v, w \in virt'[n] : v[1] = w[1] <=> v[2] = w[2]
  <2>1. \A v \in virt[n] : v[1] # u[1] /\ v[2] # u[2]
    BY <1>3, <1>5, <1>6
  <2>2. \A v, w \in virt[n] : v[1] = w[1] <=> v[2] = w[2]
    BY <1>1 DEF Held
  <2>3. QED
    BY <1>4, <2>1, <2>2
<1>11. \A v \in virt'[n] : Placed(n, v)'
  BY <1>4, <1>7, <1>8
<1>12. QED
  BY <1>9, <1>10, <1>11 DEF Held

LEMMA FewerHeld ==
  ASSUME EprInv, NEW c \in Sessions, Acts(c), WellTyped(c), NEW n \in Nodes,
         virt'[n] \subseteq virt[n]
  PROVE  Held(n)'
<1>1. TypeOK /\ Held(n)
  BY DEF EprInv
<1>2. IsFiniteSet(virt'[n])
  BY <1>1, FS_Subset DEF Held
<1>3. \A v \in virt'[n] : Placed(n, v)'
  BY <1>1, PlacedOthers, PlacedOwn DEF Held
<1>4. \A v, w \in virt'[n] : v[1] = w[1] <=> v[2] = w[2]
  BY <1>1 DEF Held
<1>5. QED
  BY <1>2, <1>3, <1>4 DEF Held

LEMMA ActsHeld ==
  ASSUME EprInv, NEW c \in Sessions, Acts(c), WellTyped(c)
  PROVE  \A n \in Nodes : Held(n)'
<1> SUFFICES ASSUME NEW n \in Nodes PROVE Held(n)'
  OBVIOUS
<1>1. TypeOK /\ work[c].half \in {0, 1}
  BY HalfTyped DEF EprInv
<1>2. CASE NewQubit(c) /\ n = Home[c]
  BY <1>1, <1>2, EnteredHeld
<1>3. CASE AddHalf(c) /\ n = Target(c)
  BY <1>1, <1>3, EnteredHeld
<1>4. CASE ~(NewQubit(c) /\ n = Home[c]) /\ ~(AddHalf(c) /\ n = Target(c))
  <2>1. virt'[n] \subseteq virt[n]
    <3>1. CASE virt' = virt
      BY <3>1
    <3>2. CASE NewQubit(c) \/ AddHalf(c)
      BY <1>1, <1>4, <3>2, VirtMoves DEF Entered
    <3>3. CASE StrikeHalf(c) \/ Measure(c)
      BY <1>1, <3>3, VirtMoves DEF Struck
    <3>4. QED
      BY <1>1, <3>1, <3>2, <3>3, VirtMoves
  <2>2. QED
    BY <2>1, FewerHeld
<1>5. QED
  BY <1>2, <1>3, <1>4

(* Halves on their way are held where they go to. *)
LEMMA UnderwayOthers ==
  ASSUME EprInv, NEW c \in Sessions, Acts(c), WellTyped(c), NEW d \in Sessions, d # c
  PROVE  Underway(d)'
<1>1. TypeOK /\ Same(d) /\ Underway(d) /\ Target(d) \in Nodes /\ PairOf(d) \in Pairs
  BY SocketFacts, HalfTyped DEF EprInv, WellTyped
<1>2. /\ work'[d] = work[d] /\ PairOf(d)' = PairOf(d) /\ Target(d)' = Target(d)
      /\ pc'[d] \in {"striking", "listing"} => pc[d] \in {"striking", "listing"}
      /\ pc'[d] = "fetched" => pc[d] = "fetched"
  BY <1>1 DEF Same, PairOf, Target, Socket
<1>3. pc'[d] \in {"striking", "listing"} /\ Job[d].type = "K" =>
        HeldAs(Target(d), PairOf(d), work[d].num)'
  <2> SUFFICES ASSUME pc'[d] \in {"striking", "listing"}, Job[d].type = "K"
               PROVE  HeldAs(Target(d), PairOf(d), work[d].num)'
    OBVIOUS
  <2> DEFINE m == Target(d)
             p == PairOf(d)
             k == work[d].num
  <2>1. HeldAs(m, p, k) /\ p[1] # c
    BY <1>1, <1>2 DEF Underway, PairOf
  <2>2. <<k, <<p[1], p[2], 1>>>> \in virt'[m]
    <3>1. m \in Nodes /\ p \in Pairs
      BY <1>1
    <3> HIDE DEF m, p, k
    <3>2. QED
      BY <1>1, <2>1, <3>1, HeldStays
  <2>3. QED
    BY <1>2, <2>2 DEF HeldAs
<1>4. pc'[d] = "fetched" =>
        /\ Comes(work'[d].gotPair, Socket(d))
        /\ ~IsMeasured(d)' => work'[d].gotQubit = <<work'[d].gotPair[1], work'[d].gotPair[2], 1>>
  BY <1>1, <1>2 DEF Underway, IsMeasured
<1>5. QED
  BY <1>2, <1>3, <1>4 DEF Underway, Comes, Socket

LEMMA UnderwayOwn ==
  ASSUME EprInv, NEW c \in Sessions, Acts(c), WellTyped(c)
  PROVE  Underway(c)'
<1>1. /\ TypeOK /\ UsedFinite /\ Staged(c) /\ Underway(c) /\ Job[c].kind \in Kinds
      /\ Target(c) \in Nodes /\ Target(c) # Home[c] /\ PairOf(c) \in Pairs /\ PairOf(c)[1] = c
  BY SocketFacts, HalfTyped DEF EprInv, UsedFinite, PairOf
<1>2. Target(c)' = Target(c) /\ Socket(c)' = Socket(c)
  BY DEF Target, Socket
<1>3. CASE pc'[c] \notin {"striking", "listing", "fetched"}
  BY <1>3 DEF Underway
<1>4. CASE AddHalf(c)
  <2>1. /\ pc'[c] = "striking" /\ PairOf(c)' = PairOf(c) /\ work'[c].num = NewNum(Target(c))
        /\ Entered(Target(c), c, 1)
    BY <1>1, <1>4, WorkMoves, VirtMoves DEF SamePair, PairOf
  <2>2. <<work'[c].num, <<PairOf(c)[1], PairOf(c)[2], 1>>>> \in virt'[Target(c)]
    BY <2>1 DEF Entered, HalfOf, PairOf
  <2>3. QED
    BY <1>2, <2>1, <2>2 DEF Underway, HeldAs
<1>5. CASE StrikeHalf(c)
  <2>1. pc[c] = "striking" /\ pc'[c] = "listing" /\ PairOf(c)' = PairOf(c) /\ work' = work
    BY <1>1, <1>5, Moves DEF PairOf
  <2>2. Job[c].type = "K" => HeldAs(Target(c), PairOf(c), work[c].num)
    BY <1>1, <2>1 DEF Underway
  <2>3. \A m \in Nodes, p \in Pairs : \A k :
          HeldAs(m, p, k) /\ m # Home[c] => <<k, <<p[1], p[2], 1>>>> \in virt'[m]
    BY <1>1, HeldStays
  <2>4. Job[c].type = "K" =>
          <<work[c].num, <<PairOf(c)[1], PairOf(c)[2], 1>>>> \in virt'[Target(c)]
    BY <1>1, <2>2, <2>3
  <2>5. QED
    BY <1>2, <2>1, <2>4 DEF Underway, HeldAs
<1>6. CASE Measured(c)
  <2>1. pc[c] = "measured" /\ pc'[c] # "fetched" /\ pc'[c] # "striking"
        /\ (pc'[c] = "listing" => Job[c].kind # "local")
    BY <1>1, <1>6, WorkMoves
  <2>2. pc'[c] = "listing" => Job[c].type = "M"
    BY <1>1, <2>1 DEF Staged, Kinds
  <2>3. QED
    BY <2>1, <2>2 DEF Underway
<1>7. CASE Fetch(c)
  <2>1. /\ pc'[c] = "fetched"
        /\ Comes(work'[c].gotPair, Socket(c))
        /\ Job[work'[c].gotPair[1]].type # "M" =>
             work'[c].gotQubit = <<work'[c].gotPair[1], work'[c].gotPair[2], 1>>
    <3> DEFINE e == Head(eprList[Socket(c)])
    <3>1. /\ pc'[c] = "fetched"
          /\ Comes(e.pair, Socket(c))
          /\ e.num = NoNum <=> Job[e.pair[1]].type = "M"
          /\ work'[c].gotPair = e.pair
          /\ work'[c].gotQubit = IF e.num = NoNum THEN work[c].gotQubit
                                 ELSE <<e.pair[1], e.pair[2], 1>>
      BY <1>7, FetchMoves
    <3>2. QED
      <4> HIDE DEF e
      <4>1. QED
        BY <3>1
  <2>2. QED
    BY <1>2, <2>1 DEF Underway, IsMeasured, Comes, Socket
<1>8. CASE ~AddHalf(c) /\ ~StrikeHalf(c) /\ ~Measured(c) /\ ~Fetch(c)
  <2>1. pc'[c] \notin {"striking", "listing", "fetched"}
    <3>1. CASE Start(c)
      BY <1>1, <3>1, Moves DEF Start
    <3>2. CASE \/ NewQubit(c) \/ RefuseQubit(c) \/ QubitRefused(c) \/ RefuseHalf(c)
               \/ Timeout(c) \/ ListHalf(c) \/ Measure(c)
      BY <1>1, <3>2, Moves
    <3>3. CASE GotQubit(c)
      BY <1>1, <3>3, WorkMoves
    <3>4. CASE Entangle(c)
      BY <1>1, <3>4, WorkMoves
    <3>5. CASE PairSent(c)
      BY <1>1, <3>5, Moves
    <3>6. CASE Accept(c)
      BY <1>1, <3>6, Moves
    <3>7. QED
      BY <1>8, <3>1, <3>2, <3>3, <3>4, <3>5, <3>6 DEF Acts, Step
  <2>2. QED
    BY <1>3, <2>1
<1>9. QED
  BY <1>4, <1>5, <1>6, <1>7, <1>8

(* The entries of the receive lists. *)
EntryRight(e, x) ==
  /\ Comes(e.pair, x)
  /\ e.num = NoNum <=> Job[e.pair[1]].type = "M"
  /\ e.num # NoNum => HeldAs(x[1], e.pair, e.num)

LEMMA EntryStays ==
  ASSUME EprInv, NEW c \in Sessions, Acts(c), NEW x \in Sockets, NEW e \in Entry, EntryRight(e, x)
  PROVE  EntryRight(e, x)'
<1>1. TypeOK /\ x[1] \in Nodes /\ e.pair \in Pairs /\ e.pair[1] \in Sessions
  BY DEF EprInv, Sockets, Entry, Pairs
<1>2. x[1] # Home[e.pair[1]]
  BY <1>1, SocketFacts DEF EntryRight, Comes
<1>3. HeldAs(x[1], e.pair, e.num) => <<e.num, <<e.pair[1], e.pair[2], 1>>>> \in virt'[x[1]]
  BY <1>1, <1>2, HeldStays
<1>4. QED
  BY <1>3 DEF EntryRight, HeldAs, Comes, Socket

LEMMA ListMoves ==
  ASSUME TypeOK, NEW c \in Sessions, Acts(c)
  PROVE  /\ ListHalf(c) =>
              eprList' = [eprList EXCEPT ![Peer[Socket(c)]] =
                 Append(eprList[Peer[Socket(c)]],
                        [num |-> work[c].num, ent |-> work[c].ent, pair |-> PairOf(c)])]
         /\ Fetch(c) => /\ eprList[Socket(c)] # << >>
                        /\ eprList' = [eprList EXCEPT ![Socket(c)] = Tail(eprList[Socket(c)])]
         /\ ListHalf(c) \/ Fetch(c) \/ eprList' = eprList
<1>1. ListHalf(c) =>
        eprList' = [eprList EXCEPT ![Peer[Socket(c)]] =
           Append(eprList[Peer[Socket(c)]],
                  [num |-> work[c].num, ent |-> work[c].ent, pair |-> PairOf(c)])]
  BY DEF ListHalf
<1>2. Fetch(c) => /\ eprList[Socket(c)] # << >>
                  /\ eprList' = [eprList EXCEPT ![Socket(c)] = Tail(eprList[Socket(c)])]
  BY DEF Fetch
<1>3. /\ StartMaking(c) => eprList' = eprList
      /\ StartReceiving(c) => eprList' = eprList
      /\ NewQubit(c) => eprList' = eprList
      /\ RefuseQubit(c) => eprList' = eprList
      /\ GotQubit(c) => eprList' = eprList
      /\ QubitRefused(c) => eprList' = eprList
      /\ Entangle(c) => eprList' = eprList
      /\ AddHalf(c) => eprList' = eprList
      /\ RefuseHalf(c) => eprList' = eprList
      /\ StrikeHalf(c) => eprList' = eprList
      /\ PairSent(c) => eprList' = eprList
      /\ Measure(c) => eprList' = eprList
      /\ Measured(c) => eprList' = eprList
      /\ Timeout(c) => eprList' = eprList
      /\ Accept(c) => eprList' = eprList
  BY DEF StartMaking, StartReceiving, NewQubit, RefuseQubit, GotQubit, QubitRefused, Entangle,
     AddHalf, RefuseHalf, StrikeHalf, PairSent, Measure, Measured, Timeout, Accept, listVars
<1>4. QED
  BY <1>1, <1>2, <1>3 DEF Acts, Start, Step

LEMMA ActsListed ==
  ASSUME EprInv, NEW c \in Sessions, Acts(c), NEW x \in Sockets
  PROVE  Listed(x)'
<1>1. /\ TypeOK /\ Staged(c) /\ Underway(c) /\ Job[c].kind \in Kinds /\ Socket(c) \in Sockets
      /\ Peer[Socket(c)] \in Sockets /\ Peer[Socket(c)][1] = Target(c)
      /\ work[c].num \in Nat \cup {NoNum} /\ work[c].ent \in Nat /\ PairOf(c) \in Pairs
      /\ Job[c].type \in {"K", "M"}
  BY SocketFacts, HalfTyped DEF EprInv
<1>2. eprList[x] \in Seq(Entry)
  BY <1>1 DEF TypeOK
<1>3. \A i \in DOMAIN eprList[x] : eprList[x][i] \in Entry /\ EntryRight(eprList[x][i], x)
  BY <1>2, ElementOfSeq, LenProperties DEF EprInv, Listed, EntryRight
<1>5. \A e \in Entry : EntryRight(e, x) => EntryRight(e, x)'
  BY EntryStays
<1>6. SUFFICES ASSUME NEW i \in DOMAIN eprList'[x]
               PROVE  \E e \in Entry : e = eprList'[x][i] /\ EntryRight(e, x)
  BY <1>5 DEF Listed, EntryRight
<1>7. CASE eprList'[x] = eprList[x]
  BY <1>3, <1>7
<1>8. CASE ListHalf(c) /\ x = Peer[Socket(c)]
  <2> DEFINE e == [num |-> work[c].num, ent |-> work[c].ent, pair |-> PairOf(c)]
  <2>1. eprList'[x] = Append(eprList[x], e)
    BY <1>1, <1>8, ListMoves DEF TypeOK
  <2>2. e \in Entry /\ e.num = work[c].num /\ e.pair = PairOf(c) /\ e.pair[1] = c
    BY <1>1 DEF Entry, PairOf
  <2> HIDE DEF e
  <2>3. Len(eprList[x]) \in Nat /\ DOMAIN eprList[x] = 1 .. Len(eprList[x])
    BY <1>2, LenProperties
  <2>4. /\ DOMAIN eprList'[x] = 1 .. (Len(eprList[x]) + 1)
        /\ eprList'[x][Len(eprList[x]) + 1] = e
        /\ \A j \in 1 .. Len(eprList[x]) : eprList'[x][j] = eprList[x][j]
    BY <1>2, <2>1, <2>2, <2>3, AppendProperties, LenProperties
  <2>5. EntryRight(e, x)
    <3>1. pc[c] = "listing"
      BY <1>8 DEF ListHalf
    <3>2. Job[c].kind = "create"
      BY <1>1, <3>1 DEF Staged, Kinds
    <3>3. work[c].num = NoNum <=> Job[c].type = "M"
      BY <1>1, <3>1 DEF Staged
    <3>4. Job[c].type = "K" => HeldAs(Target(c), PairOf(c), work[c].num)
      BY <1>1, <3>1 DEF Underway
    <3>5. Comes(PairOf(c), x)
      BY <1>8, <3>2 DEF Comes, PairOf
    <3>6. QED
      BY <1>1, <1>8, <2>2, <3>3, <3>4, <3>5 DEF EntryRight
  <2>6. CASE i = Len(eprList[x]) + 1
    BY <2>2, <2>4, <2>5, <2>6
  <2>7. CASE i # Len(eprList[x]) + 1
    BY <1>3, <2>3, <2>4, <2>7
  <2>8. QED
    BY <2>6, <2>7
<1>9. CASE Fetch(c) /\ x = Socket(c)
  <2>1. eprList[x] # << >> /\ eprList'[x] = Tail(eprList[x])
    BY <1>1, <1>9, ListMoves DEF TypeOK
  <2>2. Len(eprList[x]) \in Nat \ {0} /\ DOMAIN eprList[x] = 1 .. Len(eprList[x])
    BY <1>2, <2>1, LenProperties, EmptySeq
  <2>3. /\ DOMAIN eprList'[x] = 1 .. (Len(eprList[x]) - 1)
        /\ \A j \in 1 .. (Len(eprList[x]) - 1) : eprList'[x][j] = eprList[x][j + 1]
    BY <1>2, <2>1, <2>2, HeadTailProperties, LenProperties
  <2>4. i + 1 \in DOMAIN eprList[x] /\ eprList'[x][i] = eprList[x][i + 1]
    BY <2>2, <2>3
  <2>5. QED
    BY <1>3, <2>4
<1>10. QED
  <2>1. \/ eprList'[x] = eprList[x]
        \/ ListHalf(c) /\ x = Peer[Socket(c)]
        \/ Fetch(c) /\ x = Socket(c)
    BY <1>1, ListMoves DEF TypeOK
  <2>2. QED
    BY <1>7, <1>8, <1>9, <2>1

-----------------------------------------------------------------------------
(* Requests: as many responses are awaited as are owed.                    *)

LEMMA OwedOthers ==
  ASSUME NEW c \in Sessions, WellTyped(c), NEW side, NEW x, NEW p \in Pairs, p[1] # c
  PROVE  p \in Owed(side, x)' <=> p \in Owed(side, x)
<1> DEFINE d == p[1]
<1>1. d \in Sessions
  BY DEF Pairs
<1>2. Same(d)
  BY <1>1 DEF WellTyped
<1>3. work'[d].pair = work[d].pair /\ (pc'[d] \notin {"idle", "done"} <=> pc[d] \notin {"idle", "done"})
  BY <1>2 DEF Same
<1>4. QED
  BY <1>3 DEF Owed, Socket

LEMMA OwedOwn ==
  ASSUME NEW c \in Sessions, NEW side, NEW x, NEW k \in Nat
  PROVE  <<c, k>> \in Owed(side, x) <=>
           /\ Job[c].kind = side /\ Socket(c) = x
           /\ pc[c] \notin {"idle", "done"}
           /\ k \in work[c].pair .. Job[c].pairs
BY DEF Owed, Pairs

LEMMA OwedAfter ==
  ASSUME NEW c \in Sessions, NEW side, NEW x, NEW k \in Nat
  PROVE  <<c, k>> \in Owed(side, x)' <=>
           /\ Job[c].kind = side /\ Socket(c) = x
           /\ pc'[c] \notin {"idle", "done"}
           /\ k \in work'[c].pair .. Job[c].pairs
BY DEF Owed, Pairs, Socket

LEMMA PairsEqual ==
  ASSUME NEW c \in Sessions, NEW S \in SUBSET Pairs, NEW T \in SUBSET Pairs,
         \A p \in Pairs : p[1] # c => (p \in S <=> p \in T),
         \A k \in Nat : <<c, k>> \in S <=> <<c, k>> \in T
  PROVE  S = T
<1>1. \A p \in Pairs : p[1] = c => p = <<c, p[2]>> /\ p[2] \in Nat
  BY DEF Pairs
<1>2. QED
  BY <1>1

LEMMA OwedPairs ==
  \A side, x : Owed(side, x) \in SUBSET Pairs /\ Owed(side, x)' \in SUBSET Pairs
BY DEF Owed

(* A new request: its pairs are owed from now on. *)
LEMMA OwedStarted ==
  ASSUME EprInv, NEW c \in Sessions, Start(c), Acts(c), WellTyped(c), NEW side, NEW x,
         Job[c].kind = side, Socket(c) = x
  PROVE  /\ Owed(side, x)' = Owed(side, x) \cup Row(c, Job[c].pairs)
         /\ \A k \in 1 .. Job[c].pairs : <<c, k>> \notin Owed(side, x)
<1>1. /\ TypeOK /\ UsedFinite /\ Staged(c) /\ Job[c].pairs \in Nat \ {0}
  BY SocketFacts DEF EprInv, UsedFinite
<1>2. pc[c] = "idle" /\ NextPair(c) /\ pc'[c] \in {"locking", "making", "polling"}
  BY <1>1, Moves DEF Start
<1>3. work'[c].pair = 1
  BY <1>1, <1>2, NextPairMoves DEF Staged
<1>4. \A k \in Nat : <<c, k>> \notin Owed(side, x)
  BY <1>2, OwedOwn
<1> DEFINE S == Owed(side, x)'
           T == Owed(side, x) \cup Row(c, Job[c].pairs)
<1>5. \A k \in Nat : <<c, k>> \in S <=> k \in 1 .. Job[c].pairs
  BY <1>1, <1>2, <1>3, OwedAfter
<1>6. \A k \in Nat : <<c, k>> \in T <=> k \in 1 .. Job[c].pairs
  BY <1>1, <1>4 DEF Row
<1>7. Row(c, Job[c].pairs) \in SUBSET Pairs /\ \A p \in Row(c, Job[c].pairs) : p[1] = c
  BY <1>1 DEF Row, Pairs
<1>8. \A p \in Pairs : p[1] # c => (p \in S <=> p \in T)
  BY <1>7, OwedOthers
<1>9. S \in SUBSET Pairs /\ T \in SUBSET Pairs
  BY <1>7, OwedPairs
<1>10. S = T
  <2> HIDE DEF S, T
  <2>1. QED
    BY <1>5, <1>6, <1>8, <1>9, PairsEqual
<1>11. QED
  BY <1>1, <1>4, <1>10

(* A pair delivered is owed no longer. *)
LEMMA OwedAnswered ==
  ASSUME EprInv, NEW c \in Sessions, PairSent(c) \/ Accept(c), Acts(c), WellTyped(c),
         NEW side, NEW x, Job[c].kind = side, Socket(c) = x
  PROVE  Owed(side, x)' = Owed(side, x) \ {PairOf(c)}
<1>1. /\ TypeOK /\ UsedFinite /\ Staged(c) /\ Job[c].pairs \in Nat \ {0} /\ work[c].pair \in Nat
  BY SocketFacts, HalfTyped DEF EprInv, UsedFinite
<1>2. /\ pc[c] \in {"sent", "fetched"} /\ NextPair(c)
      /\ MorePairs(c) => pc'[c] \notin {"idle", "done"}
      /\ ~MorePairs(c) => pc'[c] = "done"
  BY <1>1, Moves
<1>3. work[c].pair \in 1 .. Job[c].pairs
  BY <1>1, <1>2 DEF Staged
<1> DEFINE S == Owed(side, x)'
           T == Owed(side, x) \ {PairOf(c)}
<1>4. \A k \in Nat : <<c, k>> \in T <=> k \in (work[c].pair + 1) .. Job[c].pairs
  <2> SUFFICES ASSUME NEW k \in Nat
               PROVE  <<c, k>> \in T <=> k \in (work[c].pair + 1) .. Job[c].pairs
    OBVIOUS
  <2>1. <<c, k>> \in Owed(side, x) <=> k \in work[c].pair .. Job[c].pairs
    BY <1>2, OwedOwn
  <2>2. <<c, k>> = PairOf(c) <=> k = work[c].pair
    BY DEF PairOf
  <2>3. QED
    BY <1>1, <2>1, <2>2
<1>5. \A k \in Nat : <<c, k>> \in S <=> k \in (work[c].pair + 1) .. Job[c].pairs
  <2>1. CASE MorePairs(c)
    BY <1>2, <2>1, NextPairMoves, OwedAfter
  <2>2. CASE ~MorePairs(c)
    <3>1. work[c].pair = Job[c].pairs
      BY <1>1, <1>3, <2>2 DEF MorePairs
    <3>2. QED
      BY <1>1, <1>2, <2>2, <3>1, OwedAfter
  <2>3. QED
    BY <2>1, <2>2
<1>6. PairOf(c)[1] = c
  BY DEF PairOf
<1>7. \A p \in Pairs : p[1] # c => (p \in S <=> p \in T)
  BY <1>6, OwedOthers
<1>8. S \in SUBSET Pairs /\ T \in SUBSET Pairs
  BY OwedPairs
<1>9. QED
  <2> HIDE DEF S, T
  <2>1. S = T
    BY <1>4, <1>5, <1>7, <1>8, PairsEqual
  <2>2. QED
    BY <2>1 DEF S, T

(* The other steps deliver nothing. *)
LEMMA OwedKept ==
  ASSUME EprInv, NEW c \in Sessions, Acts(c), WellTyped(c), NEW side \in Sides, NEW x,
         \/ ~Start(c) /\ ~PairSent(c) /\ ~Accept(c)
         \/ Job[c].kind # side
         \/ Socket(c) # x
  PROVE  Owed(side, x)' = Owed(side, x)
<1>1. TypeOK /\ UsedFinite /\ Staged(c)
  BY DEF EprInv, UsedFinite
<1> DEFINE S == Owed(side, x)'
           T == Owed(side, x)
<1>2. ASSUME NEW k \in Nat PROVE <<c, k>> \in S <=> <<c, k>> \in T
  <2>1. CASE Job[c].kind # side \/ Socket(c) # x
    BY <2>1, OwedOwn, OwedAfter
  <2>2. CASE Job[c].kind = side /\ Socket(c) = x
    <3>1. ~Start(c) /\ ~PairSent(c) /\ ~Accept(c) /\ Job[c].kind # "local"
      BY <2>2 DEF Sides
    <3>2. /\ work'[c].pair = work[c].pair
          /\ pc[c] \notin {"idle", "done"} /\ pc'[c] \notin {"idle", "done"}
      <4>1. CASE \/ NewQubit(c) \/ RefuseQubit(c) \/ QubitRefused(c) \/ RefuseHalf(c)
                 \/ StrikeHalf(c) \/ ListHalf(c) \/ Measure(c) \/ Timeout(c)
        BY <1>1, <4>1, Moves
      <4>2. CASE GotQubit(c)
        BY <1>1, <4>2, WorkMoves DEF SamePair
      <4>3. CASE Entangle(c)
        BY <1>1, <4>3, WorkMoves DEF SamePair
      <4>4. CASE AddHalf(c)
        BY <1>1, <4>4, WorkMoves DEF SamePair
      <4>5. CASE Measured(c)
        BY <1>1, <3>1, <4>5, WorkMoves DEF SamePair
      <4>6. CASE Fetch(c)
        <5>1. pc[c] = "polling" /\ pc'[c] = "fetched" /\ SamePair(c)
          BY <4>6, FetchMoves
        <5>2. QED
          BY <5>1 DEF SamePair
      <4>7. QED
        BY <3>1, <4>1, <4>2, <4>3, <4>4, <4>5, <4>6 DEF Acts, Step
    <3>3. QED
      BY <2>2, <3>2, OwedOwn, OwedAfter
  <2>3. QED
    BY <2>1, <2>2
<1>3. \A p \in Pairs : p[1] # c => (p \in S <=> p \in T)
  BY OwedOthers
<1>4. S \in SUBSET Pairs /\ T \in SUBSET Pairs
  BY OwedPairs
<1>5. QED
  <2> HIDE DEF S, T
  <2>1. S = T
    BY <1>2, <1>3, <1>4, PairsEqual
  <2>2. QED
    BY <2>1 DEF S, T

LEMMA RespondKeeps ==
  ASSUME TypeOK, NEW side \in Sides, NEW x \in Sockets, requests[side][x] # << >>,
         NEW pair \in Pairs, NEW ent \in Nat, NEW addr \in Nat,
         Respond(side, x, pair, ent, addr),
         NEW s \in Sides, NEW y \in Sockets, s # side \/ y # x
  PROVE  requests'[s][y] = requests[s][y]
<1>1. \A t \in Sides, z \in Sockets : t # side \/ z # x =>
        requests'[t][z] = requests[t][z] /\ slots'[t][z] = slots[t][z]
  BY RespondEffect
<1>2. QED
  BY <1>1

LEMMA RequestsKept ==
  ASSUME TypeOK, NEW c \in Sessions, Acts(c), NEW side \in Sides, NEW x \in Sockets,
         \/ ~Start(c) /\ ~PairSent(c) /\ ~Accept(c)
         \/ Job[c].kind # side
         \/ Socket(c) # x,
         PairSent(c) => Job[c].kind = "create" /\ requests["create"][Socket(c)] # << >>,
         Accept(c) => Job[c].kind = "recv" /\ requests["recv"][Socket(c)] # << >>
  PROVE  requests'[side][x] = requests[side][x]
<1>1. /\ Socket(c) \in Sockets /\ PairOf(c) \in Pairs /\ work[c].ent \in Nat /\ work[c].addr \in Nat
      /\ work[c].gotPair \in Pairs /\ work[c].gotEnt \in Nat
  BY SocketFacts, HalfTyped DEF TypeOK, Work
<1>2. CASE StartMaking(c)
  BY <1>2, EnqueueEffect DEF StartMaking, Sides, Start
<1>3. CASE StartReceiving(c)
  BY <1>3, EnqueueEffect DEF StartReceiving, Sides, Start
<1>4. CASE PairSent(c)
  <2>1. Respond("create", Socket(c), PairOf(c), work[c].ent, work[c].addr)
    BY <1>4 DEF PairSent
  <2>2. side # "create" \/ x # Socket(c)
    BY <1>4
  <2>3. "create" \in Sides /\ requests["create"][Socket(c)] # << >>
    BY <1>4 DEF Sides
  <2>5. PICK pair \in Pairs, ent \in Nat, addr \in Nat : Respond("create", Socket(c), pair, ent, addr)
    BY <1>1, <2>1
  <2>6. QED
    BY <1>1, <2>2, <2>3, <2>5, RespondKeeps
<1>5. CASE Accept(c)
  <2>1. Respond("recv", Socket(c), work[c].gotPair, work[c].gotEnt, work[c].addr)
    BY <1>5 DEF Accept
  <2>2. side # "recv" \/ x # Socket(c)
    BY <1>5
  <2>3. "recv" \in Sides /\ requests["recv"][Socket(c)] # << >>
    BY <1>5 DEF Sides
  <2>5. PICK pair \in Pairs, ent \in Nat, addr \in Nat : Respond("recv", Socket(c), pair, ent, addr)
    BY <1>1, <2>1
  <2>6. QED
    BY <1>1, <2>2, <2>3, <2>5, RespondKeeps
<1>6. /\ NewQubit(c) => requests' = requests
      /\ RefuseQubit(c) => requests' = requests
      /\ GotQubit(c) => requests' = requests
      /\ QubitRefused(c) => requests' = requests
      /\ Entangle(c) => requests' = requests
      /\ AddHalf(c) => requests' = requests
      /\ RefuseHalf(c) => requests' = requests
      /\ StrikeHalf(c) => requests' = requests
      /\ ListHalf(c) => requests' = requests
      /\ Measure(c) => requests' = requests
      /\ Measured(c) => requests' = requests
      /\ Fetch(c) => requests' = requests
      /\ Timeout(c) => requests' = requests
  BY DEF NewQubit, RefuseQubit, GotQubit, QubitRefused, Entangle, AddHalf, RefuseHalf,
     StrikeHalf, ListHalf, Measure, Measured, Fetch, Timeout, resultVars
<1>7. QED
  BY <1>2, <1>3, <1>4, <1>5, <1>6 DEF Acts, Start, Step

(* Who responds, and that there is a request for it. *)
LEMMA Responds ==
  ASSUME EprInv, NEW c \in Sessions
  PROVE  /\ PairSent(c) =>
              /\ Job[c].kind = "create" /\ requests["create"][Socket(c)] # << >>
              /\ PairOf(c) \in Owed("create", Socket(c))
              /\ Respond("create", Socket(c), PairOf(c), work[c].ent, work[c].addr)
         /\ Accept(c) =>
              /\ Job[c].kind = "recv" /\ requests["recv"][Socket(c)] # << >>
              /\ PairOf(c) \in Owed("recv", Socket(c))
              /\ Respond("recv", Socket(c), work[c].gotPair, work[c].gotEnt, work[c].addr)
<1>1. Staged(c) /\ Job[c].kind \in Kinds
  BY SocketFacts DEF EprInv
<1>2. ASSUME PairSent(c)
      PROVE  /\ Job[c].kind = "create" /\ requests["create"][Socket(c)] # << >>
             /\ PairOf(c) \in Owed("create", Socket(c))
             /\ Respond("create", Socket(c), PairOf(c), work[c].ent, work[c].addr)
  <2>1. pc[c] = "sent" /\ Respond("create", Socket(c), PairOf(c), work[c].ent, work[c].addr)
    BY <1>2 DEF PairSent
  <2>2. Job[c].kind = "create"
    BY <1>1, <2>1 DEF Staged, Kinds
  <2>3. QED
    BY <2>1, <2>2, RequestThere DEF Sides
<1>3. ASSUME Accept(c)
      PROVE  /\ Job[c].kind = "recv" /\ requests["recv"][Socket(c)] # << >>
             /\ PairOf(c) \in Owed("recv", Socket(c))
             /\ Respond("recv", Socket(c), work[c].gotPair, work[c].gotEnt, work[c].addr)
  <2>1. pc[c] = "fetched" /\ Respond("recv", Socket(c), work[c].gotPair, work[c].gotEnt, work[c].addr)
    BY <1>3 DEF Accept
  <2>2. Job[c].kind = "recv"
    BY <1>1, <2>1 DEF Staged
  <2>3. QED
    BY <2>1, <2>2, RequestThere DEF Sides
<1>4. QED
  BY <1>2, <1>3

LEMMA ActsRequested ==
  ASSUME EprInv, NEW c \in Sessions, Acts(c), WellTyped(c), NEW side \in Sides, NEW x \in Sockets
  PROVE  Requested(side, x)'
<1> DEFINE q == requests[side][x]
           m == requests'[side][x]
           ours == Job[c].kind = side /\ Socket(c) = x
<1>1. /\ TypeOK /\ TypeOK' /\ Requested(side, x) /\ q \in Seq(Request) /\ m \in Seq(Request)
      /\ Job[c].pairs \in Nat \ {0}
  <2>1. TypeOK /\ TypeOK' /\ Requested(side, x) /\ Job[c].pairs \in Nat \ {0}
    BY SocketFacts DEF EprInv, WellTyped
  <2>2. q \in Seq(Request)
    BY <2>1 DEF TypeOK
  <2>3. m \in Seq(Request)
    BY <2>1 DEF TypeOK
  <2>4. QED
    BY <2>1, <2>2, <2>3
<1>2. /\ IsFiniteSet(Owed(side, x)) /\ IsFiniteSet(Left(q))
      /\ Cardinality(Owed(side, x)) = Cardinality(Left(q))
      /\ \A i \in DOMAIN q : Job[q[i].session].kind = side /\ Socket(q[i].session) = x
  BY <1>1 DEF Requested
<1>3. SUFFICES /\ IsFiniteSet(Owed(side, x)') /\ IsFiniteSet(Left(m))
               /\ Cardinality(Owed(side, x)') = Cardinality(Left(m))
               /\ \A i \in DOMAIN m : Job[m[i].session].kind = side /\ Socket(m[i].session) = x
  BY DEF Requested, Left, Socket
<1>4. CASE Start(c) /\ ours
  <2> DEFINE r == [session |-> c, left |-> Job[c].pairs]
  <2>1. m = Append(q, r)
    BY <1>1, <1>4, EnqueueEffect DEF Start, StartMaking, StartReceiving, Sides
  <2>2. r \in Request /\ r.left = Job[c].pairs /\ r.session = c
    BY <1>1 DEF Request
  <2> HIDE DEF r
  <2>3. /\ IsFiniteSet(Left(m))
        /\ Cardinality(Left(m)) = Cardinality(Left(q)) + Job[c].pairs
    BY <1>1, <1>2, <2>1, <2>2, LeftAppended
  <2>4. /\ IsFiniteSet(Owed(side, x)')
        /\ Cardinality(Owed(side, x)') = Cardinality(Owed(side, x)) + Job[c].pairs
    <3> DEFINE S == Owed(side, x)
    <3>1. Owed(side, x)' = S \cup Row(c, Job[c].pairs) /\ \A k \in 1 .. Job[c].pairs : <<c, k>> \notin S
      BY <1>4, OwedStarted
    <3>2. IsFiniteSet(S) /\ Job[c].pairs \in Nat
      BY <1>1, <1>2
    <3> HIDE DEF S
    <3>3. IsFiniteSet(S \cup Row(c, Job[c].pairs))
          /\ Cardinality(S \cup Row(c, Job[c].pairs)) = Cardinality(S) + Job[c].pairs
      BY <3>1, <3>2, RowAdded
    <3>4. QED
      BY <3>1, <3>3 DEF S
  <2>5. \A i \in DOMAIN m : Job[m[i].session].kind = side /\ Socket(m[i].session) = x
    <3>1. Len(q) \in Nat /\ DOMAIN q = 1 .. Len(q)
      BY <1>1, LenProperties
    <3>2. /\ DOMAIN m = 1 .. (Len(q) + 1) /\ m[Len(q) + 1] = r
          /\ \A i \in 1 .. Len(q) : m[i] = q[i]
      BY <1>1, <2>1, <2>2, <3>1, AppendProperties, LenProperties
    <3> HIDE DEF q, m
    <3>3. ASSUME NEW i \in DOMAIN m
          PROVE  Job[m[i].session].kind = side /\ Socket(m[i].session) = x
      <4>1. CASE i = Len(q) + 1
        BY <1>4, <2>2, <3>2, <4>1
      <4>2. CASE i # Len(q) + 1
        <5>1. i \in DOMAIN q /\ m[i] = q[i]
          BY <3>1, <3>2, <4>2
        <5>2. QED
          BY <1>2, <5>1
      <4>3. QED
        BY <4>1, <4>2
    <3>4. QED
      BY <3>3
  <2>6. QED
    BY <1>2, <2>3, <2>4, <2>5
<1>5. CASE (PairSent(c) \/ Accept(c)) /\ ours
  <2>1. /\ q # << >>
        /\ PairOf(c) \in Owed(side, x)
        /\ \E pair \in Pairs, ent \in Nat, addr \in Nat : Respond(side, x, pair, ent, addr)
    <3>1. /\ PairOf(c) \in Pairs /\ work[c].ent \in Nat /\ work[c].addr \in Nat
          /\ work[c].gotPair \in Pairs /\ work[c].gotEnt \in Nat
      BY <1>1, HalfTyped DEF TypeOK, Work
    <3>2. QED
      BY <1>5, <3>1, Responds
  <2>2. PICK pair \in Pairs, ent \in Nat, addr \in Nat : Respond(side, x, pair, ent, addr)
    BY <2>1
  <2>3. /\ q[1] \in Request
        /\ q[1].left = 1 => m = Tail(q)
        /\ q[1].left # 1 => m = [q EXCEPT ![1] = [session |-> q[1].session, left |-> q[1].left - 1]]
    <3> DEFINE r == Head(q)
    <3>1. /\ r = q[1] /\ r \in Request
          /\ r.left = 1 => m = Tail(q)
          /\ r.left # 1 => m = [q EXCEPT ![1] = [session |-> r.session, left |-> r.left - 1]]
      BY <1>1, <2>1, <2>2, RespondEffect
    <3> HIDE DEF r, q, m
    <3>2. QED
      BY <3>1
  <2>4. IsFiniteSet(Left(m)) /\ Cardinality(Left(m)) = Cardinality(Left(q)) - 1
    <3> HIDE DEF q, m
    <3>1. QED
      BY <1>1, <1>2, <2>1, <2>3, LeftReduced
  <2>5. /\ IsFiniteSet(Owed(side, x)')
        /\ Cardinality(Owed(side, x)') = Cardinality(Owed(side, x)) - 1
    <3>1. Owed(side, x)' = Owed(side, x) \ {PairOf(c)}
      BY <1>5, OwedAnswered
    <3>2. QED
      BY <1>2, <2>1, <3>1, FS_RemoveElement
  <2>6. \A i \in DOMAIN m : Job[m[i].session].kind = side /\ Socket(m[i].session) = x
    <3>1. Len(q) \in Nat \ {0} /\ DOMAIN q = 1 .. Len(q)
      BY <1>1, <2>1, LenProperties, EmptySeq
    <3>2. CASE q[1].left = 1
      <4>1. /\ DOMAIN m = 1 .. (Len(q) - 1)
            /\ \A i \in 1 .. (Len(q) - 1) : m[i] = q[i + 1]
        <5> HIDE DEF q, m
        <5>1. QED
          BY <1>1, <2>1, <2>3, <3>1, <3>2, HeadTailProperties, LenProperties
      <4>2. \A i \in DOMAIN m : i + 1 \in DOMAIN q /\ m[i] = q[i + 1]
        BY <3>1, <4>1
      <4>3. QED
        BY <1>2, <4>2
    <3>3. CASE q[1].left # 1
      <4> HIDE DEF q, m
      <4>1. DOMAIN m = DOMAIN q /\ \A i \in DOMAIN m : m[i].session = q[i].session
        BY <2>3, <3>1, <3>3
      <4>2. QED
        BY <1>2, <4>1
    <3>4. QED
      BY <3>2, <3>3
  <2>7. QED
    BY <1>2, <2>4, <2>5, <2>6
<1>6. CASE ~(Start(c) /\ ours) /\ ~((PairSent(c) \/ Accept(c)) /\ ours)
  <2>1. \/ ~Start(c) /\ ~PairSent(c) /\ ~Accept(c)
        \/ Job[c].kind # side
        \/ Socket(c) # x
    BY <1>6
  <2>2. Owed(side, x)' = Owed(side, x)
    BY <2>1, OwedKept
  <2>3. m = q
    BY <1>1, <2>1, Responds, RequestsKept
  <2>4. QED
    BY <1>2, <2>2, <2>3
<1>7. QED
  BY <1>4, <1>5, <1>6

-----------------------------------------------------------------------------
(* The invariant of sessions, requests and qubits.                         *)

LEMMA NextEpr ==
  EprInv /\ LockInv /\ LockInv' /\ QueueInv' /\ [Next]_vars => EprInv'
<1> SUFFICES ASSUME EprInv, LockInv, LockInv', QueueInv', [Next]_vars PROVE EprInv'
  OBVIOUS
<1>1. ASSUME NEW c \in Sessions, Acts(c) PROVE EprInv'
  <2>1. WellTyped(c)
    BY <1>1, ActsTyped
  <2>2. TypeOK' /\ \A n \in Nodes : IsFiniteSet(used'[n])
    BY <2>1 DEF WellTyped, UsedFinite
  <2>3. \A n \in Nodes : Held(n)'
    BY <1>1, <2>1, ActsHeld
  <2>4. \A d \in Sessions : Staged(d)'
    BY <1>1, <2>1, ActsStaged
  <2>5. \A d \in Sessions : Underway(d)'
    BY <1>1, <2>1, UnderwayOwn, UnderwayOthers
  <2>6. \A x \in Sockets : Listed(x)'
    BY <1>1, ActsListed
  <2>7. \A side \in Sides, x \in Sockets : Requested(side, x)'
    BY <1>1, <2>1, ActsRequested
  <2>8. QED
    BY <2>2, <2>3, <2>4, <2>5, <2>6, <2>7 DEF EprInv
<1>2. CASE UNCHANGED vars
  <2>1. TypeOK' /\ \A n \in Nodes : IsFiniteSet(used'[n])
    BY <1>2 DEF vars, EprInv, TypeOK
  <2>2. ASSUME NEW n \in Nodes PROVE Held(n)'
    <3>1. \A v : Placed(n, v)' = Placed(n, v)
      BY <1>2 DEF vars, Placed, NotHere, NotThere, Target, Socket
    <3>2. QED
      BY <1>2, <3>1 DEF vars, EprInv, Held
  <2>3. \A d \in Sessions : Staged(d)'
    BY <1>2 DEF vars, EprInv, Staged
  <2>4. \A d \in Sessions : Underway(d)'
    BY <1>2 DEF vars, EprInv, Underway, HeldAs, Comes, IsMeasured, PairOf, Target, Socket
  <2>5. \A x \in Sockets : Listed(x)'
    BY <1>2 DEF vars, EprInv, Listed, HeldAs, Comes, Socket
  <2>6. \A side \in Sides, x \in Sockets : Requested(side, x)'
    <3>1. \A side, x : Owed(side, x)' = Owed(side, x)
      BY <1>2 DEF vars, Owed, Socket
    <3>2. requests' = requests
      BY <1>2 DEF vars
    <3>3. QED
      BY <3>1, <3>2 DEF EprInv, Requested, Socket
  <2>7. QED
    BY <2>1, <2>2, <2>3, <2>4, <2>5, <2>6 DEF EprInv
<1>3. QED
  BY <1>1, <1>2 DEF Next, Acts

LEMMA InitEpr == Init => EprInv
<1> SUFFICES ASSUME Init PROVE EprInv
  OBVIOUS
<1>1. TypeOK
  <2>1. << >> \in Seq(Sessions) /\ << >> \in Seq(Entry) /\ << >> \in Seq(Request)
        /\ << >> \in Seq(Result) /\ << >> \in Seq(Slot) /\ << >> \in Seq(Sessions \cup {Nobody})
    BY EmptySeq
  <2>2. work \in [Sessions -> Work]
    BY DEF Init, Work, Pairs, Halves, NoNum
  <2>3. timeouts \in 0 .. MaxTimeouts
    BY EprAssumption DEF Init
  <2>4. QED
    BY <2>1, <2>2, <2>3 DEF Init, TypeOK, Stages
<1>2. \A n \in Nodes : IsFiniteSet(used[n]) /\ Held(n)
  BY FS_EmptySet DEF Init, Held
<1>3. \A c \in Sessions : Staged(c) /\ Underway(c)
  BY DEF Init, Staged, Underway
<1>4. \A x \in Sockets : Listed(x)
  BY DEF Init, Listed
<1>5. ASSUME NEW side \in Sides, NEW x \in Sockets PROVE Requested(side, x)
  <2>1. requests[side][x] = << >>
    BY DEF Init
  <2>2. Left(<< >>) = {}
    BY DEF Left
  <2>3. Owed(side, x) = {}
    BY DEF Init, Owed, Pairs
  <2>4. DOMAIN requests[side][x] = {}
    BY <2>1
  <2>5. QED
    BY <2>1, <2>2, <2>3, <2>4, FS_EmptySet DEF Requested
<1>6. QED
  BY <1>1, <1>2, <1>3, <1>4, <1>5 DEF EprInv

LEMMA AlwaysEpr == Spec => [](LockInv /\ QueueInv /\ EprInv)
<1>1. Init => LockInv /\ QueueInv /\ EprInv
  BY InitLock, InitQueue, InitEpr
<1>2. LockInv /\ QueueInv /\ EprInv /\ [Next]_vars => (LockInv /\ QueueInv /\ EprInv)'
  BY NextLock, NextQueue, NextEpr
<1>3. QED
  BY <1>1, <1>2, PTL DEF Spec

(* Types are as declared, at every node and in every session. *)
THEOREM TypesCorrect == Spec => []TypeOK
<1>1. EprInv => TypeOK
  BY DEF EprInv
<1>2. QED
  BY <1>1, AlwaysEpr, PTL

(* An entry of a receive list leads to the half it was made for, however
   long it waits there (netqasm_add_epr_list, netqasm_get_epr_recv). *)
THEOREM EntriesLeadToHalves == Spec => []ListedHalves
<1>1. EprInv => ListedHalves
  <2> SUFFICES ASSUME EprInv, NEW x \in Sockets, NEW i \in DOMAIN eprList[x],
                      eprList[x][i].num # NoNum, NEW v \in virt[x[1]]
               PROVE  v[1] = eprList[x][i].num <=>
                        v[2] = <<eprList[x][i].pair[1], eprList[x][i].pair[2], 1>>
    BY DEF ListedHalves
  <2> DEFINE e == eprList[x][i]
             u == <<e.num, <<e.pair[1], e.pair[2], 1>>>>
  <2>1. x[1] \in Nodes /\ Listed(x)
    BY DEF EprInv, Sockets
  <2>2. u \in virt[x[1]] /\ Held(x[1])
    BY <2>1 DEF Listed, HeldAs, EprInv
  <2>3. u[1] = e.num /\ u[2] = <<e.pair[1], e.pair[2], 1>>
    OBVIOUS
  <2> HIDE DEF u
  <2>4. v[1] = u[1] <=> v[2] = u[2]
    BY <2>2 DEF Held
  <2>5. QED
    BY <2>3, <2>4
<1>2. QED
  BY <1>1, AlwaysEpr, PTL

-----------------------------------------------------------------------------
(* Handles and addresses.                                                  *)

LEMMA HandleMoves ==
  ASSUME TypeOK, NEW c \in Sessions, Acts(c)
  PROVE  /\ GotQubit(c) =>
              qubitList'[Home[c]] = Others(Home[c], Address(c, work[c].half)) \cup
                {<<Address(c, work[c].half), HalfOf(c, work[c].half)>>}
         /\ PairSent(c) => qubitList'[Home[c]] = Others(Home[c], Address(c, 1))
         /\ Measured(c) => qubitList'[Home[c]] = Others(Home[c], Address(c, work[c].half))
         /\ Accept(c) /\ ~IsMeasured(c) =>
              qubitList'[Home[c]] = Others(Home[c], work[c].addr) \cup
                {<<work[c].addr, work[c].gotQubit>>}
         /\ \/ GotQubit(c) \/ PairSent(c) \/ Measured(c) \/ (Accept(c) /\ ~IsMeasured(c))
            \/ qubitList' = qubitList
         /\ \A n \in Nodes : n # Home[c] => qubitList'[n] = qubitList[n]
<1>1. Home[c] \in Nodes
  BY SocketFacts
<1>2. GotQubit(c) =>
        /\ qubitList'[Home[c]] = Others(Home[c], Address(c, work[c].half)) \cup
             {<<Address(c, work[c].half), HalfOf(c, work[c].half)>>}
        /\ \A n \in Nodes : n # Home[c] => qubitList'[n] = qubitList[n]
  BY <1>1 DEF GotQubit, TypeOK
<1>3. PairSent(c) => /\ qubitList'[Home[c]] = Others(Home[c], Address(c, 1))
                     /\ \A n \in Nodes : n # Home[c] => qubitList'[n] = qubitList[n]
  BY <1>1 DEF PairSent, TypeOK
<1>4. Measured(c) => /\ qubitList'[Home[c]] = Others(Home[c], Address(c, work[c].half))
                     /\ \A n \in Nodes : n # Home[c] => qubitList'[n] = qubitList[n]
  BY <1>1 DEF Measured, TypeOK
<1>5. Accept(c) /\ ~IsMeasured(c) =>
        /\ qubitList'[Home[c]] = Others(Home[c], work[c].addr) \cup
             {<<work[c].addr, work[c].gotQubit>>}
        /\ \A n \in Nodes : n # Home[c] => qubitList'[n] = qubitList[n]
  BY <1>1 DEF Accept, TypeOK
<1>6. /\ Accept(c) /\ IsMeasured(c) => qubitList' = qubitList
      /\ StartMaking(c) => qubitList' = qubitList
      /\ StartReceiving(c) => qubitList' = qubitList
      /\ NewQubit(c) => qubitList' = qubitList
      /\ RefuseQubit(c) => qubitList' = qubitList
      /\ QubitRefused(c) => qubitList' = qubitList
      /\ Entangle(c) => qubitList' = qubitList
      /\ AddHalf(c) => qubitList' = qubitList
      /\ RefuseHalf(c) => qubitList' = qubitList
      /\ StrikeHalf(c) => qubitList' = qubitList
      /\ ListHalf(c) => qubitList' = qubitList
      /\ Measure(c) => qubitList' = qubitList
      /\ Fetch(c) => qubitList' = qubitList
      /\ Timeout(c) => qubitList' = qubitList
  BY DEF Accept, StartMaking, StartReceiving, NewQubit, RefuseQubit, QubitRefused, Entangle,
     AddHalf, RefuseHalf, StrikeHalf, ListHalf, Measure, Fetch, Timeout, nodeVars
<1>7. \/ GotQubit(c) \/ PairSent(c) \/ Measured(c) \/ (Accept(c) /\ ~IsMeasured(c))
      \/ qubitList' = qubitList
  BY <1>6 DEF Acts, Start, Step
<1>8. QED
  BY <1>2, <1>3, <1>4, <1>5, <1>7

LEMMA UsedMoves ==
  ASSUME TypeOK, UsedFinite, NEW c \in Sessions, Acts(c)
  PROVE  /\ Measured(c) =>
              used'[Home[c]] = IF Job[c].kind = "local" THEN used[Home[c]] \ {work[c].addr}
                               ELSE used[Home[c]]
         /\ Start(c) \/ PairSent(c) \/ Accept(c) => NextPair(c)
         /\ Start(c) \/ PairSent(c) \/ Accept(c) \/ Measured(c) \/ used' = used
         /\ \A n \in Nodes : n # Home[c] => used'[n] = used[n]
<1>1. Home[c] \in Nodes
  BY SocketFacts
<1>2. Measured(c) =>
        /\ used'[Home[c]] = IF Job[c].kind = "local" THEN used[Home[c]] \ {work[c].addr}
                            ELSE used[Home[c]]
        /\ \A n \in Nodes : n # Home[c] => used'[n] = used[n]
  BY <1>1 DEF Measured, TypeOK
<1>3. Start(c) \/ PairSent(c) \/ Accept(c) => NextPair(c)
  BY DEF Start, StartMaking, StartReceiving, PairSent, Accept
<1>4. NextPair(c) => \A n \in Nodes : n # Home[c] => used'[n] = used[n]
  BY <1>1, NextPairEffect DEF UsedFinite
<1>5. /\ NewQubit(c) => used' = used
      /\ RefuseQubit(c) => used' = used
      /\ GotQubit(c) => used' = used
      /\ QubitRefused(c) => used' = used
      /\ Entangle(c) => used' = used
      /\ AddHalf(c) => used' = used
      /\ RefuseHalf(c) => used' = used
      /\ StrikeHalf(c) => used' = used
      /\ ListHalf(c) => used' = used
      /\ Measure(c) => used' = used
      /\ Fetch(c) => used' = used
      /\ Timeout(c) => used' = used
  BY DEF NewQubit, RefuseQubit, GotQubit, QubitRefused, Entangle, AddHalf, RefuseHalf,
     StrikeHalf, ListHalf, Measure, Fetch, Timeout, nodeVars
<1>6. Start(c) \/ PairSent(c) \/ Accept(c) \/ Measured(c) \/ used' = used
  BY <1>5 DEF Acts, Step
<1>7. QED
  BY <1>2, <1>3, <1>4, <1>6

(* The two addresses of a pair, and those of another. *)
LEMMA Addresses ==
  ASSUME TypeOK, NEW c \in Sessions
  PROVE  /\ Address(c, 0) = work[c].addr /\ Address(c, 1) = -(1 + work[c].addr)
         /\ work[c].addr \in Nat /\ Address(c, 0) # Address(c, 1)
         /\ \A n : \A h \in {0, 1} : InUse(n, Address(c, h)) <=> work[c].addr \in used[n]
         /\ \A d \in Sessions, h, k \in {0, 1} :
              Address(c, h) = Address(d, k) => work[c].addr = work[d].addr /\ h = k
<1>1. \A d \in Sessions : work[d].addr \in Nat
  BY DEF TypeOK, Work
<1>2. Address(c, 0) = work[c].addr /\ Address(c, 1) = -(1 + work[c].addr)
  BY DEF Address
<1>3. \A d \in Sessions, h, k \in {0, 1} :
        Address(c, h) = Address(d, k) => work[c].addr = work[d].addr /\ h = k
  BY <1>1 DEF Address
<1>4. \A n : \A h \in {0, 1} : InUse(n, Address(c, h)) <=> work[c].addr \in used[n]
  <2>1. \A n : InUse(n, Address(c, 0)) <=> work[c].addr \in used[n]
    BY <1>1, <1>2 DEF InUse
  <2>2. \A n : InUse(n, Address(c, 1)) <=> work[c].addr \in used[n]
    <3>1. ~(-(1 + work[c].addr) >= 0) /\ -(1 + (-(1 + work[c].addr))) = work[c].addr
      BY <1>1
    <3>2. QED
      BY <1>2, <3>1 DEF InUse
  <2>3. QED
    BY <2>1, <2>2
<1>5. QED
  BY <1>1, <1>2, <1>3, <1>4

(* What a session is about to enter has no handle yet. *)
LEMMA Unentered ==
  ASSUME EprInv, AddressInv, NEW c \in Sessions
  PROVE  /\ pc[c] = "made" => \A e \in qubitList[Home[c]] : e[1] # Address(c, work[c].half)
         /\ pc[c] \in {"polling", "fetched"} => \A e \in qubitList[Home[c]] : e[1] # work[c].addr
<1>1. TypeOK /\ OwnAddress(c) /\ Staged(c) /\ work[c].half \in {0, 1}
  BY HalfTyped DEF EprInv, AddressInv
<1>2. Address(c, 0) = work[c].addr
  BY <1>1, Addresses
<1>3. QED
  BY <1>1, <1>2 DEF OwnAddress, Active, Staged

(* Handles go away with the qubit they stand for. *)
LEMMA HandleStays ==
  ASSUME EprInv, AddressInv, NEW c \in Sessions, Acts(c), NEW n \in Nodes, NEW e \in qubitList[n]
  PROVE  \/ e \in qubitList'[n]
         \/ n = Home[c] /\ PairSent(c) /\ e[1] = Address(c, 1) /\ e[2] = HalfOf(c, 1)
         \/ /\ n = Home[c] /\ Measured(c) /\ e[1] = Address(c, work[c].half)
            /\ e[2] = HalfOf(c, work[c].half)
<1>1. TypeOK /\ OwnAddress(c) /\ Staged(c) /\ work[c].half \in {0, 1}
  BY HalfTyped DEF EprInv, AddressInv
<1>2. Active(c) /\ n = Home[c] =>
        \A h \in {0, 1} : e[1] = Address(c, h) => e[2] = HalfOf(c, h)
  BY <1>1 DEF OwnAddress
<1>3. CASE n # Home[c] \/ qubitList' = qubitList
  BY <1>1, <1>3, HandleMoves
<1>4. CASE n = Home[c] /\ GotQubit(c)
  <2>1. e[1] # Address(c, work[c].half)
    BY <1>4, Unentered DEF GotQubit
  <2>2. e \in Others(Home[c], Address(c, work[c].half))
    BY <1>4, <2>1 DEF Others
  <2>3. QED
    BY <1>1, <1>4, <2>2, HandleMoves
<1>5. CASE n = Home[c] /\ PairSent(c)
  <2>1. Active(c)
    BY <1>5 DEF PairSent, Active
  <2>2. qubitList'[n] = Others(n, Address(c, 1))
    BY <1>1, <1>5, HandleMoves
  <2>3. QED
    BY <1>2, <1>5, <2>1, <2>2 DEF Others
<1>6. CASE n = Home[c] /\ Measured(c)
  <2>1. Active(c)
    BY <1>6 DEF Measured, Active
  <2>2. qubitList'[n] = Others(n, Address(c, work[c].half))
    BY <1>1, <1>6, HandleMoves
  <2>3. QED
    BY <1>1, <1>2, <1>6, <2>1, <2>2 DEF Others
<1>7. CASE n = Home[c] /\ Accept(c) /\ ~IsMeasured(c)
  <2>1. e[1] # work[c].addr
    BY <1>7, Unentered DEF Accept
  <2>2. e \in Others(n, work[c].addr)
    BY <2>1 DEF Others
  <2>3. QED
    BY <1>1, <1>7, <2>2, HandleMoves
<1>8. QED
  BY <1>1, <1>3, <1>4, <1>5, <1>6, <1>7, HandleMoves

(* New handles are under an address of the session. *)
LEMMA HandleNew ==
  ASSUME TypeOK, NEW c \in Sessions, Acts(c), NEW n \in Nodes, NEW e \in qubitList'[n],
         e \notin qubitList[n]
  PROVE  /\ n = Home[c]
         /\ \/ /\ GotQubit(c) /\ e[1] = Address(c, work[c].half) /\ e[2] = HalfOf(c, work[c].half)
            \/ /\ Accept(c) /\ ~IsMeasured(c) /\ e[1] = work[c].addr /\ e[2] = work[c].gotQubit
<1>1. n = Home[c] /\ qubitList' # qubitList
  BY HandleMoves
<1>2. CASE GotQubit(c)
  BY <1>1, <1>2, HandleMoves DEF Others
<1>3. CASE PairSent(c)
  BY <1>1, <1>3, HandleMoves DEF Others
<1>4. CASE Measured(c)
  BY <1>1, <1>4, HandleMoves DEF Others
<1>5. CASE Accept(c) /\ ~IsMeasured(c)
  BY <1>1, <1>5, HandleMoves DEF Others
<1>6. QED
  BY <1>1, <1>2, <1>3, <1>4, <1>5, HandleMoves

(* Addresses in use stay in use, unless a local qubit is freed. *)
LEMMA UsedStays ==
  ASSUME EprInv, NEW c \in Sessions, Acts(c), NEW n \in Nodes
  PROVE  \/ used[n] \subseteq used'[n]
         \/ /\ n = Home[c] /\ Measured(c) /\ Job[c].kind = "local"
            /\ used'[n] = used[n] \ {work[c].addr}
<1>1. TypeOK /\ UsedFinite
  BY DEF EprInv, UsedFinite
<1>2. CASE n # Home[c] \/ used' = used
  BY <1>1, <1>2, UsedMoves
<1>3. CASE n = Home[c] /\ (Start(c) \/ PairSent(c) \/ Accept(c))
  <2>1. NextPair(c)
    BY <1>1, <1>3, UsedMoves
  <2>2. QED
    BY <1>3, <2>1, NextPairMoves
<1>4. CASE n = Home[c] /\ Measured(c)
  BY <1>1, <1>4, UsedMoves
<1>5. QED
  BY <1>1, <1>2, <1>3, <1>4, UsedMoves

LEMMA ActsInUse ==
  ASSUME EprInv, AddressInv, NEW c \in Sessions, Acts(c), NEW n \in Nodes, NEW e \in qubitList'[n]
  PROVE  /\ e[1] \in Int
         /\ InUse(n, e[1])'
         /\ ~Measured(c) => InUse(n, e[1])
<1>1. TypeOK /\ UsedFinite /\ Staged(c) /\ OwnAddress(c) /\ work[c].half \in {0, 1}
  BY HalfTyped DEF EprInv, UsedFinite, AddressInv
<1>2. /\ InUse(n, e[1]) /\ e[1] \in Int
      /\ Measured(c) /\ Job[c].kind = "local" /\ n = Home[c] =>
           \A h \in {0, 1} : e[1] # Address(c, h)
  <2>1. CASE e \in qubitList[n]
    <3>1. InUse(n, e[1]) /\ e[1] \in Int
      BY <1>1, <2>1 DEF AddressInv, TypeOK
    <3>2. ASSUME Measured(c), Job[c].kind = "local", n = Home[c], NEW h \in {0, 1}, e[1] = Address(c, h)
          PROVE  FALSE
      <4>1. pc[c] = "measured" /\ work[c].half = 0
        BY <1>1, <3>2 DEF Measured, Staged
      <4>2. h = 0
        BY <1>1, <2>1, <3>2, <4>1 DEF OwnAddress, Active
      <4>3. qubitList'[n] = Others(n, Address(c, 0))
        BY <1>1, <3>2, <4>1, HandleMoves
      <4>4. QED
        BY <3>2, <4>2, <4>3 DEF Others
    <3>3. QED
      BY <3>1, <3>2
  <2>2. CASE e \notin qubitList[n]
    <3>1. /\ n = Home[c] /\ Active(c) /\ ~Measured(c)
          /\ \E h \in {0, 1} : e[1] = Address(c, h)
      <4>1. CASE GotQubit(c)
        <5>1. pc[c] = "made"
          BY <4>1 DEF GotQubit
        <5>2. QED
          BY <1>1, <2>2, <5>1, HandleNew DEF Active, Measured, Accept
      <4>2. CASE Accept(c)
        <5>1. pc[c] = "fetched"
          BY <4>2 DEF Accept
        <5>2. e[1] = work[c].addr /\ n = Home[c]
          BY <1>1, <2>2, <5>1, HandleNew DEF GotQubit
        <5>3. QED
          BY <1>1, <5>1, <5>2, Addresses DEF Active, Measured
      <4>3. QED
        BY <1>1, <2>2, <4>1, <4>2, HandleNew
    <3>2. work[c].addr \in used[n]
      BY <1>1, <3>1 DEF OwnAddress
    <3>3. InUse(n, e[1])
      BY <1>1, <3>1, <3>2, Addresses
    <3>4. e[1] \in Int
      BY <1>1, <3>1, HalfTyped
    <3>5. QED
      BY <3>1, <3>3, <3>4
  <2>3. QED
    BY <2>1, <2>2
<1>3. CASE used[n] \subseteq used'[n]
  BY <1>2, <1>3 DEF InUse
<1>4. CASE /\ n = Home[c] /\ Measured(c) /\ Job[c].kind = "local"
           /\ used'[n] = used[n] \ {work[c].addr}
  <2>1. e[1] # work[c].addr /\ e[1] # -(1 + work[c].addr) /\ work[c].addr \in Nat
    BY <1>1, <1>2, <1>4, Addresses
  <2>2. e[1] >= 0 => e[1] \in used'[n]
    BY <1>2, <1>4, <2>1 DEF InUse
  <2>3. ~(e[1] >= 0) => -(1 + e[1]) \in used'[n]
    <3>1. -(1 + e[1]) # work[c].addr
      BY <1>2, <2>1
    <3>2. QED
      BY <1>2, <1>4, <3>1 DEF InUse
  <2>4. QED
    BY <1>2, <2>2, <2>3 DEF InUse
<1>5. QED
  BY <1>2, <1>3, <1>4, UsedStays

(* Another session keeps its address for its own qubits. *)
LEMMA OwnOthers ==
  ASSUME EprInv, AddressInv, NEW c \in Sessions, Acts(c), WellTyped(c), NEW d \in Sessions, d # c
  PROVE  OwnAddress(d)'
<1>1. /\ TypeOK /\ UsedFinite /\ Same(d) /\ OwnAddress(d) /\ OwnAddress(c) /\ Staged(c)
      /\ Home[d] \in Nodes
  BY SocketFacts DEF EprInv, UsedFinite, AddressInv, WellTyped
<1>2. work'[d] = work[d] /\ (Active(d)' => Active(d))
  BY <1>1 DEF Same, Active
<1>3. SUFFICES ASSUME Active(d), Active(d)'
               PROVE  /\ work[d].addr \in used'[Home[d]]
                      /\ \A s \in Sessions : s # d /\ Active(s)' /\ Home[s] = Home[d] =>
                           work'[s].addr # work[d].addr
                      /\ \A e \in qubitList'[Home[d]], h \in {0, 1} : e[1] = Address(d, h) =>
                           /\ Job[d].kind # "recv"
                           /\ e[2] = HalfOf(d, h)
                           /\ h = 0 => ~(work[d].half = 0 /\ pc'[d] \in Unmade \cup {"made"})
                           /\ h = 1 => Job[d].kind = "create" /\ pc'[d] \notin Unmade \cup {"made"}
  BY <1>2 DEF OwnAddress, Address, HalfOf
<1>4. Active(c) /\ Home[c] = Home[d] => work[c].addr # work[d].addr
  BY <1>1, <1>3 DEF OwnAddress
<1>5. work[d].addr \in used[Home[d]]
  BY <1>1, <1>3 DEF OwnAddress
<1>6. work[d].addr \in used'[Home[d]]
  <2>1. Measured(c) => Active(c)
    BY DEF Measured, Active
  <2>2. QED
    BY <1>1, <1>4, <1>5, <2>1, UsedStays
<1>7. ASSUME NEW s \in Sessions, s # d, Active(s)', Home[s] = Home[d]
      PROVE  work'[s].addr # work[d].addr
  <2>1. CASE s # c
    <3>1. Same(s)
      BY <2>1 DEF WellTyped
    <3>2. work'[s] = work[s] /\ Active(s)
      BY <1>7, <3>1 DEF Same, Active
    <3>3. QED
      BY <1>1, <1>3, <1>7, <3>2 DEF OwnAddress
  <2>2. CASE s = c
    <3>1. CASE NextPair(c) /\ MorePairs(c)
      <4>1. work'[c].addr \notin used[Home[c]]
        BY <3>1, NextPairMoves
      <4>2. QED
        BY <1>5, <1>7, <2>2, <4>1
    <3>2. CASE work'[c].addr = work[c].addr /\ Active(c)
      BY <1>4, <1>7, <2>2, <3>2
    <3>3. \/ NextPair(c) /\ MorePairs(c)
          \/ work'[c].addr = work[c].addr /\ Active(c)
      <4>1. CASE Start(c)
        BY <1>1, <4>1, Moves, NextPairMoves DEF Start
      <4>2. CASE PairSent(c) \/ Accept(c)
        BY <1>1, <4>2, Moves, NextPairMoves DEF Active
      <4>3. CASE \/ NewQubit(c) \/ RefuseQubit(c) \/ QubitRefused(c) \/ RefuseHalf(c)
                 \/ StrikeHalf(c) \/ ListHalf(c) \/ Measure(c) \/ Timeout(c)
        BY <1>1, <4>3, Moves DEF Active
      <4>4. CASE GotQubit(c) \/ Entangle(c) \/ AddHalf(c) \/ Measured(c)
        BY <1>1, <4>4, WorkMoves DEF Active, SamePair
      <4>5. CASE Fetch(c)
        <5>1. pc[c] = "polling" /\ SamePair(c)
          BY <4>5, FetchMoves
        <5>2. QED
          BY <5>1 DEF Active, SamePair
      <4>6. QED
        BY <4>1, <4>2, <4>3, <4>4, <4>5 DEF Acts, Step
    <3>4. QED
      BY <3>1, <3>2, <3>3
  <2>3. QED
    BY <2>1, <2>2
<1>8. ASSUME NEW e \in qubitList'[Home[d]], NEW h \in {0, 1}, e[1] = Address(d, h)
      PROVE  /\ Job[d].kind # "recv"
             /\ e[2] = HalfOf(d, h)
             /\ h = 0 => ~(work[d].half = 0 /\ pc'[d] \in Unmade \cup {"made"})
             /\ h = 1 => Job[d].kind = "create" /\ pc'[d] \notin Unmade \cup {"made"}
  <2>1. e \in qubitList[Home[d]]
    <3> SUFFICES ASSUME e \notin qubitList[Home[d]] PROVE FALSE
      OBVIOUS
    <3>1. /\ Home[d] = Home[c]
          /\ \/ GotQubit(c) /\ e[1] = Address(c, work[c].half)
             \/ Accept(c) /\ e[1] = Address(c, 0)
      BY <1>1, HandleNew, Addresses
    <3>2. Active(c)
      BY <3>1 DEF GotQubit, Accept, Active
    <3>3. work[c].addr = work[d].addr
      <4>1. work[c].half \in {0, 1}
        BY <1>1, HalfTyped
      <4>2. QED
        BY <1>1, <1>8, <3>1, <4>1, Addresses
    <3>4. QED
      BY <1>4, <3>1, <3>2, <3>3
  <2>2. /\ Job[d].kind # "recv"
        /\ e[2] = HalfOf(d, h)
        /\ h = 0 => ~(work[d].half = 0 /\ pc[d] \in Unmade \cup {"made"})
        /\ h = 1 => Job[d].kind = "create" /\ pc[d] \notin Unmade \cup {"made"}
    BY <1>1, <1>3, <1>8, <2>1 DEF OwnAddress
  <2>3. pc'[d] \in Unmade \cup {"made"} => pc[d] \in Unmade \cup {"made"}
    BY <1>1 DEF Same, Unmade
  <2>4. QED
    BY <2>2, <2>3
<1>9. QED
  BY <1>6, <1>7, <1>8

(* A new address has no entries. *)
LEMMA OwnFresh ==
  ASSUME EprInv, AddressInv, NEW c \in Sessions, Acts(c), WellTyped(c), ~Measured(c),
         NextPair(c), MorePairs(c)
  PROVE  OwnAddress(c)'
<1>1. TypeOK /\ Home[c] \in Nodes /\ work'[c].addr \in Nat
  BY SocketFacts, NextPairMoves DEF EprInv
<1>2. /\ work'[c].addr \notin used[Home[c]]
      /\ work'[c].addr \in used'[Home[c]]
  BY NextPairMoves
<1>3. ASSUME NEW d \in Sessions, d # c, Active(d)', Home[d] = Home[c]
      PROVE  work'[d].addr # work'[c].addr
  <2>1. Same(d) /\ OwnAddress(d)
    BY <1>3 DEF WellTyped, AddressInv
  <2>2. work'[d] = work[d] /\ Active(d)
    BY <1>3, <2>1 DEF Same, Active
  <2>3. work[d].addr \in used[Home[c]]
    BY <1>3, <2>1, <2>2 DEF OwnAddress
  <2>4. QED
    BY <1>2, <2>2, <2>3
<1>4. ASSUME NEW e \in qubitList'[Home[c]], NEW h \in {0, 1},
             e[1] = IF h = 0 THEN work'[c].addr ELSE -(1 + work'[c].addr)
      PROVE  FALSE
  <2>1. InUse(Home[c], e[1])
    BY <1>1, ActsInUse
  <2>2. h = 0 => e[1] >= 0 /\ e[1] = work'[c].addr
    BY <1>1, <1>4
  <2>3. h = 1 => ~(e[1] >= 0) /\ -(1 + e[1]) = work'[c].addr
    BY <1>1, <1>4
  <2>4. QED
    BY <1>2, <2>1, <2>2, <2>3 DEF InUse
<1>5. QED
  BY <1>2, <1>3, <1>4 DEF OwnAddress, Address

(* A session that goes on with its pair and enters no handle. *)
LEMMA OwnKept ==
  ASSUME EprInv, AddressInv, NEW c \in Sessions, Acts(c), WellTyped(c),
         Active(c), SamePair(c), used'[Home[c]] = used[Home[c]],
         qubitList'[Home[c]] \subseteq qubitList[Home[c]],
         ~(work[c].half = 0 /\ pc[c] \in Unmade \cup {"made"}) =>
            ~(work'[c].half = 0 /\ pc'[c] \in Unmade \cup {"made"}),
         pc[c] \notin Unmade \cup {"made"} => pc'[c] \notin Unmade \cup {"made"}
  PROVE  OwnAddress(c)'
<1>1. OwnAddress(c) /\ work'[c].addr = work[c].addr /\ work'[c].pair = work[c].pair
  BY DEF AddressInv, SamePair
<1>2. work'[c].addr \in used'[Home[c]]
  BY <1>1 DEF OwnAddress
<1>3. ASSUME NEW d \in Sessions, d # c, Active(d)', Home[d] = Home[c]
      PROVE  work'[d].addr # work'[c].addr
  <2>1. Same(d)
    BY <1>3 DEF WellTyped
  <2>2. work'[d] = work[d] /\ Active(d)
    BY <1>3, <2>1 DEF Same, Active
  <2>3. QED
    BY <1>1, <1>3, <2>2 DEF OwnAddress
<1>4. ASSUME NEW e \in qubitList'[Home[c]], NEW h \in {0, 1},
             e[1] = IF h = 0 THEN work'[c].addr ELSE -(1 + work'[c].addr)
      PROVE  /\ Job[c].kind # "recv"
             /\ e[2] = <<c, work'[c].pair, h>>
             /\ h = 0 => ~(work'[c].half = 0 /\ pc'[c] \in Unmade \cup {"made"})
             /\ h = 1 => Job[c].kind = "create" /\ pc'[c] \notin Unmade \cup {"made"}
  <2>1. e \in qubitList[Home[c]] /\ e[1] = Address(c, h)
    BY <1>1, <1>4 DEF Address
  <2>2. QED
    BY <1>1, <2>1 DEF OwnAddress, HalfOf
<1>5. QED
  BY <1>2, <1>3, <1>4 DEF OwnAddress, Address, HalfOf

(* Handles of GotQubit are of the pair at hand. *)
LEMMA OwnGot ==
  ASSUME EprInv, AddressInv, NEW c \in Sessions, Acts(c), WellTyped(c), GotQubit(c)
  PROVE  OwnAddress(c)'
<1> DEFINE h0 == work[c].half
<1>1. /\ TypeOK /\ UsedFinite /\ OwnAddress(c) /\ Staged(c) /\ h0 \in {0, 1}
      /\ pc[c] = "made" /\ SamePair(c) /\ Home[c] \in Nodes /\ Job[c].kind \in Kinds
  BY WorkMoves, HalfTyped, SocketFacts DEF EprInv, AddressInv, UsedFinite
<1>2. Active(c) /\ work'[c].addr = work[c].addr /\ work'[c].pair = work[c].pair
  BY <1>1 DEF Active, SamePair
<1>3. work'[c].addr \in used'[Home[c]]
  <2>1. ~Measured(c)
    BY <1>1 DEF Measured
  <2>2. QED
    BY <1>1, <1>2, <2>1, UsedStays DEF OwnAddress
<1>4. ASSUME NEW d \in Sessions, d # c, Active(d)', Home[d] = Home[c]
      PROVE  work'[d].addr # work'[c].addr
  <2>1. Same(d)
    BY <1>4 DEF WellTyped
  <2>2. work'[d] = work[d] /\ Active(d)
    BY <1>4, <2>1 DEF Same, Active
  <2>3. QED
    BY <1>1, <1>2, <1>4, <2>2 DEF OwnAddress
<1>5. /\ Job[c].kind = "create" /\ h0 = 0 => work'[c].half = 1 /\ pc'[c] \in {"locking", "making"}
      /\ ~(Job[c].kind = "create" /\ h0 = 0) => pc'[c] \in {"entangling", "measuring"}
      /\ Job[c].kind # "recv" /\ (h0 = 1 => Job[c].kind = "create")
  BY <1>1, WorkMoves DEF Staged, Kinds
<1>6. ASSUME NEW e \in qubitList'[Home[c]], NEW h \in {0, 1}, e[1] = Address(c, h)
      PROVE  e[2] = HalfOf(c, h) /\ (h = 1 => h0 = 1)
  <2>1. CASE e \in qubitList[Home[c]]
    <3>1. e[2] = HalfOf(c, h) /\ h # 1
      BY <1>1, <1>2, <1>6, <2>1 DEF OwnAddress
    <3>2. QED
      BY <3>1
  <2>2. CASE e \notin qubitList[Home[c]]
    <3>1. e[1] = Address(c, h0) /\ e[2] = HalfOf(c, h0)
      BY <1>1, <2>2, HandleNew DEF Accept
    <3>2. h = h0
      BY <1>1, <1>6, <3>1, Addresses
    <3>3. QED
      BY <3>1, <3>2
  <2>3. QED
    BY <2>1, <2>2
<1>7. \A h : Address(c, h)' = Address(c, h) /\ HalfOf(c, h)' = HalfOf(c, h)
  BY <1>2 DEF Address, HalfOf
<1>8. ASSUME NEW e \in qubitList'[Home[c]], NEW h \in {0, 1}, e[1] = Address(c, h)'
      PROVE  /\ Job[c].kind # "recv"
             /\ e[2] = HalfOf(c, h)'
             /\ h = 0 => ~(work'[c].half = 0 /\ pc'[c] \in Unmade \cup {"made"})
             /\ h = 1 => Job[c].kind = "create" /\ pc'[c] \notin Unmade \cup {"made"}
  <2>1. e[2] = HalfOf(c, h) /\ (h = 1 => h0 = 1)
    BY <1>6, <1>7, <1>8
  <2>2. QED
    BY <1>1, <1>5, <1>7, <2>1 DEF Unmade
<1>9. QED
  BY <1>3, <1>4, <1>8 DEF OwnAddress

LEMMA OwnOwn ==
  ASSUME EprInv, AddressInv, NEW c \in Sessions, Acts(c), WellTyped(c)
  PROVE  OwnAddress(c)'
<1>1. TypeOK /\ UsedFinite /\ Staged(c) /\ Home[c] \in Nodes /\ Job[c].kind \in Kinds
  BY SocketFacts DEF EprInv, UsedFinite
<1>2. CASE ~Active(c)'
  BY <1>2 DEF OwnAddress
<1>3. CASE Start(c)
  <2>1. NextPair(c) /\ MorePairs(c) /\ ~Measured(c)
    BY <1>1, <1>3, Moves, NextPairMoves DEF Start, Measured
  <2>2. QED
    BY <2>1, OwnFresh
<1>4. CASE PairSent(c) \/ Accept(c)
  <2>1. NextPair(c) /\ ~Measured(c) /\ (~MorePairs(c) => pc'[c] = "done")
    BY <1>1, <1>4, Moves DEF Measured
  <2>2. CASE MorePairs(c)
    BY <2>1, <2>2, OwnFresh
  <2>3. CASE ~MorePairs(c)
    BY <1>2, <2>1, <2>3 DEF Active
  <2>4. QED
    BY <2>2, <2>3
<1>5. CASE RefuseHalf(c) \/ QubitRefused(c) \/ Timeout(c)
  <2>1. pc'[c] = "failed"
    BY <1>1, <1>5, Moves
  <2>2. QED
    BY <1>2, <2>1 DEF Active
<1>6. CASE GotQubit(c)
  BY <1>6, OwnGot
<1>7. CASE NewQubit(c) \/ RefuseQubit(c) \/ StrikeHalf(c) \/ ListHalf(c) \/ Measure(c)
  <2>1. /\ work' = work /\ Active(c)
        /\ pc[c] \notin Unmade \cup {"made"} => pc'[c] \notin Unmade \cup {"made"}
        /\ pc'[c] \in Unmade \cup {"made"} => pc[c] \in Unmade \cup {"made"}
        /\ pc[c] \notin {"sent", "fetched", "measured", "idle", "made"}
    BY <1>1, <1>7, Moves DEF Active, Unmade
  <2>2. used' = used /\ qubitList' = qubitList
    BY <1>7 DEF NewQubit, RefuseQubit, StrikeHalf, ListHalf, Measure, nodeVars
  <2>3. QED
    BY <2>1, <2>2, OwnKept DEF SamePair
<1>8. CASE Entangle(c) \/ AddHalf(c)
  <2>1. /\ Active(c) /\ SamePair(c) /\ pc'[c] \notin Unmade \cup {"made"}
    BY <1>1, <1>8, WorkMoves DEF Active, Unmade
  <2>2. used' = used /\ qubitList' = qubitList
    BY <1>8 DEF Entangle, AddHalf, nodeVars
  <2>3. QED
    BY <2>1, <2>2, OwnKept
<1>9. CASE Fetch(c)
  <2>1. /\ Active(c) /\ SamePair(c) /\ pc'[c] = "fetched"
    BY <1>1, <1>9, FetchMoves DEF Active
  <2>2. used' = used /\ qubitList' = qubitList
    BY <1>9 DEF Fetch, nodeVars
  <2>3. QED
    BY <2>1, <2>2, OwnKept DEF Unmade
<1>10. CASE Measured(c)
  <2>1. /\ Active(c) /\ SamePair(c)
        /\ pc'[c] = IF Job[c].kind = "local" THEN "done"
                    ELSE IF work[c].half = 0 THEN "measuring" ELSE "listing"
    BY <1>1, <1>10, WorkMoves DEF Active
  <2>2. CASE Job[c].kind = "local"
    BY <1>2, <2>1, <2>2 DEF Active
  <2>3. CASE Job[c].kind # "local"
    <3>1. used'[Home[c]] = used[Home[c]]
      BY <1>1, <1>10, <2>3, UsedMoves
    <3>2. qubitList'[Home[c]] \subseteq qubitList[Home[c]]
      BY <1>1, <1>10, HandleMoves DEF Others
    <3>3. pc'[c] \notin Unmade \cup {"made"}
      BY <2>1, <2>3 DEF Unmade
    <3>4. QED
      BY <2>1, <3>1, <3>2, <3>3, OwnKept
  <2>4. QED
    BY <2>2, <2>3
<1>11. QED
  BY <1>3, <1>4, <1>5, <1>6, <1>7, <1>8, <1>9, <1>10 DEF Acts, Step

(* The half that stays keeps its handle. *)
LEMMA KeptStays ==
  ASSUME EprInv, AddressInv, NEW c \in Sessions, Acts(c), NEW d \in Sessions,
         Kept(d), Job[d].kind = "create", Job[d].type = "K",
         \/ pc[d] \in {"locking", "making", "made"} /\ work[d].half = 1
         \/ pc[d] \in {"entangling", "sending", "striking", "listing", "sent"}
  PROVE  <<work[d].addr, HalfOf(d, 0)>> \in qubitList'[Home[d]]
<1> DEFINE e == <<work[d].addr, HalfOf(d, 0)>>
<1>1. TypeOK /\ Home[d] \in Nodes /\ work[c].half \in {0, 1} /\ Staged(d)
  BY SocketFacts, HalfTyped DEF EprInv
<1>2. e \in qubitList[Home[d]]
  BY DEF Kept
<1>3. e[1] = Address(d, 0) /\ e[2] = HalfOf(d, 0) /\ e[2][1] = d
  BY <1>1, Addresses DEF HalfOf
<1>4. CASE Home[d] = Home[c] /\ PairSent(c) /\ e[1] = Address(c, 1)
  BY <1>1, <1>3, <1>4, Addresses
<1>5. CASE Measured(c) /\ e[2] = HalfOf(c, work[c].half)
  <2>1. c = d /\ pc[c] = "measured"
    BY <1>3, <1>5 DEF HalfOf, Measured
  <2>2. QED
    BY <2>1
<1>6. QED
  <2> HIDE DEF e
  <2>1. PICK n \in Nodes : n = Home[d]
    BY <1>1
  <2>2. \/ e \in qubitList'[n]
        \/ n = Home[c] /\ PairSent(c) /\ e[1] = Address(c, 1)
        \/ Measured(c) /\ e[2] = HalfOf(c, work[c].half)
    BY <1>2, <2>1, HandleStays
  <2>3. CASE e \in qubitList'[n]
    BY <2>1, <2>3 DEF e
  <2>4. QED
    BY <1>4, <1>5, <2>1, <2>2, <2>3

LEMMA ActsKept ==
  ASSUME EprInv, AddressInv, NEW c \in Sessions, Acts(c), WellTyped(c), NEW d \in Sessions
  PROVE  Kept(d)'
<1> DEFINE holds == \/ pc[d] \in {"locking", "making", "made"} /\ work[d].half = 1
                    \/ pc[d] \in {"entangling", "sending", "striking", "listing", "sent"}
<1>1. TypeOK /\ UsedFinite /\ Staged(c) /\ Kept(d) /\ work[c].half \in {0, 1}
  BY HalfTyped DEF EprInv, UsedFinite, AddressInv
<1>2. SUFFICES ASSUME Job[d].kind = "create", Job[d].type = "K",
                      \/ pc'[d] \in {"locking", "making", "made"} /\ work'[d].half = 1
                      \/ pc'[d] \in {"entangling", "sending", "striking", "listing", "sent"}
               PROVE  <<work'[d].addr, <<d, work'[d].pair, 0>>>> \in qubitList'[Home[d]]
  BY DEF Kept, HalfOf
<1>3. CASE holds /\ work'[d].addr = work[d].addr /\ work'[d].pair = work[d].pair
  BY <1>1, <1>2, <1>3, KeptStays DEF HalfOf
<1>4. CASE d # c
  <2>1. Same(d)
    BY <1>4 DEF WellTyped
  <2>2. QED
    BY <1>2, <1>3, <2>1 DEF Same
<1>5. CASE d = c /\ GotQubit(c) /\ work[c].half = 0
  <2>1. /\ SamePair(c) /\ Address(c, 0) = work[c].addr
        /\ <<Address(c, 0), HalfOf(c, 0)>> \in qubitList'[Home[c]]
    BY <1>1, <1>5, WorkMoves, HandleMoves, Addresses
  <2>2. QED
    BY <1>5, <2>1 DEF SamePair, HalfOf
<1>6. CASE d = c /\ ~(GotQubit(c) /\ work[c].half = 0)
  <2>1. CASE Start(c)
    BY <1>1, <1>2, <1>6, <2>1, Moves, NextPairMoves DEF Start
  <2>2. CASE PairSent(c)
    BY <1>1, <1>2, <1>6, <2>2, Moves, NextPairMoves
  <2>3. CASE \/ NewQubit(c) \/ RefuseQubit(c) \/ QubitRefused(c) \/ RefuseHalf(c)
             \/ StrikeHalf(c) \/ ListHalf(c) \/ Measure(c) \/ Timeout(c)
    BY <1>1, <1>2, <1>3, <1>6, <2>3, Moves
  <2>4. CASE GotQubit(c) \/ Entangle(c) \/ AddHalf(c)
    BY <1>1, <1>2, <1>3, <1>6, <2>4, WorkMoves DEF SamePair
  <2>5. CASE Measured(c)
    <3>1. pc[c] = "measured"
      BY <2>5 DEF Measured
    <3>2. QED
      BY <1>1, <1>2, <1>6, <3>1 DEF Staged
  <2>6. CASE Fetch(c) \/ Accept(c)
    <3>1. pc[c] \in {"polling", "fetched"}
      BY <2>6 DEF Fetch, Accept
    <3>2. QED
      BY <1>1, <1>2, <1>6, <3>1 DEF Staged
  <2>7. QED
    BY <2>1, <2>2, <2>3, <2>4, <2>5, <2>6 DEF Acts, Step
<1>7. QED
  BY <1>4, <1>5, <1>6

-----------------------------------------------------------------------------
(* Results.                                                                *)

LEMMA GotMoves ==
  ASSUME NEW c \in Sessions, Acts(c)
  PROVE  PairSent(c) \/ Accept(c) \/ got' = got
<1>1. /\ StartMaking(c) => got' = got
      /\ StartReceiving(c) => got' = got
      /\ NewQubit(c) => got' = got
      /\ RefuseQubit(c) => got' = got
      /\ GotQubit(c) => got' = got
      /\ QubitRefused(c) => got' = got
      /\ Entangle(c) => got' = got
      /\ AddHalf(c) => got' = got
      /\ RefuseHalf(c) => got' = got
      /\ StrikeHalf(c) => got' = got
      /\ ListHalf(c) => got' = got
      /\ Measure(c) => got' = got
      /\ Measured(c) => got' = got
      /\ Fetch(c) => got' = got
      /\ Timeout(c) => got' = got
  BY DEF StartMaking, StartReceiving, NewQubit, RefuseQubit, GotQubit, QubitRefused, Entangle,
     AddHalf, RefuseHalf, StrikeHalf, ListHalf, Measure, Measured, Fetch, Timeout, resultVars
<1>2. QED
  BY <1>1 DEF Acts, Start, Step

(* A response puts its pair and address in one result array, of a session
   of the same side and socket. *)
LEMMA RespondGot ==
  ASSUME EprInv, NEW side \in Sides, NEW x \in Sockets, requests[side][x] # << >>,
         NEW pair \in Pairs, NEW ent \in Nat, NEW addr \in Nat,
         Respond(side, x, pair, ent, addr)
  PROVE  \E s \in Sessions :
           /\ Job[s].kind = side /\ Socket(s) = x
           /\ got'[s] = Append(got[s], [pair |-> pair, addr |-> addr])
           /\ \A d \in Sessions : d # s => got'[d] = got[d]
<1> DEFINE r == Head(requests[side][x])
<1>1. TypeOK /\ requests[side][x] \in Seq(Request) /\ Requested(side, x)
  BY DEF EprInv, TypeOK
<1>2. /\ r = requests[side][x][1] /\ r \in Request
      /\ \A d \in Sessions : d # r.session => got'[d] = got[d]
      /\ got'[r.session] = Append(got[r.session], [pair |-> pair, addr |-> addr])
  <2>1. r = requests[side][x][1] /\ r \in Request
    BY <1>1, RespondEffect
  <2>2. \A d \in Sessions : d # r.session => got'[d] = got[d]
    BY <1>1, RespondEffect
  <2>3. got'[r.session] = Append(got[r.session], [pair |-> pair, addr |-> addr])
    <3>1. got' = [got EXCEPT ![r.session] = Append(got[r.session], [pair |-> pair, addr |-> addr])]
      BY DEF Respond
    <3>2. r.session \in Sessions
      BY <2>1 DEF Request
    <3> HIDE DEF r
    <3>3. QED
      BY <1>1, <3>1, <3>2 DEF TypeOK
  <2>4. QED
    BY <2>1, <2>2, <2>3
<1>3. 1 \in DOMAIN requests[side][x]
  BY <1>1, LenProperties, EmptySeq
<1>4. Job[r.session].kind = side /\ Socket(r.session) = x
  BY <1>1, <1>2, <1>3 DEF Requested
<1>5. r.session \in Sessions
  BY <1>2 DEF Request
<1>6. QED
  BY <1>2, <1>4, <1>5

(* A handle in a result stays. *)
LEMMA ResultStays ==
  ASSUME EprInv, AddressInv, NEW c \in Sessions, Acts(c), NEW d \in Sessions,
         NEW r \in Result, Result1(d, r)
  PROVE  /\ Job[d].kind \in Sides
         /\ Job[r.pair[1]].kind = "create"
         /\ Job[r.pair[1]].type = "K" =>
              <<r.addr, <<r.pair[1], r.pair[2], SideOf(d)>>>> \in qubitList'[Home[d]]
<1> DEFINE e == <<r.addr, <<r.pair[1], r.pair[2], SideOf(d)>>>>
<1>1. /\ TypeOK /\ Home[d] \in Nodes /\ work[c].half \in {0, 1} /\ Staged(c)
      /\ r.addr \in Nat /\ work[c].addr \in Nat
  BY SocketFacts, HalfTyped DEF EprInv, Result
<1>2. e[1] = r.addr /\ e[2][1] = r.pair[1]
  OBVIOUS
<1>3. SUFFICES ASSUME Job[r.pair[1]].kind = "create", Job[r.pair[1]].type = "K",
                      e \in qubitList[Home[d]]
               PROVE  e \in qubitList'[Home[d]]
  BY DEF Result1
<1>4. CASE PairSent(c) /\ e[1] = Address(c, 1)
  BY <1>1, <1>2, <1>4 DEF Address
<1>5. CASE Measured(c) /\ e[2] = HalfOf(c, work[c].half)
  <2>1. r.pair[1] = c /\ pc[c] = "measured"
    BY <1>2, <1>5 DEF HalfOf, Measured
  <2>2. QED
    BY <1>1, <1>3, <2>1 DEF Staged
<1>6. QED
  <2> HIDE DEF e
  <2>1. PICK n \in Nodes : n = Home[d]
    BY <1>1
  <2>2. \/ e \in qubitList'[n]
        \/ PairSent(c) /\ e[1] = Address(c, 1)
        \/ Measured(c) /\ e[2] = HalfOf(c, work[c].half)
    BY <1>3, <2>1, HandleStays
  <2>3. CASE e \in qubitList'[n]
    BY <2>1, <2>3 DEF e
  <2>4. QED
    BY <1>4, <1>5, <2>2, <2>3

(* The pair of PairSent and its address. *)
LEMMA SentRight ==
  ASSUME EprInv, AddressInv, NEW c \in Sessions, Acts(c), PairSent(c)
  PROVE  /\ Job[c].kind = "create"
         /\ Job[c].type = "K" => <<work[c].addr, HalfOf(c, 0)>> \in qubitList'[Home[c]]
<1>1. pc[c] = "sent" /\ Job[c].kind = "create"
  BY Responds DEF PairSent
<1>2. Kept(c)
  BY DEF AddressInv
<1>3. QED
  BY <1>1, <1>2, KeptStays

(* The pair of Accept and its address. *)
LEMMA AcceptRight ==
  ASSUME EprInv, AddressInv, NEW c \in Sessions, Acts(c), Accept(c)
  PROVE  /\ Job[work[c].gotPair[1]].kind = "create"
         /\ Job[work[c].gotPair[1]].type = "K" =>
              <<work[c].addr, <<work[c].gotPair[1], work[c].gotPair[2], 1>>>> \in qubitList'[Home[c]]
<1>1. pc[c] = "fetched" /\ TypeOK /\ Underway(c)
  BY DEF Accept, EprInv
<1>2. Comes(work[c].gotPair, Socket(c))
  BY <1>1 DEF Underway
<1>3. ASSUME Job[work[c].gotPair[1]].type = "K"
      PROVE  <<work[c].addr, <<work[c].gotPair[1], work[c].gotPair[2], 1>>>> \in qubitList'[Home[c]]
  <2>1. ~IsMeasured(c)
    BY <1>3 DEF IsMeasured
  <2>2. work[c].gotQubit = <<work[c].gotPair[1], work[c].gotPair[2], 1>>
    BY <1>1, <2>1 DEF Underway
  <2>3. <<work[c].addr, work[c].gotQubit>> \in qubitList'[Home[c]]
    BY <1>1, <2>1, HandleMoves
  <2>4. QED
    BY <2>2, <2>3
<1>4. QED
  BY <1>2, <1>3 DEF Comes

LEMMA ActsResults ==
  ASSUME EprInv, AddressInv, NEW c \in Sessions, Acts(c), WellTyped(c),
         NEW d \in Sessions, NEW i \in DOMAIN got'[d]
  PROVE  Result1(d, got[d][i])'
<1>1. /\ TypeOK /\ got[d] \in Seq(Result) /\ Socket(c) \in Sockets /\ PairOf(c) \in Pairs
      /\ work[c].ent \in Nat /\ work[c].addr \in Nat /\ work[c].gotPair \in Pairs
      /\ work[c].gotEnt \in Nat /\ Socket(c)[1] = Home[c]
  BY SocketFacts, HalfTyped DEF EprInv, TypeOK, Work
<1>2. ASSUME i \in DOMAIN got[d], got'[d][i] = got[d][i]
      PROVE  Result1(d, got[d][i])'
  <2>1. got[d][i] \in Result /\ Result1(d, got[d][i])
    BY <1>1, <1>2, ElementOfSeq, LenProperties DEF AddressInv
  <2>2. PICK r \in Result : r = got[d][i] /\ Result1(d, r)
    BY <2>1
  <2>3. /\ Job[d].kind \in Sides
        /\ Job[r.pair[1]].kind = "create"
        /\ Job[r.pair[1]].type = "K" =>
             <<r.addr, <<r.pair[1], r.pair[2], SideOf(d)>>>> \in qubitList'[Home[d]]
    BY <2>2, ResultStays
  <2>4. got'[d][i] = r
    BY <1>2, <2>2
  <2>5. QED
    BY <2>3, <2>4 DEF Result1, SideOf
<1>3. ASSUME NEW side \in Sides, NEW pair \in Pairs, NEW addr \in Nat,
             Job[pair[1]].kind = "create",
             Job[pair[1]].type = "K" =>
               <<addr, <<pair[1], pair[2], IF side = "create" THEN 0 ELSE 1>>>> \in qubitList'[Home[c]],
             NEW s \in Sessions, Job[s].kind = side, Socket(s) = Socket(c),
             got'[s] = Append(got[s], [pair |-> pair, addr |-> addr]),
             \A t \in Sessions : t # s => got'[t] = got[t]
      PROVE  Result1(d, got[d][i])'
  <2> DEFINE r == [pair |-> pair, addr |-> addr]
  <2>1. CASE d # s
    BY <1>2, <1>3, <2>1
  <2>2. CASE d = s
    <3>1. r \in Result /\ r.pair = pair /\ r.addr = addr
      BY DEF Result
    <3> HIDE DEF r
    <3>2. /\ DOMAIN got[d] = 1 .. Len(got[d]) /\ Len(got[d]) \in Nat
          /\ DOMAIN got'[d] = 1 .. (Len(got[d]) + 1)
          /\ got'[d][Len(got[d]) + 1] = r
          /\ \A j \in 1 .. Len(got[d]) : got'[d][j] = got[d][j]
      BY <1>1, <1>3, <2>2, <3>1, AppendProperties, LenProperties DEF r
    <3>3. CASE i \in DOMAIN got[d]
      BY <1>2, <3>2, <3>3
    <3>4. CASE i \notin DOMAIN got[d]
      <4>1. got'[d][i] = r
        BY <3>2, <3>4
      <4>2. Home[d] = Home[c]
        BY <1>1, <1>3, <2>2, SocketFacts
      <4>3. SideOf(d) = IF side = "create" THEN 0 ELSE 1
        BY <1>3, <2>2 DEF SideOf
      <4>4. QED
        BY <1>3, <2>2, <3>1, <4>1, <4>2, <4>3 DEF Result1, SideOf
    <3>5. QED
      BY <3>3, <3>4
  <2>3. QED
    BY <2>1, <2>2
<1>4. CASE PairSent(c)
  <2>1. /\ Job[c].kind = "create" /\ requests["create"][Socket(c)] # << >>
        /\ Respond("create", Socket(c), PairOf(c), work[c].ent, work[c].addr)
    BY <1>4, Responds
  <2>2. PICK pair \in Pairs, ent \in Nat, addr \in Nat :
          /\ pair = PairOf(c) /\ addr = work[c].addr
          /\ Respond("create", Socket(c), pair, ent, addr)
    BY <1>1, <2>1
  <2>3. /\ Job[pair[1]].kind = "create"
        /\ Job[pair[1]].type = "K" => <<addr, <<pair[1], pair[2], 0>>>> \in qubitList'[Home[c]]
    BY <1>4, <2>2, SentRight DEF PairOf, HalfOf
  <2>4. "create" \in Sides
    BY DEF Sides
  <2>5. PICK s \in Sessions :
          /\ Job[s].kind = "create" /\ Socket(s) = Socket(c)
          /\ got'[s] = Append(got[s], [pair |-> pair, addr |-> addr])
          /\ \A t \in Sessions : t # s => got'[t] = got[t]
    BY <1>1, <2>1, <2>2, <2>4, RespondGot
  <2>6. QED
    BY <1>3, <2>3, <2>4, <2>5
<1>5. CASE Accept(c)
  <2>1. /\ Job[c].kind = "recv" /\ requests["recv"][Socket(c)] # << >>
        /\ Respond("recv", Socket(c), work[c].gotPair, work[c].gotEnt, work[c].addr)
    BY <1>5, Responds
  <2>2. PICK pair \in Pairs, ent \in Nat, addr \in Nat :
          /\ pair = work[c].gotPair /\ addr = work[c].addr
          /\ Respond("recv", Socket(c), pair, ent, addr)
    BY <1>1, <2>1
  <2>3. /\ Job[pair[1]].kind = "create"
        /\ Job[pair[1]].type = "K" => <<addr, <<pair[1], pair[2], 1>>>> \in qubitList'[Home[c]]
    BY <1>5, <2>2, AcceptRight
  <2>4. "recv" \in Sides
    BY DEF Sides
  <2>5. PICK s \in Sessions :
          /\ Job[s].kind = "recv" /\ Socket(s) = Socket(c)
          /\ got'[s] = Append(got[s], [pair |-> pair, addr |-> addr])
          /\ \A t \in Sessions : t # s => got'[t] = got[t]
    BY <1>1, <2>1, <2>2, <2>4, RespondGot
  <2>6. QED
    BY <1>3, <2>3, <2>4, <2>5
<1>6. CASE got' = got
  BY <1>2, <1>6
<1>7. QED
  BY <1>4, <1>5, <1>6, GotMoves

-----------------------------------------------------------------------------
(* Every qubit can be reached.                                             *)

\* the ways a qubit v is reached other than by a handle or a list
Carries(c, n, v) ==
  \/ Home[c] = n /\ pc[c] = "made" /\ v[2] = HalfOf(c, work[c].half)
  \/ Home[c] = n /\ pc[c] = "fetched" /\ ~IsMeasured(c) /\ v[2] = work[c].gotQubit
  \/ /\ Target(c) = n
     /\ pc[c] \in {"striking", "listing"}
     /\ v = <<work[c].num, HalfOf(c, 1)>>

\* the same, in the next state
Reachable(n, v) ==
  \/ \E e \in qubitList'[n] : e[2] = v[2]
  \/ \E s \in SocketIds : \E i \in DOMAIN eprList'[<<n, s>>] :
       eprList'[<<n, s>>][i].num = v[1]
  \/ \E c \in Sessions : Carries(c, n, v)'

(* The handle of a qubit goes only with it. *)
LEMMA ReachedByHandle ==
  ASSUME EprInv, AddressInv, NEW c \in Sessions, Acts(c), NEW n \in Nodes,
         NEW v \in virt[n], NEW e \in qubitList[n], e[2] = v[2]
  PROVE  \E f \in qubitList'[n] : f[2] = v[2]
<1>1. TypeOK /\ Placed(n, v) /\ work[c].half \in {0, 1} /\ Staged(c)
  BY HalfTyped DEF EprInv, Held
<1>2. CASE e \in qubitList'[n]
  BY <1>2
<1>3. CASE n = Home[c] /\ PairSent(c) /\ e[2] = HalfOf(c, 1)
  <2>1. pc[c] = "sent" /\ v[2][1] = c /\ v[2][2] = work[c].pair /\ v[2][3] = 1
    BY <1>3 DEF PairSent, HalfOf
  <2>2. NotHere(c, 1)
    BY <2>1 DEF NotHere
  <2>3. QED
    BY <1>1, <1>3, <2>1, <2>2 DEF Placed
<1>4. CASE n = Home[c] /\ Measured(c) /\ e[2] = HalfOf(c, work[c].half)
  <2>1. /\ pc[c] = "measured" /\ v[2][1] = c /\ v[2][2] = work[c].pair
        /\ v[2][3] = work[c].half
    BY <1>4 DEF Measured, HalfOf
  <2>2. NotHere(c, work[c].half)
    BY <1>1, <2>1 DEF NotHere
  <2>3. QED
    BY <1>1, <1>4, <2>1, <2>2 DEF Placed
<1>5. QED
  BY <1>2, <1>3, <1>4, HandleStays

(* The number of a qubit goes from a list only to the one who fetches it. *)
LEMMA ReachedByList ==
  ASSUME EprInv, AddressInv, NEW c \in Sessions, Acts(c), WellTyped(c), NEW n \in Nodes,
         NEW v \in virt[n], NEW s \in SocketIds, NEW i \in DOMAIN eprList[<<n, s>>],
         eprList[<<n, s>>][i].num = v[1]
  PROVE  Reachable(n, v)
<1>0. PICK x \in Sockets : x = <<n, s>>
  BY DEF Sockets
<1> DEFINE q == eprList[x]
           m == eprList'[x]
<1>1. /\ TypeOK /\ x[1] = n /\ Listed(x) /\ Held(n) /\ v[1] \in Nat
      /\ Socket(c) \in Sockets /\ Peer[Socket(c)] \in Sockets /\ Socket(c)[1] = Home[c]
      /\ PairOf(c) \in Pairs /\ work[c].num \in Nat \cup {NoNum} /\ work[c].ent \in Nat
  <2>1. TypeOK /\ x[1] = n /\ Listed(x) /\ Held(n)
    BY <1>0 DEF EprInv
  <2>2. v[1] \in Nat
    BY <2>1 DEF TypeOK
  <2>3. QED
    BY <2>1, <2>2, SocketFacts, HalfTyped
<1>2. q \in Seq(Entry) /\ Len(q) \in Nat /\ DOMAIN q = 1 .. Len(q) /\ i \in 1 .. Len(q)
      /\ q[i].num = v[1]
  <2>1. q \in Seq(Entry)
    BY <1>1 DEF TypeOK
  <2>2. QED
    BY <1>0, <2>1, LenProperties
<1>3. CASE m = q
  BY <1>0, <1>2, <1>3 DEF Reachable
<1>4. CASE ListHalf(c) /\ x = Peer[Socket(c)]
  <2> DEFINE e == [num |-> work[c].num, ent |-> work[c].ent, pair |-> PairOf(c)]
  <2>1. m = Append(q, e)
    BY <1>1, <1>4, ListMoves DEF TypeOK
  <2>2. e \in Entry
    BY <1>1 DEF Entry
  <2> HIDE DEF e
  <2>3. i \in DOMAIN m /\ m[i] = q[i]
    BY <1>2, <2>1, <2>2, AppendProperties, LenProperties
  <2>4. QED
    BY <1>0, <1>2, <2>3 DEF Reachable
<1>5. CASE Fetch(c) /\ x = Socket(c)
  <2>1. q # << >> /\ m = Tail(q)
    BY <1>1, <1>5, ListMoves DEF TypeOK
  <2>2. CASE i # 1
    <3>1. i - 1 \in DOMAIN m /\ m[i - 1] = q[i]
      BY <1>2, <2>1, <2>2, HeadTailProperties, LenProperties, EmptySeq
    <3>2. QED
      BY <1>0, <1>2, <3>1 DEF Reachable
  <2>3. CASE i = 1
    <3> DEFINE e == Head(q)
    <3>1. e = q[i]
      BY <1>2, <2>1, <2>3, HeadTailProperties
    <3>2. e.num = v[1] /\ e.num # NoNum
      BY <1>1, <1>2, <3>1 DEF NoNum
    <3>3. /\ pc'[c] = "fetched"
          /\ e.num = NoNum <=> Job[e.pair[1]].type = "M"
          /\ e.num # NoNum => HeldAs(Home[c], e.pair, e.num)
          /\ work'[c].gotPair = e.pair
          /\ work'[c].gotQubit = IF e.num = NoNum THEN work[c].gotQubit
                                 ELSE <<e.pair[1], e.pair[2], 1>>
      BY <1>5, FetchMoves
    <3> DEFINE u == <<e.num, <<e.pair[1], e.pair[2], 1>>>>
    <3>4. u \in virt[n] /\ n = Home[c] /\ u[1] = e.num /\ u[2] = <<e.pair[1], e.pair[2], 1>>
      BY <1>1, <1>5, <3>2, <3>3 DEF HeldAs
    <3> HIDE DEF e, u, q, m
    <3>5. u[1] = v[1] => u[2] = v[2]
      BY <1>1, <3>4 DEF Held
    <3>6. v[2] = work'[c].gotQubit
      BY <3>2, <3>3, <3>4, <3>5
    <3>7. ~IsMeasured(c)'
      BY <3>2, <3>3 DEF IsMeasured
    <3>8. Carries(c, n, v)'
      BY <3>3, <3>4, <3>6, <3>7 DEF Carries
    <3>9. QED
      BY <3>8 DEF Reachable
  <2>4. QED
    BY <2>2, <2>3, <1>2
<1>6. QED
  <2>1. \/ m = q
        \/ ListHalf(c) /\ x = Peer[Socket(c)]
        \/ Fetch(c) /\ x = Socket(c)
    BY <1>1, ListMoves DEF TypeOK
  <2>2. QED
    BY <1>3, <1>4, <1>5, <2>1

(* What a session carries it enters, lists or goes on carrying. *)
LEMMA ReachedBySession ==
  ASSUME EprInv, AddressInv, NEW c \in Sessions, Acts(c), WellTyped(c), NEW n \in Nodes,
         NEW v \in virt[n], NEW d \in Sessions, Carries(d, n, v)
  PROVE  Reachable(n, v)
<1>1. /\ TypeOK /\ UsedFinite /\ Staged(c)
      /\ Socket(c) \in Sockets /\ Peer[Socket(c)] \in Sockets /\ Peer[Socket(c)][1] = Target(c)
      /\ PairOf(c) \in Pairs /\ work[c].num \in Nat \cup {NoNum} /\ work[c].ent \in Nat
  <2>1. TypeOK /\ UsedFinite /\ Staged(c)
    BY DEF EprInv, UsedFinite
  <2>2. QED
    BY <2>1, SocketFacts, HalfTyped
<1>2. CASE d # c
  <2>1. Same(d)
    BY <1>2 DEF WellTyped
  <2>2. work'[d] = work[d] /\ (pc[d] # "locking" => pc'[d] = pc[d])
    BY <2>1 DEF Same
  <2>3. Carries(d, n, v)'
    BY <2>2 DEF Carries, HalfOf, IsMeasured, Target, Socket
  <2>4. QED
    BY <2>3 DEF Reachable
<1>3. CASE d = c /\ Home[c] = n /\ pc[c] = "made" /\ v[2] = HalfOf(c, work[c].half)
  <2>1. CASE GotQubit(c)
    <3>1. <<Address(c, work[c].half), HalfOf(c, work[c].half)>> \in qubitList'[n]
      BY <1>1, <1>3, <2>1, HandleMoves
    <3>2. QED
      BY <1>3, <3>1 DEF Reachable
  <2>2. CASE ~GotQubit(c)
    <3>1. FALSE
      BY <1>1, <1>3, <2>2, Moves, WorkMoves DEF Acts, Step, Start, Fetch
    <3>2. QED
      BY <3>1
  <2>3. QED
    BY <2>1, <2>2
<1>4. CASE /\ d = c /\ Home[c] = n /\ pc[c] = "fetched" /\ ~IsMeasured(c)
           /\ v[2] = work[c].gotQubit
  <2>1. Accept(c)
    BY <1>1, <1>4, Moves, WorkMoves DEF Acts, Step, Start, Fetch
  <2>2. <<work[c].addr, work[c].gotQubit>> \in qubitList'[n]
    BY <1>1, <1>4, <2>1, HandleMoves
  <2>3. QED
    BY <1>4, <2>2 DEF Reachable
<1>5. CASE d = c /\ Target(c) = n /\ pc[c] = "striking" /\ v = <<work[c].num, HalfOf(c, 1)>>
  <2>1. StrikeHalf(c)
    BY <1>1, <1>5, Moves, WorkMoves DEF Acts, Step, Start, Fetch
  <2>2. pc'[c] = "listing" /\ work' = work
    BY <1>1, <2>1, Moves
  <2>3. Carries(c, n, v)'
    BY <1>5, <2>2 DEF Carries, HalfOf, Target, Socket
  <2>4. QED
    BY <2>3 DEF Reachable
<1>6. CASE d = c /\ Target(c) = n /\ pc[c] = "listing" /\ v = <<work[c].num, HalfOf(c, 1)>>
  <2> DEFINE x == Peer[Socket(c)]
             q == eprList[x]
             e == [num |-> work[c].num, ent |-> work[c].ent, pair |-> PairOf(c)]
  <2>1. ListHalf(c)
    BY <1>1, <1>6, Moves, WorkMoves DEF Acts, Step, Start, Fetch
  <2>2. eprList'[x] = Append(q, e) /\ q \in Seq(Entry)
    BY <1>1, <2>1, ListMoves DEF TypeOK
  <2>3. e \in Entry /\ e.num = v[1]
    BY <1>1, <1>6 DEF Entry
  <2>4. x[2] \in SocketIds /\ x = <<n, x[2]>>
    BY <1>1, <1>6 DEF Sockets
  <2> HIDE DEF e, q
  <2>5. Len(q) + 1 \in DOMAIN eprList'[x] /\ eprList'[x][Len(q) + 1] = e
    BY <2>2, <2>3, AppendProperties, LenProperties
  <2> HIDE DEF x
  <2>6. \E s \in SocketIds : \E i \in DOMAIN eprList'[<<n, s>>] : eprList'[<<n, s>>][i].num = v[1]
    <3>1. PICK s \in SocketIds : x = <<n, s>>
      BY <2>4
    <3>2. QED
      BY <2>3, <2>5, <3>1
  <2>7. QED
    BY <2>6 DEF Reachable
<1>7. QED
  BY <1>2, <1>3, <1>4, <1>5, <1>6 DEF Carries

(* A new qubit is carried by the session that had it made. *)
LEMMA ReachedNew ==
  ASSUME EprInv, NEW c \in Sessions, Acts(c), WellTyped(c), NEW n \in Nodes,
         NEW v \in virt'[n], v \notin virt[n]
  PROVE  Reachable(n, v)
<1>1. TypeOK /\ UsedFinite /\ virt' # virt
  BY DEF EprInv, UsedFinite
<1>2. CASE NewQubit(c)
  <2>1. n = Home[c] /\ v[2] = HalfOf(c, work[c].half)
    BY <1>1, <1>2, VirtMoves DEF Entered
  <2>2. pc'[c] = "made" /\ work' = work
    BY <1>1, <1>2, Moves
  <2>3. Carries(c, n, v)'
    BY <2>1, <2>2 DEF Carries, HalfOf
  <2>4. QED
    BY <2>3 DEF Reachable
<1>3. CASE AddHalf(c)
  <2>1. n = Target(c) /\ v = <<NewNum(n), HalfOf(c, 1)>>
    BY <1>1, <1>3, VirtMoves DEF Entered
  <2>2. pc'[c] = "striking" /\ work'[c].num = NewNum(n) /\ work'[c].pair = work[c].pair
    BY <1>1, <1>3, <2>1, WorkMoves DEF SamePair
  <2>3. v = <<work'[c].num, <<c, work'[c].pair, 1>>>>
    BY <2>1, <2>2 DEF HalfOf
  <2>4. Carries(c, n, v)'
    BY <2>1, <2>2, <2>3 DEF Carries, HalfOf, Target, Socket
  <2>5. QED
    BY <2>4 DEF Reachable
<1>4. CASE StrikeHalf(c) \/ Measure(c)
  BY <1>1, <1>4, VirtMoves DEF Struck
<1>5. QED
  BY <1>1, <1>2, <1>3, <1>4, VirtMoves

LEMMA ActsReached ==
  ASSUME EprInv, AddressInv, NEW c \in Sessions, Acts(c), WellTyped(c), NEW n \in Nodes
  PROVE  \A v \in virt'[n] : Reached(n, v)'
<1> SUFFICES ASSUME NEW v \in virt'[n] PROVE Reachable(n, v)
  <2>1. \A v : Reachable(n, v) => Reached(n, v)'
    BY DEF Reachable, Reached, Carries
  <2>2. QED
    BY <2>1
<1>1. CASE v \notin virt[n]
  BY <1>1, ReachedNew
<1>2. CASE v \in virt[n]
  <2>1. Reached(n, v)
    BY <1>2 DEF AddressInv
  <2>2. CASE \E e \in qubitList[n] : e[2] = v[2]
    BY <1>2, <2>2, ReachedByHandle DEF Reachable
  <2>3. CASE \E s \in SocketIds : \E i \in DOMAIN eprList[<<n, s>>] :
               eprList[<<n, s>>][i].num = v[1]
    BY <1>2, <2>3, ReachedByList
  <2>4. CASE \E d \in Sessions : Carries(d, n, v)
    BY <1>2, <2>4, ReachedBySession
  <2>5. QED
    BY <2>1, <2>2, <2>3, <2>4 DEF Reached, Carries
<1>3. QED
  BY <1>1, <1>2

-----------------------------------------------------------------------------

LEMMA NextAddress ==
  EprInv /\ AddressInv /\ LockInv /\ LockInv' /\ QueueInv' /\ [Next]_vars => AddressInv'
<1> SUFFICES ASSUME EprInv, AddressInv, LockInv, LockInv', QueueInv', [Next]_vars
             PROVE  AddressInv'
  OBVIOUS
<1>1. ASSUME NEW c \in Sessions, Acts(c) PROVE AddressInv'
  <2>1. WellTyped(c)
    BY <1>1, ActsTyped
  <2>2. \A n \in Nodes : \A e \in qubitList'[n] : InUse(n, e[1])'
    BY <1>1, ActsInUse
  <2>3. \A d \in Sessions : OwnAddress(d)' /\ Kept(d)'
    BY <1>1, <2>1, OwnOwn, OwnOthers, ActsKept
  <2>4. \A n \in Nodes : \A v \in virt'[n] : Reached(n, v)'
    BY <1>1, <2>1, ActsReached
  <2>5. \A d \in Sessions : \A i \in DOMAIN got'[d] : Result1(d, got[d][i])'
    BY <1>1, <2>1, ActsResults
  <2>6. QED
    BY <2>2, <2>3, <2>4, <2>5 DEF AddressInv
<1>2. CASE UNCHANGED vars
  <2>1. \A n \in Nodes : \A e \in qubitList'[n] : InUse(n, e[1])'
    BY <1>2 DEF vars, AddressInv, InUse
  <2>2. \A d \in Sessions : OwnAddress(d)' /\ Kept(d)'
    BY <1>2 DEF vars, AddressInv, OwnAddress, Kept, Active, Address, HalfOf
  <2>3. \A n \in Nodes : \A v \in virt'[n] : Reached(n, v)'
    <3>1. ASSUME NEW n \in Nodes, NEW v \in virt'[n] PROVE Reached(n, v)'
      <4>1. Reached(n, v)
        BY <1>2 DEF vars, AddressInv
      <4>2. CASE \E e \in qubitList[n] : e[2] = v[2]
        BY <1>2, <4>2 DEF vars, Reached
      <4>3. CASE \E s \in SocketIds : \E i \in DOMAIN eprList[<<n, s>>] :
                   eprList[<<n, s>>][i].num = v[1]
        BY <1>2, <4>3 DEF vars, Reached
      <4>4. CASE \E c \in Sessions : Carries(c, n, v)
        <5>1. PICK c \in Sessions : Carries(c, n, v)
          BY <4>4
        <5>2. Carries(c, n, v)'
          BY <1>2, <5>1 DEF vars, Carries, HalfOf, IsMeasured, Target, Socket
        <5>3. QED
          BY <5>2 DEF Reached, Carries
      <4>5. QED
        BY <4>1, <4>2, <4>3, <4>4 DEF Reached, Carries
    <3>2. QED
      BY <3>1
  <2>4. \A d \in Sessions : \A i \in DOMAIN got'[d] : Result1(d, got[d][i])'
    BY <1>2 DEF vars, AddressInv, Result1, SideOf
  <2>5. QED
    BY <2>1, <2>2, <2>3, <2>4 DEF AddressInv
<1>3. QED
  BY <1>1, <1>2 DEF Next, Acts

LEMMA InitAddress == Init => AddressInv
<1> SUFFICES ASSUME Init PROVE AddressInv
  OBVIOUS
<1>1. \A n \in Nodes : qubitList[n] = {} /\ virt[n] = {}
  BY DEF Init
<1>2. \A c \in Sessions : pc[c] = "idle" /\ got[c] = << >>
  BY DEF Init
<1>3. \A c \in Sessions : OwnAddress(c) /\ Kept(c)
  BY <1>2 DEF OwnAddress, Active, Kept
<1>4. QED
  BY <1>1, <1>2, <1>3 DEF AddressInv

LEMMA AlwaysAddress == Spec => [](LockInv /\ QueueInv /\ EprInv /\ AddressInv)
<1>1. Init => LockInv /\ QueueInv /\ EprInv /\ AddressInv
  BY InitLock, InitQueue, InitEpr, InitAddress
<1>2. LockInv /\ QueueInv /\ EprInv /\ AddressInv /\ [Next]_vars
        => (LockInv /\ QueueInv /\ EprInv /\ AddressInv)'
  BY NextLock, NextQueue, NextEpr, NextAddress
<1>3. QED
  BY <1>1, <1>2, PTL DEF Spec

(* When cmd_new or cmd_epr_recv enters a qubit, its address stands for no
   other: addresses are reserved before the awaits and freed only after the
   handle has gone, and second halves have negative ones of their own. *)
THEOREM AddressesFree == Spec => []NoAddressClash
<1>1. EprInv /\ AddressInv => NoAddressClash
  BY Unentered DEF NoAddressClash
<1>2. QED
  BY <1>1, AlwaysAddress, PTL

(* Every qubit of a virtual node is reached by a handle of the program, from
   a receive list or by a session in the middle of an operation, also after
   refusals and timeouts. *)
THEOREM QubitsReachable == Spec => []NothingStranded
<1>1. AddressInv => NothingStranded
  <2> SUFFICES ASSUME AddressInv, NEW n \in Nodes, NEW v \in virt[n]
               PROVE  \/ \E e \in qubitList[n] : e[2] = v[2]
                      \/ \E s \in SocketIds : \E i \in DOMAIN eprList[<<n, s>>] :
                           eprList[<<n, s>>][i].num = v[1]
                      \/ InTransit(n, v)
    BY DEF NothingStranded
  <2>1. Reached(n, v)
    BY DEF AddressInv
  <2>2. QED
    BY <2>1 DEF Reached, InTransit
<1>2. QED
  BY <1>1, AlwaysAddress, PTL

(* What a result array names as a qubit is the half of that pair on this
   side, under the address the program uses for it, whatever session's
   response went to the request. *)
THEOREM ResultsAreHeld == Spec => []ResultsRight
<1>1. AddressInv => ResultsRight
  BY DEF AddressInv, ResultsRight, Result1
<1>2. QED
  BY <1>1, AlwaysAddress, PTL

-----------------------------------------------------------------------------
(* The pairs of a socket, in the order in which they are listed at its     *)
(* peer: l is that order, at[c] the place in it of the pair whose answer   *)
(* session c waits for.                                                    *)

Begins(s, l) == Len(s) <= Len(l) /\ \A k \in 1 .. Len(s) : s[k] = l[k]

SlotOf(e) == [pair |-> e.pair, ent |-> e.ent]

Ends(q, l) ==
  /\ Len(q) <= Len(l)
  /\ \A k \in 1 .. Len(q) : SlotOf(q[k]) = l[(Len(l) - Len(q)) + k]

\* the members of S in queue q stand at the places after low up to high
Ordered(q, S, at, low, high) ==
  /\ low <= high
  /\ \A i \in DOMAIN q : q[i] \in S => at[q[i]] \in (low + 1) .. high
  /\ \A i, j \in DOMAIN q : q[i] \in S /\ q[j] \in S /\ i < j => at[q[i]] < at[q[j]]
  /\ \A k \in (low + 1) .. high : \E i \in DOMAIN q : q[i] \in S /\ at[q[i]] = k

LEMMA BeginsLonger ==
  ASSUME NEW s \in Seq(Slot), NEW l \in Seq(Slot), NEW a \in Slot, Begins(s, l)
  PROVE  /\ Begins(s, Append(l, a))
         /\ Len(s) + 1 <= Len(l) /\ l[Len(s) + 1] = a => Begins(Append(s, a), l)
<1>1. Len(s) \in Nat /\ Len(l) \in Nat
  BY LenProperties
<1>2. /\ Len(Append(l, a)) = Len(l) + 1
      /\ \A k \in 1 .. Len(l) : Append(l, a)[k] = l[k]
  BY <1>1, AppendProperties, LenProperties
<1>3. /\ Len(Append(s, a)) = Len(s) + 1 /\ Append(s, a)[Len(s) + 1] = a
      /\ \A k \in 1 .. Len(s) : Append(s, a)[k] = s[k]
  BY <1>1, AppendProperties, LenProperties
<1>4. Begins(s, Append(l, a))
  <2> DEFINE m == Append(l, a)
  <2>1. Len(m) = Len(l) + 1 /\ \A k \in 1 .. Len(l) : m[k] = l[k]
    BY <1>2
  <2> HIDE DEF m
  <2>2. QED
    <3>1. Begins(s, m)
      BY <1>1, <2>1 DEF Begins
    <3>2. QED
      BY <3>1 DEF m
<1>5. ASSUME Len(s) + 1 <= Len(l), l[Len(s) + 1] = a PROVE Begins(Append(s, a), l)
  <2> DEFINE t == Append(s, a)
  <2>1. Len(t) = Len(s) + 1 /\ t[Len(s) + 1] = a /\ \A k \in 1 .. Len(s) : t[k] = s[k]
    BY <1>3
  <2> HIDE DEF t
  <2>2. ASSUME NEW k \in 1 .. Len(t) PROVE t[k] = l[k]
    <3>1. CASE k = Len(s) + 1
      BY <1>5, <2>1, <3>1
    <3>2. CASE k \in 1 .. Len(s)
      BY <2>1, <3>2 DEF Begins
    <3>3. QED
      BY <1>1, <2>1, <3>1, <3>2
  <2>3. Begins(t, l)
    BY <1>5, <2>1, <2>2 DEF Begins
  <2>4. QED
    BY <2>3 DEF t
<1>6. QED
  BY <1>4, <1>5

LEMMA EndsLonger ==
  ASSUME NEW q \in Seq(Entry), NEW l \in Seq(Slot), NEW e \in Entry, Ends(q, l)
  PROVE  Ends(Append(q, e), Append(l, SlotOf(e)))
<1> DEFINE p == Append(q, e)
           a == SlotOf(e)
           m == Append(l, a)
<1>1. Len(q) \in Nat /\ Len(l) \in Nat /\ a \in Slot
  BY LenProperties DEF SlotOf, Slot, Entry
<1>2. /\ Len(p) = Len(q) + 1 /\ p[Len(q) + 1] = e
      /\ \A k \in 1 .. Len(q) : p[k] = q[k]
  BY <1>1, AppendProperties, LenProperties
<1> HIDE DEF p
<1>3. /\ Len(m) = Len(l) + 1 /\ m[Len(l) + 1] = a
      /\ \A k \in 1 .. Len(l) : m[k] = l[k]
  <2> HIDE DEF a
  <2>1. QED
    BY <1>1, AppendProperties, LenProperties
<1> HIDE DEF m
<1>4. ASSUME NEW k \in 1 .. Len(p) PROVE SlotOf(p[k]) = m[(Len(m) - Len(p)) + k]
  <2>1. Len(m) - Len(p) = Len(l) - Len(q)
    BY <1>1, <1>2, <1>3
  <2>2. CASE k = Len(q) + 1
    <3>1. (Len(m) - Len(p)) + k = Len(l) + 1
      BY <1>1, <2>1, <2>2
    <3>2. QED
      BY <1>2, <1>3, <2>2, <3>1
  <2>3. CASE k \in 1 .. Len(q)
    <3>1. (Len(l) - Len(q)) + k \in 1 .. Len(l)
      BY <1>1, <2>3 DEF Ends
    <3>2. m[(Len(l) - Len(q)) + k] = l[(Len(l) - Len(q)) + k]
      BY <1>3, <3>1
    <3>3. p[k] = q[k] /\ SlotOf(q[k]) = l[(Len(l) - Len(q)) + k]
      BY <1>2, <2>3 DEF Ends
    <3>4. QED
      BY <2>1, <3>2, <3>3
  <2>4. QED
    BY <1>1, <1>2, <2>2, <2>3
<1>5. Ends(p, m)
  BY <1>1, <1>2, <1>3, <1>4 DEF Ends
<1>6. QED
  BY <1>5 DEF p, m

LEMMA EndsShorter ==
  ASSUME NEW q \in Seq(Entry), NEW l \in Seq(Slot), Ends(q, l), q # << >>
  PROVE  /\ Ends(Tail(q), l) /\ Len(Tail(q)) = Len(q) - 1 /\ Len(q) \in Nat \ {0}
         /\ Len(q) <= Len(l)
         /\ SlotOf(Head(q)) = l[(Len(l) - Len(q)) + 1]
<1> DEFINE t == Tail(q)
<1>1. Len(q) \in Nat \ {0} /\ Len(l) \in Nat
  BY LenProperties, EmptySeq
<1>2. /\ Len(t) = Len(q) - 1 /\ Head(q) = q[1]
      /\ \A k \in 1 .. (Len(q) - 1) : t[k] = q[k + 1]
  BY <1>1, HeadTailProperties, LenProperties
<1> HIDE DEF t
<1>3. ASSUME NEW k \in 1 .. Len(t) PROVE SlotOf(t[k]) = l[(Len(l) - Len(t)) + k]
  <2>1. k + 1 \in 1 .. Len(q) /\ (Len(l) - Len(t)) + k = (Len(l) - Len(q)) + (k + 1)
    BY <1>1, <1>2
  <2>2. SlotOf(q[k + 1]) = l[(Len(l) - Len(q)) + (k + 1)]
    BY <2>1 DEF Ends
  <2>3. QED
    BY <1>2, <2>1, <2>2
<1>4. Ends(t, l)
  BY <1>1, <1>2, <1>3 DEF Ends
<1>5. SlotOf(q[1]) = l[(Len(l) - Len(q)) + 1]
  BY <1>1 DEF Ends
<1>6. QED
  BY <1>1, <1>2, <1>4, <1>5 DEF Ends, t

(* Only the places of the queue's members matter. *)
LEMMA OrderedSame ==
  ASSUME NEW q \in Seq(Sessions), NEW S, NEW at, NEW to, NEW low, NEW high,
         Ordered(q, S, at, low, high),
         \A i \in DOMAIN q : q[i] \in S => to[q[i]] = at[q[i]]
  PROVE  Ordered(q, S, to, low, high)
BY DEF Ordered

LEMMA OrderedAppend ==
  ASSUME NEW q \in Seq(Sessions), NEW S, NEW at, NEW to, NEW low \in Nat, NEW high \in Nat,
         NEW c \in S, c \in Sessions, Ordered(q, S, at, low, high),
         \A i \in DOMAIN q : q[i] \in S => to[q[i]] = at[q[i]],
         to[c] = high + 1
  PROVE  Ordered(Append(q, c), S, to, low, high + 1)
<1> DEFINE m == Append(q, c)
           n == Len(q)
<1>1. /\ n \in Nat /\ DOMAIN q = 1 .. n /\ DOMAIN m = 1 .. (n + 1) /\ m[n + 1] = c
      /\ \A i \in 1 .. n : m[i] = q[i]
  BY AppendProperties, LenProperties
<1> HIDE DEF m, n
<1>2. \A i \in DOMAIN m : \/ i \in DOMAIN q /\ i < n + 1 /\ m[i] = q[i]
                          \/ i = n + 1 /\ m[i] = c
  BY <1>1
<1>3. ASSUME NEW i \in DOMAIN m, m[i] \in S PROVE to[m[i]] \in (low + 1) .. (high + 1)
  <2>1. CASE i \in DOMAIN q /\ m[i] = q[i]
    BY <1>3, <2>1 DEF Ordered
  <2>2. CASE m[i] = c
    BY <2>2 DEF Ordered
  <2>3. QED
    BY <1>2, <2>1, <2>2
<1>4. ASSUME NEW i \in DOMAIN m, NEW j \in DOMAIN m, m[i] \in S, m[j] \in S, i < j
      PROVE  to[m[i]] < to[m[j]]
  <2>1. i \in DOMAIN q /\ m[i] = q[i]
    BY <1>1, <1>2, <1>4
  <2>2. CASE j \in DOMAIN q /\ m[j] = q[j]
    BY <1>4, <2>1, <2>2 DEF Ordered
  <2>3. CASE m[j] = c
    <3>1. to[m[i]] \in (low + 1) .. high
      BY <1>4, <2>1 DEF Ordered
    <3>2. QED
      BY <2>3, <3>1
  <2>4. QED
    BY <1>2, <2>2, <2>3
<1>5. ASSUME NEW k \in (low + 1) .. (high + 1) PROVE \E i \in DOMAIN m : m[i] \in S /\ to[m[i]] = k
  <2>1. CASE k = high + 1
    BY <1>1, <2>1
  <2>2. CASE k \in (low + 1) .. high
    <3>1. PICK i \in DOMAIN q : q[i] \in S /\ at[q[i]] = k
      BY <2>2 DEF Ordered
    <3>2. i \in DOMAIN m /\ m[i] = q[i]
      BY <1>1
    <3>3. QED
      BY <3>1, <3>2
  <2>3. QED
    BY <2>1, <2>2
<1>6. low <= high + 1
  BY DEF Ordered
<1>7. Ordered(m, S, to, low, high + 1)
  BY <1>3, <1>4, <1>5, <1>6 DEF Ordered
<1>8. QED
  BY <1>7 DEF m

LEMMA OrderedOther ==
  ASSUME NEW q \in Seq(Sessions), NEW S, NEW at, NEW low, NEW high,
         NEW c \in Sessions, c \notin S, Ordered(q, S, at, low, high)
  PROVE  Ordered(Append(q, c), S, at, low, high)
<1> DEFINE m == Append(q, c)
           n == Len(q)
<1>1. /\ n \in Nat /\ DOMAIN q = 1 .. n /\ DOMAIN m = 1 .. (n + 1) /\ m[n + 1] = c
      /\ \A i \in 1 .. n : m[i] = q[i]
  BY AppendProperties, LenProperties
<1> HIDE DEF m, n
<1>2. \A i \in DOMAIN m : m[i] \in S => i \in DOMAIN q /\ m[i] = q[i]
  BY <1>1
<1>3. \A i \in DOMAIN q : i \in DOMAIN m /\ m[i] = q[i]
  BY <1>1
<1>4. ASSUME NEW k \in (low + 1) .. high PROVE \E i \in DOMAIN m : m[i] \in S /\ at[m[i]] = k
  <2>1. PICK i \in DOMAIN q : q[i] \in S /\ at[q[i]] = k
    BY DEF Ordered
  <2>2. QED
    BY <1>3, <2>1
<1>5. ASSUME NEW i \in DOMAIN m, NEW j \in DOMAIN m, m[i] \in S, m[j] \in S, i < j
      PROVE  at[m[i]] < at[m[j]]
  BY <1>2, <1>5 DEF Ordered
<1>6. \A i \in DOMAIN m : m[i] \in S => at[m[i]] \in (low + 1) .. high
  BY <1>2 DEF Ordered
<1>7. Ordered(m, S, at, low, high)
  BY <1>4, <1>5, <1>6 DEF Ordered
<1>8. QED
  BY <1>7 DEF m

LEMMA OrderedTail ==
  ASSUME NEW q \in Seq(Sessions), q # << >>, NEW S, NEW at, NEW low \in Nat, NEW high \in Nat,
         Ordered(q, S, at, low, high)
  PROVE  /\ q[1] \notin S => Ordered(Tail(q), S, at, low, high)
         /\ q[1] \in S => /\ at[q[1]] = low + 1 /\ low + 1 <= high
                          /\ Ordered(Tail(q), S, at, low + 1, high)
<1> DEFINE m == Tail(q)
           n == Len(q)
<1>1. /\ n \in Nat \ {0} /\ DOMAIN q = 1 .. n /\ DOMAIN m = 1 .. (n - 1)
      /\ \A i \in 1 .. (n - 1) : m[i] = q[i + 1]
  BY HeadTailProperties, LenProperties, EmptySeq
<1> HIDE DEF m, n
<1>2. \A i \in DOMAIN m : i + 1 \in DOMAIN q /\ m[i] = q[i + 1] /\ 1 < i + 1 /\ i \in Nat
  BY <1>1
<1>3. \A i \in DOMAIN q : i # 1 => i - 1 \in DOMAIN m /\ m[i - 1] = q[i]
  BY <1>1
<1>4. 1 \in DOMAIN q
  BY <1>1
<1>5. ASSUME NEW i \in DOMAIN m, NEW j \in DOMAIN m, m[i] \in S, m[j] \in S, i < j
      PROVE  at[m[i]] < at[m[j]]
  <2>1. i + 1 < j + 1
    BY <1>2, <1>5
  <2>2. QED
    BY <1>2, <1>5, <2>1 DEF Ordered
<1>6. CASE q[1] \notin S
  <2>1. ASSUME NEW k \in (low + 1) .. high PROVE \E i \in DOMAIN m : m[i] \in S /\ at[m[i]] = k
    <3>1. PICK i \in DOMAIN q : q[i] \in S /\ at[q[i]] = k
      BY DEF Ordered
    <3>2. QED
      BY <1>3, <1>6, <3>1
  <2>2. \A i \in DOMAIN m : m[i] \in S => at[m[i]] \in (low + 1) .. high
    BY <1>2 DEF Ordered
  <2>3. Ordered(m, S, at, low, high)
    BY <1>5, <2>1, <2>2 DEF Ordered
  <2>4. QED
    BY <1>6, <2>3 DEF m
<1>7. CASE q[1] \in S
  <2>1. at[q[1]] \in (low + 1) .. high
    BY <1>4, <1>7 DEF Ordered
  <2>2. low + 1 <= high /\ low + 1 \in (low + 1) .. high
    BY <2>1
  <2>3. PICK f \in DOMAIN q : q[f] \in S /\ at[q[f]] = low + 1
    BY <2>2 DEF Ordered
  <2>4. at[q[1]] = low + 1
    <3>1. CASE f = 1
      BY <2>3, <3>1
    <3>2. CASE f # 1
      <4>1. 1 < f
        BY <1>1, <3>2
      <4>2. at[q[1]] < at[q[f]]
        BY <1>4, <1>7, <2>3, <4>1 DEF Ordered
      <4>3. QED
        BY <2>1, <2>3, <4>2
    <3>3. QED
      BY <3>1, <3>2
  <2>5. ASSUME NEW i \in DOMAIN m, m[i] \in S PROVE at[m[i]] \in ((low + 1) + 1) .. high
    <3>1. at[m[i]] \in (low + 1) .. high
      BY <1>2, <2>5 DEF Ordered
    <3>2. at[q[1]] < at[m[i]]
      BY <1>2, <1>4, <1>7, <2>5 DEF Ordered
    <3>3. QED
      BY <2>4, <3>1, <3>2
  <2>6. ASSUME NEW k \in ((low + 1) + 1) .. high PROVE \E i \in DOMAIN m : m[i] \in S /\ at[m[i]] = k
    <3>1. k \in (low + 1) .. high /\ k # low + 1
      OBVIOUS
    <3>2. PICK i \in DOMAIN q : q[i] \in S /\ at[q[i]] = k
      BY <3>1 DEF Ordered
    <3>3. i # 1
      BY <2>4, <3>1, <3>2
    <3>4. QED
      BY <1>3, <3>2, <3>3
  <2>7. Ordered(m, S, at, low + 1, high)
    BY <1>5, <2>2, <2>5, <2>6 DEF Ordered
  <2>8. QED
    BY <1>7, <2>2, <2>4, <2>7 DEF m
<1>8. QED
  BY <1>6, <1>7

-----------------------------------------------------------------------------
(* What has been made of the pairs of a socket, at its two ends.           *)

Created(x) == slots["create"][x]
Received(x) == slots["recv"][Peer[x]]
Awaited(x) == eprList[Peer[x]]
At(x) == {c \in Sessions : Socket(c) = x}
LinkOf(x) == <<x[1], Peer[x][1]>>

SentSlot(c) == [pair |-> PairOf(c), ent |-> work[c].ent]
GotSlot(c) == [pair |-> work[c].gotPair, ent |-> work[c].gotEnt]

Places(x, l, at) ==
  /\ Begins(Created(x), l)
  /\ Begins(Received(x), l)
  /\ Ends(Awaited(x), l)
  /\ Ordered(sent[LinkOf(x)], At(x), at, Len(Created(x)), Len(l))
  /\ Ordered(fetched[Peer[x][1]], At(Peer[x]), at, Len(Received(x)), Len(l) - Len(Awaited(x)))
  /\ \A c \in At(x) : pc[c] = "sent" => l[at[c]] = SentSlot(c)
  /\ \A c \in At(Peer[x]) : pc[c] = "fetched" => l[at[c]] = GotSlot(c)

\* the session has drawn an id for a pair that is not listed yet
Drawn(c) ==
  /\ Job[c].kind = "create"
  /\ pc[c] \in {"sending", "striking", "listing", "measuring", "measured"}

\* ids of a socket are given once
Ids(x, l) ==
  /\ \A k \in 1 .. Len(l) : l[k].ent < nextEnt[x]
  /\ \A i, j \in 1 .. Len(l) : l[i].ent = l[j].ent => i = j
  /\ \A c \in At(x) : Drawn(c) =>
       /\ work[c].ent < nextEnt[x]
       /\ \A k \in 1 .. Len(l) : l[k].ent # work[c].ent
  /\ \A c, d \in At(x) : Drawn(c) /\ Drawn(d) /\ work[c].ent = work[d].ent => c = d

MatchInv ==
  \A x \in Sockets : \E l \in Seq(Slot), at \in [Sessions -> Nat] : Places(x, l, at) /\ Ids(x, l)

LEMMA Typed ==
  ASSUME TypeOK, NEW x \in Sockets
  PROVE  /\ Created(x) \in Seq(Slot) /\ Received(x) \in Seq(Slot) /\ Awaited(x) \in Seq(Entry)
         /\ LinkOf(x) \in Nodes \X Nodes /\ Peer[x] \in Sockets /\ Peer[x][1] \in Nodes
         /\ Peer[Peer[x]] = x
         /\ sent[LinkOf(x)] \in Seq(Sessions) /\ fetched[Peer[x][1]] \in Seq(Sessions)
         /\ \A c \in At(x) : c \in Sessions /\ Socket(c) = x /\ Link(c) = LinkOf(x)
         /\ \A c \in At(Peer[x]) : c \in Sessions /\ Socket(c) = Peer[x] /\ Home[c] = Peer[x][1]
<1>1. Peer[x] \in Sockets /\ Peer[x][1] \in Nodes /\ Peer[Peer[x]] = x /\ x[1] \in Nodes
  BY SocketsPaired DEF Sockets
<1>2. Created(x) \in Seq(Slot) /\ Received(x) \in Seq(Slot) /\ Awaited(x) \in Seq(Entry)
  BY <1>1 DEF TypeOK, Created, Received, Awaited, Sides
<1>3. LinkOf(x) \in Nodes \X Nodes
  BY <1>1 DEF LinkOf
<1>4. sent[LinkOf(x)] \in Seq(Sessions) /\ fetched[Peer[x][1]] \in Seq(Sessions)
  BY <1>1, <1>3 DEF TypeOK
<1>5. \A c \in At(x) : c \in Sessions /\ Socket(c) = x /\ Link(c) = LinkOf(x)
  BY SocketFacts DEF At, Link, LinkOf, Target, Socket
<1>6. \A c \in At(Peer[x]) : c \in Sessions /\ Socket(c) = Peer[x] /\ Home[c] = Peer[x][1]
  BY <1>1, SocketFacts DEF At
<1>7. QED
  BY <1>1, <1>2, <1>3, <1>4, <1>5, <1>6

LEMMA AnswersMove ==
  ASSUME NEW c \in Sessions, Acts(c)
  PROVE  /\ ListHalf(c) => sent' = [sent EXCEPT ![Link(c)] = Append(sent[Link(c)], c)]
         /\ PairSent(c) => /\ Head(sent[Link(c)]) = c
                           /\ sent' = [sent EXCEPT ![Link(c)] = Tail(sent[Link(c)])]
         /\ ListHalf(c) \/ PairSent(c) \/ sent' = sent
         /\ Fetch(c) => fetched' = [fetched EXCEPT ![Home[c]] = Append(fetched[Home[c]], c)]
         /\ Accept(c) => /\ Head(fetched[Home[c]]) = c
                         /\ fetched' = [fetched EXCEPT ![Home[c]] = Tail(fetched[Home[c]])]
         /\ Fetch(c) \/ Accept(c) \/ fetched' = fetched
<1>1. ListHalf(c) => sent' = [sent EXCEPT ![Link(c)] = Append(sent[Link(c)], c)] /\ fetched' = fetched
  BY DEF ListHalf, Link
<1>2. PairSent(c) => /\ Head(sent[Link(c)]) = c
                     /\ sent' = [sent EXCEPT ![Link(c)] = Tail(sent[Link(c)])]
                     /\ fetched' = fetched
  BY DEF PairSent, Link
<1>3. Fetch(c) => /\ fetched' = [fetched EXCEPT ![Home[c]] = Append(fetched[Home[c]], c)]
                  /\ sent' = sent
  BY DEF Fetch
<1>4. Accept(c) => /\ Head(fetched[Home[c]]) = c
                   /\ fetched' = [fetched EXCEPT ![Home[c]] = Tail(fetched[Home[c]])]
                   /\ sent' = sent
  BY DEF Accept
<1>5. /\ StartMaking(c) => sent' = sent /\ fetched' = fetched
      /\ StartReceiving(c) => sent' = sent /\ fetched' = fetched
      /\ NewQubit(c) => sent' = sent /\ fetched' = fetched
      /\ RefuseQubit(c) => sent' = sent /\ fetched' = fetched
      /\ GotQubit(c) => sent' = sent /\ fetched' = fetched
      /\ QubitRefused(c) => sent' = sent /\ fetched' = fetched
      /\ Entangle(c) => sent' = sent /\ fetched' = fetched
      /\ AddHalf(c) => sent' = sent /\ fetched' = fetched
      /\ RefuseHalf(c) => sent' = sent /\ fetched' = fetched
      /\ StrikeHalf(c) => sent' = sent /\ fetched' = fetched
      /\ Measure(c) => sent' = sent /\ fetched' = fetched
      /\ Measured(c) => sent' = sent /\ fetched' = fetched
      /\ Timeout(c) => sent' = sent /\ fetched' = fetched
  BY DEF StartMaking, StartReceiving, NewQubit, RefuseQubit, GotQubit, QubitRefused, Entangle,
     AddHalf, RefuseHalf, StrikeHalf, Measure, Measured, Timeout, listVars
<1>6. QED
  BY <1>1, <1>2, <1>3, <1>4, <1>5 DEF Acts, Start, Step

LEMMA SlotsMove ==
  ASSUME EprInv, NEW c \in Sessions, Acts(c)
  PROVE  /\ PairSent(c) => slots'["create"][Socket(c)] = Append(Created(Socket(c)), SentSlot(c))
         /\ Accept(c) => slots'["recv"][Socket(c)] = Append(slots["recv"][Socket(c)], GotSlot(c))
         /\ \A x \in Sockets : ~(PairSent(c) /\ x = Socket(c)) =>
              slots'["create"][x] = slots["create"][x]
         /\ \A x \in Sockets : ~(Accept(c) /\ x = Socket(c)) =>
              slots'["recv"][x] = slots["recv"][x]
<1>1. TypeOK /\ Socket(c) \in Sockets
  BY SocketFacts DEF EprInv
<1>2. \A side \in Sides : \A pair, ent, addr :
        Respond(side, Socket(c), pair, ent, addr) =>
          slots' = [slots EXCEPT ![side] = [slots[side] EXCEPT ![Socket(c)] =
                      Append(slots[side][Socket(c)], [pair |-> pair, ent |-> ent])]]
  BY <1>1 DEF Respond, TypeOK
<1>3. CASE PairSent(c)
  <2>1. slots' = [slots EXCEPT !["create"] = [slots["create"] EXCEPT ![Socket(c)] =
                    Append(slots["create"][Socket(c)], SentSlot(c))]]
    BY <1>2, <1>3, Responds DEF Sides, SentSlot
  <2>2. ~Accept(c)
    BY <1>3 DEF PairSent, Accept
  <2>3. QED
    BY <1>1, <1>3, <2>1, <2>2 DEF TypeOK, Sides, Created
<1>4. CASE Accept(c)
  <2>1. slots' = [slots EXCEPT !["recv"] = [slots["recv"] EXCEPT ![Socket(c)] =
                    Append(slots["recv"][Socket(c)], GotSlot(c))]]
    BY <1>2, <1>4, Responds DEF Sides, GotSlot
  <2>2. ~PairSent(c)
    BY <1>4 DEF PairSent, Accept
  <2>3. QED
    BY <1>1, <1>4, <2>1, <2>2 DEF TypeOK, Sides
<1>5. CASE ~PairSent(c) /\ ~Accept(c)
  <2>1. /\ StartMaking(c) => slots' = slots
        /\ StartReceiving(c) => slots' = slots
        /\ NewQubit(c) => slots' = slots
        /\ RefuseQubit(c) => slots' = slots
        /\ GotQubit(c) => slots' = slots
        /\ QubitRefused(c) => slots' = slots
        /\ Entangle(c) => slots' = slots
        /\ AddHalf(c) => slots' = slots
        /\ RefuseHalf(c) => slots' = slots
        /\ StrikeHalf(c) => slots' = slots
        /\ ListHalf(c) => slots' = slots
        /\ Measure(c) => slots' = slots
        /\ Measured(c) => slots' = slots
        /\ Fetch(c) => slots' = slots
        /\ Timeout(c) => slots' = slots
    BY DEF StartMaking, StartReceiving, NewQubit, RefuseQubit, GotQubit, QubitRefused, Entangle,
       AddHalf, RefuseHalf, StrikeHalf, ListHalf, Measure, Measured, Fetch, Timeout, resultVars
  <2>2. slots' = slots
    BY <1>5, <2>1 DEF Acts, Start, Step
  <2>3. QED
    BY <1>5, <2>2
<1>6. QED
  BY <1>3, <1>4, <1>5

LEMMA EntMoves ==
  ASSUME TypeOK, NEW c \in Sessions, Acts(c)
  PROVE  /\ Entangle(c) => /\ nextEnt'[Socket(c)] = nextEnt[Socket(c)] + 1
                           /\ \A x \in Sockets : x # Socket(c) => nextEnt'[x] = nextEnt[x]
         /\ Entangle(c) \/ nextEnt' = nextEnt
<1>1. Entangle(c) => /\ nextEnt'[Socket(c)] = nextEnt[Socket(c)] + 1
                     /\ \A x \in Sockets : x # Socket(c) => nextEnt'[x] = nextEnt[x]
  BY SocketFacts DEF Entangle, TypeOK
<1>2. /\ StartMaking(c) => nextEnt' = nextEnt
      /\ StartReceiving(c) => nextEnt' = nextEnt
      /\ NewQubit(c) => nextEnt' = nextEnt
      /\ RefuseQubit(c) => nextEnt' = nextEnt
      /\ GotQubit(c) => nextEnt' = nextEnt
      /\ QubitRefused(c) => nextEnt' = nextEnt
      /\ AddHalf(c) => nextEnt' = nextEnt
      /\ RefuseHalf(c) => nextEnt' = nextEnt
      /\ StrikeHalf(c) => nextEnt' = nextEnt
      /\ ListHalf(c) => nextEnt' = nextEnt
      /\ PairSent(c) => nextEnt' = nextEnt
      /\ Measure(c) => nextEnt' = nextEnt
      /\ Measured(c) => nextEnt' = nextEnt
      /\ Fetch(c) => nextEnt' = nextEnt
      /\ Accept(c) => nextEnt' = nextEnt
      /\ Timeout(c) => nextEnt' = nextEnt
  BY DEF StartMaking, StartReceiving, NewQubit, RefuseQubit, GotQubit, QubitRefused,
     AddHalf, RefuseHalf, StrikeHalf, ListHalf, PairSent, Measure, Measured, Fetch, Accept, Timeout
<1>3. QED
  BY <1>1, <1>2 DEF Acts, Start, Step

(* Ids are drawn once and kept. *)
LEMMA DrawnStays ==
  ASSUME EprInv, NEW c \in Sessions, Acts(c), WellTyped(c), NEW d \in Sessions, Drawn(d)',
         ~(d = c /\ Entangle(c))
  PROVE  /\ Drawn(d) /\ work'[d].ent = work[d].ent
         /\ ~(d = c /\ ListHalf(c))
<1>1. TypeOK /\ UsedFinite /\ Staged(c)
  BY DEF EprInv, UsedFinite
<1>2. CASE d # c
  <2>1. Same(d)
    BY <1>2 DEF WellTyped
  <2>2. QED
    BY <1>2, <2>1 DEF Same, Drawn
<1>3. CASE d = c
  <2>1. CASE Start(c) \/ PairSent(c) \/ Accept(c)
    BY <1>1, <1>3, <2>1, Moves DEF Drawn, Start
  <2>2. CASE \/ NewQubit(c) \/ RefuseQubit(c) \/ QubitRefused(c) \/ RefuseHalf(c)
             \/ StrikeHalf(c) \/ ListHalf(c) \/ Measure(c) \/ Timeout(c)
    BY <1>1, <1>3, <2>2, Moves DEF Drawn
  <2>3. CASE GotQubit(c) \/ AddHalf(c) \/ Measured(c)
    <3>1. ~ListHalf(c)
      BY <2>3 DEF GotQubit, AddHalf, Measured, ListHalf
    <3>2. QED
      BY <1>1, <1>3, <2>3, <3>1, WorkMoves DEF Drawn
  <2>4. CASE Fetch(c)
    BY <1>3, <2>4, FetchMoves DEF Drawn
  <2>5. QED
    BY <1>3, <2>1, <2>2, <2>3, <2>4 DEF Acts, Step
<1>4. QED
  BY <1>2, <1>3

(* Who waits for an answer has a place. *)
LEMMA PlaceOf ==
  ASSUME EprInv, QueueInv, NEW x \in Sockets, NEW l \in Seq(Slot), NEW at, Places(x, l, at)
  PROVE  /\ \A c \in At(x) : pc[c] = "sent" => at[c] \in 1 .. Len(l)
         /\ \A c \in At(Peer[x]) : pc[c] = "fetched" => at[c] \in 1 .. Len(l)
         /\ \A i \in DOMAIN sent[LinkOf(x)] :
              pc[sent[LinkOf(x)][i]] = "sent" /\ sent[LinkOf(x)][i] \in Sessions
         /\ \A i \in DOMAIN fetched[Peer[x][1]] :
              pc[fetched[Peer[x][1]][i]] = "fetched" /\ fetched[Peer[x][1]][i] \in Sessions
<1>1. /\ TypeOK /\ LinkOf(x) \in Nodes \X Nodes /\ Peer[x][1] \in Nodes
      /\ Len(Created(x)) \in Nat /\ Len(Received(x)) \in Nat /\ Len(Awaited(x)) \in Nat
      /\ Len(l) \in Nat
      /\ \A c \in At(x) : c \in Sessions /\ Link(c) = LinkOf(x)
      /\ \A c \in At(Peer[x]) : c \in Sessions /\ Home[c] = Peer[x][1]
  BY Typed, LenProperties DEF EprInv
<1>2. /\ Queued(sent[LinkOf(x)], SentOn(LinkOf(x)))
      /\ Queued(fetched[Peer[x][1]], FetchedAt(Peer[x][1]))
  BY <1>1 DEF QueueInv
<1>3. ASSUME NEW c \in At(x), pc[c] = "sent" PROVE at[c] \in 1 .. Len(l)
  <2>1. c \in SentOn(LinkOf(x))
    BY <1>1, <1>3 DEF SentOn
  <2>2. PICK i \in DOMAIN sent[LinkOf(x)] : sent[LinkOf(x)][i] = c
    BY <1>2, <2>1 DEF Queued
  <2>3. at[c] \in (Len(Created(x)) + 1) .. Len(l)
    BY <1>3, <2>2 DEF Places, Ordered
  <2>4. QED
    BY <1>1, <2>3
<1>4. ASSUME NEW c \in At(Peer[x]), pc[c] = "fetched" PROVE at[c] \in 1 .. Len(l)
  <2>1. c \in FetchedAt(Peer[x][1])
    BY <1>1, <1>4 DEF FetchedAt
  <2>2. PICK i \in DOMAIN fetched[Peer[x][1]] : fetched[Peer[x][1]][i] = c
    BY <1>2, <2>1 DEF Queued
  <2>3. at[c] \in (Len(Received(x)) + 1) .. (Len(l) - Len(Awaited(x)))
    BY <1>4, <2>2 DEF Places, Ordered
  <2>4. QED
    BY <1>1, <2>3
<1>5. \A i \in DOMAIN sent[LinkOf(x)] :
        pc[sent[LinkOf(x)][i]] = "sent" /\ sent[LinkOf(x)][i] \in Sessions
  BY <1>2 DEF Queued, SentOn
<1>6. \A i \in DOMAIN fetched[Peer[x][1]] :
        pc[fetched[Peer[x][1]][i]] = "fetched" /\ fetched[Peer[x][1]][i] \in Sessions
  BY <1>2 DEF Queued, FetchedAt
<1>7. QED
  BY <1>3, <1>4, <1>5, <1>6

(* The queue of a link, seen from another socket. *)
LEMMA SentOthers ==
  ASSUME EprInv, QueueInv, NEW c \in Sessions, Acts(c), NEW x \in Sockets,
         ~((ListHalf(c) \/ PairSent(c)) /\ c \in At(x)),
         NEW at, NEW low \in Nat, NEW high \in Nat,
         Ordered(sent[LinkOf(x)], At(x), at, low, high)
  PROVE  Ordered(sent'[LinkOf(x)], At(x), at, low, high)
<1>1. /\ TypeOK /\ LinkOf(x) \in Nodes \X Nodes /\ sent[LinkOf(x)] \in Seq(Sessions)
      /\ Link(c) \in Nodes \X Nodes
  BY Typed, SocketFacts DEF EprInv, Link
<1>2. CASE sent'[LinkOf(x)] = sent[LinkOf(x)]
  BY <1>2
<1>3. CASE ListHalf(c) /\ Link(c) = LinkOf(x)
  <2>1. sent'[LinkOf(x)] = Append(sent[LinkOf(x)], c)
    BY <1>1, <1>3, AnswersMove DEF TypeOK
  <2>2. QED
    BY <1>1, <1>3, <2>1, OrderedOther
<1>4. CASE PairSent(c) /\ Link(c) = LinkOf(x)
  <2>1. sent'[LinkOf(x)] = Tail(sent[LinkOf(x)]) /\ Head(sent[LinkOf(x)]) = c
    <3>1. /\ Head(sent[Link(c)]) = c
          /\ sent' = [sent EXCEPT ![Link(c)] = Tail(sent[Link(c)])]
      BY <1>4, AnswersMove
    <3>2. DOMAIN sent = Nodes \X Nodes
      BY <1>1 DEF TypeOK
    <3>3. QED
      BY <1>1, <1>4, <3>1, <3>2
  <2>2. c \in SentOn(LinkOf(x))
    BY <1>4 DEF SentOn, PairSent
  <2>3. Queued(sent[LinkOf(x)], SentOn(LinkOf(x)))
    BY <1>1 DEF QueueInv
  <2>4. sent[LinkOf(x)] # << >> /\ sent[LinkOf(x)][1] = c
    BY <2>1, <2>2, <2>3, QueuedTail
  <2>5. c \notin At(x)
    BY <1>4
  <2>6. Ordered(Tail(sent[LinkOf(x)]), At(x), at, low, high)
    BY <1>1, <2>4, <2>5, OrderedTail
  <2>7. QED
    BY <2>1, <2>6
<1>5. QED
  <2>1. \/ sent'[LinkOf(x)] = sent[LinkOf(x)]
        \/ ListHalf(c) /\ Link(c) = LinkOf(x)
        \/ PairSent(c) /\ Link(c) = LinkOf(x)
    BY <1>1, AnswersMove DEF TypeOK
  <2>2. QED
    BY <1>2, <1>3, <1>4, <2>1

LEMMA FetchedOthers ==
  ASSUME EprInv, QueueInv, NEW c \in Sessions, Acts(c), NEW x \in Sockets,
         ~((Fetch(c) \/ Accept(c)) /\ c \in At(Peer[x])),
         NEW at, NEW low \in Nat, NEW high \in Nat,
         Ordered(fetched[Peer[x][1]], At(Peer[x]), at, low, high)
  PROVE  Ordered(fetched'[Peer[x][1]], At(Peer[x]), at, low, high)
<1> DEFINE n == Peer[x][1]
           S == At(Peer[x])
<1>1. /\ TypeOK /\ n \in Nodes /\ fetched[n] \in Seq(Sessions) /\ Home[c] \in Nodes
  BY Typed, SocketFacts DEF EprInv
<1> HIDE DEF n, S
<1>2. CASE fetched'[n] = fetched[n]
  BY <1>2 DEF n, S
<1>3. CASE Fetch(c) /\ Home[c] = n
  <2>1. fetched'[n] = Append(fetched[n], c)
    BY <1>1, <1>3, AnswersMove DEF TypeOK
  <2>2. c \notin S /\ Ordered(fetched[n], S, at, low, high)
    BY <1>3 DEF n, S
  <2>3. Ordered(Append(fetched[n], c), S, at, low, high)
    BY <1>1, <2>2, OrderedOther
  <2>4. QED
    BY <2>1, <2>3 DEF n, S
<1>4. CASE Accept(c) /\ Home[c] = n
  <2>1. fetched'[n] = Tail(fetched[n]) /\ Head(fetched[n]) = c
    BY <1>1, <1>4, AnswersMove DEF TypeOK
  <2>2. c \in FetchedAt(n)
    BY <1>4 DEF FetchedAt, Accept
  <2>3. Queued(fetched[n], FetchedAt(n))
    BY <1>1 DEF QueueInv
  <2>4. fetched[n] # << >> /\ fetched[n][1] = c
    BY <2>1, <2>2, <2>3, QueuedTail
  <2>5. c \notin S /\ Ordered(fetched[n], S, at, low, high)
    BY <1>4 DEF n, S
  <2>6. Ordered(Tail(fetched[n]), S, at, low, high)
    BY <1>1, <2>4, <2>5, OrderedTail
  <2>7. QED
    BY <2>1, <2>6 DEF n, S
<1>5. QED
  <2>1. \/ fetched'[n] = fetched[n]
        \/ Fetch(c) /\ Home[c] = n
        \/ Accept(c) /\ Home[c] = n
    BY <1>1, AnswersMove DEF TypeOK
  <2>2. QED
    BY <1>2, <1>3, <1>4, <2>1

(* What waits for an answer stays as it is. *)
LEMMA WaitingSlots ==
  ASSUME EprInv, NEW c \in Sessions, Acts(c), WellTyped(c), NEW d \in Sessions
  PROVE  /\ pc'[d] = "sent" /\ ~(d = c /\ ListHalf(c)) =>
              d # c /\ pc[d] = "sent" /\ SentSlot(d)' = SentSlot(d)
         /\ pc'[d] = "fetched" /\ ~(d = c /\ Fetch(c)) =>
              d # c /\ pc[d] = "fetched" /\ GotSlot(d)' = GotSlot(d)
<1>1. TypeOK /\ UsedFinite
  BY DEF EprInv, UsedFinite
<1>2. CASE d # c
  <2>1. Same(d)
    BY <1>2 DEF WellTyped
  <2>2. QED
    BY <1>2, <2>1 DEF Same, SentSlot, GotSlot, PairOf
<1>3. CASE d = c
  <2>1. pc'[c] \in {"sent", "fetched"} => ListHalf(c) \/ Fetch(c)
    <3>1. CASE Start(c) \/ PairSent(c) \/ Accept(c)
      BY <1>1, <3>1, Moves DEF Start
    <3>2. CASE \/ NewQubit(c) \/ RefuseQubit(c) \/ QubitRefused(c) \/ RefuseHalf(c)
               \/ StrikeHalf(c) \/ Measure(c) \/ Timeout(c)
      BY <1>1, <3>2, Moves
    <3>3. CASE GotQubit(c) \/ Entangle(c) \/ AddHalf(c) \/ Measured(c)
      BY <1>1, <3>3, WorkMoves
    <3>4. QED
      BY <3>1, <3>2, <3>3 DEF Acts, Step
  <2>2. /\ ListHalf(c) => pc'[c] # "fetched"
        /\ Fetch(c) => pc'[c] # "sent"
    BY <1>1, Moves, FetchMoves
  <2>3. QED
    BY <1>3, <2>1, <2>2
<1>4. QED
  BY <1>2, <1>3

LEMMA PlacesStay ==
  ASSUME EprInv, QueueInv, NEW c \in Sessions, Acts(c), WellTyped(c), NEW x \in Sockets,
         ~((ListHalf(c) \/ PairSent(c)) /\ c \in At(x)),
         ~((Fetch(c) \/ Accept(c)) /\ c \in At(Peer[x])),
         NEW l \in Seq(Slot), NEW at \in [Sessions -> Nat], Places(x, l, at)
  PROVE  Places(x, l, at)'
<1>1. /\ TypeOK /\ Peer[x] \in Sockets /\ Peer[Peer[x]] = x /\ Socket(c) \in Sockets
      /\ Len(Created(x)) \in Nat /\ Len(Received(x)) \in Nat /\ Len(Awaited(x)) \in Nat
      /\ Len(l) \in Nat /\ Len(Awaited(x)) <= Len(l)
  BY Typed, SocketFacts, LenProperties DEF EprInv, Places, Ends
<1>2. Socket(c) = x <=> c \in At(x)
  BY DEF At
<1>3. Socket(c) = Peer[x] <=> c \in At(Peer[x])
  BY DEF At
<1>4. Peer[Socket(c)] = Peer[x] => Socket(c) = x
  BY <1>1, SocketsPaired
<1>5. slots'["create"][x] = slots["create"][x] /\ slots'["recv"][Peer[x]] = slots["recv"][Peer[x]]
  BY <1>1, <1>2, <1>3, SlotsMove
<1>6. eprList'[Peer[x]] = eprList[Peer[x]]
  BY <1>1, <1>2, <1>3, <1>4, ListMoves DEF TypeOK
<1>7. /\ Created(x)' = Created(x) /\ Received(x)' = Received(x) /\ Awaited(x)' = Awaited(x)
      /\ At(x)' = At(x) /\ At(Peer[x])' = At(Peer[x])
  BY <1>5, <1>6 DEF Created, Received, Awaited, At, Socket
<1>8. Ordered(sent'[LinkOf(x)], At(x), at, Len(Created(x)), Len(l))
  BY <1>1, SentOthers DEF Places
<1>9. Ordered(fetched'[Peer[x][1]], At(Peer[x]), at, Len(Received(x)), Len(l) - Len(Awaited(x)))
  <2>1. Len(l) - Len(Awaited(x)) \in Nat
    BY <1>1
  <2>2. QED
    BY <1>1, <2>1, FetchedOthers DEF Places
<1>10. \A d \in At(x) : pc'[d] = "sent" => l[at[d]] = SentSlot(d)'
  <2>1. ASSUME NEW d \in At(x), pc'[d] = "sent" PROVE l[at[d]] = SentSlot(d)'
    <3>1. d \in Sessions /\ ~(d = c /\ ListHalf(c))
      BY <2>1 DEF At
    <3>2. QED
      BY <2>1, <3>1, WaitingSlots DEF Places
  <2>2. QED
    BY <2>1
<1>11. \A d \in At(Peer[x]) : pc'[d] = "fetched" => l[at[d]] = GotSlot(d)'
  <2>1. ASSUME NEW d \in At(Peer[x]), pc'[d] = "fetched" PROVE l[at[d]] = GotSlot(d)'
    <3>1. d \in Sessions /\ ~(d = c /\ Fetch(c))
      BY <2>1 DEF At
    <3>2. QED
      BY <2>1, <3>1, WaitingSlots DEF Places
  <2>2. QED
    BY <2>1
<1>12. LinkOf(x)' = LinkOf(x)
  BY DEF LinkOf
<1>13. QED
  BY <1>7, <1>8, <1>9, <1>10, <1>11, <1>12 DEF Places

(* The pair of ListHalf becomes the last of its socket. *)
LEMMA PlacesListed ==
  ASSUME EprInv, QueueInv, NEW c \in Sessions, Acts(c), WellTyped(c), NEW x \in Sockets,
         ListHalf(c), c \in At(x),
         NEW l \in Seq(Slot), NEW at \in [Sessions -> Nat], Places(x, l, at),
         NEW a \in Slot, a = SentSlot(c),
         NEW m \in Seq(Slot), m = Append(l, a),
         NEW to \in [Sessions -> Nat], to = [at EXCEPT ![c] = Len(l) + 1]
  PROVE  Places(x, m, to)'
<1>1. /\ TypeOK /\ UsedFinite /\ Peer[x] \in Sockets /\ Peer[Peer[x]] = x /\ Socket(c) = x
      /\ Created(x) \in Seq(Slot) /\ Received(x) \in Seq(Slot) /\ Awaited(x) \in Seq(Entry)
      /\ Len(Created(x)) \in Nat /\ Len(Received(x)) \in Nat /\ Len(Awaited(x)) \in Nat
      /\ Len(l) \in Nat /\ Len(Awaited(x)) <= Len(l) /\ Link(c) = LinkOf(x)
      /\ LinkOf(x) \in Nodes \X Nodes /\ sent[LinkOf(x)] \in Seq(Sessions)
      /\ fetched[Peer[x][1]] \in Seq(Sessions) /\ Peer[x] # x
  BY Typed, SocketsPaired, LenProperties DEF EprInv, Places, Ends, UsedFinite
<1>2. pc[c] = "listing" /\ pc'[c] = "sent" /\ work' = work
  BY <1>1, Moves
<1>3. ~PairSent(c) /\ ~Accept(c) /\ ~Fetch(c)
  BY <1>2 DEF PairSent, Accept, Fetch
<1>4. slots'["create"][x] = slots["create"][x] /\ slots'["recv"][Peer[x]] = slots["recv"][Peer[x]]
  BY <1>1, <1>3, SlotsMove
<1>5. PICK e \in Entry : /\ SlotOf(e) = a
                         /\ eprList'[Peer[x]] = Append(Awaited(x), e)
  <2> DEFINE e == [num |-> work[c].num, ent |-> work[c].ent, pair |-> PairOf(c)]
  <2>1. e \in Entry
    BY <1>1, HalfTyped DEF Entry
  <2>2. SlotOf(e) = a
    BY DEF SlotOf, SentSlot
  <2>3. eprList'[Peer[x]] = Append(Awaited(x), e)
    <3>1. eprList' = [eprList EXCEPT ![Peer[x]] = Append(eprList[Peer[x]], e)]
      BY <1>1 DEF ListHalf
    <3>2. DOMAIN eprList = Sockets
      BY <1>1 DEF TypeOK
    <3>3. QED
      BY <1>1, <3>1, <3>2 DEF Awaited
  <2>4. QED
    BY <2>1, <2>2, <2>3
<1>6. /\ Len(m) = Len(l) + 1 /\ m[Len(l) + 1] = a
      /\ \A k \in 1 .. Len(l) : m[k] = l[k]
  BY <1>1, AppendProperties, LenProperties
<1>7. Begins(Created(x), m) /\ Begins(Received(x), m)
  BY <1>1, BeginsLonger DEF Places
<1>8. Ends(Append(Awaited(x), e), m) /\ Len(Append(Awaited(x), e)) = Len(Awaited(x)) + 1
  BY <1>1, <1>5, EndsLonger, AppendProperties DEF Places
<1>9. /\ \A d \in Sessions : d # c => to[d] = at[d]
      /\ to[c] = Len(l) + 1
  OBVIOUS
<1>10. Ordered(sent'[LinkOf(x)], At(x), to, Len(Created(x)), Len(l) + 1)
  <2>1. sent'[LinkOf(x)] = Append(sent[LinkOf(x)], c)
    <3>1. sent' = [sent EXCEPT ![Link(c)] = Append(sent[Link(c)], c)]
      BY AnswersMove
    <3>2. DOMAIN sent = Nodes \X Nodes
      BY <1>1 DEF TypeOK
    <3>3. QED
      BY <1>1, <3>1, <3>2
  <2>2. \A i \in DOMAIN sent[LinkOf(x)] : to[sent[LinkOf(x)][i]] = at[sent[LinkOf(x)][i]]
    <3>1. SUFFICES ASSUME NEW i \in DOMAIN sent[LinkOf(x)]
                   PROVE  to[sent[LinkOf(x)][i]] = at[sent[LinkOf(x)][i]]
      OBVIOUS
    <3>2. pc[sent[LinkOf(x)][i]] = "sent" /\ sent[LinkOf(x)][i] \in Sessions
      BY PlaceOf
    <3>3. sent[LinkOf(x)][i] # c
      BY <1>2, <3>2
    <3>4. QED
      BY <1>9, <3>2, <3>3
  <2>3. PICK q \in Seq(Sessions) : q = sent[LinkOf(x)]
    BY <1>1
  <2>4. PICK S : S = At(x)
    OBVIOUS
  <2>5. PICK low \in Nat : low = Len(Created(x))
    BY <1>1
  <2>6. PICK high \in Nat : high = Len(l)
    BY <1>1
  <2>7. c \in S /\ Ordered(q, S, at, low, high) /\ to[c] = high + 1
    BY <1>9, <2>3, <2>4, <2>5, <2>6 DEF Places
  <2>8. \A i \in DOMAIN q : q[i] \in S => to[q[i]] = at[q[i]]
    BY <2>2, <2>3
  <2>9. Ordered(Append(q, c), S, to, low, high + 1)
    BY <2>7, <2>8, OrderedAppend
  <2>10. QED
    BY <2>1, <2>3, <2>4, <2>5, <2>6, <2>9
<1>11. Ordered(fetched'[Peer[x][1]], At(Peer[x]), to, Len(Received(x)),
               (Len(l) + 1) - (Len(Awaited(x)) + 1))
  <2>1. fetched' = fetched
    BY <1>3, AnswersMove
  <2>2. \A i \in DOMAIN fetched[Peer[x][1]] : to[fetched[Peer[x][1]][i]] = at[fetched[Peer[x][1]][i]]
    <3>1. SUFFICES ASSUME NEW i \in DOMAIN fetched[Peer[x][1]]
                   PROVE  to[fetched[Peer[x][1]][i]] = at[fetched[Peer[x][1]][i]]
      OBVIOUS
    <3>2. pc[fetched[Peer[x][1]][i]] = "fetched" /\ fetched[Peer[x][1]][i] \in Sessions
      BY PlaceOf
    <3>3. fetched[Peer[x][1]][i] # c
      BY <1>2, <3>2
    <3>4. QED
      BY <1>9, <3>2, <3>3
  <2>3. Ordered(fetched[Peer[x][1]], At(Peer[x]), at, Len(Received(x)), Len(l) - Len(Awaited(x)))
    BY DEF Places
  <2>4. Ordered(fetched[Peer[x][1]], At(Peer[x]), to, Len(Received(x)), Len(l) - Len(Awaited(x)))
    BY <2>2, <2>3 DEF Ordered
  <2>5. (Len(l) + 1) - (Len(Awaited(x)) + 1) = Len(l) - Len(Awaited(x))
    BY <1>1
  <2>6. QED
    BY <2>1, <2>4, <2>5
<1>12. ASSUME NEW d \in At(x), pc'[d] = "sent" PROVE m[to[d]] = SentSlot(d)'
  <2>1. CASE d = c
    <3>1. SentSlot(c)' = SentSlot(c)
      BY <1>2 DEF SentSlot, PairOf
    <3>2. QED
      BY <1>6, <1>9, <2>1, <3>1
  <2>2. CASE d # c
    <3>1. d \in Sessions
      BY DEF At
    <3>2. pc[d] = "sent" /\ SentSlot(d)' = SentSlot(d)
      BY <1>12, <2>2, <3>1, WaitingSlots
    <3>3. at[d] \in 1 .. Len(l) /\ l[at[d]] = SentSlot(d)
      BY <3>2, PlaceOf DEF Places
    <3>4. QED
      BY <1>6, <1>9, <2>2, <3>1, <3>2, <3>3
  <2>3. QED
    BY <2>1, <2>2
<1>13. ASSUME NEW d \in At(Peer[x]), pc'[d] = "fetched" PROVE m[to[d]] = GotSlot(d)'
  <2>1. d \in Sessions /\ d # c
    BY <1>2, <1>13 DEF At
  <2>2. pc[d] = "fetched" /\ GotSlot(d)' = GotSlot(d)
    BY <1>13, <2>1, WaitingSlots
  <2>3. at[d] \in 1 .. Len(l) /\ l[at[d]] = GotSlot(d)
    BY <2>2, PlaceOf DEF Places
  <2>4. QED
    BY <1>6, <1>9, <2>1, <2>2, <2>3
<1>14. /\ Created(x)' = Created(x) /\ Received(x)' = Received(x)
       /\ Awaited(x)' = Append(Awaited(x), e)
       /\ At(x)' = At(x) /\ At(Peer[x])' = At(Peer[x]) /\ LinkOf(x)' = LinkOf(x)
  BY <1>4, <1>5 DEF Created, Received, Awaited, At, Socket, LinkOf
<1>15. QED
  BY <1>6, <1>7, <1>8, <1>10, <1>11, <1>12, <1>13, <1>14 DEF Places

(* What Fetch takes has the place after those taken before. *)
LEMMA PlacesFetched ==
  ASSUME EprInv, QueueInv, NEW c \in Sessions, Acts(c), WellTyped(c), NEW x \in Sockets,
         Fetch(c), c \in At(Peer[x]),
         NEW l \in Seq(Slot), NEW at \in [Sessions -> Nat], Places(x, l, at),
         NEW to \in [Sessions -> Nat],
         to = [at EXCEPT ![c] = (Len(l) - Len(Awaited(x))) + 1]
  PROVE  Places(x, l, to)'
<1>1. /\ TypeOK /\ Peer[x] \in Sockets /\ Peer[Peer[x]] = x /\ Socket(c) = Peer[x]
      /\ Created(x) \in Seq(Slot) /\ Received(x) \in Seq(Slot) /\ Awaited(x) \in Seq(Entry)
      /\ Len(Created(x)) \in Nat /\ Len(Received(x)) \in Nat /\ Len(Awaited(x)) \in Nat
      /\ Len(l) \in Nat /\ Len(Awaited(x)) <= Len(l) /\ Home[c] = Peer[x][1]
      /\ LinkOf(x) \in Nodes \X Nodes /\ sent[LinkOf(x)] \in Seq(Sessions)
      /\ fetched[Peer[x][1]] \in Seq(Sessions) /\ Peer[x] # x /\ Peer[x][1] \in Nodes
  BY Typed, SocketsPaired, LenProperties DEF EprInv, Places, Ends
<1> DEFINE high == Len(l) - Len(Awaited(x))
<1>2. /\ pc[c] = "polling" /\ pc'[c] = "fetched"
      /\ work'[c].gotPair = Head(Awaited(x)).pair /\ work'[c].gotEnt = Head(Awaited(x)).ent
  BY <1>1, FetchMoves DEF Awaited
<1>3. ~PairSent(c) /\ ~Accept(c) /\ ~ListHalf(c)
  BY <1>2 DEF PairSent, Accept, ListHalf
<1>4. slots'["create"][x] = slots["create"][x] /\ slots'["recv"][Peer[x]] = slots["recv"][Peer[x]]
  BY <1>1, <1>3, SlotsMove
<1>5. Awaited(x) # << >> /\ eprList'[Peer[x]] = Tail(Awaited(x))
  <2>1. /\ eprList[Peer[x]] # << >>
        /\ eprList' = [eprList EXCEPT ![Peer[x]] = Tail(eprList[Peer[x]])]
    BY <1>1 DEF Fetch
  <2>2. DOMAIN eprList = Sockets
    BY <1>1 DEF TypeOK
  <2>3. QED
    BY <1>1, <2>1, <2>2 DEF Awaited
<1>6. /\ Ends(Tail(Awaited(x)), l) /\ Len(Tail(Awaited(x))) = Len(Awaited(x)) - 1
      /\ SlotOf(Head(Awaited(x))) = l[high + 1]
  BY <1>1, <1>5, EndsShorter DEF Places
<1>7. /\ \A d \in Sessions : d # c => to[d] = at[d]
      /\ to[c] = high + 1
  OBVIOUS
<1>8. high \in Nat /\ Len(l) - (Len(Awaited(x)) - 1) = high + 1
  BY <1>1
<1> HIDE DEF high
<1>9. Ordered(sent'[LinkOf(x)], At(x), to, Len(Created(x)), Len(l))
  <2>1. sent' = sent
    BY <1>3, AnswersMove
  <2>2. \A i \in DOMAIN sent[LinkOf(x)] : to[sent[LinkOf(x)][i]] = at[sent[LinkOf(x)][i]]
    <3>1. SUFFICES ASSUME NEW i \in DOMAIN sent[LinkOf(x)]
                   PROVE  to[sent[LinkOf(x)][i]] = at[sent[LinkOf(x)][i]]
      OBVIOUS
    <3>2. pc[sent[LinkOf(x)][i]] = "sent" /\ sent[LinkOf(x)][i] \in Sessions
      BY PlaceOf
    <3>3. sent[LinkOf(x)][i] # c
      BY <1>2, <3>2
    <3>4. QED
      BY <1>7, <3>2, <3>3
  <2>3. Ordered(sent[LinkOf(x)], At(x), at, Len(Created(x)), Len(l))
    BY DEF Places
  <2>4. Ordered(sent[LinkOf(x)], At(x), to, Len(Created(x)), Len(l))
    BY <2>2, <2>3 DEF Ordered
  <2>5. QED
    BY <2>1, <2>4
<1>10. Ordered(fetched'[Peer[x][1]], At(Peer[x]), to, Len(Received(x)), high + 1)
  <2>1. fetched'[Peer[x][1]] = Append(fetched[Peer[x][1]], c)
    <3>1. fetched' = [fetched EXCEPT ![Home[c]] = Append(fetched[Home[c]], c)]
      BY AnswersMove
    <3>2. DOMAIN fetched = Nodes
      BY <1>1 DEF TypeOK
    <3>3. QED
      BY <1>1, <3>1, <3>2
  <2>2. \A i \in DOMAIN fetched[Peer[x][1]] : to[fetched[Peer[x][1]][i]] = at[fetched[Peer[x][1]][i]]
    <3>1. SUFFICES ASSUME NEW i \in DOMAIN fetched[Peer[x][1]]
                   PROVE  to[fetched[Peer[x][1]][i]] = at[fetched[Peer[x][1]][i]]
      OBVIOUS
    <3>2. pc[fetched[Peer[x][1]][i]] = "fetched" /\ fetched[Peer[x][1]][i] \in Sessions
      BY PlaceOf
    <3>3. fetched[Peer[x][1]][i] # c
      BY <1>2, <3>2
    <3>4. QED
      BY <1>7, <3>2, <3>3
  <2>3. PICK q \in Seq(Sessions) : q = fetched[Peer[x][1]]
    BY <1>1
  <2>4. PICK S : S = At(Peer[x])
    OBVIOUS
  <2>5. PICK low \in Nat : low = Len(Received(x))
    BY <1>1
  <2>6. PICK top \in Nat : top = high
    BY <1>8
  <2>7. c \in S /\ Ordered(q, S, at, low, top) /\ to[c] = top + 1
    BY <1>7, <2>3, <2>4, <2>5, <2>6 DEF Places, high
  <2>8. \A i \in DOMAIN q : q[i] \in S => to[q[i]] = at[q[i]]
    BY <2>2, <2>3
  <2>9. Ordered(Append(q, c), S, to, low, top + 1)
    BY <2>7, <2>8, OrderedAppend
  <2>10. QED
    BY <2>1, <2>3, <2>4, <2>5, <2>6, <2>9
<1>11. ASSUME NEW d \in At(x), pc'[d] = "sent" PROVE l[to[d]] = SentSlot(d)'
  <2>1. d \in Sessions /\ d # c
    BY <1>2, <1>11 DEF At
  <2>2. pc[d] = "sent" /\ SentSlot(d)' = SentSlot(d)
    BY <1>11, <2>1, WaitingSlots
  <2>3. QED
    BY <1>7, <2>1, <2>2 DEF Places
<1>12. ASSUME NEW d \in At(Peer[x]), pc'[d] = "fetched" PROVE l[to[d]] = GotSlot(d)'
  <2>1. CASE d = c
    <3>1. GotSlot(c)' = SlotOf(Head(Awaited(x)))
      BY <1>2 DEF GotSlot, SlotOf
    <3>2. QED
      BY <1>6, <1>7, <2>1, <3>1
  <2>2. CASE d # c
    <3>1. d \in Sessions
      BY DEF At
    <3>2. pc[d] = "fetched" /\ GotSlot(d)' = GotSlot(d)
      BY <1>12, <2>2, <3>1, WaitingSlots
    <3>3. QED
      BY <1>7, <2>2, <3>1, <3>2 DEF Places
  <2>3. QED
    BY <2>1, <2>2
<1>13. /\ Created(x)' = Created(x) /\ Received(x)' = Received(x)
       /\ Awaited(x)' = Tail(Awaited(x))
       /\ At(x)' = At(x) /\ At(Peer[x])' = At(Peer[x]) /\ LinkOf(x)' = LinkOf(x)
  BY <1>4, <1>5 DEF Created, Received, Awaited, At, Socket, LinkOf
<1>14. Begins(Created(x), l) /\ Begins(Received(x), l)
  BY DEF Places
<1>15. Len(Tail(Awaited(x))) = Len(Awaited(x)) - 1 /\ Len(l) - Len(Tail(Awaited(x))) = high + 1
  BY <1>6, <1>8
<1>16. QED
  BY <1>6, <1>9, <1>10, <1>11, <1>12, <1>13, <1>14, <1>15 DEF Places


(* The answer to a send fills the slot of the pair that has its place. *)
LEMMA PlacesSent ==
  ASSUME EprInv, QueueInv, NEW c \in Sessions, Acts(c), WellTyped(c), NEW x \in Sockets,
         PairSent(c), c \in At(x),
         NEW l \in Seq(Slot), NEW at \in [Sessions -> Nat], Places(x, l, at)
  PROVE  Places(x, l, at)'
<1>1. /\ TypeOK /\ UsedFinite /\ Peer[x] \in Sockets /\ Socket(c) = x /\ Peer[x] # x
      /\ Created(x) \in Seq(Slot)
      /\ Len(Created(x)) \in Nat /\ Len(l) \in Nat /\ Link(c) = LinkOf(x)
      /\ LinkOf(x) \in Nodes \X Nodes /\ sent[LinkOf(x)] \in Seq(Sessions)
  BY Typed, SocketsPaired, LenProperties DEF EprInv, UsedFinite
<1>2. pc[c] = "sent"
  BY DEF PairSent
<1>3. ~ListHalf(c) /\ ~Accept(c) /\ ~Fetch(c)
  BY <1>2 DEF ListHalf, Accept, Fetch
<1>4. /\ sent'[LinkOf(x)] = Tail(sent[LinkOf(x)])
      /\ sent[LinkOf(x)] # << >> /\ sent[LinkOf(x)][1] = c
  <2>1. /\ Head(sent[Link(c)]) = c
        /\ sent' = [sent EXCEPT ![Link(c)] = Tail(sent[Link(c)])]
    BY AnswersMove
  <2>2. DOMAIN sent = Nodes \X Nodes
    BY <1>1 DEF TypeOK
  <2>3. c \in SentOn(LinkOf(x)) /\ Queued(sent[LinkOf(x)], SentOn(LinkOf(x)))
    BY <1>1, <1>2 DEF SentOn, QueueInv
  <2>4. Head(sent[LinkOf(x)]) = c
    BY <1>1, <2>1
  <2>5. sent[LinkOf(x)] # << >> /\ sent[LinkOf(x)][1] = c
    BY <2>3, <2>4, QueuedTail
  <2>6. QED
    BY <1>1, <2>1, <2>2, <2>5
<1>5. /\ at[c] = Len(Created(x)) + 1 /\ Len(Created(x)) + 1 <= Len(l)
      /\ Ordered(sent'[LinkOf(x)], At(x), at, Len(Created(x)) + 1, Len(l))
  <2>1. PICK q \in Seq(Sessions) : q = sent[LinkOf(x)]
    BY <1>1
  <2>2. PICK S : S = At(x)
    OBVIOUS
  <2>3. PICK low \in Nat : low = Len(Created(x))
    BY <1>1
  <2>4. PICK high \in Nat : high = Len(l)
    BY <1>1
  <2>5. q # << >> /\ q[1] = c /\ c \in S /\ Ordered(q, S, at, low, high)
    BY <1>4, <2>1, <2>2, <2>3, <2>4 DEF Places
  <2>6. at[c] = low + 1 /\ low + 1 <= high /\ Ordered(Tail(q), S, at, low + 1, high)
    BY <2>5, OrderedTail
  <2>7. QED
    BY <1>4, <2>1, <2>2, <2>3, <2>4, <2>6
<1>6. l[Len(Created(x)) + 1] = SentSlot(c)
  BY <1>2, <1>5 DEF Places
<1>7. Created(x)' = Append(Created(x), SentSlot(c))
  BY <1>1, SlotsMove DEF Created
<1>8. Begins(Created(x)', l) /\ Len(Created(x)') = Len(Created(x)) + 1
  <2>1. PICK s \in Seq(Slot) : s = Created(x)
    BY <1>1
  <2>2. PICK a \in Slot : a = SentSlot(c)
    BY <1>1, HalfTyped DEF Slot, SentSlot
  <2>3. Begins(s, l) /\ Len(s) + 1 <= Len(l) /\ l[Len(s) + 1] = a
    BY <1>5, <1>6, <2>1, <2>2 DEF Places
  <2>4. Begins(Append(s, a), l) /\ Len(Append(s, a)) = Len(s) + 1
    BY <2>3, BeginsLonger, AppendProperties
  <2>5. QED
    BY <1>7, <2>1, <2>2, <2>4
<1>9. Received(x)' = Received(x) /\ Awaited(x)' = Awaited(x) /\ fetched' = fetched
  <2>1. slots'["recv"][Peer[x]] = slots["recv"][Peer[x]]
    BY <1>1, <1>3, SlotsMove
  <2>2. eprList' = eprList
    BY DEF PairSent
  <2>3. fetched' = fetched
    BY <1>3, AnswersMove
  <2>4. QED
    BY <2>1, <2>2, <2>3 DEF Received, Awaited
<1>10. ASSUME NEW d \in At(x), pc'[d] = "sent" PROVE l[at[d]] = SentSlot(d)'
  <2>1. d \in Sessions
    BY DEF At
  <2>2. QED
    BY <1>3, <1>10, <2>1, WaitingSlots DEF Places
<1>11. ASSUME NEW d \in At(Peer[x]), pc'[d] = "fetched" PROVE l[at[d]] = GotSlot(d)'
  <2>1. d \in Sessions
    BY DEF At
  <2>2. QED
    BY <1>3, <1>11, <2>1, WaitingSlots DEF Places
<1>12. At(x)' = At(x) /\ At(Peer[x])' = At(Peer[x]) /\ LinkOf(x)' = LinkOf(x)
  BY DEF At, Socket, LinkOf
<1>13. /\ Begins(Received(x), l) /\ Ends(Awaited(x), l)
       /\ Ordered(fetched[Peer[x][1]], At(Peer[x]), at, Len(Received(x)), Len(l) - Len(Awaited(x)))
  BY DEF Places
<1>14. QED
  BY <1>5, <1>8, <1>9, <1>10, <1>11, <1>12, <1>13 DEF Places

(* The answer to a reception fills the slot of the pair that has its place. *)
LEMMA PlacesAccepted ==
  ASSUME EprInv, QueueInv, NEW c \in Sessions, Acts(c), WellTyped(c), NEW x \in Sockets,
         Accept(c), c \in At(Peer[x]),
         NEW l \in Seq(Slot), NEW at \in [Sessions -> Nat], Places(x, l, at)
  PROVE  Places(x, l, at)'
<1>1. /\ TypeOK /\ UsedFinite /\ Peer[x] \in Sockets /\ Socket(c) = Peer[x] /\ Peer[x] # x
      /\ Received(x) \in Seq(Slot) /\ Awaited(x) \in Seq(Entry) /\ Len(Awaited(x)) \in Nat
      /\ Len(Received(x)) \in Nat /\ Len(l) \in Nat /\ Len(Awaited(x)) <= Len(l)
      /\ Home[c] = Peer[x][1] /\ Peer[x][1] \in Nodes /\ fetched[Peer[x][1]] \in Seq(Sessions)
  BY Typed, SocketsPaired, LenProperties DEF EprInv, UsedFinite, Places, Ends
<1> DEFINE n == Peer[x][1]
<1>2. pc[c] = "fetched"
  BY DEF Accept
<1>3. ~ListHalf(c) /\ ~PairSent(c) /\ ~Fetch(c)
  BY <1>2 DEF ListHalf, PairSent, Fetch
<1>4. /\ fetched'[n] = Tail(fetched[n])
      /\ fetched[n] # << >> /\ fetched[n][1] = c
  <2>1. /\ Head(fetched[Home[c]]) = c
        /\ fetched' = [fetched EXCEPT ![Home[c]] = Tail(fetched[Home[c]])]
    BY AnswersMove
  <2>2. DOMAIN fetched = Nodes
    BY <1>1 DEF TypeOK
  <2>3. c \in FetchedAt(n) /\ Queued(fetched[n], FetchedAt(n))
    BY <1>1, <1>2 DEF FetchedAt, QueueInv
  <2>4. Head(fetched[n]) = c
    BY <1>1, <2>1
  <2>5. fetched[n] # << >> /\ fetched[n][1] = c
    <3>1. PICK q : q = fetched[n]
      OBVIOUS
    <3>2. PICK waiting : waiting = FetchedAt(n)
      OBVIOUS
    <3>3. c \in waiting /\ Queued(q, waiting) /\ Head(q) = c
      BY <2>3, <2>4, <3>1, <3>2
    <3>4. q # << >> /\ q[1] = c
      BY <3>3, QueuedTail
    <3>5. QED
      BY <3>1, <3>4
  <2>6. QED
    BY <1>1, <2>1, <2>2, <2>5
<1>5. /\ at[c] = Len(Received(x)) + 1 /\ Len(Received(x)) + 1 <= Len(l)
      /\ Ordered(fetched'[n], At(Peer[x]), at, Len(Received(x)) + 1, Len(l) - Len(Awaited(x)))
  <2>1. PICK q \in Seq(Sessions) : q = fetched[n]
    BY <1>1
  <2>2. PICK S : S = At(Peer[x])
    OBVIOUS
  <2>3. PICK low \in Nat : low = Len(Received(x))
    BY <1>1
  <2>4. PICK high \in Nat : high = Len(l) - Len(Awaited(x))
    <3>1. Len(l) - Len(Awaited(x)) \in Nat
      BY <1>1
    <3>2. QED
      BY <3>1
  <2>5. q # << >> /\ q[1] = c /\ c \in S /\ Ordered(q, S, at, low, high)
    BY <1>4, <2>1, <2>2, <2>3, <2>4 DEF Places
  <2>6. at[c] = low + 1 /\ low + 1 <= high /\ Ordered(Tail(q), S, at, low + 1, high)
    BY <2>5, OrderedTail
  <2>7. low + 1 <= Len(l)
    BY <1>1, <2>4, <2>6
  <2>8. QED
    BY <1>4, <2>1, <2>2, <2>3, <2>4, <2>6, <2>7
<1>6. l[Len(Received(x)) + 1] = GotSlot(c)
  BY <1>2, <1>5 DEF Places
<1>7. Received(x)' = Append(Received(x), GotSlot(c))
  BY <1>1, SlotsMove DEF Received
<1>8. Begins(Received(x)', l) /\ Len(Received(x)') = Len(Received(x)) + 1
  <2>1. PICK s \in Seq(Slot) : s = Received(x)
    BY <1>1
  <2>2. PICK a \in Slot : a = GotSlot(c)
    <3>1. work[c] \in Work
      BY <1>1 DEF TypeOK
    <3>2. QED
      BY <3>1 DEF Slot, GotSlot, Work
  <2>3. Begins(s, l) /\ Len(s) + 1 <= Len(l) /\ l[Len(s) + 1] = a
    BY <1>5, <1>6, <2>1, <2>2 DEF Places
  <2>4. Begins(Append(s, a), l) /\ Len(Append(s, a)) = Len(s) + 1
    BY <2>3, BeginsLonger, AppendProperties
  <2>5. QED
    BY <1>7, <2>1, <2>2, <2>4
<1>9. Created(x)' = Created(x) /\ Awaited(x)' = Awaited(x) /\ sent' = sent
  <2>1. slots'["create"][x] = slots["create"][x]
    BY <1>1, <1>3, SlotsMove
  <2>2. eprList' = eprList
    BY DEF Accept
  <2>3. sent' = sent
    BY <1>3, AnswersMove
  <2>4. QED
    BY <2>1, <2>2, <2>3 DEF Created, Awaited
<1>10. ASSUME NEW d \in At(x), pc'[d] = "sent" PROVE l[at[d]] = SentSlot(d)'
  <2>1. d \in Sessions
    BY DEF At
  <2>2. QED
    BY <1>3, <1>10, <2>1, WaitingSlots DEF Places
<1>11. ASSUME NEW d \in At(Peer[x]), pc'[d] = "fetched" PROVE l[at[d]] = GotSlot(d)'
  <2>1. d \in Sessions
    BY DEF At
  <2>2. QED
    BY <1>3, <1>11, <2>1, WaitingSlots DEF Places
<1>12. At(x)' = At(x) /\ At(Peer[x])' = At(Peer[x]) /\ LinkOf(x)' = LinkOf(x)
  BY DEF At, Socket, LinkOf
<1>13. /\ Begins(Created(x), l) /\ Ends(Awaited(x), l)
       /\ Ordered(sent[LinkOf(x)], At(x), at, Len(Created(x)), Len(l))
  BY DEF Places
<1>14. QED
  BY <1>5, <1>8, <1>9, <1>10, <1>11, <1>12, <1>13 DEF Places

(* Ids: one is drawn, the one of a pair is listed with it, or all stay. *)
LEMMA IdsStay ==
  ASSUME EprInv, NEW c \in Sessions, Acts(c), WellTyped(c), NEW x \in Sockets,
         ~((Entangle(c) \/ ListHalf(c)) /\ c \in At(x)),
         NEW l \in Seq(Slot), Ids(x, l)
  PROVE  Ids(x, l)'
<1>1. nextEnt'[x] = nextEnt[x]
  <2>1. TypeOK
    BY DEF EprInv
  <2>2. Entangle(c) => x # Socket(c)
    BY DEF At
  <2>3. QED
    BY <2>1, <2>2, EntMoves
<1>2. \A d \in At(x) : Drawn(d)' => Drawn(d) /\ work'[d].ent = work[d].ent
  <2>1. SUFFICES ASSUME NEW d \in At(x), Drawn(d)'
                 PROVE  Drawn(d) /\ work'[d].ent = work[d].ent
    OBVIOUS
  <2>2. d \in Sessions /\ ~(d = c /\ Entangle(c))
    BY DEF At
  <2>3. QED
    BY <2>1, <2>2, DrawnStays
<1>3. At(x)' = At(x)
  BY DEF At, Socket
<1>4. QED
  BY <1>1, <1>2, <1>3 DEF Ids

LEMMA IdsDrawn ==
  ASSUME EprInv, NEW c \in Sessions, Acts(c), WellTyped(c), NEW x \in Sockets,
         Entangle(c), c \in At(x),
         NEW l \in Seq(Slot), Ids(x, l)
  PROVE  Ids(x, l)'
<1>1. /\ TypeOK /\ Socket(c) = x /\ nextEnt[x] \in Nat /\ Len(l) \in Nat
      /\ \A k \in 1 .. Len(l) : l[k].ent \in Nat
      /\ \A d \in Sessions : work[d].ent \in Nat
  <2>1. TypeOK
    BY DEF EprInv
  <2>2. Len(l) \in Nat /\ \A k \in 1 .. Len(l) : l[k] \in Slot
    BY LenProperties, ElementOfSeq
  <2>3. \A d \in Sessions : work[d].ent \in Nat
    BY <2>1, HalfTyped
  <2>4. nextEnt[x] \in Nat
    BY <2>1 DEF TypeOK
  <2>5. QED
    BY <2>1, <2>2, <2>3, <2>4 DEF At, Slot
<1>2. nextEnt'[x] = nextEnt[x] + 1 /\ work'[c].ent = nextEnt[x]
  BY <1>1, EntMoves, WorkMoves
<1>3. \A d \in At(x) : Drawn(d)' /\ d # c => Drawn(d) /\ work'[d].ent = work[d].ent
  <2>1. SUFFICES ASSUME NEW d \in At(x), Drawn(d)', d # c
                 PROVE  Drawn(d) /\ work'[d].ent = work[d].ent
    OBVIOUS
  <2>2. d \in Sessions
    BY DEF At
  <2>3. QED
    BY <2>1, <2>2, DrawnStays
<1>4. \A k \in 1 .. Len(l) : l[k].ent < nextEnt'[x] /\ l[k].ent # nextEnt[x]
  BY <1>1, <1>2 DEF Ids
<1>5. \A d \in At(x) : Drawn(d) => work[d].ent < nextEnt[x] /\ work[d].ent \in Nat
  BY <1>1 DEF Ids, At
<1>6. ASSUME NEW d \in At(x), Drawn(d)'
      PROVE  /\ work'[d].ent < nextEnt'[x]
             /\ \A k \in 1 .. Len(l) : l[k].ent # work'[d].ent
  <2>1. CASE d = c
    BY <1>1, <1>2, <1>4, <2>1
  <2>2. CASE d # c
    BY <1>1, <1>2, <1>3, <1>5, <1>6, <2>2 DEF Ids
  <2>3. QED
    BY <2>1, <2>2
<1>7. ASSUME NEW d \in At(x), NEW e \in At(x), Drawn(d)', Drawn(e)', work'[d].ent = work'[e].ent
      PROVE  d = e
  <2>1. CASE d # c /\ e # c
    BY <1>3, <1>7, <2>1 DEF Ids
  <2>2. CASE d = c /\ e # c
    BY <1>1, <1>2, <1>3, <1>5, <1>7, <2>2
  <2>3. CASE e = c /\ d # c
    BY <1>1, <1>2, <1>3, <1>5, <1>7, <2>3
  <2>4. QED
    BY <2>1, <2>2, <2>3
<1>8. At(x)' = At(x)
  BY DEF At, Socket
<1>9. \A i, j \in 1 .. Len(l) : l[i].ent = l[j].ent => i = j
  BY DEF Ids
<1>10. QED
  BY <1>4, <1>6, <1>7, <1>8, <1>9 DEF Ids

LEMMA IdsListed ==
  ASSUME EprInv, NEW c \in Sessions, Acts(c), WellTyped(c), NEW x \in Sockets,
         ListHalf(c), c \in At(x),
         NEW l \in Seq(Slot), Ids(x, l),
         NEW a \in Slot, a = SentSlot(c),
         NEW m \in Seq(Slot), m = Append(l, a)
  PROVE  Ids(x, m)'
<1>1. TypeOK /\ Staged(c) /\ Len(l) \in Nat
  BY LenProperties DEF EprInv
<1>2. Drawn(c)
  BY <1>1, SocketFacts DEF ListHalf, Drawn, Staged, Kinds
<1>3. nextEnt' = nextEnt
  <2>1. ~Entangle(c)
    BY DEF ListHalf, Entangle
  <2>2. QED
    BY <1>1, <2>1, EntMoves
<1>4. \A d \in At(x) : Drawn(d)' => Drawn(d) /\ work'[d].ent = work[d].ent /\ d # c
  <2>1. SUFFICES ASSUME NEW d \in At(x), Drawn(d)'
                 PROVE  Drawn(d) /\ work'[d].ent = work[d].ent /\ d # c
    OBVIOUS
  <2>2. d \in Sessions /\ ~Entangle(c)
    BY DEF At, ListHalf, Entangle
  <2>3. QED
    BY <2>1, <2>2, DrawnStays
<1>5. /\ Len(m) = Len(l) + 1 /\ m[Len(l) + 1] = a
      /\ \A k \in 1 .. Len(l) : m[k] = l[k]
  BY <1>1, AppendProperties, LenProperties
<1>6. a.ent = work[c].ent
  BY DEF SentSlot
<1>7. \A k \in 1 .. Len(m) : \/ k \in 1 .. Len(l) /\ m[k] = l[k]
                             \/ k = Len(l) + 1 /\ m[k] = a
  BY <1>1, <1>5
<1>8. work[c].ent < nextEnt[x] /\ \A k \in 1 .. Len(l) : l[k].ent # work[c].ent
  BY <1>2 DEF Ids
<1>9. \A k \in 1 .. Len(m) : m[k].ent < nextEnt'[x]
  BY <1>3, <1>6, <1>7, <1>8 DEF Ids
<1>10. \A i, j \in 1 .. Len(m) : m[i].ent = m[j].ent => i = j
  BY <1>6, <1>7, <1>8 DEF Ids
<1>11. ASSUME NEW d \in At(x), Drawn(d)'
       PROVE  /\ work'[d].ent < nextEnt'[x]
              /\ \A k \in 1 .. Len(m) : m[k].ent # work'[d].ent
  <2>1. Drawn(d) /\ work'[d].ent = work[d].ent /\ d # c
    BY <1>4, <1>11
  <2>2. work[d].ent # work[c].ent
    BY <1>2, <2>1 DEF Ids
  <2>3. QED
    BY <1>3, <1>6, <1>7, <2>1, <2>2 DEF Ids
<1>12. ASSUME NEW d \in At(x), NEW e \in At(x), Drawn(d)', Drawn(e)', work'[d].ent = work'[e].ent
       PROVE  d = e
  BY <1>4, <1>12 DEF Ids
<1>13. At(x)' = At(x)
  BY DEF At, Socket
<1>14. QED
  BY <1>9, <1>10, <1>11, <1>12, <1>13 DEF Ids


LEMMA ActsMatch ==
  ASSUME EprInv, QueueInv, MatchInv, NEW c \in Sessions, Acts(c), WellTyped(c)
  PROVE  MatchInv'
<1> SUFFICES ASSUME NEW x \in Sockets
             PROVE  \E l \in Seq(Slot), at \in [Sessions -> Nat] : Places(x, l, at)' /\ Ids(x, l)'
  BY DEF MatchInv
<1>1. PICK l \in Seq(Slot), at \in [Sessions -> Nat] : Places(x, l, at) /\ Ids(x, l)
  BY DEF MatchInv
<1>2. TypeOK /\ UsedFinite /\ Peer[x] # x /\ Len(Awaited(x)) \in Nat /\ Len(l) \in Nat
  BY Typed, SocketsPaired, LenProperties DEF EprInv, UsedFinite
<1>3. c \in At(x) => c \notin At(Peer[x])
  BY <1>2 DEF At
<1>4. CASE ListHalf(c) /\ c \in At(x)
  <2>1. PICK a \in Slot : a = SentSlot(c)
    BY <1>2, HalfTyped DEF Slot, SentSlot
  <2>2. PICK m \in Seq(Slot) : m = Append(l, a)
    BY AppendProperties
  <2>3. PICK to \in [Sessions -> Nat] : to = [at EXCEPT ![c] = Len(l) + 1]
    <3>1. PICK k \in Nat : k = Len(l) + 1
      BY <1>2
    <3>2. [at EXCEPT ![c] = k] \in [Sessions -> Nat]
      OBVIOUS
    <3>3. QED
      BY <3>1, <3>2
  <2>4. Places(x, m, to)'
    BY <1>1, <1>4, <2>1, <2>2, <2>3, PlacesListed
  <2>5. Ids(x, m)'
    BY <1>1, <1>4, <2>1, <2>2, IdsListed
  <2>6. QED
    BY <2>4, <2>5
<1>5. CASE ~(ListHalf(c) /\ c \in At(x))
  <2>1. Ids(x, l)'
    <3>1. CASE Entangle(c) /\ c \in At(x)
      BY <1>1, <3>1, IdsDrawn
    <3>2. CASE ~(Entangle(c) /\ c \in At(x))
      BY <1>1, <1>5, <3>2, IdsStay
    <3>3. QED
      BY <3>1, <3>2
  <2>2. CASE Fetch(c) /\ c \in At(Peer[x])
    <3>1. PICK to \in [Sessions -> Nat] : to = [at EXCEPT ![c] = (Len(l) - Len(Awaited(x))) + 1]
      <4>1. Len(Awaited(x)) <= Len(l)
        BY <1>1 DEF Places, Ends
      <4>2. (Len(l) - Len(Awaited(x))) + 1 \in Nat
        BY <1>2, <4>1
      <4>3. PICK k \in Nat : k = (Len(l) - Len(Awaited(x))) + 1
        BY <4>2
      <4>4. [at EXCEPT ![c] = k] \in [Sessions -> Nat]
        OBVIOUS
      <4>5. QED
        BY <4>3, <4>4
    <3>2. Places(x, l, to)'
      BY <1>1, <2>2, <3>1, PlacesFetched
    <3>3. QED
      BY <2>1, <3>2
  <2>3. CASE PairSent(c) /\ c \in At(x)
    <3>1. Places(x, l, at)'
      BY <1>1, <2>3, PlacesSent
    <3>2. QED
      BY <2>1, <3>1
  <2>4. CASE Accept(c) /\ c \in At(Peer[x])
    <3>1. Places(x, l, at)'
      BY <1>1, <2>4, PlacesAccepted
    <3>2. QED
      BY <2>1, <3>1
  <2>5. CASE /\ ~(Fetch(c) /\ c \in At(Peer[x]))
             /\ ~(PairSent(c) /\ c \in At(x))
             /\ ~(Accept(c) /\ c \in At(Peer[x]))
    <3>1. Places(x, l, at)'
      BY <1>1, <1>5, <2>5, PlacesStay
    <3>2. QED
      BY <2>1, <3>1
  <2>6. QED
    BY <2>2, <2>3, <2>4, <2>5
<1>6. QED
  BY <1>4, <1>5

LEMMA NextMatch ==
  EprInv /\ QueueInv /\ MatchInv /\ LockInv /\ LockInv' /\ QueueInv' /\ [Next]_vars => MatchInv'
<1> SUFFICES ASSUME EprInv, QueueInv, MatchInv, LockInv, LockInv', QueueInv', [Next]_vars
             PROVE  MatchInv'
  OBVIOUS
<1>1. ASSUME NEW c \in Sessions, Acts(c) PROVE MatchInv'
  <2>1. WellTyped(c)
    BY <1>1, ActsTyped
  <2>2. QED
    BY <1>1, <2>1, ActsMatch
<1>2. CASE UNCHANGED vars
  <2> SUFFICES ASSUME NEW x \in Sockets
               PROVE  \E l \in Seq(Slot), at \in [Sessions -> Nat] :
                        Places(x, l, at)' /\ Ids(x, l)'
    BY DEF MatchInv
  <2>1. PICK l \in Seq(Slot), at \in [Sessions -> Nat] : Places(x, l, at) /\ Ids(x, l)
    BY DEF MatchInv
  <2>2. /\ Created(x)' = Created(x) /\ Received(x)' = Received(x) /\ Awaited(x)' = Awaited(x)
        /\ At(x)' = At(x) /\ At(Peer[x])' = At(Peer[x]) /\ LinkOf(x)' = LinkOf(x)
    BY <1>2 DEF vars, Created, Received, Awaited, At, Socket, LinkOf
  <2>3. sent' = sent /\ fetched' = fetched /\ pc' = pc /\ nextEnt' = nextEnt /\ work' = work
    BY <1>2 DEF vars
  <2>4. \A c \in Sessions : /\ SentSlot(c)' = SentSlot(c) /\ GotSlot(c)' = GotSlot(c)
                            /\ Drawn(c)' <=> Drawn(c)
    BY <2>3 DEF SentSlot, GotSlot, PairOf, Drawn
  <2>5. At(x) \subseteq Sessions /\ At(Peer[x]) \subseteq Sessions
    BY DEF At
  <2>6. Places(x, l, at)'
    BY <2>1, <2>2, <2>3, <2>4, <2>5 DEF Places
  <2>7. Ids(x, l)'
    BY <2>1, <2>2, <2>3, <2>4, <2>5 DEF Ids
  <2>8. QED
    BY <2>6, <2>7
<1>3. QED
  BY <1>1, <1>2 DEF Next, Acts

LEMMA InitMatch == Init => MatchInv
<1> SUFFICES ASSUME Init, NEW x \in Sockets
             PROVE  \E l \in Seq(Slot), at \in [Sessions -> Nat] : Places(x, l, at) /\ Ids(x, l)
  BY DEF MatchInv
<1>1. Peer[x] \in Sockets /\ Peer[x][1] \in Nodes /\ LinkOf(x) \in Nodes \X Nodes
  BY SocketsPaired DEF Sockets, LinkOf
<1>2. Created(x) = << >> /\ Received(x) = << >> /\ Awaited(x) = << >>
  BY <1>1 DEF Init, Created, Received, Awaited, Sides
<1>3. sent[LinkOf(x)] = << >> /\ fetched[Peer[x][1]] = << >>
  BY <1>1 DEF Init
<1>4. \A c \in Sessions : pc[c] = "idle"
  BY DEF Init
<1>5. PICK l \in Seq(Slot) : l = << >>
  BY EmptySeq
<1>6. PICK at \in [Sessions -> Nat] : at = [c \in Sessions |-> 0]
  OBVIOUS
<1>7. Len(l) = 0 /\ 1 .. Len(l) = {}
  BY <1>5, EmptySeq
<1>8. Begins(Created(x), l) /\ Begins(Received(x), l) /\ Ends(Awaited(x), l)
  BY <1>2, <1>5, <1>7 DEF Begins, Ends
<1>9. \A S : Ordered(<< >>, S, at, 0, 0)
  BY DEF Ordered
<1>10. At(x) \subseteq Sessions /\ At(Peer[x]) \subseteq Sessions
  BY DEF At
<1>11. Ordered(sent[LinkOf(x)], At(x), at, Len(Created(x)), Len(l))
  BY <1>2, <1>3, <1>5, <1>7, <1>9
<1>12. Ordered(fetched[Peer[x][1]], At(Peer[x]), at, Len(Received(x)), Len(l) - Len(Awaited(x)))
  BY <1>2, <1>3, <1>5, <1>7, <1>9
<1>13. Places(x, l, at)
  BY <1>4, <1>8, <1>10, <1>11, <1>12 DEF Places
<1>14. Ids(x, l)
  BY <1>4, <1>7, <1>10 DEF Ids, Drawn
<1>15. QED
  BY <1>13, <1>14

LEMMA AlwaysMatch == Spec => [](LockInv /\ QueueInv /\ EprInv /\ MatchInv)
<1>1. Init => LockInv /\ QueueInv /\ EprInv /\ MatchInv
  BY InitLock, InitQueue, InitEpr, InitMatch
<1>2. LockInv /\ QueueInv /\ EprInv /\ MatchInv /\ [Next]_vars
        => (LockInv /\ QueueInv /\ EprInv /\ MatchInv)'
  BY NextLock, NextQueue, NextEpr, NextMatch
<1>3. QED
  BY <1>1, <1>2, PTL DEF Spec

(* The two ends of a link agree: the slots that have been filled on either
   side begin the one order in which pairs were listed, so equal places hold
   one pair and one id, and no id is given twice on a socket. *)
THEOREM PairsAgree == Spec => []PairsMatch
<1>1. EprInv /\ MatchInv => PairsMatch
  <2> SUFFICES ASSUME EprInv, MatchInv, NEW x \in Sockets
               PROVE  /\ \A k \in DOMAIN Created(x) \cap DOMAIN Received(x) :
                           Created(x)[k] = Received(x)[k]
                      /\ \A i, j \in DOMAIN Created(x) :
                           Created(x)[i].ent = Created(x)[j].ent => i = j
    BY DEF PairsMatch, Created, Received
  <2>1. PICK l \in Seq(Slot), at \in [Sessions -> Nat] : Places(x, l, at) /\ Ids(x, l)
    BY DEF MatchInv
  <2>2. /\ DOMAIN Created(x) = 1 .. Len(Created(x)) /\ Len(Created(x)) \in Nat
        /\ DOMAIN Received(x) = 1 .. Len(Received(x)) /\ Len(Received(x)) \in Nat
        /\ Len(l) \in Nat
    BY Typed, LenProperties DEF EprInv
  <2>3. Begins(Created(x), l) /\ Begins(Received(x), l)
    BY <2>1 DEF Places
  <2>4. \A k \in DOMAIN Created(x) : Created(x)[k] = l[k] /\ k \in 1 .. Len(l)
    BY <2>2, <2>3 DEF Begins
  <2>5. \A k \in DOMAIN Received(x) : Received(x)[k] = l[k]
    BY <2>2, <2>3 DEF Begins
  <2>6. \A i, j \in 1 .. Len(l) : l[i].ent = l[j].ent => i = j
    BY <2>1 DEF Ids
  <2>7. QED
    BY <2>4, <2>5, <2>6
<1>2. QED
  BY <1>1, AlwaysMatch, PTL
=============================================================================
