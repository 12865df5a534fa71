------------------------ MODULE VirtualNodes_proofs ------------------------
EXTENDS VirtualNodes, FreeNumbers_proofs, SequenceTheorems, TLAPS

-----------------------------------------------------------------------------
(* Consequences of the invariant in one state.                             *)

(* The lists of a node are finite, because no qubit occurs twice. *)
LEMMA ListsFinite ==
  ASSUME TypeOK, HeldOnce, SimulatedOnce, PositionsExact, NEW n \in Nodes
  PROVE  /\ IsFiniteSet(virtQubits[n])
         /\ IsFiniteSet(simQubits[n])
<1>1. IsFiniteSet(Qubits)
  BY ConstantsAssumption
<1>2. IsFiniteSet(virtQubits[n])
  <2> DEFINE f == [v \in virtQubits[n] |-> v.qubit]
  <2>1. f \in Injection(virtQubits[n], Qubits)
    BY DEF TypeOK, VirtQubit, HeldOnce, Injection, IsInjective
  <2> HIDE DEF f
  <2>2. QED BY <1>1, <2>1, FS_Injection
<1>3. IsFiniteSet(simQubits[n])
  <2> DEFINE f == [s \in simQubits[n] |-> At(n, s)]
  <2>1. ASSUME NEW s \in simQubits[n] PROVE At(n, s) \in Qubits
    <3>1. s \in SimQubit /\ <<n, s.reg>> \in Registers
      BY DEF TypeOK, SimQubit, Registers
    <3>2. engine[<<n, s.reg>>] \in Seq(Qubits)
      BY <3>1 DEF TypeOK
    <3>3. s.num \in Nat /\ s.num < Len(engine[<<n, s.reg>>])
      BY <3>1 DEF SimQubit, PositionsExact
    <3>4. s.num + 1 \in 1 .. Len(engine[<<n, s.reg>>])
      BY <3>2, <3>3, LenProperties
    <3>5. QED BY <3>2, <3>4, ElementOfSeq DEF At
  <2>2. f \in Injection(simQubits[n], Qubits)
    BY <2>1 DEF SimulatedOnce, Injection, IsInjective
  <2> HIDE DEF f
  <2>3. QED BY <1>1, <2>2, FS_Injection
<1>4. QED
  BY <1>2, <1>3

LEMMA NumbersFinite ==
  ASSUME TypeOK, HeldOnce, SimulatedOnce, PositionsExact, NEW n \in Nodes
  PROVE  /\ SimNums(n) \in SUBSET Nat /\ IsFiniteSet(SimNums(n))
         /\ VirtNums(n) \in SUBSET Nat /\ IsFiniteSet(VirtNums(n))
<1>1. IsFiniteSet(virtQubits[n]) /\ IsFiniteSet(simQubits[n])
  BY ListsFinite
<1>2. SimNums(n) \in SUBSET Nat /\ VirtNums(n) \in SUBSET Nat
  BY DEF SimNums, VirtNums, TypeOK, SimQubit, VirtQubit
<1>3. IsFiniteSet(SimNums(n))
  <2> DEFINE f == [s \in simQubits[n] |-> s.simNum]
  <2>1. f \in Surjection(simQubits[n], SimNums(n))
    BY DEF SimNums, Surjection
  <2> HIDE DEF f
  <2>2. QED BY <1>1, <2>1, FS_Surjection
<1>4. IsFiniteSet(VirtNums(n))
  <2> DEFINE f == [v \in virtQubits[n] |-> v.num]
  <2>1. f \in Surjection(virtQubits[n], VirtNums(n))
    BY DEF VirtNums, Surjection
  <2> HIDE DEF f
  <2>2. QED BY <1>1, <2>1, FS_Surjection
<1>5. QED
  BY <1>2, <1>3, <1>4

LEMMA FirstFreeSpec ==
  ASSUME NEW used \in SUBSET Nat, IsFiniteSet(used)
  PROVE  FirstFree(used) \in Nat /\ FirstFree(used) \notin used
BY NthFreeSpec DEF FirstFree

(* The reference of a virtual qubit leads to the one simulated qubit with
   its number, which stands at the position of the qubit that is meant. *)
LEMMA SimOfSpec ==
  ASSUME TypeOK, Addressing, NumbersUnique, NEW n \in Nodes, NEW v \in virtQubits[n]
  PROVE  /\ v.simNode \in Nodes
         /\ SimOf(v) \in simQubits[v.simNode]
         /\ SimOf(v).simNum = v.simNum
         /\ At(v.simNode, SimOf(v)) = v.qubit
         /\ Addressed(v) = v.qubit
         /\ \A s \in simQubits[v.simNode] : s.simNum = v.simNum => s = SimOf(v)
<1>1. v.simNode \in Nodes
  BY DEF TypeOK, VirtQubit
<1>2. PICK s \in simQubits[v.simNode] : s.simNum = v.simNum /\ At(v.simNode, s) = v.qubit
  BY DEF Addressing
<1>3. \A t \in simQubits[v.simNode] : t.simNum = v.simNum => t = s
  BY <1>1, <1>2 DEF NumbersUnique
<1>4. SimOf(v) = s
  BY <1>2, <1>3 DEF SimOf, SimObject
<1>5. QED
  BY <1>1, <1>2, <1>3, <1>4 DEF Addressed

(* Every qubit in a register is held as a virtual qubit somewhere. *)
LEMMA InRegisterHeld ==
  ASSUME TypeOK, Addressing, NumbersUnique, NoOrphan,
         NEW n \in Nodes, NEW s \in simQubits[n]
  PROVE  At(n, s) \in Held
<1>1. PICK m \in Nodes : \E v \in virtQubits[m] : v.simNode = n /\ v.simNum = s.simNum
  BY DEF NoOrphan
<1>2. PICK v \in virtQubits[m] : v.simNode = n /\ v.simNum = s.simNum
  BY <1>1
<1>3. s = SimOf(v) /\ At(n, s) = v.qubit
  BY <1>2, SimOfSpec
<1>4. QED
  BY <1>2, <1>3 DEF Held

-----------------------------------------------------------------------------
(* Rearranging simulated qubits.                                           *)

(* The slots of the network: simulated qubits with the node they are at. *)
Slots == UNION {{n} \X simQubits[n] : n \in Nodes}

(* v2 after the step is what has become of v, when f says what has become of
   every simulated qubit that was kept. *)
Follows(v2, v, f) ==
  LET x == <<v.simNode, SimOf(v)>>
  IN  /\ v2.num = v.num
      /\ v2.qubit = v.qubit
      /\ v2.simNode = f[x][1]
      /\ v2.simNum = f[x][2].simNum

LEMMA InSlots ==
  /\ \A n \in Nodes : \A s \in simQubits[n] : <<n, s>> \in Slots
  /\ \A z \in Slots : /\ z[1] \in Nodes /\ z[2] \in simQubits[z[1]]
                      /\ z = <<z[1], z[2]>>
  /\ \A n \in Nodes : \A s \in simQubits'[n] : <<n, s>> \in Slots'
  /\ \A z \in Slots' : /\ z[1] \in Nodes /\ z[2] \in simQubits'[z[1]]
                       /\ z = <<z[1], z[2]>>
BY DEF Slots

(* A step keeps the simulated qubits in K, drops the others and makes f[x] of
   x: nothing else is simulated afterwards, ... *)
Kept(K, f) ==
  /\ f \in [K -> Slots']
  /\ \A x, y \in K : f[x] = f[y] => x = y
  /\ \A z \in Slots' : \E x \in K : f[x] = z

(* ... what stands at the position of x stands at that of f[x] then, ... *)
Carried(K, f) ==
  \A x \in K : engine'[<<f[x][1], f[x][2].reg>>][f[x][2].num + 1] = At(x[1], x[2])

(* ... and the virtual qubits that are left are those that refer to K. *)
Followed(K, f) ==
  \A n \in Nodes :
    /\ \A v2 \in virtQubits'[n] : \E v \in virtQubits[n] :
         <<v.simNode, SimOf(v)>> \in K /\ Follows(v2, v, f)
    /\ \A v \in virtQubits[n] :
         <<v.simNode, SimOf(v)>> \in K => \E v2 \in virtQubits'[n] : Follows(v2, v, f)

(* A step that renumbers, moves or drops simulated qubits, but keeps what
   stands at the others, and makes the virtual qubits follow, keeps the two
   lists in step.  Measuring and all merges are steps of this kind. *)
LEMMA Rearrangement ==
  ASSUME TypeOK, Addressing, HeldOnce, SimulatedOnce, NumbersUnique, NoOrphan,
         virtQubits' \in [Nodes -> SUBSET VirtQubit],
         NEW K \in SUBSET Slots, NEW f,
         Kept(K, f), Carried(K, f), Followed(K, f),
         \A n \in Nodes : \A s, t \in simQubits'[n] : s.simNum = t.simNum => s = t
  PROVE  /\ Addressing'
         /\ HeldOnce'
         /\ SimulatedOnce'
         /\ NumbersUnique'
         /\ NoOrphan'
<1>1. \A n \in Nodes : \A s \in simQubits'[n] : <<n, s>> \in Slots'
  BY DEF Slots
<1>2. \A z \in Slots' : z[1] \in Nodes /\ z[2] \in simQubits'[z[1]] /\ z = <<z[1], z[2]>>
  BY DEF Slots
<1>3. \A x \in K : x[1] \in Nodes /\ x[2] \in simQubits[x[1]] /\ x = <<x[1], x[2]>>
  BY DEF Slots
<1>4. \A n \in Nodes : \A v2 \in virtQubits'[n] :
        \E v \in virtQubits[n] : \E x \in K :
          /\ x[1] = v.simNode /\ x[2] = SimOf(v)
          /\ v2.num = v.num /\ v2.qubit = v.qubit
          /\ v2.simNode = f[x][1] /\ v2.simNum = f[x][2].simNum
  <2> SUFFICES ASSUME NEW n \in Nodes, NEW v2 \in virtQubits'[n]
               PROVE  \E v \in virtQubits[n] : \E x \in K :
                        /\ x[1] = v.simNode /\ x[2] = SimOf(v)
                        /\ v2.num = v.num /\ v2.qubit = v.qubit
                        /\ v2.simNode = f[x][1] /\ v2.simNum = f[x][2].simNum
    OBVIOUS
  <2>1. PICK v \in virtQubits[n] : <<v.simNode, SimOf(v)>> \in K /\ Follows(v2, v, f)
    BY DEF Followed
  <2>2. PICK x \in K : x = <<v.simNode, SimOf(v)>>
    BY <2>1
  <2>3. QED
    BY <2>1, <2>2 DEF Follows
<1>5. \A n \in Nodes : \A s \in simQubits'[n] : \E x \in K :
        /\ f[x] = <<n, s>>
        /\ At(x[1], x[2]) = At(n, s)'
  <2> SUFFICES ASSUME NEW n \in Nodes, NEW s \in simQubits'[n]
               PROVE  \E x \in K : f[x] = <<n, s>> /\ At(x[1], x[2]) = At(n, s)'
    OBVIOUS
  <2>1. PICK x \in K : f[x] = <<n, s>>
    BY <1>1 DEF Kept
  <2>2. f[x][1] = n /\ f[x][2] = s
    BY <2>1
  <2>3. engine'[<<n, s.reg>>][s.num + 1] = At(x[1], x[2])
    BY <2>2 DEF Carried
  <2>4. QED
    BY <2>1, <2>3 DEF At
<1>6. Addressing'
  <2> SUFFICES ASSUME NEW n \in Nodes, NEW v2 \in virtQubits'[n]
               PROVE  \E s \in simQubits'[v2.simNode] :
                        s.simNum = v2.simNum /\ At(v2.simNode, s)' = v2.qubit
    BY DEF Addressing
  <2>1. PICK v \in virtQubits[n] : \E x \in K :
          /\ x[1] = v.simNode /\ x[2] = SimOf(v)
          /\ v2.num = v.num /\ v2.qubit = v.qubit
          /\ v2.simNode = f[x][1] /\ v2.simNum = f[x][2].simNum
    BY <1>4
  <2>2. PICK x \in K :
          /\ x[1] = v.simNode /\ x[2] = SimOf(v)
          /\ v2.num = v.num /\ v2.qubit = v.qubit
          /\ v2.simNode = f[x][1] /\ v2.simNum = f[x][2].simNum
    BY <2>1
  <2>3. PICK s \in simQubits'[v2.simNode] : s = f[x][2]
    BY <1>2, <2>2 DEF Kept
  <2>4. engine'[<<v2.simNode, s.reg>>][s.num + 1] = At(x[1], x[2])
    BY <2>2, <2>3 DEF Carried
  <2>5. At(x[1], x[2]) = v.qubit
    BY <2>2, SimOfSpec
  <2>6. At(v2.simNode, s)' = v2.qubit
    BY <2>2, <2>4, <2>5 DEF At
  <2>7. QED
    BY <2>2, <2>3, <2>6
<1>7. HeldOnce'
  <2> SUFFICES ASSUME NEW n \in Nodes, NEW m \in Nodes,
                      NEW v2 \in virtQubits'[n], NEW w2 \in virtQubits'[m],
                      v2.qubit = w2.qubit
               PROVE  n = m /\ v2 = w2
    BY DEF HeldOnce
  <2>1. PICK v \in virtQubits[n] : \E x \in K :
          /\ x[1] = v.simNode /\ x[2] = SimOf(v)
          /\ v2.num = v.num /\ v2.qubit = v.qubit
          /\ v2.simNode = f[x][1] /\ v2.simNum = f[x][2].simNum
    BY <1>4
  <2>2. PICK w \in virtQubits[m] : \E x \in K :
          /\ x[1] = w.simNode /\ x[2] = SimOf(w)
          /\ w2.num = w.num /\ w2.qubit = w.qubit
          /\ w2.simNode = f[x][1] /\ w2.simNum = f[x][2].simNum
    BY <1>4
  <2>3. n = m /\ v = w
    BY <2>1, <2>2 DEF HeldOnce
  <2>4. v2 \in VirtQubit /\ w2 \in VirtQubit
    OBVIOUS
  <2>5. /\ v2.num = w2.num /\ v2.simNode = w2.simNode /\ v2.simNum = w2.simNum
    BY <1>3, <2>1, <2>2, <2>3
  <2>6. QED
    BY <2>3, <2>4, <2>5 DEF VirtQubit
<1>8. SimulatedOnce'
  <2> SUFFICES ASSUME NEW n \in Nodes, NEW m \in Nodes,
                      NEW s \in simQubits'[n], NEW t \in simQubits'[m],
                      At(n, s)' = At(m, t)'
               PROVE  n = m /\ s = t
    BY DEF SimulatedOnce
  <2>1. PICK x \in K : f[x] = <<n, s>> /\ At(x[1], x[2]) = At(n, s)'
    BY <1>5
  <2>2. PICK y \in K : f[y] = <<m, t>> /\ At(y[1], y[2]) = At(m, t)'
    BY <1>5
  <2>3. x = y
    BY <1>3, <2>1, <2>2 DEF SimulatedOnce
  <2>4. QED
    BY <2>1, <2>2, <2>3
<1>9. NumbersUnique'
  <2> SUFFICES ASSUME NEW n \in Nodes, NEW v2 \in virtQubits'[n],
                      NEW w2 \in virtQubits'[n], v2.num = w2.num
               PROVE  v2 = w2
    BY DEF NumbersUnique
  <2>1. PICK v \in virtQubits[n] : \E x \in K :
          /\ x[1] = v.simNode /\ x[2] = SimOf(v)
          /\ v2.num = v.num /\ v2.qubit = v.qubit
          /\ v2.simNode = f[x][1] /\ v2.simNum = f[x][2].simNum
    BY <1>4
  <2>2. PICK w \in virtQubits[n] : \E x \in K :
          /\ x[1] = w.simNode /\ x[2] = SimOf(w)
          /\ w2.num = w.num /\ w2.qubit = w.qubit
          /\ w2.simNode = f[x][1] /\ w2.simNum = f[x][2].simNum
    BY <1>4
  <2>3. v = w
    BY <2>1, <2>2 DEF NumbersUnique
  <2>4. v2.qubit = w2.qubit
    BY <2>1, <2>2, <2>3
  <2>5. QED
    BY <1>7, <2>4 DEF HeldOnce
<1>10. NoOrphan'
  <2> SUFFICES ASSUME NEW n \in Nodes, NEW s \in simQubits'[n]
               PROVE  \E m \in Nodes : \E v \in virtQubits'[m] :
                        v.simNode = n /\ v.simNum = s.simNum
    BY DEF NoOrphan
  <2>1. PICK x \in K : f[x] = <<n, s>>
    BY <1>5
  <2>2. PICK m \in Nodes : \E v \in virtQubits[m] :
                             v.simNode = x[1] /\ v.simNum = x[2].simNum
    BY <1>3 DEF NoOrphan
  <2>3. PICK v \in virtQubits[m] : v.simNode = x[1] /\ v.simNum = x[2].simNum
    BY <2>2
  <2>4. x = <<v.simNode, SimOf(v)>>
    BY <1>3, <2>3, SimOfSpec
  <2>5. PICK v2 \in virtQubits'[m] : Follows(v2, v, f)
    BY <2>4 DEF Followed
  <2>6. v2.simNode = f[x][1] /\ v2.simNum = f[x][2].simNum
    BY <2>4, <2>5 DEF Follows
  <2>7. QED
    BY <2>1, <2>6
<1>11. QED
  BY <1>6, <1>7, <1>8, <1>9, <1>10

-----------------------------------------------------------------------------
(* Steps that leave the qubits where they are.                             *)

LEMMA SameQubits ==
  ASSUME Addressing, HeldOnce, SimulatedOnce, NumbersUnique, PositionsExact, NoOrphan,
         UNCHANGED <<virtQubits, simQubits, engine>>
  PROVE  /\ Addressing' /\ HeldOnce' /\ SimulatedOnce'
         /\ NumbersUnique' /\ PositionsExact' /\ NoOrphan'
<1>1. Addressing'
  BY DEF Addressing, At
<1>2. HeldOnce'
  BY DEF HeldOnce
<1>3. SimulatedOnce'
  BY DEF SimulatedOnce, At
<1>4. NumbersUnique'
  BY DEF NumbersUnique
<1>5. PositionsExact'
  BY DEF PositionsExact
<1>6. NoOrphan'
  BY DEF NoOrphan
<1>7. QED
  BY <1>1, <1>2, <1>3, <1>4, <1>5, <1>6

LEMMA SameRegisters ==
  ASSUME RegisterCount, RegistersLive, WithinSize, UNCHANGED regVars
  PROVE  RegisterCount' /\ RegistersLive' /\ WithinSize'
BY DEF RegisterCount, RegistersLive, WithinSize, RegistersOf, regVars

(* Gates on one qubit, gates within a register and measurement in place. *)
LEMMA OnlyState ==
  ASSUME Consistent, UNCHANGED nodeVars, UNCHANGED regVars,
         bit' \in [Qubits -> {0, 1}], outcome' \in {0, 1}
  PROVE  Consistent'
<1>1. TypeOK'
  BY DEF Consistent, TypeOK, nodeVars, regVars
<1>2. UNCHANGED <<virtQubits, simQubits, engine>>
  BY DEF nodeVars, regVars
<1>3. QED
  BY <1>1, <1>2, SameQubits, SameRegisters DEF Consistent

LEMMA ApplyCnotType ==
  ASSUME bit \in [Qubits -> {0, 1}], NEW c, NEW t, ApplyCnot(c, t)
  PROVE  bit' \in [Qubits -> {0, 1}]
<1>1. CASE t \in Qubits
  <2>1. bit[t] \in {0, 1} /\ 1 - bit[t] \in {0, 1}
    BY <1>1
  <2> DEFINE b == IF bit[c] = 1 THEN 1 - bit[t] ELSE bit[t]
  <2>2. b \in {0, 1}
    BY <2>1
  <2>3. bit' = [bit EXCEPT ![t] = b]
    BY DEF ApplyCnot
  <2> HIDE DEF b
  <2>4. QED
    BY <2>2, <2>3
<1>2. CASE t \notin Qubits
  <2>1. bit' = bit
    BY <1>2 DEF ApplyCnot
  <2>2. QED
    BY <2>1
<1>3. QED
  BY <1>1, <1>2

LEMMA AddressedType ==
  ASSUME Consistent, NEW n \in Nodes, NEW v \in virtQubits[n]
  PROVE  Addressed(v) \in Qubits
<1>1. Addressed(v) = v.qubit
  BY SimOfSpec DEF Consistent
<1>2. v \in VirtQubit
  BY DEF Consistent, TypeOK
<1>3. QED
  BY <1>1, <1>2 DEF VirtQubit

LEMMA SingleGateStep ==
  ASSUME Consistent, NEW n \in Nodes, NEW v \in virtQubits[n], SingleGate(n, v)
  PROVE  Consistent'
<1>1. bit' \in [Qubits -> {0, 1}]
  <2>1. bit' = [bit EXCEPT ![Addressed(v)] = 1 - bit[Addressed(v)]]
    BY DEF SingleGate
  <2>2. bit[Addressed(v)] \in {0, 1}
    BY AddressedType DEF Consistent, TypeOK
  <2>3. 1 - bit[Addressed(v)] \in {0, 1}
    BY <2>2
  <2>4. QED
    BY <2>1, <2>3 DEF Consistent, TypeOK
<1>2. outcome' \in {0, 1}
  BY DEF SingleGate, Consistent, TypeOK
<1>3. QED
  BY <1>1, <1>2, OnlyState DEF SingleGate, nodeVars

LEMMA MeasureInPlaceStep ==
  ASSUME Consistent, NEW n \in Nodes, NEW v \in virtQubits[n], MeasureInPlace(n, v)
  PROVE  Consistent'
<1>1. bit' \in [Qubits -> {0, 1}] /\ outcome' \in {0, 1}
  BY AddressedType DEF MeasureInPlace, Consistent, TypeOK
<1>2. QED
  BY <1>1, OnlyState DEF MeasureInPlace, nodeVars

LEMMA GateInRegisterStep ==
  ASSUME Consistent, NEW n \in Nodes, NEW v \in virtQubits[n], NEW w \in virtQubits[n],
         GateInRegister(n, v, w)
  PROVE  Consistent'
<1>1. bit' \in [Qubits -> {0, 1}]
  BY ApplyCnotType DEF GateInRegister, Consistent, TypeOK
<1>2. outcome' \in {0, 1}
  BY DEF GateInRegister, Consistent, TypeOK
<1>3. QED
  BY <1>1, <1>2, OnlyState DEF GateInRegister, nodeVars

-----------------------------------------------------------------------------
(* Registers.                                                              *)

LEMMA RegistersFinite ==
  ASSUME TypeOK, NEW n \in Nodes
  PROVE  IsFiniteSet(RegistersOf(n))
<1> DEFINE f == [r \in RegistersOf(n) |-> r[2]]
<1>1. f \in Injection(RegistersOf(n), RegIds)
  <2>1. \A r \in RegistersOf(n) : r = <<n, r[2]>> /\ r[2] \in RegIds
    BY DEF TypeOK, RegistersOf, Registers
  <2>2. QED
    BY <2>1 DEF Injection, IsInjective
<1>2. IsFiniteSet(RegIds)
  BY FS_Interval, ConstantsAssumption DEF RegIds
<1> HIDE DEF f
<1>3. QED
  BY <1>1, <1>2, FS_Injection

(* A node counts one register more when it makes one, ... *)
LEMMA CountAdded ==
  ASSUME TypeOK, NEW n \in Nodes, NEW a, <<n, a>> \notin registers,
         RegistersOf(n)' = RegistersOf(n) \cup {<<n, a>>}
  PROVE  Cardinality(RegistersOf(n)') = Cardinality(RegistersOf(n)) + 1
<1>1. IsFiniteSet(RegistersOf(n)) /\ <<n, a>> \notin RegistersOf(n)
  BY RegistersFinite DEF RegistersOf
<1>2. QED
  BY <1>1, FS_AddElement

(* ... and one less when it drops one. *)
LEMMA CountRemoved ==
  ASSUME TypeOK, NEW n \in Nodes, NEW a, <<n, a>> \in registers,
         RegistersOf(n)' = RegistersOf(n) \ {<<n, a>>}
  PROVE  /\ Cardinality(RegistersOf(n)') = Cardinality(RegistersOf(n)) - 1
         /\ Cardinality(RegistersOf(n)) \in Nat \ {0}
<1>1. IsFiniteSet(RegistersOf(n)) /\ <<n, a>> \in RegistersOf(n)
  BY RegistersFinite DEF RegistersOf
<1>2. Cardinality(RegistersOf(n)') = Cardinality(RegistersOf(n)) - 1
  BY <1>1, FS_RemoveElement
<1>3. Cardinality(RegistersOf(n)) \in Nat /\ Cardinality(RegistersOf(n)) # 0
  BY <1>1, FS_CardinalityType, FS_EmptySet
<1>4. QED
  BY <1>2, <1>3

(* The number of a register to be made is free, and its engine empty. *)
LEMMA FreshRegister ==
  ASSUME TypeOK, RegistersLive, NEW n \in Nodes, CanAddRegister(n)
  PROVE  /\ nextRegNum[n] \in RegIds
         /\ <<n, nextRegNum[n]>> \in Registers
         /\ <<n, nextRegNum[n]>> \notin registers
         /\ engine[<<n, nextRegNum[n]>>] = << >>
<1>1. nextRegNum[n] \in RegIds
  BY ConstantsAssumption DEF TypeOK, CanAddRegister, RegIds
<1>2. <<n, nextRegNum[n]>> \in Registers
  BY <1>1 DEF Registers
<1>3. <<n, nextRegNum[n]>> \notin registers
  BY <1>1, <1>2 DEF RegistersLive, RegIds
<1>4. QED
  BY <1>1, <1>2, <1>3 DEF RegistersLive

(* What a new register does to the counts of its node. *)
LEMMA RegisterAdded ==
  ASSUME TypeOK, RegisterCount, RegistersLive, NEW n \in Nodes, CanAddRegister(n),
         registers' = registers \cup {<<n, nextRegNum[n]>>},
         numRegs' = [numRegs EXCEPT ![n] = @ + 1],
         nextRegNum' = [nextRegNum EXCEPT ![n] = @ + 1]
  PROVE  /\ registers' \in SUBSET Registers
         /\ numRegs' \in [Nodes -> Nat]
         /\ nextRegNum' \in [Nodes -> 0 .. RegBound]
         /\ RegisterCount'
         /\ \A r \in registers' : r[2] < nextRegNum'[r[1]]
<1>1. /\ <<n, nextRegNum[n]>> \in Registers
      /\ <<n, nextRegNum[n]>> \notin registers
  BY FreshRegister
<1>2. registers' \in SUBSET Registers
  BY <1>1 DEF TypeOK
<1>3. numRegs' \in [Nodes -> Nat]
  <2>1. numRegs[n] + 1 \in Nat
    BY DEF TypeOK
  <2>2. QED
    BY <2>1 DEF TypeOK
<1>4. registers' \in SUBSET Registers /\ numRegs' \in [Nodes -> Nat]
  BY <1>2, <1>3
<1>5. nextRegNum' \in [Nodes -> 0 .. RegBound]
  BY ConstantsAssumption DEF TypeOK, CanAddRegister
<1>6. RegisterCount'
  <2> SUFFICES ASSUME NEW m \in Nodes
               PROVE  /\ numRegs'[m] = Cardinality(RegistersOf(m)')
                      /\ numRegs'[m] <= MaxRegisters
    BY DEF RegisterCount
  <2>1. CASE m = n
    <3>1. RegistersOf(n)' = RegistersOf(n) \cup {<<n, nextRegNum[n]>>}
      BY DEF RegistersOf
    <3>2. Cardinality(RegistersOf(n)') = Cardinality(RegistersOf(n)) + 1
      BY <1>1, <3>1, CountAdded
    <3>3. numRegs'[n] = numRegs[n] + 1 /\ numRegs[n] = Cardinality(RegistersOf(n))
      BY DEF TypeOK, RegisterCount
    <3>4. numRegs'[n] <= MaxRegisters
      BY <3>3, ConstantsAssumption DEF TypeOK, CanAddRegister
    <3>5. QED
      BY <2>1, <3>2, <3>3, <3>4
  <2>2. CASE m # n
    <3>1. RegistersOf(m)' = RegistersOf(m) /\ numRegs'[m] = numRegs[m]
      BY <2>2 DEF RegistersOf, TypeOK
    <3>2. QED
      BY <3>1 DEF RegisterCount
  <2>3. QED
    BY <2>1, <2>2
<1>7. \A r \in registers' : r[2] < nextRegNum'[r[1]]
  <2> SUFFICES ASSUME NEW r \in registers' PROVE r[2] < nextRegNum'[r[1]]
    OBVIOUS
  <2>1. nextRegNum'[n] = nextRegNum[n] + 1 /\ \A m \in Nodes \ {n} : nextRegNum'[m] = nextRegNum[m]
    BY DEF TypeOK
  <2>2. CASE r \in registers
    <3>1. r[1] \in Nodes /\ r[2] \in Int /\ r[2] < nextRegNum[r[1]] /\ nextRegNum[r[1]] \in Int
      BY <2>2 DEF TypeOK, RegistersLive, Registers, RegIds
    <3>2. QED
      BY <2>1, <3>1
  <2>3. CASE r = <<n, nextRegNum[n]>>
    BY <2>1, <2>3 DEF TypeOK
  <2>4. QED
    BY <2>2, <2>3
<1>8. QED
  BY <1>4, <1>5, <1>6, <1>7

LEMMA NewRegisterStep ==
  ASSUME Consistent, NEW n \in Nodes, NewRegister(n)
  PROVE  Consistent'
<1> DEFINE r == <<n, nextRegNum[n]>>
<1> USE DEF Consistent
<1>1. CanAddRegister(n)
  BY DEF NewRegister
<1>2. r \in Registers /\ r \notin registers /\ engine[r] = << >>
  BY <1>1, FreshRegister
<1>3. /\ registers' \in SUBSET Registers
      /\ numRegs' \in [Nodes -> Nat]
      /\ nextRegNum' \in [Nodes -> 0 .. RegBound]
      /\ RegisterCount'
      /\ \A x \in registers' : x[2] < nextRegNum'[x[1]]
  BY <1>1, RegisterAdded DEF NewRegister
<1>4. regSize' \in [Registers -> Nat] /\ regSize'[r] = RegisterSize
      /\ \A x \in Registers \ {r} : regSize'[x] = regSize[x]
  BY <1>2, ConstantsAssumption DEF NewRegister, TypeOK
<1>5. TypeOK'
  BY <1>3, <1>4 DEF TypeOK, NewRegister
<1>6. RegistersLive'
  BY <1>2, <1>3 DEF RegistersLive, NewRegister
<1>7. WithinSize'
  <2>1. Len(engine[r]) = 0
    BY <1>2
  <2>2. engine' = engine
    BY DEF NewRegister
  <2>3. QED
    BY <1>2, <1>4, <2>1, <2>2, ConstantsAssumption DEF WithinSize
<1>8. UNCHANGED <<virtQubits, simQubits, engine>>
  BY DEF NewRegister
<1>9. QED
  BY <1>3, <1>5, <1>6, <1>7, <1>8, SameQubits

-----------------------------------------------------------------------------
(* Creating qubits.                                                        *)

(* The positions of the simulated qubits, and what stands there. *)
LEMMA AtPosition ==
  ASSUME TypeOK, PositionsExact, NEW n \in Nodes, NEW s \in simQubits[n]
  PROVE  /\ s \in SimQubit
         /\ <<n, s.reg>> \in Registers
         /\ engine[<<n, s.reg>>] \in Seq(Qubits)
         /\ Len(engine[<<n, s.reg>>]) \in Nat
         /\ s.num \in Nat
         /\ s.num < Len(engine[<<n, s.reg>>])
         /\ s.num + 1 \in 1 .. Len(engine[<<n, s.reg>>])
         /\ At(n, s) = engine[<<n, s.reg>>][s.num + 1]
         /\ At(n, s) \in Qubits
<1>1. s \in SimQubit /\ <<n, s.reg>> \in Registers
  BY DEF TypeOK, SimQubit, Registers
<1>2. engine[<<n, s.reg>>] \in Seq(Qubits)
  BY <1>1 DEF TypeOK
<1>3. s.num \in Nat /\ s.num < Len(engine[<<n, s.reg>>])
  BY <1>1 DEF SimQubit, PositionsExact
<1>4. s.num + 1 \in 1 .. Len(engine[<<n, s.reg>>])
  BY <1>2, <1>3, LenProperties
<1>5. At(n, s) = engine[<<n, s.reg>>][s.num + 1]
  BY DEF At
<1>6. At(n, s) \in Qubits
  BY <1>2, <1>4, <1>5, ElementOfSeq
<1>7. QED
  BY <1>1, <1>2, <1>3, <1>4, <1>5, <1>6, LenProperties

LEMMA PositionTaken ==
  ASSUME PositionsExact, NEW n \in Nodes, NEW r \in RegIds,
         NEW i \in Nat, i < Len(engine[<<n, r>>]), Len(engine[<<n, r>>]) \in Nat
  PROVE  \E s \in simQubits[n] : s.reg = r /\ s.num = i
<1>1. i \in 0 .. (Len(engine[<<n, r>>]) - 1)
  OBVIOUS
<1>2. QED
  BY <1>1 DEF PositionsExact

(* A fresh qubit at the end of a register, with its two objects. *)
LEMMA QubitAdded ==
  ASSUME Consistent, NEW n \in Nodes, NEW q \in Qubits \ Held, NEW r \in RegIds,
         engine' = [engine EXCEPT ![<<n, r>>] = Append(engine[<<n, r>>], q)],
         AddObjects(n, q, r, Len(engine[<<n, r>>]))
  PROVE  /\ engine' \in [Registers -> Seq(Qubits)]
         /\ simQubits' \in [Nodes -> SUBSET SimQubit]
         /\ virtQubits' \in [Nodes -> SUBSET VirtQubit]
         /\ Addressing' /\ HeldOnce' /\ SimulatedOnce'
         /\ NumbersUnique' /\ PositionsExact' /\ NoOrphan'
<1> DEFINE x == <<n, r>>
           p == Len(engine[x])
           k == FirstFree(SimNums(n))
           l == FirstFree(VirtNums(n))
<1>1. x \in Registers /\ engine[x] \in Seq(Qubits) /\ p \in Nat
  <2>1. x \in Registers
    BY DEF Registers
  <2>2. engine[x] \in Seq(Qubits)
    BY <2>1 DEF Consistent, TypeOK
  <2>3. QED
    BY <2>1, <2>2, LenProperties
<1>2. /\ Append(engine[x], q) \in Seq(Qubits)
      /\ Len(Append(engine[x], q)) = p + 1
      /\ \A i \in 1 .. p : Append(engine[x], q)[i] = engine[x][i]
      /\ Append(engine[x], q)[p + 1] = q
  <2>1. q \in Qubits
    OBVIOUS
  <2> HIDE DEF x
  <2>2. QED
    BY <1>1, <2>1, AppendProperties
<1>3. /\ engine' \in [Registers -> Seq(Qubits)]
      /\ engine'[x] = Append(engine[x], q)
      /\ \A y \in Registers \ {x} : engine'[y] = engine[y]
  <2>1. engine \in [Registers -> Seq(Qubits)]
    BY DEF Consistent, TypeOK
  <2>2. QED
    BY <1>1, <1>2, <2>1
<1>4. /\ k \in Nat /\ \A s \in simQubits[n] : s.simNum # k
      /\ l \in Nat /\ \A v \in virtQubits[n] : v.num # l
  <2>1. /\ SimNums(n) \in SUBSET Nat /\ IsFiniteSet(SimNums(n))
        /\ VirtNums(n) \in SUBSET Nat /\ IsFiniteSet(VirtNums(n))
    BY NumbersFinite DEF Consistent
  <2>2. k \in Nat /\ k \notin SimNums(n) /\ l \in Nat /\ l \notin VirtNums(n)
    BY <2>1, FirstFreeSpec
  <2>3. QED
    BY <2>2 DEF SimNums, VirtNums
<1>5. PICK s0 \in SimQubit : s0 = [simNum |-> k, reg |-> r, num |-> p]
  BY <1>1, <1>4 DEF SimQubit
<1>6. PICK v0 \in VirtQubit :
        v0 = [num |-> l, simNode |-> n, simNum |-> k, qubit |-> q]
  BY <1>1, <1>4 DEF VirtQubit
<1>7. /\ simQubits' \in [Nodes -> SUBSET SimQubit]
      /\ simQubits'[n] = simQubits[n] \cup {s0}
      /\ \A m \in Nodes \ {n} : simQubits'[m] = simQubits[m]
  <2>1. simQubits \in [Nodes -> SUBSET SimQubit]
    BY DEF Consistent, TypeOK
  <2>2. simQubits' = [simQubits EXCEPT ![n] = @ \cup {s0}]
    BY <1>5 DEF AddObjects
  <2>3. QED
    BY <2>1, <2>2
<1>8. /\ virtQubits' \in [Nodes -> SUBSET VirtQubit]
      /\ virtQubits'[n] = virtQubits[n] \cup {v0}
      /\ \A m \in Nodes \ {n} : virtQubits'[m] = virtQubits[m]
  <2>1. virtQubits \in [Nodes -> SUBSET VirtQubit]
    BY DEF Consistent, TypeOK
  <2>2. virtQubits' = [virtQubits EXCEPT ![n] = @ \cup {v0}]
    BY <1>6 DEF AddObjects
  <2>3. QED
    BY <2>1, <2>2
<1>9. /\ s0.simNum = k /\ s0.reg = r /\ s0.num = p
      /\ v0.num = l /\ v0.simNode = n /\ v0.simNum = k /\ v0.qubit = q
  BY <1>5, <1>6
<1> HIDE DEF x, p, k, l
<1>10. \A m \in Nodes : \A s \in simQubits[m] :
        At(m, s)' = At(m, s) /\ At(m, s) # q
  <2> SUFFICES ASSUME NEW m \in Nodes, NEW s \in simQubits[m]
               PROVE  At(m, s)' = At(m, s) /\ At(m, s) # q
    OBVIOUS
  <2>1. /\ <<m, s.reg>> \in Registers
        /\ s.num + 1 \in 1 .. Len(engine[<<m, s.reg>>])
    BY AtPosition DEF Consistent
  <2>2. engine'[<<m, s.reg>>][s.num + 1] = engine[<<m, s.reg>>][s.num + 1]
    <3>1. CASE <<m, s.reg>> = x
      BY <1>2, <1>3, <2>1, <3>1 DEF p
    <3>2. CASE <<m, s.reg>> # x
      BY <1>3, <2>1, <3>2
    <3>3. QED
      BY <3>1, <3>2
  <2>3. At(m, s) \in Held
    BY InRegisterHeld DEF Consistent
  <2>4. QED
    BY <2>2, <2>3 DEF At
<1>11. At(n, s0)' = q
  <2>1. engine'[<<n, s0.reg>>][s0.num + 1] = q
    BY <1>2, <1>3, <1>9 DEF x
  <2>2. QED
    BY <2>1, <1>9 DEF At
<1>12. Addressing'
  <2> SUFFICES ASSUME NEW m \in Nodes, NEW v \in virtQubits'[m]
               PROVE  \E s \in simQubits'[v.simNode] :
                        s.simNum = v.simNum /\ At(v.simNode, s)' = v.qubit
    BY DEF Addressing
  <2>1. CASE v \in virtQubits[m]
    <3>1. PICK s \in simQubits[v.simNode] : s.simNum = v.simNum /\ At(v.simNode, s) = v.qubit
      BY <2>1 DEF Consistent, Addressing
    <3>2. v.simNode \in Nodes
      BY <2>1 DEF Consistent, TypeOK, VirtQubit
    <3>3. s \in simQubits'[v.simNode] /\ At(v.simNode, s)' = v.qubit
      BY <1>7, <1>10, <3>1, <3>2
    <3>4. QED
      BY <3>1, <3>3
  <2>2. CASE v = v0
    BY <1>7, <1>9, <1>11, <2>2
  <2>3. QED
    BY <1>8, <2>1, <2>2
<1>13. HeldOnce'
  <2> SUFFICES ASSUME NEW i \in Nodes, NEW j \in Nodes,
                      NEW v \in virtQubits'[i], NEW w \in virtQubits'[j],
                      v.qubit = w.qubit
               PROVE  i = j /\ v = w
    BY DEF HeldOnce
  <2>1. \A m \in Nodes : \A u \in virtQubits[m] : u.qubit # q
    BY DEF Held
  <2>2. \/ v \in virtQubits[i]
        \/ i = n /\ v = v0
    BY <1>8
  <2>3. \/ w \in virtQubits[j]
        \/ j = n /\ w = v0
    BY <1>8
  <2>4. QED
    BY <1>9, <2>1, <2>2, <2>3 DEF Consistent, HeldOnce
<1>14. SimulatedOnce'
  <2> SUFFICES ASSUME NEW i \in Nodes, NEW j \in Nodes,
                      NEW s \in simQubits'[i], NEW t \in simQubits'[j],
                      At(i, s)' = At(j, t)'
               PROVE  i = j /\ s = t
    BY DEF SimulatedOnce
  <2>1. \/ s \in simQubits[i] /\ At(i, s)' = At(i, s) /\ At(i, s) # q
        \/ i = n /\ s = s0 /\ At(i, s)' = q
    BY <1>7, <1>10, <1>11
  <2>2. \/ t \in simQubits[j] /\ At(j, t)' = At(j, t) /\ At(j, t) # q
        \/ j = n /\ t = s0 /\ At(j, t)' = q
    BY <1>7, <1>10, <1>11
  <2>3. QED
    BY <2>1, <2>2 DEF Consistent, SimulatedOnce
<1>15. NumbersUnique'
  BY <1>4, <1>7, <1>8, <1>9 DEF Consistent, NumbersUnique
<1>16. PositionsExact'
  <2>1. ASSUME NEW m \in Nodes, NEW s \in simQubits'[m]
        PROVE  s.num < Len(engine'[<<m, s.reg>>])
    <3>1. CASE s \in simQubits[m]
      <4>1. /\ <<m, s.reg>> \in Registers /\ s.num \in Nat
            /\ s.num < Len(engine[<<m, s.reg>>])
        BY <3>1, AtPosition DEF Consistent
      <4>2. CASE <<m, s.reg>> = x
        <5>1. s.num < p
          BY <4>1, <4>2 DEF p
        <5>2. Len(engine'[<<m, s.reg>>]) = p + 1
          BY <1>2, <1>3, <4>2
        <5>3. QED
          BY <1>1, <4>1, <5>1, <5>2
      <4>3. CASE <<m, s.reg>> # x
        BY <1>3, <4>1, <4>3
      <4>4. QED
        BY <4>2, <4>3
    <3>2. CASE m = n /\ s = s0
      <4>1. Len(engine'[<<m, s.reg>>]) = p + 1
        BY <1>2, <1>3, <1>9, <3>2 DEF x
      <4>2. QED
        BY <1>1, <1>9, <3>2, <4>1
    <3>3. QED
      BY <1>7, <3>1, <3>2
  <2>2. ASSUME NEW m \in Nodes, NEW s \in simQubits'[m], NEW t \in simQubits'[m],
               s.reg = t.reg, s.num = t.num
        PROVE  s = t
    BY <1>14, <2>2 DEF SimulatedOnce, At
  <2>3. ASSUME NEW m \in Nodes, NEW c \in RegIds, NEW i \in 0 .. (Len(engine'[<<m, c>>]) - 1)
        PROVE  \E s \in simQubits'[m] : s.reg = c /\ s.num = i
    <3>1. CASE <<m, c>> = x
      <4>1. m = n /\ c = r
        BY <3>1 DEF x
      <4>2. Len(engine'[<<m, c>>]) = p + 1
        BY <1>2, <1>3, <3>1
      <4>3. i \in Nat /\ (i < p \/ i = p)
        BY <1>1, <4>2
      <4>4. CASE i < p
        <5>1. i < Len(engine[<<n, r>>]) /\ Len(engine[<<n, r>>]) \in Nat
          BY <1>1, <4>4 DEF p, x
        <5>2. PICK s \in simQubits[n] : s.reg = r /\ s.num = i
          BY <4>3, <5>1, PositionTaken DEF Consistent
        <5>3. QED
          BY <1>7, <4>1, <5>2
      <4>5. CASE i = p
        BY <1>7, <1>9, <4>1, <4>5
      <4>6. QED
        BY <4>3, <4>4, <4>5
    <3>2. CASE <<m, c>> # x
      <4>1. <<m, c>> \in Registers
        BY DEF Registers
      <4>2. engine'[<<m, c>>] = engine[<<m, c>>]
        BY <1>3, <3>2, <4>1
      <4>3. engine[<<m, c>>] \in Seq(Qubits)
        BY <4>1 DEF Consistent, TypeOK
      <4>4. Len(engine[<<m, c>>]) \in Nat
        BY <4>3, LenProperties
      <4>5. i \in Nat /\ i < Len(engine[<<m, c>>])
        <5>1. i \in 0 .. (Len(engine[<<m, c>>]) - 1)
          BY <4>2
        <5>2. QED
          BY <4>4, <5>1
      <4>6. PICK s \in simQubits[m] : s.reg = c /\ s.num = i
        BY <4>4, <4>5, PositionTaken DEF Consistent
      <4>7. QED
        BY <1>7, <4>6
    <3>3. QED
      BY <3>1, <3>2
  <2>4. QED
    BY <2>1, <2>2, <2>3 DEF PositionsExact
<1>17. NoOrphan'
  <2> SUFFICES ASSUME NEW m \in Nodes, NEW s \in simQubits'[m]
               PROVE  \E j \in Nodes : \E v \in virtQubits'[j] :
                        v.simNode = m /\ v.simNum = s.simNum
    BY DEF NoOrphan
  <2>1. CASE s \in simQubits[m]
    <3>1. PICK j \in Nodes : \E v \in virtQubits[j] : v.simNode = m /\ v.simNum = s.simNum
      BY <2>1 DEF Consistent, NoOrphan
    <3>2. virtQubits[j] \subseteq virtQubits'[j]
      BY <1>8
    <3>3. QED
      BY <3>1, <3>2
  <2>2. CASE m = n /\ s = s0
    BY <1>8, <1>9, <2>2
  <2>3. QED
    BY <1>7, <2>1, <2>2
<1>18. QED
  BY <1>3, <1>7, <1>8, <1>12, <1>13, <1>14, <1>15, <1>16, <1>17

LEMMA NewQubitStep ==
  ASSUME Consistent, NEW n \in Nodes, NEW q \in Qubits \ Held, NEW ignoreMax \in BOOLEAN,
         NewQubit(n, q, ignoreMax)
  PROVE  Consistent'
<1> DEFINE r == nextRegNum[n]
           x == <<n, r>>
<1>1. CanAddRegister(n)
  BY DEF NewQubit
<1>2. r \in RegIds /\ x \in Registers /\ x \notin registers /\ engine[x] = << >>
  BY <1>1, FreshRegister DEF Consistent
<1>3. /\ registers' = registers \cup {x}
      /\ regSize' = [regSize EXCEPT ![x] = RegisterSize]
      /\ engine' = [engine EXCEPT ![x] = <<q>>]
      /\ numRegs' = [numRegs EXCEPT ![n] = @ + 1]
      /\ nextRegNum' = [nextRegNum EXCEPT ![n] = @ + 1]
      /\ AddObjects(n, q, r, 0)
      /\ UNCHANGED <<bit, outcome>>
  BY DEF NewQubit
<1>4. /\ registers' \in SUBSET Registers
      /\ numRegs' \in [Nodes -> Nat]
      /\ nextRegNum' \in [Nodes -> 0 .. RegBound]
      /\ RegisterCount'
      /\ \A y \in registers' : y[2] < nextRegNum'[y[1]]
  BY <1>1, <1>3, RegisterAdded DEF Consistent
<1>5. /\ engine' = [engine EXCEPT ![x] = Append(engine[x], q)]
      /\ AddObjects(n, q, r, Len(engine[x]))
  <2>1. Append(<< >>, q) = <<q>> /\ Len(<< >>) = 0
    OBVIOUS
  <2>2. QED
    BY <1>2, <1>3, <2>1
<1>6. /\ engine' \in [Registers -> Seq(Qubits)]
      /\ simQubits' \in [Nodes -> SUBSET SimQubit]
      /\ virtQubits' \in [Nodes -> SUBSET VirtQubit]
      /\ Addressing' /\ HeldOnce' /\ SimulatedOnce'
      /\ NumbersUnique' /\ PositionsExact' /\ NoOrphan'
  BY <1>2, <1>5, QubitAdded
<1> HIDE DEF x
<1>7. /\ regSize' \in [Registers -> Nat] /\ regSize'[x] = RegisterSize
      /\ \A y \in Registers \ {x} : regSize'[y] = regSize[y]
  BY <1>2, <1>3, ConstantsAssumption DEF Consistent, TypeOK
<1>8. engine'[x] = <<q>> /\ \A y \in Registers \ {x} : engine'[y] = engine[y]
  BY <1>2, <1>3 DEF Consistent, TypeOK
<1>9. TypeOK'
  BY <1>3, <1>4, <1>6, <1>7 DEF Consistent, TypeOK
<1>10. RegistersLive'
  BY <1>2, <1>3, <1>4, <1>8 DEF Consistent, RegistersLive
<1>11. WithinSize'
  <2>1. Len(<<q>>) = 1 /\ 1 <= RegisterSize
    BY ConstantsAssumption
  <2>2. Len(engine'[x]) <= regSize'[x]
    BY <1>7, <1>8, <2>1
  <2>3. QED
    BY <1>7, <1>8, <2>2 DEF Consistent, WithinSize
<1>12. QED
  BY <1>4, <1>6, <1>9, <1>10, <1>11 DEF Consistent

LEMMA NewQubitInRegStep ==
  ASSUME Consistent, NEW n \in Nodes, NEW q \in Qubits \ Held, NEW r \in RegIds,
         NewQubitInReg(n, q, r)
  PROVE  Consistent'
<1> DEFINE x == <<n, r>>
<1>1. /\ x \in registers
      /\ Len(engine[x]) < regSize[x]
      /\ engine' = [engine EXCEPT ![x] = Append(engine[x], q)]
      /\ AddObjects(n, q, r, Len(engine[x]))
      /\ UNCHANGED <<registers, regSize, numRegs, nextRegNum, bit, outcome>>
  BY DEF NewQubitInReg
<1>2. /\ engine' \in [Registers -> Seq(Qubits)]
      /\ simQubits' \in [Nodes -> SUBSET SimQubit]
      /\ virtQubits' \in [Nodes -> SUBSET VirtQubit]
      /\ Addressing' /\ HeldOnce' /\ SimulatedOnce'
      /\ NumbersUnique' /\ PositionsExact' /\ NoOrphan'
  BY <1>1, QubitAdded
<1> HIDE DEF x
<1>3. x \in Registers /\ engine[x] \in Seq(Qubits) /\ regSize[x] \in Nat
  BY <1>1 DEF Consistent, TypeOK
<1>4. engine'[x] = Append(engine[x], q) /\ \A y \in Registers \ {x} : engine'[y] = engine[y]
  BY <1>1, <1>3 DEF Consistent, TypeOK
<1>5. TypeOK'
  BY <1>1, <1>2 DEF Consistent, TypeOK
<1>6. RegisterCount'
  BY <1>1 DEF Consistent, RegisterCount, RegistersOf
<1>7. RegistersLive'
  BY <1>1, <1>4 DEF Consistent, RegistersLive
<1>8. WithinSize'
  <2>1. q \in Qubits
    OBVIOUS
  <2>2. Len(engine'[x]) = Len(engine[x]) + 1 /\ Len(engine[x]) \in Nat
    BY <1>3, <1>4, <2>1, AppendProperties, LenProperties
  <2>3. Len(engine'[x]) <= regSize[x]
    BY <1>1, <1>3, <2>2
  <2>4. QED
    BY <1>1, <1>4, <2>3 DEF Consistent, WithinSize
<1>9. QED
  BY <1>2, <1>5, <1>6, <1>7, <1>8 DEF Consistent

-----------------------------------------------------------------------------
(* Sending: the simulated qubits stay, one virtual qubit changes hands.    *)

LEMMA SendQubitStep ==
  ASSUME Consistent, NEW n \in Nodes, NEW v \in virtQubits[n], NEW m \in Nodes,
         SendQubit(n, v, m)
  PROVE  Consistent'
<1> DEFINE l == FirstFree(VirtNums(m))
<1>1. l \in Nat /\ \A w \in virtQubits[m] : w.num # l
  <2>1. VirtNums(m) \in SUBSET Nat /\ IsFiniteSet(VirtNums(m))
    BY NumbersFinite DEF Consistent
  <2>2. l \in Nat /\ l \notin VirtNums(m)
    BY <2>1, FirstFreeSpec
  <2>3. QED
    BY <2>2 DEF VirtNums
<1>2. v \in VirtQubit
  BY DEF Consistent, TypeOK
<1>3. PICK w0 \in VirtQubit :
        w0 = [num |-> l, simNode |-> n, simNum |-> v.simNum, qubit |-> v.qubit]
  BY <1>1, <1>2 DEF VirtQubit
<1>4. w0.num = l /\ w0.simNode = v.simNode /\ w0.simNum = v.simNum /\ w0.qubit = v.qubit
  BY <1>3 DEF SendQubit
<1> HIDE DEF l
<1>5. m # n /\ UNCHANGED simQubits /\ UNCHANGED regVars /\ UNCHANGED stateVars
  BY DEF SendQubit
<1>6. /\ virtQubits' \in [Nodes -> SUBSET VirtQubit]
      /\ virtQubits'[n] = virtQubits[n] \ {v}
      /\ virtQubits'[m] = virtQubits[m] \cup {w0}
      /\ \A i \in Nodes \ {n, m} : virtQubits'[i] = virtQubits[i]
  <2>1. virtQubits' = [virtQubits EXCEPT ![n] = @ \ {v}, ![m] = @ \cup {w0}]
    BY <1>3 DEF SendQubit, l
  <2>2. QED
    BY <1>5, <2>1 DEF Consistent, TypeOK
<1>7. \A i \in Nodes : \A w \in virtQubits'[i] :
        \/ w \in virtQubits[i] /\ ~ (i = n /\ w = v)
        \/ i = m /\ w = w0
  BY <1>6
<1>8. TypeOK'
  BY <1>5, <1>6 DEF Consistent, TypeOK, regVars, stateVars
<1>9. \A i \in Nodes : \A s : At(i, s)' = At(i, s)
  BY <1>5 DEF At, regVars
<1>10. Addressing'
  <2> SUFFICES ASSUME NEW i \in Nodes, NEW w \in virtQubits'[i]
               PROVE  \E s \in simQubits'[w.simNode] :
                        s.simNum = w.simNum /\ At(w.simNode, s)' = w.qubit
    BY DEF Addressing
  <2>1. PICK j \in Nodes, u \in VirtQubit :
          u \in virtQubits[j] /\ u.simNode = w.simNode /\ u.simNum = w.simNum
          /\ u.qubit = w.qubit
    BY <1>2, <1>4, <1>7 DEF Consistent, TypeOK
  <2>2. PICK s \in simQubits[u.simNode] : s.simNum = u.simNum /\ At(u.simNode, s) = u.qubit
    BY <2>1 DEF Consistent, Addressing
  <2>3. engine'[<<w.simNode, s.reg>>][s.num + 1] = w.qubit
    BY <1>5, <2>1, <2>2 DEF At, regVars
  <2>4. At(w.simNode, s)' = w.qubit
    BY <2>3 DEF At
  <2>5. QED
    BY <1>5, <2>1, <2>2, <2>4
<1>11. HeldOnce'
  <2> SUFFICES ASSUME NEW i \in Nodes, NEW j \in Nodes,
                      NEW u \in virtQubits'[i], NEW w \in virtQubits'[j],
                      u.qubit = w.qubit
               PROVE  i = j /\ u = w
    BY DEF HeldOnce
  <2>1. \/ u \in virtQubits[i] /\ u.qubit # v.qubit
        \/ i = m /\ u = w0 /\ u.qubit = v.qubit
    BY <1>4, <1>7 DEF Consistent, HeldOnce
  <2>2. \/ w \in virtQubits[j] /\ w.qubit # v.qubit
        \/ j = m /\ w = w0 /\ w.qubit = v.qubit
    BY <1>4, <1>7 DEF Consistent, HeldOnce
  <2>3. QED
    BY <2>1, <2>2 DEF Consistent, HeldOnce
<1>12. SimulatedOnce'
  BY <1>5 DEF Consistent, SimulatedOnce, At, regVars
<1>13. NumbersUnique'
  <2>1. ASSUME NEW i \in Nodes, NEW u \in virtQubits'[i], NEW w \in virtQubits'[i],
               u.num = w.num
        PROVE  u = w
    BY <1>1, <1>4, <1>7, <2>1 DEF Consistent, NumbersUnique
  <2>2. QED
    BY <1>5, <2>1 DEF Consistent, NumbersUnique
<1>14. PositionsExact'
  BY <1>5 DEF Consistent, PositionsExact, regVars
<1>15. NoOrphan'
  <2> SUFFICES ASSUME NEW i \in Nodes, NEW s \in simQubits'[i]
               PROVE  \E j \in Nodes : \E w \in virtQubits'[j] :
                        w.simNode = i /\ w.simNum = s.simNum
    BY DEF NoOrphan
  <2>1. PICK j \in Nodes : \E w \in virtQubits[j] : w.simNode = i /\ w.simNum = s.simNum
    BY <1>5 DEF Consistent, NoOrphan
  <2>2. PICK w \in virtQubits[j] : w.simNode = i /\ w.simNum = s.simNum
    BY <2>1
  <2>3. CASE j = n /\ w = v
    BY <1>4, <1>6, <2>2, <2>3
  <2>4. CASE ~ (j = n /\ w = v)
    BY <1>6, <2>2, <2>4
  <2>5. QED
    BY <2>3, <2>4
<1>16. QED
  BY <1>5, <1>8, <1>10, <1>11, <1>12, <1>13, <1>14, <1>15, SameRegisters DEF Consistent

-----------------------------------------------------------------------------
(* Measuring: a position of a register goes.                               *)

LEMMA WithoutProperties ==
  ASSUME NEW e \in Seq(Qubits), NEW p \in 1 .. Len(e)
  PROVE  /\ Len(e) \in Nat \ {0}
         /\ Without(e, p) \in Seq(Qubits)
         /\ Len(Without(e, p)) = Len(e) - 1
         /\ \A i \in 1 .. (Len(e) - 1) :
              Without(e, p)[i] = IF i < p THEN e[i] ELSE e[i + 1]
         /\ Without(e, p) = << >> => Len(e) = 1
<1>1. Len(e) \in Nat \ {0}
  BY LenProperties
<1>2. \A i \in 1 .. (Len(e) - 1) : (IF i < p THEN e[i] ELSE e[i + 1]) \in Qubits
  <2> SUFFICES ASSUME NEW i \in 1 .. (Len(e) - 1)
               PROVE  (IF i < p THEN e[i] ELSE e[i + 1]) \in Qubits
    OBVIOUS
  <2>1. i \in 1 .. Len(e) /\ i + 1 \in 1 .. Len(e)
    BY <1>1
  <2>2. e[i] \in Qubits /\ e[i + 1] \in Qubits
    BY <2>1, ElementOfSeq
  <2>3. QED
    BY <2>2
<1>3. Without(e, p) \in [1 .. (Len(e) - 1) -> Qubits]
  BY <1>2 DEF Without
<1>4. Without(e, p) \in Seq(Qubits)
  <2>1. Len(e) - 1 \in Nat
    BY <1>1
  <2>2. QED
    BY <1>3, <2>1, SeqDef
<1>5. Len(Without(e, p)) = Len(e) - 1
  <2>1. DOMAIN Without(e, p) = 1 .. Len(Without(e, p)) /\ Len(Without(e, p)) \in Nat
    BY <1>4, LenProperties
  <2>2. DOMAIN Without(e, p) = 1 .. (Len(e) - 1)
    BY <1>3
  <2>3. QED
    BY <1>1, <2>1, <2>2
<1>6. Without(e, p) = << >> => Len(e) = 1
  BY <1>1, <1>5, EmptySeq
<1>7. QED
  BY <1>1, <1>4, <1>5, <1>6 DEF Without

LEMMA MeasureStep ==
  ASSUME Consistent, NEW n \in Nodes, NEW v \in virtQubits[n], Measure(n, v)
  PROVE  Consistent'
<1>1. PICK m \in Nodes, d \in SimQubit :
        /\ m = v.simNode /\ d = SimOf(v) /\ d \in simQubits[m]
        /\ d.simNum = v.simNum /\ At(m, d) = v.qubit
  <2>1. v.simNode \in Nodes /\ SimOf(v) \in simQubits[v.simNode]
        /\ SimOf(v).simNum = v.simNum /\ At(v.simNode, SimOf(v)) = v.qubit
    BY SimOfSpec DEF Consistent
  <2>2. SimOf(v) \in SimQubit
    BY <2>1 DEF Consistent, TypeOK
  <2>3. QED
    BY <2>1, <2>2
<1>2. PICK x : x = <<m, d.reg>>
  OBVIOUS
<1>3. PICK e : e = engine[x]
  OBVIOUS
<1>4. /\ x \in Registers /\ e \in Seq(Qubits) /\ Len(e) \in Nat /\ d.num \in Nat
      /\ d.num + 1 \in 1 .. Len(e) /\ d.num < Len(e)
  BY <1>1, <1>2, <1>3, AtPosition DEF Consistent
<1>5. PICK rest : rest = Without(e, d.num + 1)
  OBVIOUS
<1>6. /\ Len(e) \in Nat \ {0}
      /\ rest \in Seq(Qubits)
      /\ Len(rest) = Len(e) - 1
      /\ \A i \in 1 .. (Len(e) - 1) : rest[i] = IF i < d.num + 1 THEN e[i] ELSE e[i + 1]
      /\ rest = << >> => Len(e) = 1
  BY <1>4, <1>5, WithoutProperties
<1> DEFINE Renumber(s) == IF s.reg = d.reg /\ s.num > d.num
                          THEN [s EXCEPT !.num = @ - 1] ELSE s
<1>7. /\ engine' = [engine EXCEPT ![x] = rest]
      /\ simQubits' = [simQubits EXCEPT ![m] = {Renumber(s) : s \in @ \ {d}}]
      /\ IF rest = << >>
         THEN /\ registers' = registers \ {x}
              /\ regSize' = [regSize EXCEPT ![x] = 0]
              /\ numRegs' = [numRegs EXCEPT ![m] = @ - 1]
         ELSE UNCHANGED <<registers, regSize, numRegs>>
  BY <1>1, <1>2, <1>3, <1>5 DEF Measure, RemoveSimQubit, Renumbered
<1>8. /\ outcome' = bit[Addressed(v)]
      /\ virtQubits' = [virtQubits EXCEPT ![n] = @ \ {v}]
      /\ bit' = [bit EXCEPT ![Addressed(v)] = 0]
      /\ nextRegNum' = nextRegNum
  BY DEF Measure
<1>9. \A s \in SimQubit :
        /\ Renumber(s).simNum = s.simNum
        /\ Renumber(s).reg = s.reg
        /\ Renumber(s).num = IF s.reg = d.reg /\ s.num > d.num THEN s.num - 1 ELSE s.num
        /\ Renumber(s) \in SimQubit
  BY <1>4 DEF SimQubit
<1> HIDE DEF Renumber
<1>10. /\ engine' \in [Registers -> Seq(Qubits)]
       /\ engine'[x] = rest
       /\ \A y \in Registers \ {x} : engine'[y] = engine[y]
  BY <1>4, <1>6, <1>7 DEF Consistent, TypeOK
<1>11. /\ simQubits' \in [Nodes -> SUBSET SimQubit]
       /\ simQubits'[m] = {Renumber(s) : s \in simQubits[m] \ {d}}
       /\ \A i \in Nodes \ {m} : simQubits'[i] = simQubits[i]
  <2>1. simQubits \in [Nodes -> SUBSET SimQubit]
    BY DEF Consistent, TypeOK
  <2>2. {Renumber(s) : s \in simQubits[m] \ {d}} \in SUBSET SimQubit
    BY <1>9, <2>1
  <2>3. QED
    BY <1>7, <2>1, <2>2
<1>12. /\ virtQubits' \in [Nodes -> SUBSET VirtQubit]
       /\ virtQubits'[n] = virtQubits[n] \ {v}
       /\ \A i \in Nodes \ {n} : virtQubits'[i] = virtQubits[i]
  BY <1>8 DEF Consistent, TypeOK
<1>13. x \in registers
  <2>1. e # << >>
    BY <1>4, <1>6, EmptySeq
  <2>2. QED
    BY <1>3, <1>4, <2>1 DEF Consistent, RegistersLive
<1>14. /\ registers' \in SUBSET Registers
       /\ regSize' \in [Registers -> Nat]
       /\ numRegs' \in [Nodes -> Nat]
       /\ RegisterCount'
       /\ rest # << >> => registers' = registers /\ regSize' = regSize
       /\ rest = << >> => registers' = registers \ {x}
       /\ \A y \in Registers \ {x} : regSize'[y] = regSize[y]
  <2>1. CASE rest # << >>
    <3>1. UNCHANGED <<registers, regSize, numRegs>>
      BY <1>7, <2>1
    <3>2. RegisterCount'
      BY <3>1 DEF Consistent, RegisterCount, RegistersOf
    <3>3. QED
      BY <2>1, <3>1, <3>2 DEF Consistent, TypeOK
  <2>2. CASE rest = << >>
    <3>1. /\ registers' = registers \ {x}
          /\ regSize' = [regSize EXCEPT ![x] = 0]
          /\ numRegs' = [numRegs EXCEPT ![m] = @ - 1]
      BY <1>7, <2>2
    <3>2. /\ regSize' \in [Registers -> Nat]
          /\ \A y \in Registers \ {x} : regSize'[y] = regSize[y]
      BY <1>4, <3>1 DEF Consistent, TypeOK
    <3>3. RegistersOf(m)' = RegistersOf(m) \ {<<m, d.reg>>}
      BY <1>2, <3>1 DEF RegistersOf
    <3>4. /\ Cardinality(RegistersOf(m)') = Cardinality(RegistersOf(m)) - 1
          /\ Cardinality(RegistersOf(m)) \in Nat \ {0}
      BY <1>2, <1>13, <3>3, CountRemoved DEF Consistent
    <3>5. /\ numRegs[m] = Cardinality(RegistersOf(m))
          /\ numRegs[m] <= MaxRegisters
          /\ numRegs[m] - 1 \in Nat
      BY <3>4 DEF Consistent, RegisterCount
    <3>6. /\ numRegs' \in [Nodes -> Nat]
          /\ numRegs'[m] = numRegs[m] - 1
          /\ \A i \in Nodes \ {m} : numRegs'[i] = numRegs[i]
      BY <3>1, <3>5 DEF Consistent, TypeOK
    <3>7. \A i \in Nodes \ {m} : RegistersOf(i)' = RegistersOf(i)
      BY <1>2, <3>1 DEF RegistersOf
    <3>8. numRegs'[m] = Cardinality(RegistersOf(m)') /\ numRegs'[m] <= MaxRegisters
      BY <3>4, <3>5, <3>6, ConstantsAssumption
    <3>9. RegisterCount'
      BY <3>6, <3>7, <3>8 DEF Consistent, RegisterCount
    <3>10. QED
      BY <2>2, <3>1, <3>2, <3>6, <3>9 DEF Consistent, TypeOK
  <2>3. QED
    BY <2>1, <2>2
<1>15. TypeOK'
  <2>1. Addressed(v) \in Qubits
    BY AddressedType
  <2>2. outcome' \in {0, 1} /\ bit' \in [Qubits -> {0, 1}]
    BY <1>8, <2>1 DEF Consistent, TypeOK
  <2>3. QED
    BY <1>8, <1>10, <1>11, <1>12, <1>14, <2>2 DEF Consistent, TypeOK
<1>16. RegistersLive'
  <2> SUFFICES ASSUME NEW y \in Registers
               PROVE  /\ y \notin registers' => engine'[y] = << >>
                      /\ y \in registers' => y[2] < nextRegNum'[y[1]]
    BY DEF RegistersLive
  <2>1. y \in registers' => y \in registers
    BY <1>14
  <2>2. y \notin registers' => engine'[y] = << >>
    <3>1. CASE y = x
      BY <1>10, <1>13, <1>14, <3>1
    <3>2. CASE y # x
      BY <1>10, <1>14, <3>2 DEF Consistent, RegistersLive
    <3>3. QED
      BY <3>1, <3>2
  <2>3. QED
    BY <1>8, <2>1, <2>2 DEF Consistent, RegistersLive
<1>17. WithinSize'
  <2>1. CASE rest # << >>
    <3>1. regSize' = regSize /\ Len(e) <= regSize[x] /\ regSize[x] \in Nat
      BY <1>3, <1>4, <1>14, <2>1 DEF Consistent, WithinSize, TypeOK
    <3>2. Len(engine'[x]) <= regSize'[x]
      BY <1>4, <1>6, <1>10, <3>1
    <3>3. QED
      BY <1>10, <3>1, <3>2 DEF Consistent, WithinSize
  <2>2. CASE rest = << >>
    <3>1. regSize'[x] = 0
      BY <1>4, <1>7, <2>2 DEF Consistent, TypeOK
    <3>2. Len(engine'[x]) = 0
      BY <1>10, <2>2
    <3>3. Len(engine'[x]) <= regSize'[x]
      BY <3>1, <3>2
    <3>4. QED
      BY <1>10, <1>14, <3>3 DEF Consistent, WithinSize
  <2>3. QED
    BY <2>1, <2>2
(* What becomes of the simulated qubits that are kept. *)
<1>18. PICK K : K = Slots \ {<<m, d>>}
  OBVIOUS
<1>19. PICK f : f = [z \in K |-> <<z[1], IF z[1] = m THEN Renumber(z[2]) ELSE z[2]>>]
  OBVIOUS
<1>20. \A i \in Nodes : \A s \in simQubits[i] :
         ~ (i = m /\ s = d) => <<i, s>> \in K
  BY <1>18 DEF Slots
<1>21. \A z \in K : /\ z[1] \in Nodes /\ z[2] \in simQubits[z[1]] /\ z = <<z[1], z[2]>>
                    /\ z[2] \in SimQubit
                    /\ ~ (z[1] = m /\ z[2] = d)
  BY <1>18 DEF Slots, Consistent, TypeOK
<1>22. \A z \in K : /\ f[z] \in Slots'
                    /\ f[z][1] = z[1]
                    /\ f[z][2].simNum = z[2].simNum
                    /\ f[z][2].reg = z[2].reg
                    /\ f[z][2].num = IF z[1] = m /\ z[2].reg = d.reg /\ z[2].num > d.num
                                     THEN z[2].num - 1 ELSE z[2].num
  <2> SUFFICES ASSUME NEW z \in K
               PROVE  /\ f[z] \in Slots'
                      /\ f[z][1] = z[1]
                      /\ f[z][2].simNum = z[2].simNum
                      /\ f[z][2].reg = z[2].reg
                      /\ f[z][2].num = IF z[1] = m /\ z[2].reg = d.reg /\ z[2].num > d.num
                                       THEN z[2].num - 1 ELSE z[2].num
    OBVIOUS
  <2>1. f[z] = <<z[1], IF z[1] = m THEN Renumber(z[2]) ELSE z[2]>>
    BY <1>19
  <2>2. CASE z[1] = m
    <3>1. f[z][1] = m /\ f[z][2] = Renumber(z[2]) /\ f[z] = <<m, f[z][2]>>
      BY <2>1, <2>2
    <3>2. f[z][2] \in simQubits'[m]
      BY <1>11, <1>21, <2>2, <3>1
    <3>3. QED
      BY <1>9, <1>21, <2>2, <3>1, <3>2 DEF Slots
  <2>3. CASE z[1] # m
    <3>1. f[z][1] = z[1] /\ f[z][2] = z[2] /\ f[z] = <<z[1], z[2]>>
      BY <2>1, <2>3
    <3>2. z[1] \in Nodes /\ z[2] \in simQubits'[z[1]]
      BY <1>11, <1>21, <2>3
    <3>3. QED
      BY <2>3, <3>1, <3>2 DEF Slots
  <2>4. QED
    BY <2>2, <2>3
<1>23. \A i \in Nodes : \A s \in simQubits'[i] : \E z \in K : f[z] = <<i, s>> /\ z[1] = i
  <2> SUFFICES ASSUME NEW i \in Nodes, NEW s \in simQubits'[i]
               PROVE  \E z \in K : f[z] = <<i, s>> /\ z[1] = i
    OBVIOUS
  <2>1. CASE i = m
    <3>1. PICK t \in simQubits[m] : t # d /\ s = Renumber(t)
      BY <1>11, <2>1
    <3>2. <<m, t>> \in K
      BY <1>20, <3>1
    <3>3. QED
      BY <1>19, <2>1, <3>1, <3>2
  <2>2. CASE i # m
    <3>1. <<i, s>> \in K
      BY <1>11, <1>20, <2>2
    <3>2. QED
      BY <1>19, <2>2, <3>1
  <2>3. QED
    BY <2>1, <2>2
<1>24. Kept(K, f)
  <2>1. f \in [K -> Slots']
    <3>1. f = [z \in K |-> f[z]]
      BY <1>19
    <3>2. QED
      BY <1>22, <3>1
  <2>2. ASSUME NEW y \in K, NEW z \in K, f[y] = f[z]
        PROVE  y = z
    <3>1. y[1] = z[1] /\ y[2].simNum = z[2].simNum
      BY <1>22, <2>2
    <3>2. y[2] = z[2]
      BY <1>21, <3>1 DEF Consistent, NumbersUnique
    <3>3. QED
      BY <1>21, <3>1, <3>2
  <2>3. \A z2 \in Slots' : \E z \in K : f[z] = z2
    BY <1>23 DEF Slots
  <2>4. QED
    BY <2>1, <2>2, <2>3 DEF Kept
<1>25. ASSUME NEW z \in K
       PROVE  /\ engine'[<<f[z][1], f[z][2].reg>>][f[z][2].num + 1] = At(z[1], z[2])
              /\ f[z][2].num \in Nat
              /\ f[z][2].num < Len(engine'[<<f[z][1], f[z][2].reg>>])
  <2>1. PICK i \in Nodes, s \in SimQubit :
          z = <<i, s>> /\ s \in simQubits[i] /\ ~ (i = m /\ s = d) /\ z[1] = i /\ z[2] = s
    BY <1>21
  <2>2. PICK j : j = f[z][2].num
    OBVIOUS
  <2>3. /\ <<i, s.reg>> \in Registers /\ s.num \in Nat
        /\ s.num < Len(engine[<<i, s.reg>>])
        /\ s.num + 1 \in 1 .. Len(engine[<<i, s.reg>>])
        /\ At(i, s) = engine[<<i, s.reg>>][s.num + 1]
    BY <2>1, AtPosition DEF Consistent
  <2>4. f[z][1] = i /\ f[z][2].reg = s.reg
        /\ j = IF i = m /\ s.reg = d.reg /\ s.num > d.num THEN s.num - 1 ELSE s.num
    BY <1>22, <2>1, <2>2
  <2>5. CASE i = m /\ s.reg = d.reg
    <3>1. s.num # d.num
      BY <1>1, <2>1, <2>5 DEF Consistent, PositionsExact
    <3>2. engine[<<i, s.reg>>] = e /\ engine'[<<i, s.reg>>] = rest
      BY <1>2, <1>3, <1>10, <2>5
    <3>3. j \in Nat /\ j < Len(e) - 1 /\ j + 1 \in 1 .. (Len(e) - 1)
      BY <1>4, <2>3, <2>4, <2>5, <3>1, <3>2
    <3>4. rest[j + 1] = e[s.num + 1]
      <4>1. CASE s.num > d.num
        <5>1. j = s.num - 1 /\ (j + 1) + 1 = s.num + 1 /\ ~ (j + 1 < d.num + 1)
          BY <1>4, <2>3, <2>4, <2>5, <4>1
        <5>2. rest[j + 1] = e[(j + 1) + 1]
          BY <1>6, <3>3, <5>1
        <5>3. QED
          BY <5>1, <5>2
      <4>2. CASE s.num < d.num
        BY <1>4, <1>6, <2>3, <2>4, <2>5, <3>3, <4>2
      <4>3. QED
        BY <1>4, <2>3, <3>1, <4>1, <4>2
    <3>5. QED
      BY <1>6, <2>1, <2>2, <2>3, <2>4, <3>2, <3>3, <3>4
  <2>6. CASE ~ (i = m /\ s.reg = d.reg)
    <3>1. <<i, s.reg>> # x
      BY <1>2, <2>6
    <3>2. engine'[<<i, s.reg>>] = engine[<<i, s.reg>>] /\ j = s.num
      BY <1>10, <2>3, <2>4, <2>6, <3>1
    <3>3. QED
      BY <2>1, <2>2, <2>3, <2>4, <3>2
  <2>7. QED
    BY <2>5, <2>6
<1>26. Followed(K, f)
  <2>1. ASSUME NEW i \in Nodes, NEW w \in virtQubits[i], ~ (i = n /\ w = v)
        PROVE  <<w.simNode, SimOf(w)>> \in K /\ Follows(w, w, f)
    <3>1. /\ w.simNode \in Nodes /\ SimOf(w) \in simQubits[w.simNode]
          /\ SimOf(w).simNum = w.simNum /\ At(w.simNode, SimOf(w)) = w.qubit
      BY SimOfSpec DEF Consistent
    <3>2. w.qubit # v.qubit
      BY <2>1 DEF Consistent, HeldOnce
    <3>3. ~ (w.simNode = m /\ SimOf(w) = d)
      BY <1>1, <3>1, <3>2
    <3>4. PICK z \in K : z = <<w.simNode, SimOf(w)>>
      BY <1>20, <3>1, <3>3
    <3>5. f[z][1] = w.simNode /\ f[z][2].simNum = w.simNum
      BY <1>22, <3>1, <3>4
    <3>6. QED
      BY <3>4, <3>5 DEF Follows
  <2>2. ASSUME NEW i \in Nodes, NEW w \in virtQubits'[i]
        PROVE  w \in virtQubits[i] /\ ~ (i = n /\ w = v)
    BY <1>12
  <2>3. ASSUME NEW i \in Nodes, NEW w \in virtQubits[i], <<w.simNode, SimOf(w)>> \in K
        PROVE  w \in virtQubits'[i]
    <3>1. ~ (w = v)
      BY <1>1, <1>18, <2>3
    <3>2. QED
      BY <1>12, <3>1
  <2>4. ASSUME NEW i \in Nodes, NEW w \in virtQubits[i], <<w.simNode, SimOf(w)>> \in K
        PROVE  \E v2 \in virtQubits'[i] : Follows(v2, w, f)
    <3>1. w \in virtQubits'[i]
      BY <2>3, <2>4
    <3>2. ~ (i = n /\ w = v)
      BY <2>2, <3>1
    <3>3. QED
      BY <2>1, <3>1, <3>2
  <2>5. QED
    BY <2>1, <2>2, <2>4 DEF Followed
<1>27. \A i \in Nodes : \A s, t \in simQubits'[i] : s.simNum = t.simNum => s = t
  <2> SUFFICES ASSUME NEW i \in Nodes, NEW s \in simQubits'[i], NEW t \in simQubits'[i],
                      s.simNum = t.simNum
               PROVE  s = t
    OBVIOUS
  <2>1. PICK y \in K : f[y] = <<i, s>> /\ y[1] = i
    BY <1>23
  <2>2. PICK z \in K : f[z] = <<i, t>> /\ z[1] = i
    BY <1>23
  <2>3. y[2].simNum = z[2].simNum
    BY <1>22, <2>1, <2>2
  <2>4. y = z
    BY <1>21, <2>1, <2>2, <2>3 DEF Consistent, NumbersUnique
  <2>5. QED
    BY <2>1, <2>2, <2>4
<1>28. Addressing' /\ HeldOnce' /\ SimulatedOnce' /\ NumbersUnique' /\ NoOrphan'
  <2>1. K \in SUBSET Slots
    BY <1>18
  <2>2. Carried(K, f)
    BY <1>25 DEF Carried
  <2>3. QED
    BY <1>12, <1>24, <1>26, <1>27, <2>1, <2>2, Rearrangement DEF Consistent
<1>29. PositionsExact'
  <2>1. ASSUME NEW i \in Nodes, NEW s \in simQubits'[i]
        PROVE  s.num < Len(engine'[<<i, s.reg>>])
    <3>1. PICK z \in K : f[z] = <<i, s>>
      BY <1>23
    <3>2. f[z][1] = i /\ f[z][2] = s
      BY <3>1
    <3>3. QED
      BY <1>25, <3>2
  <2>2. ASSUME NEW i \in Nodes, NEW s \in simQubits'[i], NEW t \in simQubits'[i],
               s.reg = t.reg, s.num = t.num
        PROVE  s = t
    BY <1>28, <2>2 DEF SimulatedOnce, At
  <2>3. ASSUME NEW i \in Nodes, NEW c \in RegIds, NEW j \in 0 .. (Len(engine'[<<i, c>>]) - 1)
        PROVE  \E s \in simQubits'[i] : s.reg = c /\ s.num = j
    <3>1. <<i, c>> \in Registers /\ engine[<<i, c>>] \in Seq(Qubits)
          /\ Len(engine[<<i, c>>]) \in Nat
      <4>1. <<i, c>> \in Registers
        BY DEF Registers
      <4>2. engine[<<i, c>>] \in Seq(Qubits)
        BY <4>1 DEF Consistent, TypeOK
      <4>3. QED
        BY <4>1, <4>2, LenProperties
    <3>2. PICK o : o = IF <<i, c>> = x /\ j >= d.num THEN j + 1 ELSE j
      OBVIOUS
    <3>3. o \in Nat /\ o < Len(engine[<<i, c>>])
      <4>1. CASE <<i, c>> = x
        <5>1. Len(engine'[<<i, c>>]) = Len(e) - 1 /\ engine[<<i, c>>] = e
          BY <1>3, <1>6, <1>10, <4>1
        <5>2. j \in Nat /\ j < Len(e) - 1
          BY <1>4, <5>1
        <5>3. QED
          BY <1>4, <3>2, <5>1, <5>2
      <4>2. CASE <<i, c>> # x
        <5>1. engine'[<<i, c>>] = engine[<<i, c>>]
          BY <1>10, <3>1, <4>2
        <5>2. j \in 0 .. (Len(engine[<<i, c>>]) - 1)
          BY <5>1
        <5>3. QED
          BY <3>1, <3>2, <4>2, <5>2
      <4>3. QED
        BY <4>1, <4>2
    <3>4. PICK s \in simQubits[i] : s.reg = c /\ s.num = o
      BY <3>1, <3>3, PositionTaken DEF Consistent
    <3>5. j \in Nat
      BY <3>1, <3>2, <3>3
    <3>6. ~ (i = m /\ s = d)
      BY <1>2, <1>4, <3>2, <3>4, <3>5
    <3>7. PICK z \in K : z = <<i, s>>
      BY <1>20, <3>6
    <3>8. f[z][2] \in simQubits'[i] /\ f[z][2].reg = c
      BY <1>22, <3>4, <3>7 DEF Slots
    <3>9. f[z][2].num = j
      <4>1. f[z][2].num = IF i = m /\ c = d.reg /\ o > d.num THEN o - 1 ELSE o
        BY <1>22, <3>4, <3>7
      <4>2. i = m /\ c = d.reg <=> <<i, c>> = x
        BY <1>2
      <4>3. QED
        BY <1>4, <3>2, <3>5, <4>1, <4>2
    <3>10. QED
      BY <3>8, <3>9
  <2>4. QED
    BY <2>1, <2>2, <2>3 DEF PositionsExact
<1>30. QED
  BY <1>14, <1>15, <1>16, <1>17, <1>28, <1>29 DEF Consistent

-----------------------------------------------------------------------------
(* Merging registers.                                                      *)

(* How the registers in sources lie in the list of all pulled qubits: each
   in one piece that starts behind the position from, and nothing between. *)
Layout(sources, from, pulled) ==
  /\ \A b \in sources :
       /\ from[b] \in Nat
       /\ from[b] + Len(engine[b]) <= Len(pulled)
       /\ \A i \in 1 .. Len(engine[b]) : pulled[from[b] + i] = engine[b][i]
  /\ \A j \in Nat :
       j < Len(pulled) =>
         \E b \in sources : from[b] <= j /\ j < from[b] + Len(engine[b])

(* Register a of node n absorbs the registers in sources. *)
Absorbs(n, a, sources, pulled) ==
  engine' = [r \in Registers |->
               IF r = <<n, a>> THEN engine[r] \o pulled
               ELSE IF r \in sources THEN << >> ELSE engine[r]]

(* f takes the simulated qubits of these registers to their new positions
   and leaves the others alone. *)
Relocates(f, n, a, sources, from) ==
  \A z \in Slots :
    LET moves == <<z[1], z[2].reg>> \in sources
    IN  /\ moves => /\ f[z][1] = n
                    /\ f[z][2].reg = a
                    /\ f[z][2].num = Len(engine[<<n, a>>])
                                       + from[<<z[1], z[2].reg>>] + z[2].num
        /\ ~ moves => f[z][1] = z[1] /\ f[z][2].reg = z[2].reg /\ f[z][2].num = z[2].num

(* Local and remote merges alike keep the qubits in step. *)
LEMMA Absorbed ==
  ASSUME Consistent,
         NEW n \in Nodes, NEW a \in RegIds,
         NEW sources \in SUBSET Registers, NEW from, NEW pulled \in Seq(Qubits), NEW f,
         <<n, a>> \notin sources,
         virtQubits' \in [Nodes -> SUBSET VirtQubit],
         Layout(sources, from, pulled),
         Absorbs(n, a, sources, pulled),
         Kept(Slots, f),
         Relocates(f, n, a, sources, from),
         Followed(Slots, f),
         \A m \in Nodes : \A s, t \in simQubits'[m] : s.simNum = t.simNum => s = t
  PROVE  /\ engine' \in [Registers -> Seq(Qubits)]
         /\ Addressing' /\ HeldOnce' /\ SimulatedOnce'
         /\ NumbersUnique' /\ PositionsExact' /\ NoOrphan'
<1>1. PICK x \in Registers : x = <<n, a>>
  BY DEF Registers
<1>2. \A r \in Registers : engine[r] \in Seq(Qubits) /\ Len(engine[r]) \in Nat
  BY LenProperties DEF Consistent, TypeOK
<1>3. Len(pulled) \in Nat
  BY LenProperties
<1>4. PICK e : e = engine[x]
  OBVIOUS
<1>5. PICK all : all = e \o pulled
  OBVIOUS
<1>6. /\ all \in Seq(Qubits)
      /\ Len(all) = Len(e) + Len(pulled)
      /\ \A i \in 1 .. (Len(e) + Len(pulled)) :
           all[i] = IF i <= Len(e) THEN e[i] ELSE pulled[i - Len(e)]
      /\ e \in Seq(Qubits) /\ Len(e) \in Nat
  <2>1. e \in Seq(Qubits) /\ Len(e) \in Nat
    BY <1>1, <1>2, <1>4
  <2>2. /\ e \o pulled \in Seq(Qubits)
        /\ Len(e \o pulled) = Len(e) + Len(pulled)
        /\ \A i \in 1 .. Len(e) + Len(pulled) :
             (e \o pulled)[i] = IF i <= Len(e) THEN e[i] ELSE pulled[i - Len(e)]
    BY <2>1, ConcatProperties
  <2>3. QED
    BY <1>5, <2>1, <2>2
<1>7. /\ engine'[x] = all
      /\ \A r \in sources : engine'[r] = << >>
      /\ \A r \in Registers : r # x /\ r \notin sources => engine'[r] = engine[r]
  BY <1>1, <1>4, <1>5 DEF Absorbs
<1>8. engine' \in [Registers -> Seq(Qubits)]
  <2>1. engine' = [r \in Registers |-> engine'[r]]
    BY DEF Absorbs
  <2>2. \A r \in Registers : engine'[r] \in Seq(Qubits)
    <3>1. << >> \in Seq(Qubits)
      BY EmptySeq
    <3>2. QED
      BY <1>2, <1>6, <1>7, <3>1
  <2>3. QED
    BY <2>1, <2>2
<1>9. \A z \in Slots : /\ z[1] \in Nodes /\ z[2] \in simQubits[z[1]] /\ z = <<z[1], z[2]>>
  BY DEF Slots
<1>10. /\ \A i \in Nodes : \A s \in simQubits[i] : <<i, s>> \in Slots
      /\ \A i \in Nodes : \A s \in simQubits'[i] : <<i, s>> \in Slots'
  BY DEF Slots
<1>11. ASSUME NEW z \in Slots
       PROVE  /\ engine'[<<f[z][1], f[z][2].reg>>][f[z][2].num + 1] = At(z[1], z[2])
              /\ f[z][2].num < Len(engine'[<<f[z][1], f[z][2].reg>>])
  <2>1. PICK i \in Nodes, s \in SimQubit :
          s \in simQubits[i] /\ z = <<i, s>> /\ z[1] = i /\ z[2] = s
    BY <1>9 DEF Consistent, TypeOK
  <2>2. PICK y \in Registers : y = <<i, s.reg>>
    BY <2>1, AtPosition DEF Consistent
  <2>3. /\ s.num \in Nat /\ s.num < Len(engine[y]) /\ s.num + 1 \in 1 .. Len(engine[y])
        /\ Len(engine[y]) \in Nat
        /\ At(i, s) = engine[y][s.num + 1]
    BY <2>1, <2>2, AtPosition DEF Consistent
  <2>4. CASE y \in sources
    <3>1. PICK j : j = from[y] + s.num
      OBVIOUS
    <3>2. /\ from[y] \in Nat
          /\ from[y] + Len(engine[y]) <= Len(pulled)
          /\ pulled[from[y] + (s.num + 1)] = engine[y][s.num + 1]
      BY <2>3, <2>4 DEF Layout
    <3>3. j \in Nat /\ j < Len(pulled) /\ j + 1 = from[y] + (s.num + 1)
      <4>1. \A u, v, w, l \in Nat :
              v < w /\ u + w <= l
              => u + v \in Nat /\ u + v < l /\ (u + v) + 1 = u + (v + 1)
        OBVIOUS
      <4>2. /\ from[y] \in Nat /\ s.num \in Nat
            /\ Len(engine[y]) \in Nat /\ Len(pulled) \in Nat
        BY <1>3, <2>3, <3>2
      <4>3. s.num < Len(engine[y]) /\ from[y] + Len(engine[y]) <= Len(pulled)
        BY <2>3, <3>2
      <4>4. /\ from[y] + s.num \in Nat /\ from[y] + s.num < Len(pulled)
            /\ (from[y] + s.num) + 1 = from[y] + (s.num + 1)
        BY ONLY <4>1, <4>2, <4>3
      <4>5. QED
        BY <3>1, <4>4
    <3>4. f[z][1] = n /\ f[z][2].reg = a /\ f[z][2].num = Len(e) + from[y] + s.num
      BY <1>1, <1>4, <2>1, <2>2, <2>4 DEF Relocates
    <3>5. f[z][2].num = Len(e) + j
      BY <1>6, <2>3, <3>1, <3>2, <3>4
    <3>6. engine'[<<f[z][1], f[z][2].reg>>] = all
      BY <1>1, <1>7, <3>4
    <3>7. all[Len(e) + j + 1] = pulled[j + 1]
      <4>1. Len(e) + j + 1 \in 1 .. (Len(e) + Len(pulled))
        BY <1>3, <1>6, <3>3
      <4>2. ~ (Len(e) + j + 1 <= Len(e)) /\ (Len(e) + j + 1) - Len(e) = j + 1
        BY <1>6, <3>3
      <4>3. QED
        BY <1>6, <4>1, <4>2
    <3>8. Len(e) + j < Len(all)
      BY <1>3, <1>6, <3>3
    <3>9. QED
      BY <2>1, <2>3, <3>2, <3>3, <3>5, <3>6, <3>7, <3>8
  <2>5. CASE y \notin sources
    <3>1. f[z][1] = i /\ f[z][2].reg = s.reg /\ f[z][2].num = s.num
      BY <2>1, <2>2, <2>5 DEF Relocates
    <3>2. CASE y = x
      <4>1. engine'[y] = all /\ engine[y] = e
        BY <1>4, <1>7, <3>2
      <4>2. s.num + 1 \in 1 .. (Len(e) + Len(pulled)) /\ s.num + 1 <= Len(e)
        BY <1>3, <1>6, <2>3, <4>1
      <4>3. all[s.num + 1] = e[s.num + 1]
        BY <1>6, <4>2
      <4>4. s.num < Len(all)
        BY <1>3, <1>6, <2>3, <4>1
      <4>5. QED
        BY <2>1, <2>2, <2>3, <3>1, <4>1, <4>3, <4>4
    <3>3. CASE y # x
      <4>1. engine'[y] = engine[y]
        BY <1>7, <2>5, <3>3
      <4>2. QED
        BY <2>1, <2>2, <2>3, <3>1, <4>1
    <3>4. QED
      BY <3>2, <3>3
  <2>6. QED
    BY <2>4, <2>5
<1>12. Addressing' /\ HeldOnce' /\ SimulatedOnce' /\ NumbersUnique' /\ NoOrphan'
  <2>1. Carried(Slots, f)
    BY <1>11 DEF Carried
  <2>2. PICK K : K = Slots
    OBVIOUS
  <2>3. Kept(K, f) /\ Carried(K, f) /\ Followed(K, f) /\ K \in SUBSET Slots
    BY <2>1, <2>2
  <2>4. QED
    BY <2>3, Rearrangement DEF Consistent
<1>13. PositionsExact'
  <2>1. ASSUME NEW i \in Nodes, NEW s \in simQubits'[i]
        PROVE  s.num < Len(engine'[<<i, s.reg>>])
    <3>1. <<i, s>> \in Slots'
      BY <1>10
    <3>2. PICK z \in Slots : f[z] = <<i, s>>
      BY <3>1 DEF Kept
    <3>3. f[z][1] = i /\ f[z][2] = s
      BY <3>2
    <3>4. QED
      BY <1>11, <3>3
  <2>2. ASSUME NEW i \in Nodes, NEW s \in simQubits'[i], NEW t \in simQubits'[i],
               s.reg = t.reg, s.num = t.num
        PROVE  s = t
    BY <1>12, <2>2 DEF SimulatedOnce, At
  <2>3. ASSUME NEW i \in Nodes, NEW c \in RegIds, NEW j \in 0 .. (Len(engine'[<<i, c>>]) - 1)
        PROVE  \E s \in simQubits'[i] : s.reg = c /\ s.num = j
    <3>1. PICK y \in Registers : y = <<i, c>>
      BY DEF Registers
    <3>2. Len(engine'[y]) \in Nat /\ j \in Nat /\ j < Len(engine'[y])
      <4>1. Len(engine'[y]) \in Nat
        BY <1>8, LenProperties
      <4>2. QED
        BY <3>1, <4>1
    <3>3. y \notin sources
      <4>1. Len(engine'[y]) # 0
        BY <3>2
      <4>2. QED
        BY <1>7, <4>1, EmptySeq
    <3>4. ASSUME NEW z \in Slots, f[z][1] = i, f[z][2].reg = c, f[z][2].num = j
          PROVE  \E s \in simQubits'[i] : s.reg = c /\ s.num = j
      <4>1. f[z] \in Slots'
        BY DEF Kept
      <4>2. f[z][2] \in simQubits'[i]
        BY <3>4, <4>1 DEF Slots
      <4>3. QED
        BY <3>4, <4>2
    <3>5. CASE j < Len(engine[y])
      <4>1. PICK s \in simQubits[i] : s.reg = c /\ s.num = j
        <5>1. j \in Nat /\ j < Len(engine[<<i, c>>]) /\ Len(engine[<<i, c>>]) \in Nat
          BY <1>2, <3>1, <3>2, <3>5
        <5>2. QED
          BY <5>1, PositionTaken DEF Consistent
      <4>2. PICK z \in Slots : z = <<i, s>>
        BY <1>10
      <4>3. f[z][1] = i /\ f[z][2].reg = c /\ f[z][2].num = j
        BY <3>1, <3>3, <4>1, <4>2 DEF Relocates
      <4>4. QED
        BY <3>4, <4>3
    <3>6. CASE ~ (j < Len(engine[y]))
      <4>1. y = x
        BY <1>7, <3>2, <3>3, <3>6
      <4>2. PICK k \in Nat : j = Len(e) + k /\ k < Len(pulled)
        <5>1. Len(engine'[y]) = Len(e) + Len(pulled) /\ engine[y] = e
          BY <1>4, <1>6, <1>7, <4>1
        <5>2. j - Len(e) \in Nat /\ j - Len(e) < Len(pulled) /\ j = Len(e) + (j - Len(e))
          BY <1>3, <1>6, <3>2, <3>6, <5>1
        <5>3. QED
          BY <5>2
      <4>3. PICK b \in sources : from[b] <= k /\ k < from[b] + Len(engine[b])
        BY <4>2 DEF Layout
      <4>4. PICK o \in Nat : k = from[b] + o /\ o < Len(engine[b])
        <5>1. from[b] \in Nat /\ Len(engine[b]) \in Nat
          BY <1>2 DEF Layout
        <5>2. k - from[b] \in Nat /\ k - from[b] < Len(engine[b]) /\ k = from[b] + (k - from[b])
          BY <4>2, <4>3, <5>1
        <5>3. QED
          BY <5>2
      <4>5. PICK g \in Nodes, h \in RegIds : b = <<g, h>>
        BY DEF Registers
      <4>6. PICK s \in simQubits[g] : s.reg = h /\ s.num = o
        BY <1>2, <4>4, <4>5, PositionTaken DEF Consistent
      <4>7. PICK z \in Slots : z = <<g, s>>
        BY <1>10
      <4>8. f[z][1] = n /\ f[z][2].reg = a /\ f[z][2].num = Len(e) + from[b] + o
        BY <1>1, <1>4, <4>5, <4>6, <4>7 DEF Relocates
      <4>9. f[z][2].num = j
        <5>1. from[b] \in Nat
          BY DEF Layout
        <5>2. QED
          BY <1>6, <4>2, <4>4, <4>8, <5>1
      <4>10. n = i /\ a = c
        BY <1>1, <3>1, <4>1
      <4>11. QED
        BY <3>4, <4>8, <4>9, <4>10
    <3>7. QED
      BY <3>5, <3>6
  <2>4. QED
    BY <2>1, <2>2, <2>3 DEF PositionsExact
<1>14. QED
  BY <1>8, <1>12, <1>13

(* What a merge does to the registers and their counts: those in sources,
   at most one of a node, go, and register a of node n is made if it is new. *)
Merges(n, a, sources, pulled) ==
  LET isNew == <<n, a>> \notin registers
  IN  /\ Absorbs(n, a, sources, pulled)
      /\ registers' = (registers \ sources) \cup {<<n, a>>}
      /\ regSize' = [r \in Registers |->
                       IF r = <<n, a>>
                       THEN (IF isNew THEN RegisterSize ELSE regSize[r]) + Len(pulled)
                       ELSE IF r \in sources THEN 0 ELSE regSize[r]]
      /\ numRegs' = [m \in Nodes |->
                       IF m \in {b[1] : b \in sources} THEN numRegs[m] - 1
                       ELSE IF m = n /\ isNew THEN numRegs[m] + 1
                       ELSE numRegs[m]]
      /\ nextRegNum' = IF isNew THEN [nextRegNum EXCEPT ![n] = @ + 1] ELSE nextRegNum

LEMMA RegistersMerged ==
  ASSUME TypeOK, RegisterCount, RegistersLive, WithinSize,
         NEW n \in Nodes, NEW a \in RegIds,
         NEW sources \in SUBSET registers, NEW pulled \in Seq(Qubits),
         <<n, a>> \notin sources,
         \A b, c \in sources : b[1] = c[1] => b = c,
         \/ <<n, a>> \in registers
         \/ a = nextRegNum[n] /\ CanAddRegister(n) /\ \A b \in sources : b[1] # n,
         Merges(n, a, sources, pulled)
  PROVE  /\ registers' \in SUBSET Registers
         /\ regSize' \in [Registers -> Nat]
         /\ numRegs' \in [Nodes -> Nat]
         /\ nextRegNum' \in [Nodes -> 0 .. RegBound]
         /\ RegisterCount' /\ RegistersLive' /\ WithinSize'
<1>1. PICK x \in Registers : x = <<n, a>> /\ x[1] = n /\ x[2] = a
  BY DEF Registers
<1>2. PICK isNew \in BOOLEAN : isNew <=> x \notin registers
  OBVIOUS
<1>3. isNew => a = nextRegNum[n] /\ CanAddRegister(n) /\ \A b \in sources : b[1] # n
  BY <1>1, <1>2
<1>4. Len(pulled) \in Nat
  BY LenProperties
<1>5. registers' = (registers \ sources) \cup {x} /\ registers' \in SUBSET Registers
  BY <1>1 DEF Merges, TypeOK
<1>6. /\ regSize' \in [Registers -> Nat]
      /\ regSize'[x] = (IF isNew THEN RegisterSize ELSE regSize[x]) + Len(pulled)
      /\ \A r \in sources : regSize'[r] = 0
      /\ \A r \in Registers : r # x /\ r \notin sources => regSize'[r] = regSize[r]
  <2>1. regSize' = [r \in Registers |->
                       IF r = x
                       THEN (IF isNew THEN RegisterSize ELSE regSize[r]) + Len(pulled)
                       ELSE IF r \in sources THEN 0 ELSE regSize[r]]
    BY <1>1, <1>2 DEF Merges
  <2>2. (IF isNew THEN RegisterSize ELSE regSize[x]) + Len(pulled) \in Nat
    BY <1>4, ConstantsAssumption DEF TypeOK
  <2>3. sources \subseteq Registers /\ x \notin sources
    BY <1>1 DEF TypeOK
  <2>4. \A r \in Registers : regSize[r] \in Nat
    BY DEF TypeOK
  <2>5. QED
    BY <2>1, <2>2, <2>3, <2>4
<1>7. /\ nextRegNum' \in [Nodes -> 0 .. RegBound]
      /\ \A m \in Nodes : nextRegNum'[m] = IF isNew /\ m = n THEN nextRegNum[m] + 1
                                           ELSE nextRegNum[m]
  <2>1. nextRegNum' = IF isNew THEN [nextRegNum EXCEPT ![n] = @ + 1] ELSE nextRegNum
    BY <1>1, <1>2 DEF Merges
  <2>2. CASE isNew
    BY <1>3, <2>1, <2>2, ConstantsAssumption DEF TypeOK, CanAddRegister
  <2>3. CASE ~ isNew
    BY <2>1, <2>3 DEF TypeOK
  <2>4. QED
    BY <2>2, <2>3
<1>8. /\ numRegs' = [m \in Nodes |->
                       IF m \in {b[1] : b \in sources} THEN numRegs[m] - 1
                       ELSE IF m = n /\ isNew THEN numRegs[m] + 1
                       ELSE numRegs[m]]
  BY <1>1, <1>2 DEF Merges
<1>9. \A m \in Nodes : /\ numRegs'[m] \in Nat
                       /\ numRegs'[m] = Cardinality(RegistersOf(m)')
                       /\ numRegs'[m] <= MaxRegisters
  <2> SUFFICES ASSUME NEW m \in Nodes
               PROVE  /\ numRegs'[m] \in Nat
                      /\ numRegs'[m] = Cardinality(RegistersOf(m)')
                      /\ numRegs'[m] <= MaxRegisters
    OBVIOUS
  <2>1. /\ numRegs[m] \in Nat
        /\ numRegs[m] = Cardinality(RegistersOf(m))
        /\ numRegs[m] <= MaxRegisters
    BY DEF TypeOK, RegisterCount
  <2>2. CASE m \in {b[1] : b \in sources}
    <3>1. PICK b \in sources : b[1] = m
      BY <2>2
    <3>2. b = <<m, b[2]>> /\ b \in registers
      BY <3>1 DEF TypeOK, Registers
    <3>3. m = n => x \in registers
      BY <1>2, <1>3, <3>1
    <3>4. RegistersOf(m)' = RegistersOf(m) \ {<<m, b[2]>>}
      BY <1>1, <1>5, <3>1, <3>2, <3>3 DEF RegistersOf
    <3>5. /\ Cardinality(RegistersOf(m)') = Cardinality(RegistersOf(m)) - 1
          /\ Cardinality(RegistersOf(m)) \in Nat \ {0}
      BY <3>2, <3>4, CountRemoved
    <3>6. numRegs'[m] = numRegs[m] - 1
      BY <1>8, <2>2
    <3>7. QED
      BY <2>1, <3>5, <3>6, ConstantsAssumption
  <2>3. CASE m \notin {b[1] : b \in sources} /\ m = n /\ isNew
    <3>1. \A b \in sources : b[1] # m
      BY <2>3
    <3>2. RegistersOf(n)' = RegistersOf(n) \cup {<<n, a>>}
      BY <1>1, <1>5, <2>3, <3>1 DEF RegistersOf
    <3>3. Cardinality(RegistersOf(n)') = Cardinality(RegistersOf(n)) + 1
      BY <1>1, <1>2, <2>3, <3>2, CountAdded
    <3>4. numRegs'[m] = numRegs[m] + 1 /\ numRegs[m] < MaxRegisters
      BY <1>3, <1>8, <2>3 DEF CanAddRegister
    <3>5. QED
      BY <2>1, <2>3, <3>3, <3>4, ConstantsAssumption
  <2>4. CASE m \notin {b[1] : b \in sources} /\ ~ (m = n /\ isNew)
    <3>1. \A b \in sources : b[1] # m
      BY <2>4
    <3>2. RegistersOf(m)' = RegistersOf(m)
      BY <1>1, <1>2, <1>5, <2>4, <3>1 DEF RegistersOf
    <3>3. numRegs'[m] = numRegs[m]
      BY <1>8, <2>4
    <3>4. QED
      BY <2>1, <3>2, <3>3
  <2>5. QED
    BY <2>2, <2>3, <2>4
<1>10. numRegs' \in [Nodes -> Nat]
  BY <1>8, <1>9
<1>11. RegisterCount'
  BY <1>9 DEF RegisterCount
<1>12. /\ engine'[x] = engine[x] \o pulled
       /\ \A r \in sources : engine'[r] = << >>
       /\ \A r \in Registers : r # x /\ r \notin sources => engine'[r] = engine[r]
  <2>1. sources \subseteq Registers /\ x \notin sources
    BY <1>1 DEF TypeOK
  <2>2. QED
    BY <1>1, <2>1 DEF Merges, Absorbs
<1>13. RegistersLive'
  <2> SUFFICES ASSUME NEW r \in Registers
               PROVE  /\ r \notin registers' => engine'[r] = << >>
                      /\ r \in registers' => r[2] < nextRegNum'[r[1]]
    BY DEF RegistersLive
  <2>1. r \notin registers' => engine'[r] = << >>
    BY <1>5, <1>12 DEF RegistersLive
  <2>2. ASSUME r \in registers PROVE r[2] < nextRegNum'[r[1]]
    <3>1. /\ r[1] \in Nodes /\ r[2] \in Int /\ r[2] < nextRegNum[r[1]]
          /\ nextRegNum[r[1]] \in Int
      BY <2>2 DEF RegistersLive, Registers, RegIds, TypeOK
    <3>2. nextRegNum'[r[1]] = nextRegNum[r[1]] \/ nextRegNum'[r[1]] = nextRegNum[r[1]] + 1
      BY <1>7, <3>1
    <3>3. QED
      BY <3>1, <3>2
  <2>3. ASSUME r = x, isNew PROVE r[2] < nextRegNum'[r[1]]
    <3>1. nextRegNum'[n] = a + 1 /\ a \in Int
      BY <1>3, <1>7, <2>3 DEF RegIds
    <3>2. QED
      BY <1>1, <2>3, <3>1
  <2>4. QED
    BY <1>2, <1>5, <2>1, <2>2, <2>3
<1>14. WithinSize'
  <2> SUFFICES ASSUME NEW r \in Registers PROVE Len(engine'[r]) <= regSize'[r]
    BY DEF WithinSize
  <2>1. CASE r = x
    <3>1. engine[x] \in Seq(Qubits)
      BY DEF TypeOK
    <3>2. Len(engine'[x]) = Len(engine[x]) + Len(pulled) /\ Len(engine[x]) \in Nat
      BY <1>12, <3>1, ConcatProperties, LenProperties
    <3>3. Len(engine[x]) <= IF isNew THEN RegisterSize ELSE regSize[x]
      <4>1. CASE isNew
        <5>1. Len(engine[x]) = 0
          BY <1>2, <4>1 DEF RegistersLive
        <5>2. QED
          BY <4>1, <5>1, ConstantsAssumption
      <4>2. CASE ~ isNew
        BY <4>2 DEF WithinSize
      <4>3. QED
        BY <4>1, <4>2
    <3>4. (IF isNew THEN RegisterSize ELSE regSize[x]) \in Nat
      BY ConstantsAssumption DEF TypeOK
    <3>5. QED
      BY <1>4, <1>6, <2>1, <3>2, <3>3, <3>4
  <2>2. CASE r \in sources
    <3>1. Len(engine'[r]) = 0
      BY <1>12, <2>2
    <3>2. QED
      BY <1>6, <2>2, <3>1
  <2>3. CASE r # x /\ r \notin sources
    BY <1>6, <1>12, <2>3 DEF WithinSize
  <2>4. QED
    BY <2>1, <2>2, <2>3
<1>15. QED
  BY <1>5, <1>6, <1>7, <1>10, <1>11, <1>13, <1>14

(* One register lies in the list of its own qubits from the beginning. *)
LEMMA LayoutOfOne ==
  ASSUME TypeOK, NEW b \in Registers, NEW from, from = [x \in {b} |-> 0]
  PROVE  engine[b] \in Seq(Qubits) /\ Layout({b}, from, engine[b])
<1>1. engine[b] \in Seq(Qubits) /\ Len(engine[b]) \in Nat /\ from[b] = 0
  BY LenProperties DEF TypeOK
<1>2. \A i \in 1 .. Len(engine[b]) : engine[b][from[b] + i] = engine[b][i]
  BY <1>1
<1>3. QED
  BY <1>1, <1>2 DEF Layout

LEMMA LocalMergeStep ==
  ASSUME Consistent, NEW m \in Nodes, NEW a \in RegIds, NEW b \in RegIds, a # b,
         <<m, a>> \in registers, <<m, b>> \in registers,
         LocalMerge(m, a, b), bit' \in [Qubits -> {0, 1}], outcome' \in {0, 1}
  PROVE  Consistent'
<1> DEFINE Relabel(s) == IF s.reg = b
                         THEN [s EXCEPT !.reg = a, !.num = @ + Len(engine[<<m, a>>])] ELSE s
<1>1. PICK x \in registers, y \in registers : x = <<m, a>> /\ y = <<m, b>> /\ x # y
  OBVIOUS
<1>2. PICK pulled \in Seq(Qubits) : pulled = engine[y]
  BY DEF Consistent, TypeOK
<1>3. PICK from : from = [z \in {y} |-> 0]
  OBVIOUS
<1>4. x \in Registers /\ y \in Registers /\ engine[x] \in Seq(Qubits) /\ Len(engine[x]) \in Nat
      /\ Len(pulled) \in Nat
  BY LenProperties DEF Consistent, TypeOK
<1>5. /\ engine' = [engine EXCEPT ![x] = @ \o pulled, ![y] = << >>]
      /\ simQubits' = [simQubits EXCEPT ![m] = {Relabel(s) : s \in @}]
      /\ registers' = registers \ {y}
      /\ regSize' = [regSize EXCEPT ![x] = @ + Len(pulled), ![y] = 0]
      /\ numRegs' = [numRegs EXCEPT ![m] = @ - 1]
      /\ nextRegNum' = nextRegNum /\ virtQubits' = virtQubits
  BY <1>1, <1>2 DEF LocalMerge, Relabelled
<1>6. Absorbs(m, a, {y}, pulled)
  <2>1. engine' = [r \in Registers |->
                     IF r = x THEN engine[r] \o pulled
                     ELSE IF r \in {y} THEN << >> ELSE engine[r]]
    BY <1>1, <1>4, <1>5 DEF Consistent, TypeOK
  <2>2. QED
    BY <1>1, <2>1 DEF Absorbs
<1>7. Merges(m, a, {y}, pulled)
  <2>1. registers' = (registers \ {y}) \cup {<<m, a>>}
    BY <1>1, <1>5
  <2>2. regSize' = [r \in Registers |->
                      IF r = x THEN regSize[r] + Len(pulled)
                      ELSE IF r \in {y} THEN 0 ELSE regSize[r]]
    BY <1>1, <1>4, <1>5 DEF Consistent, TypeOK
  <2>3. numRegs' = [i \in Nodes |->
                      IF i \in {z[1] : z \in {y}} THEN numRegs[i] - 1 ELSE numRegs[i]]
    <3>1. \A i : i \in {z[1] : z \in {y}} <=> i = m
      BY <1>1
    <3>2. numRegs \in [Nodes -> Nat]
      BY DEF Consistent, TypeOK
    <3>3. QED
      BY <1>5, <3>1, <3>2
  <2>4. <<m, a>> \in registers
    OBVIOUS
  <2>5. QED
    BY <1>1, <1>5, <1>6, <2>1, <2>2, <2>3, <2>4 DEF Merges
<1>8. /\ registers' \in SUBSET Registers
      /\ regSize' \in [Registers -> Nat]
      /\ numRegs' \in [Nodes -> Nat]
      /\ nextRegNum' \in [Nodes -> 0 .. RegBound]
      /\ RegisterCount' /\ RegistersLive' /\ WithinSize'
  <2>1. PICK sources \in SUBSET registers : sources = {y}
    OBVIOUS
  <2>2. <<m, a>> \notin sources /\ \A c, d \in sources : c[1] = d[1] => c = d
    BY <1>1, <2>1
  <2>3. Merges(m, a, sources, pulled)
    BY <1>7, <2>1
  <2>4. QED
    BY <2>2, <2>3, RegistersMerged DEF Consistent
<1>9. \A s \in SimQubit : /\ Relabel(s) \in SimQubit
                          /\ Relabel(s).simNum = s.simNum
                          /\ s.reg = b => /\ Relabel(s).reg = a
                                          /\ Relabel(s).num = Len(engine[<<m, a>>]) + 0 + s.num
                          /\ s.reg # b => Relabel(s) = s
  <2> SUFFICES ASSUME NEW s \in SimQubit
               PROVE  /\ Relabel(s) \in SimQubit
                      /\ Relabel(s).simNum = s.simNum
                      /\ s.reg = b => /\ Relabel(s).reg = a
                                      /\ Relabel(s).num = Len(engine[<<m, a>>]) + 0 + s.num
                      /\ s.reg # b => Relabel(s) = s
    OBVIOUS
  <2>1. PICK k \in Nat : k = Len(engine[<<m, a>>])
    BY <1>1, <1>4
  <2>2. CASE s.reg = b
    <3>1. s.num \in Nat /\ s.num + k \in Nat /\ k + 0 + s.num = s.num + k
      BY <2>1 DEF SimQubit
    <3>2. Relabel(s) = [s EXCEPT !.reg = a, !.num = s.num + k]
      BY <2>1, <2>2
    <3>3. /\ Relabel(s) \in SimQubit /\ Relabel(s).simNum = s.simNum
          /\ Relabel(s).reg = a /\ Relabel(s).num = s.num + k
      BY <3>1, <3>2 DEF SimQubit
    <3>4. QED
      BY <2>1, <2>2, <3>1, <3>3
  <2>3. CASE s.reg # b
    BY <2>3
  <2>4. QED
    BY <2>2, <2>3
<1> HIDE DEF Relabel
<1>10. /\ simQubits' \in [Nodes -> SUBSET SimQubit]
       /\ simQubits'[m] = {Relabel(s) : s \in simQubits[m]}
       /\ \A i \in Nodes \ {m} : simQubits'[i] = simQubits[i]
  <2>1. simQubits \in [Nodes -> SUBSET SimQubit]
    BY DEF Consistent, TypeOK
  <2>2. {Relabel(s) : s \in simQubits[m]} \in SUBSET SimQubit
    BY <1>9, <2>1
  <2>3. QED
    BY <1>5, <2>1, <2>2
<1>11. PICK f : f = [z \in Slots |-> <<z[1], IF z[1] = m THEN Relabel(z[2]) ELSE z[2]>>]
  OBVIOUS
<1>12. \A z \in Slots : /\ z[1] \in Nodes /\ z[2] \in simQubits[z[1]] /\ z = <<z[1], z[2]>>
                        /\ z[2] \in SimQubit
  BY DEF Slots, Consistent, TypeOK
<1>13. ASSUME NEW z \in Slots
       PROVE  /\ f[z] \in Slots'
              /\ f[z][1] = z[1]
              /\ f[z][2].simNum = z[2].simNum
              /\ z[1] = m /\ z[2].reg = b =>
                   f[z][2].reg = a /\ f[z][2].num = Len(engine[<<m, a>>]) + 0 + z[2].num
              /\ ~ (z[1] = m /\ z[2].reg = b) => f[z][2] = z[2]
  <2>1. f[z] = <<z[1], IF z[1] = m THEN Relabel(z[2]) ELSE z[2]>>
    BY <1>11
  <2>2. CASE z[1] = m
    <3>1. f[z][1] = m /\ f[z][2] = Relabel(z[2]) /\ f[z] = <<m, f[z][2]>>
      BY <2>1, <2>2
    <3>2. f[z][2] \in simQubits'[m]
      BY <1>10, <1>12, <2>2, <3>1
    <3>3. QED
      BY <1>9, <1>12, <2>2, <3>1, <3>2 DEF Slots
  <2>3. CASE z[1] # m
    <3>1. f[z][1] = z[1] /\ f[z][2] = z[2] /\ f[z] = <<z[1], z[2]>>
      BY <2>1, <2>3
    <3>2. z[1] \in Nodes /\ z[2] \in simQubits'[z[1]]
      BY <1>10, <1>12, <2>3
    <3>3. QED
      BY <2>3, <3>1, <3>2 DEF Slots
  <2>4. QED
    BY <2>2, <2>3
<1>14. \A i \in Nodes : \A s \in simQubits'[i] : \E z \in Slots : f[z] = <<i, s>> /\ z[1] = i
  <2> SUFFICES ASSUME NEW i \in Nodes, NEW s \in simQubits'[i]
               PROVE  \E z \in Slots : f[z] = <<i, s>> /\ z[1] = i
    OBVIOUS
  <2>1. CASE i = m
    <3>1. PICK t \in simQubits[m] : s = Relabel(t)
      BY <1>10, <2>1
    <3>2. PICK z \in Slots : z = <<m, t>> /\ z[1] = m /\ z[2] = t
      BY <3>1, InSlots
    <3>3. f[z] = <<m, Relabel(t)>>
      BY <1>11, <3>2
    <3>4. QED
      BY <2>1, <3>1, <3>2, <3>3
  <2>2. CASE i # m
    <3>1. s \in simQubits[i]
      BY <1>10, <2>2
    <3>2. PICK z \in Slots : z = <<i, s>> /\ z[1] = i /\ z[2] = s
      BY <3>1, InSlots
    <3>3. f[z] = <<i, s>>
      BY <1>11, <2>2, <3>2
    <3>4. QED
      BY <3>2, <3>3
  <2>3. QED
    BY <2>1, <2>2
<1>15. Kept(Slots, f)
  <2>1. f \in [Slots -> Slots']
    <3>1. f = [z \in Slots |-> f[z]]
      BY <1>11
    <3>2. QED
      BY <1>13, <3>1
  <2>2. ASSUME NEW c \in Slots, NEW d \in Slots, f[c] = f[d]
        PROVE  c = d
    <3>1. c[1] = d[1] /\ c[2].simNum = d[2].simNum
      BY <1>13, <2>2
    <3>2. c[2] = d[2]
      BY <1>12, <3>1 DEF Consistent, NumbersUnique
    <3>3. QED
      BY <1>12, <3>1, <3>2
  <2>3. ASSUME NEW z2 \in Slots'
        PROVE  \E z \in Slots : f[z] = z2
    <3>1. PICK i, s : z2 = <<i, s>> /\ i \in Nodes /\ s \in simQubits'[i]
      BY InSlots
    <3>2. QED
      BY <1>14, <3>1
  <2>4. QED
    BY <2>1, <2>2, <2>3 DEF Kept
<1>16. Followed(Slots, f)
  <2>1. ASSUME NEW i \in Nodes, NEW w \in virtQubits[i]
        PROVE  <<w.simNode, SimOf(w)>> \in Slots /\ Follows(w, w, f)
    <3>1. /\ w.simNode \in Nodes /\ SimOf(w) \in simQubits[w.simNode]
          /\ SimOf(w).simNum = w.simNum
      BY SimOfSpec DEF Consistent
    <3>2. PICK z \in Slots : z = <<w.simNode, SimOf(w)>>
      BY <3>1, InSlots
    <3>3. f[z][1] = w.simNode /\ f[z][2].simNum = w.simNum
      BY <1>13, <3>1, <3>2
    <3>4. QED
      BY <3>2, <3>3 DEF Follows
  <2>2. QED
    BY <1>5, <2>1 DEF Followed
<1>17. Relocates(f, m, a, {y}, from)
  <2> SUFFICES ASSUME NEW z \in Slots
               PROVE  LET moves == <<z[1], z[2].reg>> \in {y}
                      IN  /\ moves => /\ f[z][1] = m
                                      /\ f[z][2].reg = a
                                      /\ f[z][2].num = Len(engine[<<m, a>>])
                                                         + from[<<z[1], z[2].reg>>] + z[2].num
                          /\ ~ moves => f[z][1] = z[1] /\ f[z][2].reg = z[2].reg
                                        /\ f[z][2].num = z[2].num
    BY DEF Relocates
  <2>1. <<z[1], z[2].reg>> \in {y} <=> z[1] = m /\ z[2].reg = b
    BY <1>1
  <2>2. <<z[1], z[2].reg>> \in {y} => from[<<z[1], z[2].reg>>] = 0
    BY <1>3
  <2>3. QED
    BY <1>13, <2>1, <2>2
<1>18. \A i \in Nodes : \A s, t \in simQubits'[i] : s.simNum = t.simNum => s = t
  <2> SUFFICES ASSUME NEW i \in Nodes, NEW s \in simQubits'[i], NEW t \in simQubits'[i],
                      s.simNum = t.simNum
               PROVE  s = t
    OBVIOUS
  <2>1. PICK c \in Slots : f[c] = <<i, s>> /\ c[1] = i
    BY <1>14
  <2>2. PICK d \in Slots : f[d] = <<i, t>> /\ d[1] = i
    BY <1>14
  <2>3. c[2].simNum = d[2].simNum
    BY <1>13, <2>1, <2>2
  <2>4. c = d
    BY <1>12, <2>1, <2>2, <2>3 DEF Consistent, NumbersUnique
  <2>5. QED
    BY <2>1, <2>2, <2>4
<1>19. /\ engine' \in [Registers -> Seq(Qubits)]
       /\ Addressing' /\ HeldOnce' /\ SimulatedOnce'
       /\ NumbersUnique' /\ PositionsExact' /\ NoOrphan'
  <2>1. PICK sources \in SUBSET Registers : sources = {y}
    BY <1>4
  <2>2. <<m, a>> \notin sources /\ Layout(sources, from, pulled)
        /\ Absorbs(m, a, sources, pulled) /\ Relocates(f, m, a, sources, from)
    BY <1>1, <1>2, <1>3, <1>4, <1>6, <1>17, <2>1, LayoutOfOne DEF Consistent
  <2>3. virtQubits' \in [Nodes -> SUBSET VirtQubit]
    BY <1>5 DEF Consistent, TypeOK
  <2>4. QED
    BY <1>15, <1>16, <1>18, <2>2, <2>3, Absorbed
<1>20. TypeOK'
  BY <1>5, <1>8, <1>10, <1>19 DEF Consistent, TypeOK
<1>21. QED
  BY <1>8, <1>19, <1>20 DEF Consistent

LEMMA MergeFromStep ==
  ASSUME Consistent, NEW n \in Nodes, NEW a \in RegIds,
         NEW sources \in SUBSET registers, NEW from, DOMAIN from = sources,
         NEW pulled \in Seq(Qubits),
         \A b \in sources : b[1] # n,
         \A b, c \in sources : b[1] = c[1] => b = c,
         Layout(sources, from, pulled),
         <<n, a>> \in registers \/ (a = nextRegNum[n] /\ CanAddRegister(n)),
         MergeFrom(n, a, from, pulled),
         bit' \in [Qubits -> {0, 1}], outcome' \in {0, 1}
  PROVE  Consistent'
<1> DEFINE Place(m, s) == from[<<m, s.reg>>] + s.num
           NewNum(m, s) == NthFree(SimNums(n), from[<<m, s.reg>>] + s.num)
           NewObject(m, s) ==
             [simNum |-> NewNum(m, s), reg |-> a,
              num |-> Len(engine[<<n, a>>]) + from[<<m, s.reg>>] + s.num]
           Moving(m) == {s \in simQubits[m] : <<m, s.reg>> \in DOMAIN from}
           Update(v) ==
             IF SimOf(v) \in Moving(v.simNode)
             THEN [v EXCEPT !.simNode = n, !.simNum = NewNum(v.simNode, SimOf(v))]
             ELSE v
<1>1. /\ Merges(n, a, sources, pulled)
      /\ simQubits' =
           [m \in Nodes |->
              IF m = n
              THEN simQubits[n] \cup UNION {{NewObject(k, s) : s \in Moving(k)} : k \in Nodes}
              ELSE simQubits[m] \ Moving(m)]
      /\ virtQubits' = [m \in Nodes |-> {Update(v) : v \in virtQubits[m]}]
  <2>1. Merges(n, a, DOMAIN from, pulled)
    BY DEF MergeFrom, Merges, Absorbs
  <2>2. simQubits' =
           [m \in Nodes |->
              IF m = n
              THEN simQubits[n] \cup UNION {{NewObject(k, s) : s \in Moving(k)} : k \in Nodes}
              ELSE simQubits[m] \ Moving(m)]
    BY DEF MergeFrom, PulledObject, PulledNum, RegisterOf
  <2>3. virtQubits' = [m \in Nodes |-> {Update(v) : v \in virtQubits[m]}]
    BY DEF MergeFrom, PulledObject, PulledNum, RegisterOf
  <2>4. QED
    BY <2>1, <2>2, <2>3
<1>2. /\ registers' \in SUBSET Registers
      /\ regSize' \in [Registers -> Nat]
      /\ numRegs' \in [Nodes -> Nat]
      /\ nextRegNum' \in [Nodes -> 0 .. RegBound]
      /\ RegisterCount' /\ RegistersLive' /\ WithinSize'
  <2>1. <<n, a>> \notin sources
    OBVIOUS
  <2>2. QED
    BY <1>1, <2>1, RegistersMerged DEF Consistent
<1>3. sources \in SUBSET Registers
  BY DEF Consistent, TypeOK
<1>4. SimNums(n) \in SUBSET Nat /\ IsFiniteSet(SimNums(n))
  BY NumbersFinite DEF Consistent
<1>5. Len(engine[<<n, a>>]) \in Nat
  <2>1. <<n, a>> \in Registers
    BY DEF Registers
  <2>2. QED
    BY <2>1, LenProperties DEF Consistent, TypeOK
(* A qubit that moves. *)
<1>6. ASSUME NEW m \in Nodes, NEW s \in simQubits[m], <<m, s.reg>> \in sources
      PROVE  /\ s \in SimQubit
             /\ m # n
             /\ from[<<m, s.reg>>] \in Nat /\ s.num \in Nat
             /\ Place(m, s) \in Nat
             /\ At(m, s) = pulled[Place(m, s) + 1]
             /\ NewNum(m, s) = NthFree(SimNums(n), Place(m, s))
             /\ NewNum(m, s) \in Nat /\ NewNum(m, s) \notin SimNums(n)
             /\ NewObject(m, s) \in SimQubit
  <2>1. s \in SimQubit /\ s.num \in Nat /\ s.num + 1 \in 1 .. Len(engine[<<m, s.reg>>])
        /\ At(m, s) = engine[<<m, s.reg>>][s.num + 1]
    BY AtPosition DEF Consistent
  <2>2. m # n
    BY <1>6
  <2>3. from[<<m, s.reg>>] \in Nat
        /\ pulled[from[<<m, s.reg>>] + (s.num + 1)] = engine[<<m, s.reg>>][s.num + 1]
    BY <1>6, <2>1 DEF Layout
  <2>4. Place(m, s) \in Nat /\ from[<<m, s.reg>>] + (s.num + 1) = Place(m, s) + 1
    BY <2>1, <2>3
  <2>5. NewNum(m, s) = NthFree(SimNums(n), Place(m, s))
    OBVIOUS
  <2>6. NewNum(m, s) \in Nat /\ NewNum(m, s) \notin SimNums(n)
    BY <1>4, <2>4, <2>5, NthFreeSpec
  <2>7. NewObject(m, s) \in SimQubit
    <3>1. Len(engine[<<n, a>>]) + from[<<m, s.reg>>] + s.num \in Nat
      BY <1>5, <2>1, <2>3
    <3> HIDE DEF NewNum
    <3>2. QED
      BY <2>6, <3>1 DEF SimQubit
  <2>8. QED
    BY <2>1, <2>2, <2>3, <2>4, <2>5, <2>6, <2>7
<1>7. \A m, k : \A s, t :
        /\ m \in Nodes /\ s \in simQubits[m] /\ <<m, s.reg>> \in sources
        /\ k \in Nodes /\ t \in simQubits[k] /\ <<k, t.reg>> \in sources
        /\ NewNum(m, s) = NewNum(k, t)
        => m = k /\ s = t
  <2> SUFFICES ASSUME NEW m \in Nodes, NEW s \in simQubits[m], <<m, s.reg>> \in sources,
                      NEW k \in Nodes, NEW t \in simQubits[k], <<k, t.reg>> \in sources,
                      NewNum(m, s) = NewNum(k, t)
               PROVE  m = k /\ s = t
    OBVIOUS
  <2>1. /\ Place(m, s) \in Nat /\ At(m, s) = pulled[Place(m, s) + 1]
        /\ NewNum(m, s) = NthFree(SimNums(n), Place(m, s))
    BY <1>6
  <2>2. /\ Place(k, t) \in Nat /\ At(k, t) = pulled[Place(k, t) + 1]
        /\ NewNum(k, t) = NthFree(SimNums(n), Place(k, t))
    BY <1>6
  <2> HIDE DEF NewNum, Place
  <2>3. Place(m, s) = Place(k, t)
    BY <1>4, <2>1, <2>2, NthFreeInjective
  <2>4. QED
    BY <2>1, <2>2, <2>3 DEF Consistent, SimulatedOnce
<1>8. \A m, s : /\ NewObject(m, s).simNum = NewNum(m, s)
                /\ NewObject(m, s).reg = a
                /\ NewObject(m, s).num = Len(engine[<<n, a>>]) + from[<<m, s.reg>>] + s.num
  OBVIOUS
<1>9. \A m : \A s : s \in Moving(m) <=> s \in simQubits[m] /\ <<m, s.reg>> \in sources
  OBVIOUS
<1>10. ASSUME NEW m \in Nodes, NEW v \in virtQubits[m]
       PROVE  /\ v \in VirtQubit
              /\ v.simNode \in Nodes /\ SimOf(v) \in simQubits[v.simNode]
              /\ SimOf(v).simNum = v.simNum
              /\ Update(v) \in VirtQubit
              /\ Update(v).num = v.num /\ Update(v).qubit = v.qubit
              /\ <<v.simNode, SimOf(v).reg>> \in sources =>
                   Update(v).simNode = n /\ Update(v).simNum = NewNum(v.simNode, SimOf(v))
              /\ <<v.simNode, SimOf(v).reg>> \notin sources => Update(v) = v
  <2>1. v \in VirtQubit
    BY DEF Consistent, TypeOK
  <2>2. /\ v.simNode \in Nodes /\ SimOf(v) \in simQubits[v.simNode]
        /\ SimOf(v).simNum = v.simNum
    BY SimOfSpec DEF Consistent
  <2> HIDE DEF NewNum
  <2>3. CASE <<v.simNode, SimOf(v).reg>> \in sources
    <3>1. PICK j \in Nat : j = NewNum(v.simNode, SimOf(v))
      BY <1>6, <2>2, <2>3
    <3>2. Update(v) = [v EXCEPT !.simNode = n, !.simNum = j]
      BY <1>9, <2>2, <2>3, <3>1
    <3>3. PICK u : u = Update(v)
      OBVIOUS
    <3> HIDE DEF Update
    <3>4. u \in VirtQubit /\ u.num = v.num /\ u.qubit = v.qubit /\ u.simNode = n /\ u.simNum = j
      BY <2>1, <3>1, <3>2, <3>3 DEF VirtQubit
    <3>5. QED
      BY <2>1, <2>2, <2>3, <3>1, <3>3, <3>4
  <2>4. CASE <<v.simNode, SimOf(v).reg>> \notin sources
    <3>1. Update(v) = v
      BY <1>9, <2>4
    <3> HIDE DEF Update
    <3>2. QED
      BY <2>1, <2>2, <2>4, <3>1
  <2>5. QED
    BY <2>3, <2>4
<1> HIDE DEF Place, NewNum, NewObject, Moving, Update
<1>11. /\ virtQubits' \in [Nodes -> SUBSET VirtQubit]
       /\ \A m \in Nodes : virtQubits'[m] = {Update(v) : v \in virtQubits[m]}
  <2>1. \A m \in Nodes : virtQubits'[m] = {Update(v) : v \in virtQubits[m]}
    BY <1>1
  <2>2. \A m \in Nodes : virtQubits'[m] \in SUBSET VirtQubit
    <3> SUFFICES ASSUME NEW m \in Nodes, NEW w \in virtQubits'[m] PROVE w \in VirtQubit
      OBVIOUS
    <3>1. PICK v \in virtQubits[m] : w = Update(v)
      BY <2>1
    <3>2. QED
      BY <1>10, <3>1
  <2>3. virtQubits' = [m \in Nodes |-> virtQubits'[m]]
    BY <1>1
  <2>4. QED
    BY <2>1, <2>2, <2>3
<1>12. /\ simQubits' \in [Nodes -> SUBSET SimQubit]
       /\ \A m \in Nodes \ {n} : \A s :
            s \in simQubits'[m] <=> s \in simQubits[m] /\ <<m, s.reg>> \notin sources
       /\ \A s : s \in simQubits'[n] <=>
            \/ s \in simQubits[n]
            \/ \E k \in Nodes : \E t \in simQubits[k] :
                 <<k, t.reg>> \in sources /\ s = NewObject(k, t)
  <2>1. simQubits \in [Nodes -> SUBSET SimQubit]
    BY DEF Consistent, TypeOK
  <2>2. \A m \in Nodes \ {n} : simQubits'[m] = simQubits[m] \ Moving(m)
    BY <1>1
  <2>3. simQubits'[n] = simQubits[n] \cup UNION {{NewObject(k, s) : s \in Moving(k)} : k \in Nodes}
    BY <1>1
  <2>4. \A s : s \in simQubits'[n] <=>
            \/ s \in simQubits[n]
            \/ \E k \in Nodes : \E t \in simQubits[k] :
                 <<k, t.reg>> \in sources /\ s = NewObject(k, t)
    <3> SUFFICES ASSUME NEW s
                 PROVE  s \in simQubits'[n] <=>
                          \/ s \in simQubits[n]
                          \/ \E k \in Nodes : \E t \in simQubits[k] :
                               <<k, t.reg>> \in sources /\ s = NewObject(k, t)
      OBVIOUS
    <3>1. s \in UNION {{NewObject(k, t) : t \in Moving(k)} : k \in Nodes} <=>
            \E k \in Nodes : \E t \in Moving(k) : s = NewObject(k, t)
      OBVIOUS
    <3>2. (\E k \in Nodes : \E t \in Moving(k) : s = NewObject(k, t)) <=>
          (\E k \in Nodes : \E t \in simQubits[k] :
             <<k, t.reg>> \in sources /\ s = NewObject(k, t))
      BY <1>9
    <3>3. QED
      BY <2>3, <3>1, <3>2
  <2>5. \A m \in Nodes : simQubits'[m] \in SUBSET SimQubit
    <3>1. simQubits'[n] \in SUBSET SimQubit
      <4> SUFFICES ASSUME NEW s \in simQubits'[n] PROVE s \in SimQubit
        OBVIOUS
      <4>1. CASE s \in simQubits[n]
        BY <2>1, <4>1
      <4>2. CASE \E k \in Nodes : \E t \in simQubits[k] :
                   <<k, t.reg>> \in sources /\ s = NewObject(k, t)
        BY <1>6, <4>2
      <4>3. QED
        BY <2>4, <4>1, <4>2
    <3>2. \A m \in Nodes \ {n} : simQubits'[m] \in SUBSET SimQubit
      BY <2>1, <2>2
    <3>3. QED
      BY <3>1, <3>2
  <2>6. simQubits' = [m \in Nodes |-> simQubits'[m]]
    BY <1>1
  <2>7. simQubits' \in [Nodes -> SUBSET SimQubit]
    BY <2>5, <2>6
  <2>8. QED
    BY <1>9, <2>2, <2>4, <2>7
<1>13. PICK f : f = [z \in Slots |-> IF <<z[1], z[2].reg>> \in sources
                                     THEN <<n, NewObject(z[1], z[2])>> ELSE z]
  OBVIOUS
<1>14. ASSUME NEW z \in Slots
       PROVE  /\ f[z] \in Slots'
              /\ <<z[1], z[2].reg>> \in sources =>
                   /\ f[z] = <<n, NewObject(z[1], z[2])>>
                   /\ f[z][1] = n /\ f[z][2] = NewObject(z[1], z[2])
              /\ <<z[1], z[2].reg>> \notin sources => f[z] = z
  <2>1. PICK m, s : z = <<m, s>> /\ z[1] = m /\ z[2] = s /\ m \in Nodes /\ s \in simQubits[m]
    BY InSlots
  <2>2. CASE <<m, s.reg>> \in sources
    <3>1. f[z] = <<n, NewObject(m, s)>>
      BY <1>13, <2>1, <2>2
    <3>2. NewObject(m, s) \in simQubits'[n]
      BY <1>12, <2>1, <2>2
    <3>3. f[z] \in Slots'
      BY <3>1, <3>2, InSlots
    <3>4. QED
      BY <2>1, <2>2, <3>1, <3>3
  <2>3. CASE <<m, s.reg>> \notin sources
    <3>1. f[z] = <<m, s>>
      BY <1>13, <2>1, <2>3
    <3>2. s \in simQubits'[m]
      BY <1>12, <2>1, <2>3
    <3>3. f[z] \in Slots'
      BY <2>1, <3>1, <3>2, InSlots
    <3>4. QED
      BY <2>1, <2>3, <3>1, <3>3
  <2>4. QED
    BY <2>2, <2>3
<1>15. \A i \in Nodes : \A s \in simQubits'[i] : \E z \in Slots :
         /\ f[z] = <<i, s>>
         /\ \/ <<z[1], z[2].reg>> \in sources /\ i = n /\ s = NewObject(z[1], z[2])
            \/ <<z[1], z[2].reg>> \notin sources /\ z = <<i, s>> /\ s \in simQubits[i]
  <2> SUFFICES ASSUME NEW i \in Nodes, NEW s \in simQubits'[i]
               PROVE  \E z \in Slots :
                        /\ f[z] = <<i, s>>
                        /\ \/ <<z[1], z[2].reg>> \in sources /\ i = n
                              /\ s = NewObject(z[1], z[2])
                           \/ <<z[1], z[2].reg>> \notin sources /\ z = <<i, s>>
                              /\ s \in simQubits[i]
    OBVIOUS
  <2>1. CASE s \in simQubits[i] /\ <<i, s.reg>> \notin sources
    <3>1. <<i, s>> \in Slots
      BY <2>1, InSlots
    <3>2. PICK z \in Slots : z = <<i, s>> /\ z[1] = i /\ z[2] = s
      BY <3>1
    <3>3. QED
      BY <1>14, <2>1, <3>2
  <2>2. CASE i = n /\ \E k \in Nodes : \E t \in simQubits[k] :
                        <<k, t.reg>> \in sources /\ s = NewObject(k, t)
    <3>1. PICK k \in Nodes : \E t \in simQubits[k] :
                               <<k, t.reg>> \in sources /\ s = NewObject(k, t)
      BY <2>2
    <3>2. PICK t \in simQubits[k] : <<k, t.reg>> \in sources /\ s = NewObject(k, t)
      BY <3>1
    <3>3. PICK z \in Slots : z = <<k, t>> /\ z[1] = k /\ z[2] = t
      BY InSlots
    <3>4. QED
      BY <1>14, <2>2, <3>2, <3>3
  <2>3. <<n, s.reg>> \notin sources
    OBVIOUS
  <2>4. CASE i # n
    <3>1. s \in simQubits[i] /\ <<i, s.reg>> \notin sources
      BY <1>12, <2>4
    <3>2. QED
      BY <2>1, <3>1
  <2>5. CASE i = n
    <3>1. \/ s \in simQubits[n]
          \/ \E k \in Nodes : \E t \in simQubits[k] :
               <<k, t.reg>> \in sources /\ s = NewObject(k, t)
      BY <1>12, <2>5
    <3>2. CASE s \in simQubits[n]
      BY <2>1, <2>3, <2>5, <3>2
    <3>3. CASE \E k \in Nodes : \E t \in simQubits[k] :
                 <<k, t.reg>> \in sources /\ s = NewObject(k, t)
      BY <2>2, <2>5, <3>3
    <3>4. QED
      BY <3>1, <3>2, <3>3
  <2>6. QED
    BY <2>4, <2>5
<1>16. \A i \in Nodes : \A s \in simQubits[i] : s.simNum \in SimNums(i)
  BY DEF SimNums
<1>17. Kept(Slots, f)
  <2>1. f \in [Slots -> Slots']
    <3>1. f = [z \in Slots |-> f[z]]
      BY <1>13
    <3>2. QED
      BY <1>14, <3>1
  <2>2. ASSUME NEW c \in Slots, NEW d \in Slots, f[c] = f[d]
        PROVE  c = d
    <3>1. /\ c[1] \in Nodes /\ c[2] \in simQubits[c[1]] /\ c = <<c[1], c[2]>>
          /\ d[1] \in Nodes /\ d[2] \in simQubits[d[1]] /\ d = <<d[1], d[2]>>
      BY InSlots
    <3>2. CASE <<c[1], c[2].reg>> \in sources /\ <<d[1], d[2].reg>> \in sources
      <4>1. NewObject(c[1], c[2]).simNum = NewObject(d[1], d[2]).simNum
        BY <1>14, <2>2, <3>2
      <4>2. NewNum(c[1], c[2]) = NewNum(d[1], d[2])
        BY <1>8, <4>1
      <4>3. PICK m \in Nodes, s \in SimQubit :
              s \in simQubits[m] /\ c[1] = m /\ c[2] = s /\ <<m, s.reg>> \in sources
        BY <1>6, <3>1, <3>2
      <4>4. PICK k \in Nodes, t \in SimQubit :
              t \in simQubits[k] /\ d[1] = k /\ d[2] = t /\ <<k, t.reg>> \in sources
        BY <1>6, <3>1, <3>2
      <4>5. NewNum(m, s) = NewNum(k, t)
        BY <4>2, <4>3, <4>4
      <4>6. m = k /\ s = t
        BY <1>7, <4>3, <4>4, <4>5
      <4>7. c[1] = d[1] /\ c[2] = d[2]
        BY <4>3, <4>4, <4>6
      <4>8. QED
        BY <3>1, <4>7
    <3>3. CASE <<c[1], c[2].reg>> \notin sources /\ <<d[1], d[2].reg>> \notin sources
      BY <1>14, <2>2, <3>3
    <3>4. ASSUME NEW g \in Slots, NEW h \in Slots, f[g] = f[h],
                 <<g[1], g[2].reg>> \in sources, <<h[1], h[2].reg>> \notin sources
          PROVE  FALSE
      <4>1. /\ g[1] \in Nodes /\ g[2] \in simQubits[g[1]]
            /\ h[1] \in Nodes /\ h[2] \in simQubits[h[1]]
        BY InSlots
      <4>2. h[1] = n /\ h[2] = NewObject(g[1], g[2])
        BY <1>14, <3>4
      <4>3. h[2].simNum = NewNum(g[1], g[2])
        BY <1>8, <4>2
      <4>4. NewNum(g[1], g[2]) \notin SimNums(n)
        BY <1>6, <3>4, <4>1
      <4>5. QED
        BY <1>16, <4>1, <4>2, <4>3, <4>4
    <3>5. QED
      BY <2>2, <3>2, <3>3, <3>4
  <2>3. ASSUME NEW z2 \in Slots'
        PROVE  \E z \in Slots : f[z] = z2
    <3>1. PICK i, s : z2 = <<i, s>> /\ i \in Nodes /\ s \in simQubits'[i]
      BY InSlots
    <3>2. QED
      BY <1>15, <3>1
  <2>4. QED
    BY <2>1, <2>2, <2>3 DEF Kept
<1>18. Followed(Slots, f)
  <2>1. ASSUME NEW i \in Nodes, NEW w \in virtQubits[i]
        PROVE  <<w.simNode, SimOf(w)>> \in Slots /\ Follows(Update(w), w, f)
    <3>1. /\ w.simNode \in Nodes /\ SimOf(w) \in simQubits[w.simNode]
          /\ SimOf(w).simNum = w.simNum
          /\ Update(w).num = w.num /\ Update(w).qubit = w.qubit
          /\ <<w.simNode, SimOf(w).reg>> \in sources =>
               Update(w).simNode = n /\ Update(w).simNum = NewNum(w.simNode, SimOf(w))
          /\ <<w.simNode, SimOf(w).reg>> \notin sources => Update(w) = w
      BY <1>10
    <3>2. <<w.simNode, SimOf(w)>> \in Slots
      BY <3>1, InSlots
    <3>3. PICK z \in Slots : z = <<w.simNode, SimOf(w)>> /\ z[1] = w.simNode /\ z[2] = SimOf(w)
      BY <3>2
    <3>4. Update(w).simNode = f[z][1] /\ Update(w).simNum = f[z][2].simNum
      <4>1. CASE <<w.simNode, SimOf(w).reg>> \in sources
        <5>1. f[z][1] = n /\ f[z][2] = NewObject(w.simNode, SimOf(w))
          BY <1>14, <3>3, <4>1
        <5>2. QED
          BY <1>8, <3>1, <4>1, <5>1
      <4>2. CASE <<w.simNode, SimOf(w).reg>> \notin sources
        <5>1. f[z] = z
          BY <1>14, <3>3, <4>2
        <5>2. QED
          BY <3>1, <3>3, <4>2, <5>1
      <4>3. QED
        BY <4>1, <4>2
    <3>5. QED
      BY <3>1, <3>2, <3>3, <3>4 DEF Follows
  <2>2. QED
    BY <1>11, <2>1 DEF Followed
<1>19. Relocates(f, n, a, sources, from)
  <2> SUFFICES ASSUME NEW z \in Slots
               PROVE  LET moves == <<z[1], z[2].reg>> \in sources
                      IN  /\ moves => /\ f[z][1] = n
                                      /\ f[z][2].reg = a
                                      /\ f[z][2].num = Len(engine[<<n, a>>])
                                                         + from[<<z[1], z[2].reg>>] + z[2].num
                          /\ ~ moves => f[z][1] = z[1] /\ f[z][2].reg = z[2].reg
                                        /\ f[z][2].num = z[2].num
    BY DEF Relocates
  <2>1. CASE <<z[1], z[2].reg>> \in sources
    <3>1. f[z][1] = n /\ f[z][2] = NewObject(z[1], z[2])
      BY <1>14, <2>1
    <3>2. QED
      BY <1>8, <2>1, <3>1
  <2>2. CASE <<z[1], z[2].reg>> \notin sources
    <3>1. f[z] = z
      BY <1>14, <2>2
    <3>2. QED
      BY <2>2, <3>1
  <2>3. QED
    BY <2>1, <2>2
<1>20. \A i \in Nodes : \A s, t \in simQubits'[i] : s.simNum = t.simNum => s = t
  <2> SUFFICES ASSUME NEW i \in Nodes, NEW s \in simQubits'[i], NEW t \in simQubits'[i],
                      s.simNum = t.simNum
               PROVE  s = t
    OBVIOUS
  <2>1. \/ s \in simQubits[i]
        \/ i = n /\ \E k \in Nodes : \E u \in simQubits[k] :
             <<k, u.reg>> \in sources /\ s = NewObject(k, u)
    BY <1>12
  <2>2. \/ t \in simQubits[i]
        \/ i = n /\ \E k \in Nodes : \E u \in simQubits[k] :
             <<k, u.reg>> \in sources /\ t = NewObject(k, u)
    BY <1>12
  <2>3. ASSUME NEW k \in Nodes, NEW u \in simQubits[k], <<k, u.reg>> \in sources,
               NEW g \in simQubits[n]
        PROVE  NewObject(k, u).simNum # g.simNum
    BY <1>6, <1>8, <1>16, <2>3
  <2>4. ASSUME NEW k \in Nodes, NEW u \in simQubits[k], <<k, u.reg>> \in sources,
               NEW g \in Nodes, NEW h \in simQubits[g], <<g, h.reg>> \in sources,
               NewObject(k, u).simNum = NewObject(g, h).simNum
        PROVE  NewObject(k, u) = NewObject(g, h)
    <3>1. NewNum(k, u) = NewNum(g, h)
      BY <1>8, <2>4
    <3>2. k = g /\ u = h
      BY <1>7, <2>4, <3>1
    <3>3. QED
      BY <3>2
  <2>5. CASE s \in simQubits[i] /\ t \in simQubits[i]
    BY <2>5 DEF Consistent, NumbersUnique
  <2>6. CASE ~ (s \in simQubits[i] /\ t \in simQubits[i])
    <3>1. CASE s \notin simQubits[i] /\ t \notin simQubits[i]
      <4>1. PICK k \in Nodes : \E u \in simQubits[k] :
                                 <<k, u.reg>> \in sources /\ s = NewObject(k, u)
        BY <2>1, <3>1
      <4>2. PICK u \in simQubits[k] : <<k, u.reg>> \in sources /\ s = NewObject(k, u)
        BY <4>1
      <4>3. PICK g \in Nodes : \E h \in simQubits[g] :
                                 <<g, h.reg>> \in sources /\ t = NewObject(g, h)
        BY <2>2, <3>1
      <4>4. PICK h \in simQubits[g] : <<g, h.reg>> \in sources /\ t = NewObject(g, h)
        BY <4>3
      <4>5. QED
        BY <2>4, <4>2, <4>4
    <3>2. CASE s \in simQubits[i] /\ t \notin simQubits[i]
      <4>1. PICK k \in Nodes : \E u \in simQubits[k] :
                                 <<k, u.reg>> \in sources /\ t = NewObject(k, u)
        BY <2>2, <3>2
      <4>2. PICK u \in simQubits[k] : <<k, u.reg>> \in sources /\ t = NewObject(k, u)
        BY <4>1
      <4>3. i = n
        BY <2>2, <3>2
      <4>4. QED
        BY <2>3, <3>2, <4>2, <4>3
    <3>3. CASE s \notin simQubits[i] /\ t \in simQubits[i]
      <4>1. PICK k \in Nodes : \E u \in simQubits[k] :
                                 <<k, u.reg>> \in sources /\ s = NewObject(k, u)
        BY <2>1, <3>3
      <4>2. PICK u \in simQubits[k] : <<k, u.reg>> \in sources /\ s = NewObject(k, u)
        BY <4>1
      <4>3. i = n
        BY <2>1, <3>3
      <4>4. QED
        BY <2>3, <3>3, <4>2, <4>3
    <3>4. QED
      BY <2>6, <3>1, <3>2, <3>3
  <2>7. QED
    BY <2>5, <2>6
<1>21. /\ engine' \in [Registers -> Seq(Qubits)]
       /\ Addressing' /\ HeldOnce' /\ SimulatedOnce'
       /\ NumbersUnique' /\ PositionsExact' /\ NoOrphan'
  <2>1. Absorbs(n, a, sources, pulled)
    BY <1>1 DEF Merges
  <2>2. PICK all \in SUBSET Registers : all = sources
    BY <1>3
  <2>3. <<n, a>> \notin all
    BY <2>2
  <2>4. QED
    BY <1>11, <1>17, <1>18, <1>19, <1>20, <2>1, <2>2, <2>3, Absorbed
<1>22. TypeOK'
  BY <1>2, <1>11, <1>12, <1>21 DEF Consistent, TypeOK
<1>23. QED
  BY <1>2, <1>21, <1>22 DEF Consistent

(* The register of a virtual qubit is in the dictionary of its node. *)
LEMMA RegisterOfHeld ==
  ASSUME Consistent, NEW n \in Nodes, NEW v \in virtQubits[n]
  PROVE  /\ v.simNode \in Nodes
         /\ SimOf(v).reg \in RegIds
         /\ RegisterOf(v) = <<v.simNode, SimOf(v).reg>>
         /\ RegisterOf(v) \in registers
<1>1. v.simNode \in Nodes /\ SimOf(v) \in simQubits[v.simNode]
  BY SimOfSpec DEF Consistent
<1>2. PICK r : r = <<v.simNode, SimOf(v).reg>>
  OBVIOUS
<1>3. /\ SimOf(v) \in SimQubit
      /\ r \in Registers /\ engine[r] \in Seq(Qubits)
      /\ SimOf(v).num \in Nat /\ SimOf(v).num < Len(engine[r])
  BY <1>1, <1>2, AtPosition DEF Consistent
<1>4. engine[r] # << >>
  <2>1. Len(engine[r]) # 0
    BY <1>3, LenProperties
  <2>2. QED
    BY <2>1, EmptySeq
<1>5. r \in registers
  BY <1>3, <1>4 DEF Consistent, RegistersLive
<1>6. QED
  BY <1>1, <1>2, <1>3, <1>5 DEF RegisterOf, SimQubit

LEMMA GateLocalMergeStep ==
  ASSUME Consistent, NEW n \in Nodes, NEW v \in virtQubits[n], NEW w \in virtQubits[n],
         GateLocalMerge(n, v, w)
  PROVE  Consistent'
<1>1. PICK m \in Nodes, a \in RegIds, b \in RegIds :
        /\ m = v.simNode /\ m = w.simNode /\ a = SimOf(v).reg /\ b = SimOf(w).reg /\ a # b
        /\ <<m, a>> \in registers /\ <<m, b>> \in registers
  BY RegisterOfHeld DEF GateLocalMerge
<1>2. LocalMerge(m, a, b)
  BY <1>1 DEF GateLocalMerge
<1>3. bit' \in [Qubits -> {0, 1}]
  BY ApplyCnotType DEF GateLocalMerge, Consistent, TypeOK
<1>4. outcome' \in {0, 1}
  BY DEF GateLocalMerge, Consistent, TypeOK
<1>5. QED
  BY <1>1, <1>2, <1>3, <1>4, LocalMergeStep

(* One register b is pulled to node n and absorbed by register a there. *)
LEMMA PullOne ==
  ASSUME Consistent, NEW n \in Nodes, NEW a \in RegIds, NEW b \in registers,
         <<n, a>> \in registers, b[1] # n,
         MergeFrom(n, a, [x \in {b} |-> 0], engine[b]),
         bit' \in [Qubits -> {0, 1}], outcome' \in {0, 1}
  PROVE  Consistent'
<1>1. PICK from : from = [x \in {b} |-> 0]
  OBVIOUS
<1>2. b \in Registers
  BY DEF Consistent, TypeOK
<1>3. engine[b] \in Seq(Qubits) /\ Layout({b}, from, engine[b])
  BY <1>1, <1>2, LayoutOfOne DEF Consistent
<1>4. PICK pulled \in Seq(Qubits) : pulled = engine[b]
  BY <1>3
<1>5. PICK sources \in SUBSET registers : sources = {b}
  OBVIOUS
<1>6. /\ DOMAIN from = sources
      /\ \A c \in sources : c[1] # n
      /\ \A c, d \in sources : c[1] = d[1] => c = d
      /\ Layout(sources, from, pulled)
      /\ MergeFrom(n, a, from, pulled)
  BY <1>1, <1>3, <1>4, <1>5
<1>7. QED
  BY <1>6, MergeFromStep

LEMMA GatePullTargetStep ==
  ASSUME Consistent, NEW n \in Nodes, NEW v \in virtQubits[n], NEW w \in virtQubits[n],
         GatePullTarget(n, v, w)
  PROVE  Consistent'
<1>1. PICK a \in RegIds, b \in registers :
        a = SimOf(v).reg /\ b = RegisterOf(w) /\ <<n, a>> \in registers /\ b[1] # n
  BY RegisterOfHeld DEF GatePullTarget
<1>2. MergeFrom(n, a, [x \in {b} |-> 0], engine[b])
  BY <1>1 DEF GatePullTarget
<1>3. bit' \in [Qubits -> {0, 1}]
  BY ApplyCnotType DEF GatePullTarget, Consistent, TypeOK
<1>4. outcome' \in {0, 1}
  BY DEF GatePullTarget, Consistent, TypeOK
<1>5. QED
  BY <1>1, <1>2, <1>3, <1>4, PullOne

LEMMA GatePullControlStep ==
  ASSUME Consistent, NEW n \in Nodes, NEW v \in virtQubits[n], NEW w \in virtQubits[n],
         GatePullControl(n, v, w)
  PROVE  Consistent'
<1>1. PICK a \in RegIds, b \in registers :
        a = SimOf(w).reg /\ b = RegisterOf(v) /\ <<n, a>> \in registers /\ b[1] # n
  BY RegisterOfHeld DEF GatePullControl
<1>2. MergeFrom(n, a, [x \in {b} |-> 0], engine[b])
  BY <1>1 DEF GatePullControl
<1>3. bit' \in [Qubits -> {0, 1}]
  BY ApplyCnotType DEF GatePullControl, Consistent, TypeOK
<1>4. outcome' \in {0, 1}
  BY DEF GatePullControl, Consistent, TypeOK
<1>5. QED
  BY <1>1, <1>2, <1>3, <1>4, PullOne

(* Two registers lie in the list of their qubits one behind the other. *)
LEMMA LayoutOfTwo ==
  ASSUME TypeOK, NEW b \in Registers, NEW c \in Registers, b # c, NEW from,
         from = [x \in {b, c} |-> IF x = b THEN 0 ELSE Len(engine[b])]
  PROVE  /\ engine[b] \o engine[c] \in Seq(Qubits)
         /\ Layout({b, c}, from, engine[b] \o engine[c])
<1>1. /\ engine[b] \in Seq(Qubits) /\ engine[c] \in Seq(Qubits)
      /\ Len(engine[b]) \in Nat /\ Len(engine[c]) \in Nat
  BY LenProperties DEF TypeOK
<1>2. PICK all : all = engine[b] \o engine[c]
  OBVIOUS
<1>3. PICK k \in Nat, l \in Nat : k = Len(engine[b]) /\ l = Len(engine[c])
  BY <1>1
<1>4. /\ all \in Seq(Qubits)
      /\ Len(all) = k + l
      /\ \A i \in 1 .. (k + l) : all[i] = IF i <= k THEN engine[b][i] ELSE engine[c][i - k]
  BY <1>1, <1>2, <1>3, ConcatProperties
<1>5. from[b] = 0 /\ from[c] = k
  BY <1>3
<1>6. \A i \in 1 .. k : all[0 + i] = engine[b][i]
  <2> SUFFICES ASSUME NEW i \in 1 .. k PROVE all[0 + i] = engine[b][i]
    OBVIOUS
  <2>1. 0 + i = i /\ i \in 1 .. (k + l) /\ i <= k
    OBVIOUS
  <2>2. QED
    BY <1>4, <2>1
<1>7. \A i \in 1 .. l : all[k + i] = engine[c][i]
  <2> SUFFICES ASSUME NEW i \in 1 .. l PROVE all[k + i] = engine[c][i]
    OBVIOUS
  <2>1. k + i \in 1 .. (k + l) /\ ~ (k + i <= k) /\ (k + i) - k = i
    OBVIOUS
  <2>2. all[k + i] = engine[c][(k + i) - k]
    BY <1>4, <2>1
  <2>3. QED
    BY <2>1, <2>2
<1>8. ASSUME NEW j \in Nat, j < Len(all)
      PROVE  \E x \in {b, c} : from[x] <= j /\ j < from[x] + Len(engine[x])
  <2>1. CASE j < k
    <3>1. from[b] <= j /\ j < from[b] + Len(engine[b])
      BY <1>5, <1>3, <2>1
    <3>2. QED
      BY <3>1
  <2>2. CASE ~ (j < k)
    <3>1. k <= j /\ j < k + l
      BY <1>4, <1>8, <2>2
    <3>2. from[c] <= j /\ j < from[c] + Len(engine[c])
      BY <1>5, <1>3, <3>1
    <3>3. QED
      BY <3>2
  <2>3. QED
    BY <2>1, <2>2
<1>9. \A x \in {b, c} : /\ from[x] \in Nat
                        /\ from[x] + Len(engine[x]) <= Len(all)
                        /\ \A i \in 1 .. Len(engine[x]) : all[from[x] + i] = engine[x][i]
  <2>1. /\ 0 \in Nat /\ 0 + k <= k + l /\ k + l <= k + l
    OBVIOUS
  <2>2. /\ from[b] \in Nat /\ from[b] + Len(engine[b]) <= Len(all)
        /\ \A i \in 1 .. Len(engine[b]) : all[from[b] + i] = engine[b][i]
    BY <1>4, <1>5, <1>6, <1>3, <2>1
  <2>3. /\ from[c] \in Nat /\ from[c] + Len(engine[c]) <= Len(all)
        /\ \A i \in 1 .. Len(engine[c]) : all[from[c] + i] = engine[c][i]
    BY <1>4, <1>5, <1>7, <1>3, <2>1
  <2>4. QED
    BY <2>2, <2>3
<1>10. QED
  BY <1>2, <1>4, <1>8, <1>9 DEF Layout

LEMMA GatePullBothStep ==
  ASSUME Consistent, NEW n \in Nodes, NEW v \in virtQubits[n], NEW w \in virtQubits[n],
         GatePullBoth(n, v, w)
  PROVE  Consistent'
<1>1. PICK b \in registers, c \in registers :
        /\ b = RegisterOf(v) /\ c = RegisterOf(w)
        /\ b[1] # n /\ c[1] # n /\ b[1] # c[1] /\ b # c
  BY RegisterOfHeld DEF GatePullBoth
<1>2. PICK a \in RegIds : a = nextRegNum[n] /\ CanAddRegister(n)
  BY FreshRegister DEF GatePullBoth, Consistent
<1>3. PICK from : from = [x \in {b, c} |-> IF x = b THEN 0 ELSE Len(engine[b])]
  OBVIOUS
<1>4. b \in Registers /\ c \in Registers
  BY DEF Consistent, TypeOK
<1>5. /\ engine[b] \o engine[c] \in Seq(Qubits)
      /\ Layout({b, c}, from, engine[b] \o engine[c])
  BY <1>1, <1>3, <1>4, LayoutOfTwo DEF Consistent
<1>6. PICK pulled \in Seq(Qubits) : pulled = engine[b] \o engine[c]
  BY <1>5
<1>7. PICK sources \in SUBSET registers : sources = {b, c}
  OBVIOUS
<1>8. MergeFrom(n, a, from, pulled)
  BY <1>1, <1>2, <1>3, <1>6 DEF GatePullBoth
<1>9. /\ DOMAIN from = sources
      /\ \A x \in sources : x[1] # n
      /\ \A x, y \in sources : x[1] = y[1] => x = y
      /\ Layout(sources, from, pulled)
  BY <1>1, <1>3, <1>5, <1>6, <1>7
<1>10. bit' \in [Qubits -> {0, 1}]
  BY ApplyCnotType DEF GatePullBoth, Consistent, TypeOK
<1>11. outcome' \in {0, 1}
  BY DEF GatePullBoth, Consistent, TypeOK
<1>12. QED
  BY <1>2, <1>8, <1>9, <1>10, <1>11, MergeFromStep

-----------------------------------------------------------------------------
(* The theorems.                                                           *)

LEMMA InitConsistent == Init => Consistent
<1> SUFFICES ASSUME Init PROVE Consistent
  OBVIOUS
<1>1. << >> \in Seq(Qubits) /\ Len(<< >>) = 0
  BY EmptySeq
<1>2. TypeOK
  BY <1>1, ConstantsAssumption DEF Init, TypeOK
<1>3. /\ Addressing /\ HeldOnce /\ SimulatedOnce /\ NumbersUnique /\ NoOrphan
  BY DEF Init, Addressing, HeldOnce, SimulatedOnce, NumbersUnique, NoOrphan
<1>4. PositionsExact
  BY <1>1 DEF Init, PositionsExact, Registers
<1>5. RegisterCount
  <2>1. \A n \in Nodes : RegistersOf(n) = {}
    BY DEF Init, RegistersOf
  <2>2. QED
    <3>1. Cardinality({}) = 0 /\ 0 <= MaxRegisters
      BY FS_EmptySet, ConstantsAssumption
    <3>2. QED
      BY <2>1, <3>1 DEF Init, RegisterCount
<1>6. RegistersLive /\ WithinSize
  BY <1>1 DEF Init, RegistersLive, WithinSize
<1>7. QED
  BY <1>2, <1>3, <1>4, <1>5, <1>6 DEF Consistent

LEMMA NextConsistent == Consistent /\ [Next]_vars => Consistent'
<1> SUFFICES ASSUME Consistent, [Next]_vars PROVE Consistent'
  OBVIOUS
<1>1. CASE Create
  <2>1. PICK n \in Nodes :
          \/ NewRegister(n)
          \/ \E q \in Qubits \ Held :
               \/ \E ignoreMax \in BOOLEAN : NewQubit(n, q, ignoreMax)
               \/ \E r \in RegIds : NewQubitInReg(n, q, r)
    BY <1>1 DEF Create
  <2>2. QED
    BY <2>1, NewRegisterStep, NewQubitStep, NewQubitInRegStep
<1>2. CASE Operate
  <2>1. PICK n \in Nodes : \E v \in virtQubits[n] :
          \/ SingleGate(n, v)
          \/ MeasureInPlace(n, v)
          \/ Measure(n, v)
          \/ \E m \in Nodes : SendQubit(n, v, m)
    BY <1>2 DEF Operate
  <2>2. QED
    BY <2>1, SingleGateStep, MeasureInPlaceStep, MeasureStep, SendQubitStep
<1>3. CASE Entangle
  <2>1. PICK n \in Nodes : \E v, w \in virtQubits[n] :
          \/ GateInRegister(n, v, w)
          \/ GateLocalMerge(n, v, w)
          \/ GatePullTarget(n, v, w)
          \/ GatePullControl(n, v, w)
          \/ GatePullBoth(n, v, w)
    BY <1>3 DEF Entangle, TwoQubitGate
  <2>2. QED
    BY <2>1, GateInRegisterStep, GateLocalMergeStep, GatePullTargetStep,
       GatePullControlStep, GatePullBothStep
<1>4. CASE UNCHANGED vars
  <2>1. UNCHANGED nodeVars /\ UNCHANGED regVars /\ bit' = bit /\ outcome' = outcome
    BY <1>4 DEF vars, nodeVars, regVars
  <2>2. QED
    BY <2>1, OnlyState DEF Consistent, TypeOK
<1>5. QED
  BY <1>1, <1>2, <1>3, <1>4 DEF Next

(* The book-keeping is consistent in every reachable state: for any number of
   nodes, any finite number of qubits and any limits, whatever is created,
   sent, measured and merged in whatever order. *)
THEOREM AlwaysConsistent == Spec => []Consistent
BY InitConsistent, NextConsistent, PTL DEF Spec

(* The parts of it that the runs check.  First the types. *)
THEOREM TypeCorrect == Spec => []TypeOK
<1>1. Consistent => TypeOK
  BY DEF Consistent
<1>2. QED
  BY <1>1, AlwaysConsistent, PTL

(* The position a virtual qubit leads to holds the qubit the application
   means by it, so gates and measurements act on the right qubit. *)
THEOREM AddressesRightQubit == Spec => []Addressing
<1>1. Consistent => Addressing
  BY DEF Consistent
<1>2. QED
  BY <1>1, AlwaysConsistent, PTL

(* A qubit is held by one node, as one virtual qubit: send_qubit hands it over
   and does not copy it. *)
THEOREM NeverCopied == Spec => []HeldOnce
<1>1. Consistent => HeldOnce
  BY DEF Consistent
<1>2. QED
  BY <1>1, AlwaysConsistent, PTL

(* A qubit that is held is simulated at one node, as one simulated qubit, and
   nothing else is simulated: merging and measuring neither copy nor forget
   simulated qubits. *)
THEOREM SimulatedExactly == Spec => []SimulationExact
<1>1. Consistent => SimulationExact
  BY DEF Consistent, SimulationExact
<1>2. QED
  BY <1>1, AlwaysConsistent, PTL

(* Numbers are never ambiguous at a node: a look-up by number finds the one
   object that is meant. *)
THEOREM NumberedUniquely == Spec => []NumbersUnique
<1>1. Consistent => NumbersUnique
  BY DEF Consistent
<1>2. QED
  BY <1>1, AlwaysConsistent, PTL

(* The count of registers, kept by hand, is right and within its limit. *)
THEOREM RegistersInBounds == Spec => []RegisterCount
<1>1. Consistent => RegisterCount
  BY DEF Consistent
<1>2. QED
  BY <1>1, AlwaysConsistent, PTL

(* The positions of a register are taken without gaps, qubits are in registers
   that exist, and no register outgrows its engine: renumbering after a
   measurement, the offsets of merges and the raised sizes are exact. *)
THEOREM BooksMatchEngines == Spec => []EnginesExact
<1>1. Consistent => EnginesExact
  BY DEF Consistent, EnginesExact
<1>2. QED
  BY <1>1, AlwaysConsistent, PTL

-----------------------------------------------------------------------------
(* The refinement: the book-keeping of the virtual nodes implements a      *)
(* network of qubits (the theorems behind ImplementsNetwork and            *)
(* ActsAsAsked).                                                           *)

(* Where a qubit is, as a function of the lists of the nodes.              *)

Holds(virt, n, q) == \E v \in virt[n] : v.qubit = q

HomeIn(virt) ==
  [q \in Qubits |-> IF \E n \in Nodes : Holds(virt, n, q)
                    THEN CHOOSE n \in Nodes : Holds(virt, n, q)
                    ELSE Nowhere]

\* a qubit is in the list of one node
Single(virt) ==
  \A n, m \in Nodes : \A q \in Qubits :
    Holds(virt, n, q) /\ Holds(virt, m, q) => n = m

LEMMA HomeIsIn == Home = HomeIn(virtQubits) /\ Home' = HomeIn(virtQubits')
BY DEF Home, HomeIn, Holds

LEMMA HeldSingle ==
  /\ HeldOnce => Single(virtQubits)
  /\ HeldOnce' => Single(virtQubits')
BY DEF HeldOnce, Single, Holds

LEMMA HomeInSpec ==
  ASSUME NEW virt, Single(virt)
  PROVE  /\ HomeIn(virt) = [q \in Qubits |-> HomeIn(virt)[q]]
         /\ \A q \in Qubits, n \in Nodes :
              Holds(virt, n, q) <=> HomeIn(virt)[q] = n
         /\ \A q \in Qubits :
              (\A n \in Nodes : ~ Holds(virt, n, q)) => HomeIn(virt)[q] = Nowhere
<1>1. HomeIn(virt) = [q \in Qubits |-> HomeIn(virt)[q]]
  BY DEF HomeIn
<1>2. ASSUME NEW q \in Qubits, NEW n \in Nodes, Holds(virt, n, q)
      PROVE  HomeIn(virt)[q] = n
  <2>1. HomeIn(virt)[q] = CHOOSE m \in Nodes : Holds(virt, m, q)
    BY <1>2 DEF HomeIn
  <2>2. (CHOOSE m \in Nodes : Holds(virt, m, q)) \in Nodes
        /\ Holds(virt, CHOOSE m \in Nodes : Holds(virt, m, q), q)
    BY <1>2
  <2>3. QED
    BY <1>2, <2>1, <2>2 DEF Single
<1>3. ASSUME NEW q \in Qubits, \A n \in Nodes : ~ Holds(virt, n, q)
      PROVE  HomeIn(virt)[q] = Nowhere
  BY <1>3 DEF HomeIn
<1>4. ASSUME NEW q \in Qubits, NEW n \in Nodes, HomeIn(virt)[q] = n
      PROVE  Holds(virt, n, q)
  <2>1. \E m \in Nodes : Holds(virt, m, q)
    BY <1>3, <1>4, NowhereAssumption
  <2>2. QED
    BY <1>2, <1>4, <2>1
<1>5. QED
  BY <1>1, <1>2, <1>3, <1>4

(* The qubits a step leaves where they are. *)
LEMMA HomeKept ==
  ASSUME Consistent, Consistent', NEW q \in Qubits,
         \A n \in Nodes : Holds(virtQubits, n, q) <=> Holds(virtQubits', n, q)
  PROVE  Home'[q] = Home[q]
<1>1. Single(virtQubits) /\ Single(virtQubits')
  BY HeldSingle DEF Consistent
<1>2. CASE \E n \in Nodes : Holds(virtQubits, n, q)
  <2>1. PICK n \in Nodes : Holds(virtQubits, n, q)
    BY <1>2
  <2>2. HomeIn(virtQubits)[q] = n /\ HomeIn(virtQubits')[q] = n
    BY <1>1, <2>1, HomeInSpec
  <2>3. QED
    BY <2>2, HomeIsIn
<1>3. CASE \A n \in Nodes : ~ Holds(virtQubits, n, q)
  BY <1>1, <1>3, HomeInSpec, HomeIsIn
<1>4. QED
  BY <1>2, <1>3

(* All stay where they are if every node holds the same qubits as before. *)
LEMMA AllKept ==
  ASSUME Consistent, Consistent',
         \A q \in Qubits, n \in Nodes :
           Holds(virtQubits, n, q) <=> Holds(virtQubits', n, q)
  PROVE  Home' = Home
<1>1. \A q \in Qubits : Home'[q] = Home[q]
  BY HomeKept
<1>2. Home = [q \in Qubits |-> Home[q]] /\ Home' = [q \in Qubits |-> Home'[q]]
  BY DEF Home
<1>3. QED
  BY <1>1, <1>2

(* One qubit moves, appears or vanishes. *)
LEMMA OneMoved ==
  ASSUME Consistent, Consistent', NEW q \in Qubits, NEW place,
         Home'[q] = place,
         \A p \in Qubits \ {q}, n \in Nodes :
           Holds(virtQubits, n, p) <=> Holds(virtQubits', n, p)
  PROVE  Home' = [Home EXCEPT ![q] = place]
<1>1. \A p \in Qubits \ {q} : Home'[p] = Home[p]
  BY HomeKept
<1>2. Home = [p \in Qubits |-> Home[p]] /\ Home' = [p \in Qubits |-> Home'[p]]
  BY DEF Home
<1>3. QED
  BY <1>1, <1>2

LEMMA HomeOfHeld ==
  ASSUME Consistent, NEW n \in Nodes, NEW v \in virtQubits[n]
  PROVE  v.qubit \in Qubits /\ Home[v.qubit] = n
<1>1. v.qubit \in Qubits
  BY DEF Consistent, TypeOK, VirtQubit
<1>2. Holds(virtQubits, n, v.qubit)
  BY DEF Holds
<1>3. QED
  BY <1>1, <1>2, HomeInSpec, HomeIsIn, HeldSingle DEF Consistent

-----------------------------------------------------------------------------
(* Each operation of a client is the operation of the network it asked for. *)

LEMMA SingleGateImplements ==
  ASSUME Consistent, Consistent', NEW n \in Nodes, NEW v \in virtQubits[n],
         SingleGate(n, v)
  PROVE  Network!X(n, v.qubit)
<1>1. Addressed(v) = v.qubit
  BY SimOfSpec DEF Consistent
<1>2. Home' = Home
  BY DEF SingleGate, Home
<1>3. QED
  BY <1>1, <1>2, HomeOfHeld DEF SingleGate, Network!X

LEMMA MeasureInPlaceImplements ==
  ASSUME Consistent, Consistent', NEW n \in Nodes, NEW v \in virtQubits[n],
         MeasureInPlace(n, v)
  PROVE  Network!MeasureInPlace(n, v.qubit)
<1>1. Addressed(v) = v.qubit
  BY SimOfSpec DEF Consistent
<1>2. Home' = Home
  BY DEF MeasureInPlace, Home
<1>3. QED
  BY <1>1, <1>2, HomeOfHeld DEF MeasureInPlace, Network!MeasureInPlace

LEMMA MeasureImplements ==
  ASSUME Consistent, Consistent', NEW n \in Nodes, NEW v \in virtQubits[n],
         Measure(n, v)
  PROVE  Network!Measure(n, v.qubit)
<1>1. Addressed(v) = v.qubit
  BY SimOfSpec DEF Consistent
<1>2. v.qubit \in Qubits /\ Home[v.qubit] = n
  BY HomeOfHeld
<1>3. /\ virtQubits'[n] = virtQubits[n] \ {v}
      /\ \A m \in Nodes \ {n} : virtQubits'[m] = virtQubits[m]
  BY DEF Measure, Consistent, TypeOK
<1>4. \A m \in Nodes : ~ Holds(virtQubits', m, v.qubit)
  BY <1>3 DEF Holds, Consistent, HeldOnce
<1>5. Home'[v.qubit] = Nowhere
  BY <1>2, <1>4, HomeInSpec, HomeIsIn, HeldSingle DEF Consistent
<1>6. \A p \in Qubits \ {v.qubit}, m \in Nodes :
        Holds(virtQubits, m, p) <=> Holds(virtQubits', m, p)
  BY <1>3 DEF Holds
<1>7. Home' = [Home EXCEPT ![v.qubit] = Nowhere]
  BY <1>2, <1>5, <1>6, OneMoved
<1>8. QED
  BY <1>1, <1>2, <1>7 DEF Measure, Network!Measure

LEMMA SendQubitImplements ==
  ASSUME Consistent, Consistent', NEW n \in Nodes, NEW v \in virtQubits[n],
         NEW m \in Nodes, SendQubit(n, v, m)
  PROVE  Network!Send(n, v.qubit, m)
<1>1. v.qubit \in Qubits /\ Home[v.qubit] = n
  BY HomeOfHeld
<1>2. PICK w :
        w = [num |-> FirstFree(VirtNums(m)), simNode |-> n,
             simNum |-> v.simNum, qubit |-> v.qubit]
  OBVIOUS
<1>3. m # n /\ w.qubit = v.qubit
  BY <1>2 DEF SendQubit
<1>4. /\ virtQubits'[n] = virtQubits[n] \ {v}
      /\ virtQubits'[m] = virtQubits[m] \cup {w}
      /\ \A k \in Nodes \ {n, m} : virtQubits'[k] = virtQubits[k]
  <2>1. virtQubits' = [virtQubits EXCEPT ![n] = @ \ {v}, ![m] = @ \cup {w}]
    BY <1>2 DEF SendQubit
  <2>2. QED
    BY <1>3, <2>1 DEF Consistent, TypeOK
<1>5. Holds(virtQubits', m, v.qubit)
  BY <1>3, <1>4 DEF Holds
<1>6. Home'[v.qubit] = m
  BY <1>1, <1>5, HomeInSpec, HomeIsIn, HeldSingle DEF Consistent
<1>7. \A p \in Qubits \ {v.qubit}, k \in Nodes :
        Holds(virtQubits, k, p) <=> Holds(virtQubits', k, p)
  BY <1>3, <1>4 DEF Holds
<1>8. Home' = [Home EXCEPT ![v.qubit] = m]
  BY <1>1, <1>6, <1>7, OneMoved
<1>9. QED
  BY <1>1, <1>3, <1>8 DEF SendQubit, stateVars, Network!Send

(* A fresh qubit: AddObjects is what NewQubit and NewQubitInReg share. *)
LEMMA AddObjectsImplements ==
  ASSUME Consistent, Consistent', NEW n \in Nodes, NEW q \in Qubits \ Held,
         NEW r, NEW p, AddObjects(n, q, r, p), UNCHANGED <<bit, outcome>>
  PROVE  Network!Create(n, q)
<1>1. PICK w : /\ w.qubit = q
               /\ virtQubits' = [virtQubits EXCEPT ![n] = @ \cup {w}]
  <2>1. virtQubits' = [virtQubits EXCEPT ![n] = @ \cup
                         {[num |-> FirstFree(VirtNums(n)), simNode |-> n,
                           simNum |-> FirstFree(SimNums(n)), qubit |-> q]}]
    BY DEF AddObjects
  <2>2. PICK w : w = [num |-> FirstFree(VirtNums(n)), simNode |-> n,
                      simNum |-> FirstFree(SimNums(n)), qubit |-> q]
    OBVIOUS
  <2>3. QED
    BY <2>1, <2>2
<1>2. /\ virtQubits'[n] = virtQubits[n] \cup {w}
      /\ \A m \in Nodes \ {n} : virtQubits'[m] = virtQubits[m]
  BY <1>1 DEF Consistent, TypeOK
<1>3. \A m \in Nodes : ~ Holds(virtQubits, m, q)
  BY DEF Holds, Held
<1>4. Home[q] = Nowhere
  BY <1>3, HomeInSpec, HomeIsIn, HeldSingle DEF Consistent
<1>5. Holds(virtQubits', n, q)
  BY <1>1, <1>2 DEF Holds
<1>6. Home'[q] = n
  BY <1>5, HomeInSpec, HomeIsIn, HeldSingle DEF Consistent
<1>7. \A p2 \in Qubits \ {q}, m \in Nodes :
        Holds(virtQubits, m, p2) <=> Holds(virtQubits', m, p2)
  BY <1>1, <1>2 DEF Holds
<1>8. Home' = [Home EXCEPT ![q] = n]
  BY <1>6, <1>7, OneMoved
<1>9. QED
  BY <1>4, <1>8 DEF Network!Create

-----------------------------------------------------------------------------
(* Gates on two qubits. *)

(* Two virtual qubits of a node are two qubits, and a gate on them is that of
   the network when nothing moves. *)
LEMMA CnotImplements ==
  ASSUME Consistent, Consistent', NEW n \in Nodes,
         NEW v \in virtQubits[n], NEW w \in virtQubits[n], v # w,
         Home' = Home, outcome' = outcome, ApplyCnot(v.qubit, w.qubit)
  PROVE  Network!Cnot(n, v.qubit, w.qubit)
<1>1. v.qubit # w.qubit
  BY DEF Consistent, HeldOnce
<1>2. QED
  BY <1>1, HomeOfHeld DEF ApplyCnot, Network!Cnot

LEMMA GateInRegisterImplements ==
  ASSUME Consistent, Consistent', NEW n \in Nodes,
         NEW v \in virtQubits[n], NEW w \in virtQubits[n], v # w,
         GateInRegister(n, v, w)
  PROVE  Network!Cnot(n, v.qubit, w.qubit)
<1>1. Addressed(v) = v.qubit /\ Addressed(w) = w.qubit
  BY SimOfSpec DEF Consistent
<1>2. Home' = Home
  BY DEF GateInRegister, Home
<1>3. ApplyCnot(v.qubit, w.qubit) /\ outcome' = outcome
  BY <1>1 DEF GateInRegister
<1>4. QED
  BY <1>2, <1>3, CnotImplements

(* After a local merge the old reference of a qubit leads to its new place. *)
LEMMA GateLocalMergeImplements ==
  ASSUME Consistent, Consistent', NEW n \in Nodes,
         NEW v \in virtQubits[n], NEW w \in virtQubits[n], v # w,
         GateLocalMerge(n, v, w)
  PROVE  Network!Cnot(n, v.qubit, w.qubit)
<1>1. virtQubits' = virtQubits
  BY DEF GateLocalMerge, LocalMerge
<1>2. ASSUME NEW u \in virtQubits[n] PROVE Addressed(u)' = u.qubit
  <2>1. PICK s \in simQubits'[u.simNode] :
          s.simNum = u.simNum /\ At(u.simNode, s)' = u.qubit
    BY <1>1 DEF Consistent, Addressing
  <2>2. u.simNode \in Nodes
    BY DEF Consistent, TypeOK, VirtQubit
  <2>3. \A t \in simQubits'[u.simNode] : t.simNum = u.simNum => t = s
    BY <2>1, <2>2 DEF Consistent, NumbersUnique
  <2>4. (CHOOSE t \in simQubits'[u.simNode] : t.simNum = u.simNum) = s
    BY <2>1, <2>3
  <2>5. SimOf(u)' = s
    BY <2>4 DEF SimOf, SimObject
  <2>6. QED
    BY <2>1, <2>5 DEF Addressed, At
<1>3. Home' = Home
  BY <1>1 DEF Home
<1>4. ApplyCnot(v.qubit, w.qubit) /\ outcome' = outcome
  BY <1>2 DEF GateLocalMerge
<1>5. QED
  BY <1>3, <1>4, CnotImplements

(* A merge over nodes gives virtual qubits new references and leaves every
   node the qubits it has. *)
LEMMA MergeFromKeeps ==
  ASSUME Consistent, Consistent', NEW n, NEW a, NEW from, NEW pulled,
         MergeFrom(n, a, from, pulled)
  PROVE  Home' = Home
<1> DEFINE Update(v) ==
             IF SimOf(v) \in {s \in simQubits[v.simNode] :
                                <<v.simNode, s.reg>> \in DOMAIN from}
             THEN [v EXCEPT !.simNode = n,
                            !.simNum = PulledNum(n, from[RegisterOf(v)], SimOf(v))]
             ELSE v
<1>1. virtQubits' = [m \in Nodes |-> {Update(v) : v \in virtQubits[m]}]
  BY DEF MergeFrom
<1>2. \A m \in Nodes : \A v \in virtQubits[m] : Update(v).qubit = v.qubit
  BY DEF Consistent, TypeOK, VirtQubit
<1> HIDE DEF Update
<1>3. \A q \in Qubits, m \in Nodes :
        Holds(virtQubits, m, q) <=> Holds(virtQubits', m, q)
  BY <1>1, <1>2 DEF Holds
<1>4. QED
  BY <1>3, AllKept

(* Where the qubits of two registers are once one has absorbed the other. *)
LEMMA InConcatenation ==
  ASSUME NEW d \in Seq(Qubits), NEW e \in Seq(Qubits), NEW i \in Nat
  PROVE  /\ i < Len(d) => (d \o e)[i + 1] = d[i + 1]
         /\ i < Len(e) => (d \o e)[Len(d) + i + 1] = e[i + 1]
<1>1. Len(d) \in Nat /\ Len(e) \in Nat
  BY LenProperties
<1>2. \A k \in 1 .. (Len(d) + Len(e)) :
        (d \o e)[k] = IF k <= Len(d) THEN d[k] ELSE e[k - Len(d)]
  BY ConcatProperties
<1>3. QED
  BY <1>1, <1>2

LEMMA PositionOf ==
  ASSUME Consistent, NEW n \in Nodes, NEW v \in virtQubits[n]
  PROVE  /\ RegisterOf(v) = <<v.simNode, SimOf(v).reg>>
         /\ RegisterOf(v) \in Registers
         /\ engine[RegisterOf(v)] \in Seq(Qubits)
         /\ SimOf(v).num \in Nat
         /\ SimOf(v).num < Len(engine[RegisterOf(v)])
         /\ engine[RegisterOf(v)][SimOf(v).num + 1] = v.qubit
<1>1. /\ v.simNode \in Nodes /\ SimOf(v) \in simQubits[v.simNode]
      /\ At(v.simNode, SimOf(v)) = v.qubit
  BY SimOfSpec DEF Consistent
<1>2. RegisterOf(v) = <<v.simNode, SimOf(v).reg>>
  BY DEF RegisterOf
<1>3. QED
  BY <1>1, <1>2, AtPosition DEF Consistent

(* Both qubits are found when the register of w is put behind that of v. *)
LEMMA PositionsJoined ==
  ASSUME Consistent, NEW n \in Nodes, NEW v \in virtQubits[n], NEW w \in virtQubits[n]
  PROVE  LET d == engine[RegisterOf(v)]
             e == engine[RegisterOf(w)]
         IN  /\ (d \o e)[SimOf(v).num + 1] = v.qubit
             /\ (d \o e)[Len(d) + SimOf(w).num + 1] = w.qubit
<1>1. PICK d \in Seq(Qubits), i \in Nat :
        /\ d = engine[RegisterOf(v)] /\ i = SimOf(v).num
        /\ i < Len(d) /\ d[i + 1] = v.qubit
  BY PositionOf
<1>2. PICK e \in Seq(Qubits), j \in Nat :
        /\ e = engine[RegisterOf(w)] /\ j = SimOf(w).num
        /\ j < Len(e) /\ e[j + 1] = w.qubit
  BY PositionOf
<1>3. (d \o e)[i + 1] = v.qubit /\ (d \o e)[Len(d) + j + 1] = w.qubit
  BY <1>1, <1>2, InConcatenation
<1>4. QED
  BY <1>1, <1>2, <1>3

LEMMA GatePullTargetImplements ==
  ASSUME Consistent, Consistent', NEW n \in Nodes,
         NEW v \in virtQubits[n], NEW w \in virtQubits[n], v # w,
         GatePullTarget(n, v, w)
  PROVE  Network!Cnot(n, v.qubit, w.qubit)
<1> DEFINE d == engine[RegisterOf(v)]
           e == engine[RegisterOf(w)]
           x == <<n, SimOf(v).reg>>
<1>1. v.simNode = n /\ x = RegisterOf(v) /\ x \in Registers
  BY PositionOf DEF GatePullTarget
<1>2. MergeFrom(n, SimOf(v).reg, [y \in {RegisterOf(w)} |-> 0], e)
  BY DEF GatePullTarget
<1>3. engine'[x] = d \o e
  BY <1>1, <1>2 DEF MergeFrom
<1>4. /\ engine'[x][SimOf(v).num + 1] = v.qubit
      /\ engine'[x][Len(d) + SimOf(w).num + 1] = w.qubit
  BY <1>3, PositionsJoined
<1>5. ApplyCnot(v.qubit, w.qubit) /\ outcome' = outcome
  <2>1. /\ ApplyCnot(engine'[x][SimOf(v).num + 1],
                     engine'[x][Len(engine[x]) + SimOf(w).num + 1])
        /\ outcome' = outcome
    BY DEF GatePullTarget
  <2>2. QED
    BY <1>1, <1>4, <2>1
<1>6. Home' = Home
  BY <1>2, MergeFromKeeps
<1>7. QED
  BY <1>5, <1>6, CnotImplements

LEMMA GatePullControlImplements ==
  ASSUME Consistent, Consistent', NEW n \in Nodes,
         NEW v \in virtQubits[n], NEW w \in virtQubits[n], v # w,
         GatePullControl(n, v, w)
  PROVE  Network!Cnot(n, v.qubit, w.qubit)
<1> DEFINE d == engine[RegisterOf(w)]
           e == engine[RegisterOf(v)]
           x == <<n, SimOf(w).reg>>
<1>1. w.simNode = n /\ x = RegisterOf(w) /\ x \in Registers
  BY PositionOf DEF GatePullControl
<1>2. MergeFrom(n, SimOf(w).reg, [y \in {RegisterOf(v)} |-> 0], e)
  BY DEF GatePullControl
<1>3. engine'[x] = d \o e
  BY <1>1, <1>2 DEF MergeFrom
<1>4. /\ engine'[x][Len(d) + SimOf(v).num + 1] = v.qubit
      /\ engine'[x][SimOf(w).num + 1] = w.qubit
  <2>1. /\ (d \o e)[SimOf(w).num + 1] = w.qubit
        /\ (d \o e)[Len(d) + SimOf(v).num + 1] = v.qubit
    BY PositionsJoined
  <2>2. QED
    BY <1>3, <2>1
<1>5. ApplyCnot(v.qubit, w.qubit) /\ outcome' = outcome
  <2>1. /\ ApplyCnot(engine'[x][Len(engine[x]) + SimOf(v).num + 1],
                     engine'[x][SimOf(w).num + 1])
        /\ outcome' = outcome
    BY DEF GatePullControl
  <2>2. QED
    BY <1>1, <1>4, <2>1
<1>6. Home' = Home
  BY <1>2, MergeFromKeeps
<1>7. QED
  BY <1>5, <1>6, CnotImplements

LEMMA GatePullBothImplements ==
  ASSUME Consistent, Consistent', NEW n \in Nodes,
         NEW v \in virtQubits[n], NEW w \in virtQubits[n], v # w,
         GatePullBoth(n, v, w)
  PROVE  Network!Cnot(n, v.qubit, w.qubit)
<1> DEFINE a == nextRegNum[n]
           x == <<n, a>>
           d == engine[RegisterOf(v)]
           e == engine[RegisterOf(w)]
           from == [y \in {RegisterOf(v), RegisterOf(w)} |->
                      IF y = RegisterOf(v) THEN 0 ELSE Len(d)]
<1>1. x \in Registers /\ engine[x] = << >>
  BY FreshRegister DEF GatePullBoth, Consistent
<1>2. MergeFrom(n, a, from, d \o e)
  BY DEF GatePullBoth
<1>3. d \in Seq(Qubits) /\ e \in Seq(Qubits)
  BY PositionOf
<1>4. engine'[x] = d \o e
  <2>1. engine'[x] = engine[x] \o (d \o e)
    BY <1>1, <1>2 DEF MergeFrom
  <2>2. << >> \o (d \o e) = d \o e
    BY <1>3, ConcatProperties, ConcatEmptySeq
  <2>3. QED
    BY <1>1, <2>1, <2>2
<1>5. /\ engine'[x][SimOf(v).num + 1] = v.qubit
      /\ engine'[x][Len(d) + SimOf(w).num + 1] = w.qubit
  BY <1>4, PositionsJoined
<1>6. ApplyCnot(v.qubit, w.qubit) /\ outcome' = outcome
  BY <1>5 DEF GatePullBoth
<1>7. Home' = Home
  BY <1>2, MergeFromKeeps
<1>8. QED
  BY <1>6, <1>7, CnotImplements

LEMMA TwoQubitGateImplements ==
  ASSUME Consistent, Consistent', NEW n \in Nodes,
         NEW v \in virtQubits[n], NEW w \in virtQubits[n], v # w,
         TwoQubitGate(n, v, w)
  PROVE  Network!Cnot(n, v.qubit, w.qubit)
BY GateInRegisterImplements, GateLocalMergeImplements, GatePullTargetImplements,
   GatePullControlImplements, GatePullBothImplements DEF TwoQubitGate

-----------------------------------------------------------------------------
(* The theorems.                                                           *)

LEMMA InitImplements == Init => Network!Init
<1> SUFFICES ASSUME Init PROVE Network!Init
  OBVIOUS
<1>1. Home = [q \in Qubits |-> Nowhere]
  BY DEF Init, Home
<1>2. QED
  BY <1>1 DEF Init, Network!Init

LEMMA NextImplements ==
  Consistent /\ Consistent' /\ [Next]_vars => [Network!Next]_(Network!vars)
<1> SUFFICES ASSUME Consistent, Consistent', [Next]_vars
             PROVE  [Network!Next]_(Network!vars)
  OBVIOUS
<1>1. CASE Create
  <2>1. PICK n \in Nodes :
          \/ NewRegister(n)
          \/ \E q \in Qubits \ Held :
               \/ \E ignoreMax \in BOOLEAN : NewQubit(n, q, ignoreMax)
               \/ \E r \in RegIds : NewQubitInReg(n, q, r)
    BY <1>1 DEF Create
  <2>2. CASE NewRegister(n)
    BY <2>2 DEF NewRegister, Home, Network!vars
  <2>3. ASSUME NEW q \in Qubits \ Held, NEW ignoreMax \in BOOLEAN,
               NewQubit(n, q, ignoreMax)
        PROVE  Network!Next
    <3>1. Network!Create(n, q)
      BY <2>3, AddObjectsImplements DEF NewQubit
    <3>2. QED
      BY <3>1 DEF Network!Next
  <2>4. ASSUME NEW q \in Qubits \ Held, NEW r \in RegIds, NewQubitInReg(n, q, r)
        PROVE  Network!Next
    <3>1. Network!Create(n, q)
      BY <2>4, AddObjectsImplements DEF NewQubitInReg
    <3>2. QED
      BY <3>1 DEF Network!Next
  <2>5. QED
    BY <2>1, <2>2, <2>3, <2>4
<1>2. CASE Operate
  <2>1. PICK n \in Nodes : \E v \in virtQubits[n] :
          \/ SingleGate(n, v)
          \/ MeasureInPlace(n, v)
          \/ Measure(n, v)
          \/ \E m \in Nodes : SendQubit(n, v, m)
    BY <1>2 DEF Operate
  <2>2. PICK v \in virtQubits[n] :
          \/ SingleGate(n, v)
          \/ MeasureInPlace(n, v)
          \/ Measure(n, v)
          \/ \E m \in Nodes : SendQubit(n, v, m)
    BY <2>1
  <2>3. \/ Network!X(n, v.qubit)
        \/ Network!MeasureInPlace(n, v.qubit)
        \/ Network!Measure(n, v.qubit)
        \/ \E m \in Nodes : Network!Send(n, v.qubit, m)
    BY <2>2, SingleGateImplements, MeasureInPlaceImplements, MeasureImplements,
       SendQubitImplements
  <2>4. QED
    BY <2>3, HomeOfHeld DEF Network!Next
<1>3. CASE Entangle
  <2>1. PICK n \in Nodes, q \in Qubits, p \in Qubits : Network!Cnot(n, q, p)
    BY <1>3, TwoQubitGateImplements, HomeOfHeld DEF Entangle
  <2>2. QED
    BY <2>1 DEF Network!Next
<1>4. CASE UNCHANGED vars
  BY <1>4 DEF vars, Home, Network!vars
<1>5. QED
  BY <1>1, <1>2, <1>3, <1>4 DEF Next

(* Every behaviour of the virtual nodes is, seen by the applications, one of a
   network of qubits: for any nodes, qubits and limits, and in whatever order
   qubits are created, sent, measured, and registers merged. *)
THEOREM NodesImplementNetwork == Spec => ImplementsNetwork
BY InitImplements, NextImplements, AlwaysConsistent, PTL
   DEF Spec, ImplementsNetwork, Network!Spec

LEMMA StepActsAsAsked ==
  ASSUME Consistent, Consistent'
  PROVE  \A n \in Nodes : \A v \in virtQubits[n] :
           /\ SingleGate(n, v) => Network!X(n, v.qubit)
           /\ MeasureInPlace(n, v) => Network!MeasureInPlace(n, v.qubit)
           /\ Measure(n, v) => Network!Measure(n, v.qubit)
           /\ \A m \in Nodes : SendQubit(n, v, m) => Network!Send(n, v.qubit, m)
           /\ \A w \in virtQubits[n] \ {v} :
                TwoQubitGate(n, v, w) => Network!Cnot(n, v.qubit, w.qubit)
BY SingleGateImplements, MeasureInPlaceImplements, MeasureImplements,
   SendQubitImplements, TwoQubitGateImplements

(* And it is the step that was asked for: gates, measurements and hand-overs
   act on the qubits named by the virtual qubits they are called with. *)
THEOREM NodesActAsAsked == Spec => ActsAsAsked
BY StepActsAsAsked, AlwaysConsistent, PTL DEF ActsAsAsked
=============================================================================
