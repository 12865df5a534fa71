---------------------------- MODULE VirtualNodes ----------------------------
(***************************************************************************)
(* The book-keeping of virtual_node/virtual.py: which virtual qubits a     *)
(* node holds, which simulated qubits and registers it simulates, and how  *)
(* creating, sending, measuring and merging keep the two apart and in step.*)
(*                                                                         *)
(* An action is one client operation, from the acquisition of the global   *)
(* locks of the nodes it touches to their release.  That operations        *)
(* serialise this way is the subject of GlobalLocks; here it is assumed.   *)
(* An operation that ends in an error (no room, no register left) leaves   *)
(* this state as it was, so its condition is a guard.                      *)
(*                                                                         *)
(* A register is the list of the qubits it holds, position by position:    *)
(* the engines address qubits by position only.  The identity of a qubit   *)
(* is a ghost: the field "qubit" of a virtual qubit says which qubit the   *)
(* application means by it, engine[<<n, r>>] which qubit a register really  *)
(* has at each position.  The quantum state is abstracted to one classical *)
(* bit per qubit; X stands for the single-qubit gates and the controlled   *)
(* not for the two-qubit gates.                                            *)
(***************************************************************************)
EXTENDS Integers, FiniteSets, Sequences, FreeNumbers

CONSTANTS Nodes,        \* the virtual nodes (hostDict)
          Qubits,       \* identities of the qubits in use at one time
          MaxQubits,    \* maxQubits of a node
          MaxRegisters, \* maxRegs of a node
          RegisterSize, \* maxQubits of a new register (10 in the code)
          RegBound      \* BOUND: register numbers a node may hand out

ASSUME ConstantsAssumption ==
  /\ IsFiniteSet(Qubits)
  /\ MaxQubits \in Nat
  /\ MaxRegisters \in Nat
  /\ RegisterSize \in Nat \ {0}
  /\ RegBound \in Nat

\* A register object: the node that simulates it and its number there.
RegIds == 0 .. (RegBound - 1)
Registers == Nodes \X RegIds

\* simulatedQubit and virtualQubit objects.  The reference simQubit of a
\* virtual qubit is the pair of simNode and the simNum of the object there.
SimQubit == [simNum : Nat, reg : RegIds, num : Nat]
VirtQubit == [num : Nat, simNode : Nodes, simNum : Nat, qubit : Qubits]

VARIABLES
  virtQubits,  \* virtQubits[n]: the virtual qubits available at node n
  simQubits,   \* simQubits[n]: the simulated qubits of node n
  registers,   \* the registers in the dictionaries of the nodes
  engine,      \* engine[<<n, r>>]: the qubits of a register, by position
  regSize,     \* regSize[<<n, r>>]: maxQubits of the register object
  numRegs,     \* numRegs[n]: the count of registers n keeps
  nextRegNum,  \* nextRegNum[n]: _next_reg_num of n
  bit,         \* bit[q]: what the simulated state holds for q
  outcome      \* the result of the last measurement

nodeVars == <<virtQubits, simQubits>>
regVars == <<registers, engine, regSize, numRegs, nextRegNum>>
stateVars == <<bit, outcome>>
vars == <<virtQubits, simQubits, registers, engine, regSize, numRegs,
          nextRegNum, bit, outcome>>

TypeOK ==
  /\ virtQubits \in [Nodes -> SUBSET VirtQubit]
  /\ simQubits \in [Nodes -> SUBSET SimQubit]
  /\ registers \in SUBSET Registers
  /\ engine \in [Registers -> Seq(Qubits)]
  /\ regSize \in [Registers -> Nat]
  /\ numRegs \in [Nodes -> Nat]
  /\ nextRegNum \in [Nodes -> 0 .. RegBound]
  /\ bit \in [Qubits -> {0, 1}]
  /\ outcome \in {0, 1}

Init ==
  /\ virtQubits = [n \in Nodes |-> {}]
  /\ simQubits = [n \in Nodes |-> {}]
  /\ registers = {}
  /\ engine = [r \in Registers |-> << >>]
  /\ regSize = [r \in Registers |-> 0]
  /\ numRegs = [n \in Nodes |-> 0]
  /\ nextRegNum = [n \in Nodes |-> 0]
  /\ bit = [q \in Qubits |-> 0]
  /\ outcome = 0

-----------------------------------------------------------------------------
(* Looking things up.                                                      *)

\* _q_num_to_obj, and the object a reference leads to
SimObject(n, k) == CHOOSE s \in simQubits[n] : s.simNum = k
SimOf(v) == SimObject(v.simNode, v.simNum)

\* the register object a virtual qubit is simulated in
RegisterOf(v) == <<v.simNode, SimOf(v).reg>>

\* the qubit that a gate on position num of a register acts on
At(n, s) == engine[<<n, s.reg>>][s.num + 1]
Addressed(v) == At(v.simNode, SimOf(v))

\* get_sim_id and get_virtual_id
SimNums(n) == {s.simNum : s \in simQubits[n]}
VirtNums(n) == {v.num : v \in virtQubits[n]}

\* the identities that can be given to a fresh qubit
Held == UNION {{v.qubit : v \in virtQubits[n]} : n \in Nodes}

\* len(self.virtQubits) < self.maxQubits
HasRoom(n) == Cardinality(virtQubits[n]) < MaxQubits

\* MUTANT: the engine drops its last position, not the one measured
WithoutLast(seq, p) == [i \in 1 .. (Len(seq) - 1) |-> seq[i]]

\* the qubits of a register after the one at a position has been removed
Without(seq, p) ==
  [i \in 1 .. (Len(seq) - 1) |-> IF i < p THEN seq[i] ELSE seq[i + 1]]

-----------------------------------------------------------------------------
(* Registers.                                                              *)

\* remote_new_register refuses when numRegs has reached maxRegs; the second
\* conjunct is the bound of the model.
CanAddRegister(n) ==
  /\ numRegs[n] < MaxRegisters
  /\ nextRegNum[n] < RegBound

NewRegister(n) ==
  /\ CanAddRegister(n)
  /\ registers' = registers \cup {<<n, nextRegNum[n]>>}
  /\ regSize' = [regSize EXCEPT ![<<n, nextRegNum[n]>>] = RegisterSize]
  /\ numRegs' = [numRegs EXCEPT ![n] = @ + 1]
  /\ nextRegNum' = [nextRegNum EXCEPT ![n] = @ + 1]
  /\ UNCHANGED <<engine, virtQubits, simQubits, bit, outcome>>

-----------------------------------------------------------------------------
(* Creating qubits.                                                        *)

\* the two objects made for a qubit at position p of register r of node n
AddObjects(n, q, r, p) ==
  LET k == FirstFree(SimNums(n))
  IN  /\ simQubits' = [simQubits EXCEPT ![n] = @ \cup
                         {[simNum |-> k, reg |-> r, num |-> p]}]
      /\ virtQubits' = [virtQubits EXCEPT ![n] = @ \cup
                          {[num |-> FirstFree(VirtNums(n)), simNode |-> n,
                            simNum |-> k, qubit |-> q]}]

\* remote_new_qubit: a fresh qubit alone in a fresh register.  ignoreMax is
\* set for the second qubit of an EPR pair.
NewQubit(n, q, ignoreMax) ==
  LET r == nextRegNum[n]
  IN  /\ HasRoom(n) \/ ignoreMax
      /\ CanAddRegister(n)
      /\ registers' = registers \cup {<<n, r>>}
      /\ regSize' = [regSize EXCEPT ![<<n, r>>] = RegisterSize]
      /\ engine' = [engine EXCEPT ![<<n, r>>] = <<q>>]
      /\ numRegs' = [numRegs EXCEPT ![n] = @ + 1]
      /\ nextRegNum' = [nextRegNum EXCEPT ![n] = @ + 1]
      /\ AddObjects(n, q, r, 0)
      /\ UNCHANGED <<bit, outcome>>

\* MUTANT: the engine does not look at its size
NewQubitInFullReg(n, q, r) ==
  /\ <<n, r>> \in registers
  /\ HasRoom(n)
  /\ engine' = [engine EXCEPT ![<<n, r>>] = Append(@, q)]
  /\ AddObjects(n, q, r, Len(engine[<<n, r>>]))
  /\ UNCHANGED <<registers, regSize, numRegs, nextRegNum, bit, outcome>>

\* remote_new_qubit_inreg: a fresh qubit at the end of an existing register.
\* add_fresh_qubit of the engine refuses when the register is full.
NewQubitInReg(n, q, r) ==
  /\ <<n, r>> \in registers
  /\ HasRoom(n)
  /\ Len(engine[<<n, r>>]) < regSize[<<n, r>>]
  /\ engine' = [engine EXCEPT ![<<n, r>>] = Append(@, q)]
  /\ AddObjects(n, q, r, Len(engine[<<n, r>>]))
  /\ UNCHANGED <<registers, regSize, numRegs, nextRegNum, bit, outcome>>

-----------------------------------------------------------------------------
(* Gates on one qubit, and measurement.                                    *)

\* _single_gate: the gate acts on whatever the position addresses.
SingleGate(n, v) ==
  /\ bit' = [bit EXCEPT ![Addressed(v)] = 1 - @]
  /\ UNCHANGED <<outcome, virtQubits, simQubits>>
  /\ UNCHANGED regVars

\* remote_measure(inplace=True)
MeasureInPlace(n, v) ==
  /\ outcome' = bit[Addressed(v)]
  /\ UNCHANGED <<bit, virtQubits, simQubits>>
  /\ UNCHANGED regVars

\* MUTANT: all the other positions of the register move, not only later ones
RenumberedAll(s, d) ==
  IF s.reg = d.reg THEN [s EXCEPT !.num = @ - 1] ELSE s

\* the object s after the qubit of d has left its register: the positions
\* behind that of d move up by one
Renumbered(s, d) ==
  IF s.reg = d.reg /\ s.num > d.num THEN [s EXCEPT !.num = @ - 1] ELSE s

\* MUTANT: the test for the last qubit counts the one being removed
RemoveLastButOne(m, d) ==
  LET rest == Without(engine[<<m, d.reg>>], d.num + 1)
  IN  /\ engine' = [engine EXCEPT ![<<m, d.reg>>] = rest]
      /\ simQubits' = [simQubits EXCEPT ![m] =
                         {Renumbered(s, d) : s \in @ \ {d}}]
      /\ IF Len(rest) <= 1
         THEN /\ registers' = registers \ {<<m, d.reg>>}
              /\ regSize' = [regSize EXCEPT ![<<m, d.reg>>] = 0]
              /\ numRegs' = [numRegs EXCEPT ![m] = @ - 1]
         ELSE UNCHANGED <<registers, regSize, numRegs>>

\* _remove_sim_qubit: position num of the register goes, the qubits after it
\* move up by one, and a register left empty is deleted.
RemoveSimQubit(m, d) ==
  LET rest == Without(engine[<<m, d.reg>>], d.num + 1)
  IN  /\ engine' = [engine EXCEPT ![<<m, d.reg>>] = rest]
      /\ simQubits' = [simQubits EXCEPT ![m] =
                         {Renumbered(s, d) : s \in @ \ {d}}]
      /\ IF rest = << >>
         THEN /\ registers' = registers \ {<<m, d.reg>>}
              /\ regSize' = [regSize EXCEPT ![<<m, d.reg>>] = 0]
              /\ numRegs' = [numRegs EXCEPT ![m] = @ - 1]
         ELSE UNCHANGED <<registers, regSize, numRegs>>

\* MUTANT: only a qubit simulated at its own node leaves the simulation
MeasureLocalOnly(n, v) ==
  /\ outcome' = bit[Addressed(v)]
  /\ IF v.simNode = n THEN RemoveSimQubit(n, SimOf(v))
     ELSE UNCHANGED <<engine, simQubits, registers, regSize, numRegs>>
  /\ virtQubits' = [virtQubits EXCEPT ![n] = @ \ {v}]
  /\ bit' = [bit EXCEPT ![Addressed(v)] = 0]
  /\ UNCHANGED nextRegNum

\* remote_measure(inplace=False)
Measure(n, v) ==
  /\ outcome' = bit[Addressed(v)]
  /\ RemoveSimQubit(v.simNode, SimOf(v))
  /\ virtQubits' = [virtQubits EXCEPT ![n] = @ \ {v}]
  /\ bit' = [bit EXCEPT ![Addressed(v)] = 0]
  /\ UNCHANGED nextRegNum

-----------------------------------------------------------------------------
(* Sending.                                                                *)

\* MUTANT: the sender keeps the qubit
SendCopy(n, v, m) ==
  /\ m # n
  /\ v.simNode = n
  /\ HasRoom(m)
  /\ virtQubits' =
       [virtQubits EXCEPT
          ![m] = @ \cup {[num |-> FirstFree(VirtNums(m)), simNode |-> n,
                          simNum |-> v.simNum, qubit |-> v.qubit]}]
  /\ UNCHANGED simQubits
  /\ UNCHANGED regVars
  /\ UNCHANGED stateVars

\* remote_send_qubit with remote_add_qubit at the target: the target makes a
\* virtual qubit for the same simulated qubit, the sender drops its own.
\* Only the branch for a qubit simulated at the sender gets this far: the
\* other one raises before it changes anything (see GlobalLocks).
SendQubit(n, v, m) ==
  /\ m # n
  /\ v.simNode = n
  /\ HasRoom(m)
  /\ virtQubits' =
       [virtQubits EXCEPT
          ![n] = @ \ {v},
          ![m] = @ \cup {[num |-> FirstFree(VirtNums(m)), simNode |-> n,
                          simNum |-> v.simNum, qubit |-> v.qubit]}]
  /\ UNCHANGED simQubits
  /\ UNCHANGED regVars
  /\ UNCHANGED stateVars

-----------------------------------------------------------------------------
(* Gates on two qubits.  They need both qubits in one register.            *)

\* MUTANT: control and target swapped
ApplyCnotSwapped(c, t) ==
  bit' = [bit EXCEPT ![c] = IF bit[t] = 1 THEN 1 - @ ELSE @]

\* the gate itself: control and target are positions of one register
ApplyCnot(c, t) ==
  bit' = [bit EXCEPT ![t] = IF bit[c] = 1 THEN 1 - @ ELSE @]

\* both qubits are in the same register already
GateInRegister(n, v, w) ==
  /\ v.simNode = w.simNode
  /\ SimOf(v).reg = SimOf(w).reg
  /\ ApplyCnot(Addressed(v), Addressed(w))
  /\ UNCHANGED <<outcome, virtQubits, simQubits>>
  /\ UNCHANGED regVars

\* MUTANT: the positions of the absorbed register are not offset
RelabelledOnly(s, a, b, offset) ==
  IF s.reg = b THEN [s EXCEPT !.reg = a] ELSE s

\* the object s after register a, which held offset qubits, has absorbed b
Relabelled(s, a, b, offset) ==
  IF s.reg = b THEN [s EXCEPT !.reg = a, !.num = @ + offset] ELSE s

\* MUTANT: the absorbed register is not counted out
LocalMergeUncounted(m, a, b) ==
  LET offset == Len(engine[<<m, a>>])
  IN  /\ engine' = [engine EXCEPT ![<<m, a>>] = @ \o engine[<<m, b>>],
                                  ![<<m, b>>] = << >>]
      /\ simQubits' = [simQubits EXCEPT ![m] =
                         {Relabelled(s, a, b, offset) : s \in @}]
      /\ registers' = registers \ {<<m, b>>}
      /\ regSize' = [regSize EXCEPT ![<<m, a>>] = @ + Len(engine[<<m, b>>]),
                                    ![<<m, b>>] = 0]
      /\ UNCHANGED <<numRegs, nextRegNum, virtQubits>>

\* local_merge_regs at node m: register a absorbs register b.  The qubits of
\* b keep their objects; their positions are offset.
LocalMerge(m, a, b) ==
  LET offset == Len(engine[<<m, a>>])
  IN  /\ engine' = [engine EXCEPT ![<<m, a>>] = @ \o engine[<<m, b>>],
                                  ![<<m, b>>] = << >>]
      /\ simQubits' = [simQubits EXCEPT ![m] = {Relabelled(s, a, b, offset) : s \in @}]
      /\ registers' = registers \ {<<m, b>>}
      /\ regSize' = [regSize EXCEPT ![<<m, a>>] = @ + Len(engine[<<m, b>>]),
                                    ![<<m, b>>] = 0]
      /\ numRegs' = [numRegs EXCEPT ![m] = @ - 1]
      /\ UNCHANGED <<nextRegNum, virtQubits>>

\* both qubits are simulated at one node, here or remotely, in two registers
GateLocalMerge(n, v, w) ==
  /\ v.simNode = w.simNode
  /\ SimOf(v).reg # SimOf(w).reg
  /\ LocalMerge(v.simNode, SimOf(v).reg, SimOf(w).reg)
  /\ ApplyCnot(Addressed(v)', Addressed(w)')
  /\ UNCHANGED outcome

\* The object made at node n for the pulled object s.  Its number is free at n
\* and differs from those given in the same loop; its position comes after
\* the qubits of register a and those pulled before.
PulledNum(n, before, s) == NthFree(SimNums(n), before + s.num)

\* MUTANT: the pulled qubits are not placed behind those of register a
PulledObjectInFront(n, a, before, s) ==
  [simNum |-> PulledNum(n, before, s), reg |-> a, num |-> before + s.num]

PulledObject(n, a, before, s) ==
  [simNum |-> PulledNum(n, before, s), reg |-> a,
   num |-> Len(engine[<<n, a>>]) + before + s.num]

\* remote_merge_from at node n, once for every register of DOMAIN from, with
\* get_register_del at the simulating node and update_virtual_merge at every
\* node.  from[b] is the number of qubits pulled before register b, pulled
\* lists the qubits of all of them in order.  Every pulled qubit gets a new
\* object at n, numbered in the order of the positions, and all virtual
\* qubits of the network follow.  Register a of n absorbs them; it is created
\* if it does not exist yet (remote_add_register).
MergeFrom(n, a, from, pulled) ==
  LET sources == DOMAIN from
      sourceNodes == {b[1] : b \in sources}
      isNew == <<n, a>> \notin registers
      NewObject(m, s) == PulledObject(n, a, from[<<m, s.reg>>], s)
      Moved(m) == {s \in simQubits[m] : <<m, s.reg>> \in sources}
      Update(v) ==
        IF SimOf(v) \in Moved(v.simNode)
        THEN [v EXCEPT !.simNode = n,
                       !.simNum = PulledNum(n, from[RegisterOf(v)], SimOf(v))]
        ELSE v
  IN  /\ engine' = [r \in Registers |->
                      IF r = <<n, a>> THEN engine[r] \o pulled
                      ELSE IF r \in sources THEN << >> ELSE engine[r]]
      /\ simQubits' =
           [m \in Nodes |->
              IF m = n
              THEN simQubits[n] \cup
                     UNION {{NewObject(k, s) : s \in Moved(k)} : k \in Nodes}
              ELSE simQubits[m] \ Moved(m)]
      /\ virtQubits' = [m \in Nodes |-> {Update(v) : v \in virtQubits[m]}]
      /\ registers' = (registers \ sources) \cup {<<n, a>>}
      /\ regSize' = [r \in Registers |->
                       IF r = <<n, a>>
                       THEN (IF isNew THEN RegisterSize ELSE regSize[r])
                              + Len(pulled)
                       ELSE IF r \in sources THEN 0 ELSE regSize[r]]
      /\ numRegs' = [m \in Nodes |->
                       IF m \in sourceNodes THEN numRegs[m] - 1
                       ELSE IF m = n /\ isNew THEN numRegs[m] + 1
                       ELSE numRegs[m]]
      /\ nextRegNum' = IF isNew THEN [nextRegNum EXCEPT ![n] = @ + 1]
                       ELSE nextRegNum

\* control simulated here, target elsewhere: the target's register comes here
GatePullTarget(n, v, w) ==
  LET a == SimOf(v).reg
      b == RegisterOf(w)
  IN  /\ v.simNode = n
      /\ w.simNode # n
      /\ MergeFrom(n, a, [x \in {b} |-> 0], engine[b])
      /\ ApplyCnot(engine'[<<n, a>>][SimOf(v).num + 1],
                   engine'[<<n, a>>][Len(engine[<<n, a>>]) + SimOf(w).num + 1])
      /\ UNCHANGED outcome

\* target simulated here, control elsewhere: the control's register comes here
GatePullControl(n, v, w) ==
  LET a == SimOf(w).reg
      b == RegisterOf(v)
  IN  /\ v.simNode # n
      /\ w.simNode = n
      /\ MergeFrom(n, a, [x \in {b} |-> 0], engine[b])
      /\ ApplyCnot(engine'[<<n, a>>][Len(engine[<<n, a>>]) + SimOf(v).num + 1],
                   engine'[<<n, a>>][SimOf(w).num + 1])
      /\ UNCHANGED outcome

\* the two are simulated at two other nodes: both registers come here, into
\* a new register, the control's first
GatePullBoth(n, v, w) ==
  LET a == nextRegNum[n]
      b == RegisterOf(v)
      c == RegisterOf(w)
      before == Len(engine[b])
  IN  /\ v.simNode # n
      /\ w.simNode # n
      /\ v.simNode # w.simNode
      /\ CanAddRegister(n)
      /\ MergeFrom(n, a, [x \in {b, c} |-> IF x = b THEN 0 ELSE before],
                   engine[b] \o engine[c])
      /\ ApplyCnot(engine'[<<n, a>>][SimOf(v).num + 1],
                   engine'[<<n, a>>][before + SimOf(w).num + 1])
      /\ UNCHANGED outcome

-----------------------------------------------------------------------------

Create ==
  \E n \in Nodes :
    \/ NewRegister(n)
    \/ \E q \in Qubits \ Held :
         \/ \E ignoreMax \in BOOLEAN : NewQubit(n, q, ignoreMax)
         \/ \E r \in RegIds : NewQubitInReg(n, q, r)

\* one virtual qubit
Operate ==
  \E n \in Nodes : \E v \in virtQubits[n] :
    \/ SingleGate(n, v)
    \/ MeasureInPlace(n, v)
    \/ Measure(n, v)
    \/ \E m \in Nodes : SendQubit(n, v, m)

\* _two_qubit_gate with control v and target w, two virtual qubits of node n
TwoQubitGate(n, v, w) ==
  \/ GateInRegister(n, v, w)
  \/ GateLocalMerge(n, v, w)
  \/ GatePullTarget(n, v, w)
  \/ GatePullControl(n, v, w)
  \/ GatePullBoth(n, v, w)

Entangle ==
  \E n \in Nodes : \E v, w \in virtQubits[n] : v # w /\ TwoQubitGate(n, v, w)

Next == Create \/ Operate \/ Entangle

Spec == Init /\ [][Next]_vars

-----------------------------------------------------------------------------
(* Correctness.                                                            *)

\* The central property: the position a virtual qubit's simulated qubit
\* stands at holds the qubit the application means.  Every renumbering after
\* a measurement (virtual.py:876), every offset of a merge (952, 1000) and
\* every new reference handed out (1077) must be right for it to hold.
Addressing ==
  \A n \in Nodes : \A v \in virtQubits[n] :
    \E s \in simQubits[v.simNode] :
      /\ s.simNum = v.simNum
      /\ At(v.simNode, s) = v.qubit

\* A qubit of the application is available at one node at a time, as one
\* virtual qubit: send_qubit hands it over without copying or losing it.
HeldOnce ==
  \A n, m \in Nodes : \A v \in virtQubits[n], w \in virtQubits[m] :
    v.qubit = w.qubit => n = m /\ v = w

\* No two simulated qubits of the network stand for one qubit: a merge hands
\* a register over, it leaves no copy at the old simulating node.
SimulatedOnce ==
  \A n, m \in Nodes : \A s \in simQubits[n], t \in simQubits[m] :
    At(n, s) = At(m, t) => n = m /\ s = t

\* The numbers by which virtual and simulated qubits are looked up (get_
\* virtual_ref, _q_num_to_obj) are unambiguous at each node.
NumbersUnique ==
  \A n \in Nodes :
    /\ \A v, w \in virtQubits[n] : v.num = w.num => v = w
    /\ \A s, t \in simQubits[n] : s.simNum = t.simNum => s = t

\* The positions of the simulated qubits of a register are exactly the
\* positions of its engine, each taken once.
PositionsExact ==
  \A n \in Nodes :
    /\ \A s \in simQubits[n] : s.num < Len(engine[<<n, s.reg>>])
    /\ \A s, t \in simQubits[n] : s.reg = t.reg /\ s.num = t.num => s = t
    /\ \A r \in RegIds : \A p \in 0 .. (Len(engine[<<n, r>>]) - 1) :
         \E s \in simQubits[n] : s.reg = r /\ s.num = p

\* No simulated qubit outlives the virtual qubit it backs: nothing is left
\* behind by measuring, sending and merging.
NoOrphan ==
  \A n \in Nodes : \A s \in simQubits[n] :
    \E m \in Nodes : \E v \in virtQubits[m] :
      v.simNode = n /\ v.simNum = s.simNum

\* numRegs, which is counted up and down by hand, is the number of registers
\* in the dictionary, and stays within maxRegs.
RegistersOf(n) == {r \in registers : r[1] = n}

RegisterCount ==
  \A n \in Nodes :
    /\ numRegs[n] = Cardinality(RegistersOf(n))
    /\ numRegs[n] <= MaxRegisters

\* Qubits are only in registers that are in the dictionary, and these have
\* numbers that have been handed out: a number never comes back, which is
\* what update_virtual_merge relies on when it tells registers by number.
RegistersLive ==
  \A r \in Registers :
    /\ r \notin registers => engine[r] = << >>
    /\ r \in registers => r[2] < nextRegNum[r[1]]

\* A register never holds more qubits than its engine accepts: absorb raises
\* if a merge has not enlarged maxQubits first (virtual.py:939, 991).
WithinSize ==
  \A r \in Registers : Len(engine[r]) <= regSize[r]

\* The simulated qubits are the simulation, no more and no less: one for each
\* qubit in use, and none that no virtual qubit leads to.
SimulationExact == SimulatedOnce /\ NoOrphan

\* The node's books and its engines agree: on the positions, on the registers
\* that exist, and on the room in them.  A node never asks an engine how many
\* qubits it has, so each measurement and merge must carry all three along.
EnginesExact == PositionsExact /\ RegistersLive /\ WithinSize

\* All of it together is inductive.
Consistent ==
  /\ TypeOK
  /\ Addressing
  /\ HeldOnce
  /\ SimulatedOnce
  /\ NumbersUnique
  /\ PositionsExact
  /\ NoOrphan
  /\ RegisterCount
  /\ RegistersLive
  /\ WithinSize

-----------------------------------------------------------------------------
(* The abstract network this implements.                                   *)

CONSTANT Nowhere
ASSUME NowhereAssumption == Nowhere \notin Nodes

\* where the application finds a qubit
Home == [q \in Qubits |->
           IF \E n \in Nodes : \E v \in virtQubits[n] : v.qubit = q
           THEN CHOOSE n \in Nodes : \E v \in virtQubits[n] : v.qubit = q
           ELSE Nowhere]

Network == INSTANCE QubitNetwork WITH home <- Home

\* Every step of the backend is one of a network of qubits, or none at all,
\* however the qubits are spread over registers and simulating nodes.
ImplementsNetwork == Network!Spec

\* It is also the step the client asked for: the gate, measurement or hand-
\* over acts on the very qubits named by the virtual qubits it was called
\* with, in their roles of control and target, and on no other (1269-1389).
ActsAsAsked ==
  [][\A n \in Nodes : \A v \in virtQubits[n] :
       /\ SingleGate(n, v) => Network!X(n, v.qubit)
       /\ MeasureInPlace(n, v) => Network!MeasureInPlace(n, v.qubit)
       /\ Measure(n, v) => Network!Measure(n, v.qubit)
       /\ \A m \in Nodes : SendQubit(n, v, m) => Network!Send(n, v.qubit, m)
       /\ \A w \in virtQubits[n] \ {v} :
            TwoQubitGate(n, v, w) => Network!Cnot(n, v.qubit, w.qubit)]_vars
=============================================================================
