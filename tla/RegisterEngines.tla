--------------------------- MODULE RegisterEngines ---------------------------
(***************************************************************************)
(* The engines that simulate a register with amplitudes: qutipEngine       *)
(* (virtual_node/qutip_simulator.py) and projectQEngine                    *)
(* (project_q_simulator.py), beside the stabilizer engine.  Which one a    *)
(* node uses is a setting.  All of them promise what quantumEngine         *)
(* (basics.py) declares: a register is a sequence of qubits, addressed by  *)
(* position.                                                               *)
(*                                                                         *)
(* A qubit is a bit here: enough to tell which qubit a call acts on.  X    *)
(* stands for the gates on one qubit, CNOT for those on two.  QuTip keeps  *)
(* one factor per position.  ProjectQ keeps its bits in an order of its    *)
(* own, by identifier, and the register is a list of identifiers.          *)
(***************************************************************************)
EXTENDS StabilizerStates

VARIABLES
  backend,      \* settings.sim_backend
  activeQubits, \* activeQubits of each engine
  factors,      \* QuTip: qubitReg, a tensor product of factors
  qubitReg,     \* ProjectQ: qubitReg, a list of identifiers
  order,        \* ProjectQ: the identifier of each bit of the simulator
  bits,         \* ProjectQ: the bits themselves
  promised      \* for the properties: the register, by the calls made

projectQVars == <<qubitReg, order, bits>>
engineVars == <<activeQubits, factors, projectQVars, promised>>
allVars == <<group, backend, engineVars>>

Numerical == {"qutip", "projectq"}
Bits == {0, 1}
Flip(b) == 1 - b
CNOTs(c, t) == (c + t) % 2

IndexIn(s, x) == CHOOSE i \in DOMAIN s : s[i] = x

\* a function with a value per engine, with v for e
At(f, e, v) == [f EXCEPT ![e] = v]

-----------------------------------------------------------------------------
(* qutipEngine.                                                            *)

\* add_qubit: tensor(qubitReg, newQubit)
QutipAdd(e) == factors' = At(factors, e, Append(factors[e], 0))

\* apply_onequbit_gate, apply_twoqubit_gate: gate_expand to the positions
QutipOneQubit(e, p) == factors' = At(factors, e, [factors[e] EXCEPT ![p] = Flip(@)])
QutipTwoQubits(e, c, t) ==
  factors' = At(factors, e, [factors[e] EXCEPT ![t] = CNOTs(factors[e][c], @)])

\* remove_qubit: ptrace over what is kept
QutipRemove(e, p) == factors' = At(factors, e, RemoveAt(factors[e], p))

\* absorb, absorb_parts
QutipAbsorb(e, f) == factors' = [factors EXCEPT ![e] = @ \o factors[f], ![f] = << >>]

-----------------------------------------------------------------------------
(* projectQEngine, and the simulator of ProjectQ as the engine uses it.    *)

\* an identifier that is not in use
FreshId(ids) == CHOOSE i \in 1 .. Len(ids) + 1 : i \notin {ids[j] : j \in DOMAIN ids}

\* allocate_qubit: gates are delayed and reordered, so the new bit may come to
\* be anywhere among the others.
Allocate(sim, place) ==
  [order |-> InsertAt(sim.order, place, FreshId(sim.order)),
   bits |-> InsertAt(sim.bits, place, 0)]

\* A qubit that was measured and dropped is collected.
Deallocate(sim, id) ==
  LET i == IndexIn(sim.order, id)
  IN  [order |-> RemoveAt(sim.order, i), bits |-> RemoveAt(sim.bits, i)]

Simulator(e) == [order |-> order[e], bits |-> bits[e]]
SetSimulator(e, sim) == order' = At(order, e, sim.order) /\ bits' = At(bits, e, sim.bits)

\* where the bit of the qubit at position p is
BitOf(e, p) == IndexIn(order[e], qubitReg[e][p])

\* add_fresh_qubit
ProjectQAdd(e, place) ==
  /\ place <= Len(order[e]) + 1
  /\ qubitReg' = At(qubitReg, e, Append(qubitReg[e], FreshId(order[e])))
  /\ SetSimulator(e, Allocate(Simulator(e), place))

\* apply_onequbit_gate, apply_twoqubit_gate
ProjectQOneQubit(e, p) == bits' = At(bits, e, [bits[e] EXCEPT ![BitOf(e, p)] = Flip(@)])
ProjectQTwoQubits(e, c, t) ==
  bits' = At(bits, e, [bits[e] EXCEPT ![BitOf(e, t)] = CNOTs(bits[e][BitOf(e, c)], @)])

\* measure_qubit_inplace and remove_qubit: the object is dropped.
ProjectQRemove(e, p) ==
  /\ SetSimulator(e, Deallocate(Simulator(e), qubitReg[e][p]))
  /\ qubitReg' = At(qubitReg, e, RemoveAt(qubitReg[e], p))

\* MUTANT: bits are sent as if they stood in the order of the register
NoPlaces(e) == [p \in DOMAIN qubitReg[e] |-> p]

\* get_register_RI: for each position, where its bit is
Places(e) == [p \in DOMAIN qubitReg[e] |-> BitOf(e, p)]

\* allocate_qureg, with a state prepared in it: new lists the identifiers.
WithState(sim, state, places) ==
  LET add[j \in 0 .. Len(state)] ==
        IF j = 0
        THEN [order |-> sim.order, bits |-> sim.bits, new |-> << >>]
        ELSE LET s == add[j - 1]
             IN  [order |-> InsertAt(s.order, places[j], FreshId(s.order)),
                  bits |-> InsertAt(s.bits, places[j], state[j]),
                  new |-> Append(s.new, FreshId(s.order))]
  IN  add[Len(state)]

\* absorb, and absorb_parts with what get_register_RI gave at another node
ProjectQAbsorb(e, f, places) ==
  LET sim == WithState(Simulator(e), bits[f], places)
      new == [p \in DOMAIN qubitReg[f] |-> sim.new[Places(f)[p]]]
  IN  /\ \A j \in DOMAIN bits[f] : places[j] < Len(order[e]) + 1 + j
      /\ order' = [order EXCEPT ![e] = sim.order, ![f] = << >>]
      /\ bits' = [bits EXCEPT ![e] = sim.bits, ![f] = << >>]
      /\ qubitReg' = [qubitReg EXCEPT ![e] = @ \o new, ![f] = << >>]

-----------------------------------------------------------------------------
(* The calls of quantumEngine, with what the caller may rely on.  Positions *)
(* are counted from 1.  A measurement in place moves no qubit.              *)

Active(e) == 1 .. activeQubits[e]

\* add_fresh_qubit
AddNumerical(e, place) ==
  /\ activeQubits[e] < MaxQubits[e]
  /\ FoldFunction(+, 0, activeQubits) < MaxInAll
  /\ activeQubits' = At(activeQubits, e, activeQubits[e] + 1)
  /\ promised' = At(promised, e, Append(promised[e], 0))
  /\ \/ backend = "qutip" /\ QutipAdd(e) /\ UNCHANGED projectQVars
     \/ backend = "projectq" /\ ProjectQAdd(e, place) /\ UNCHANGED factors

\* apply_X, for the gates on one qubit
OneQubit(e, p) ==
  /\ promised' = At(promised, e, [promised[e] EXCEPT ![p] = Flip(@)])
  /\ \/ backend = "qutip" /\ QutipOneQubit(e, p) /\ UNCHANGED bits
     \/ backend = "projectq" /\ ProjectQOneQubit(e, p) /\ UNCHANGED factors
  /\ UNCHANGED <<activeQubits, qubitReg, order>>

\* apply_CNOT, for the gates on two
TwoQubits(e, c, t) ==
  /\ promised' = At(promised, e, [promised[e] EXCEPT ![t] = CNOTs(promised[e][c], @)])
  /\ \/ backend = "qutip" /\ QutipTwoQubits(e, c, t) /\ UNCHANGED bits
     \/ backend = "projectq" /\ ProjectQTwoQubits(e, c, t) /\ UNCHANGED factors
  /\ UNCHANGED <<activeQubits, qubitReg, order>>

\* measure_qubit, or remove_qubit: the qubits behind it move up.
Take(e, p) ==
  /\ activeQubits' = At(activeQubits, e, activeQubits[e] - 1)
  /\ promised' = At(promised, e, RemoveAt(promised[e], p))
  /\ \/ backend = "qutip" /\ QutipRemove(e, p) /\ UNCHANGED projectQVars
     \/ backend = "projectq" /\ ProjectQRemove(e, p) /\ UNCHANGED factors

\* Merges are between registers that hold qubits; the one absorbed is deleted.
AbsorbRegister(e, f, places) ==
  /\ activeQubits[e] > 0 /\ activeQubits[f] > 0
  /\ activeQubits[e] + activeQubits[f] <= MaxQubits[e]
  /\ activeQubits' = [activeQubits EXCEPT ![e] = @ + activeQubits[f], ![f] = 0]
  /\ promised' = [promised EXCEPT ![e] = @ \o promised[f], ![f] = << >>]
  /\ \/ backend = "qutip" /\ QutipAbsorb(e, f) /\ UNCHANGED projectQVars
     \/ backend = "projectq" /\ ProjectQAbsorb(e, f, places) /\ UNCHANGED factors

-----------------------------------------------------------------------------
(* All backends.  remote_new_register makes the engine of the setting.     *)

InitBackend ==
  /\ Init
  /\ backend \in {"stabilizer"} \cup Numerical
  /\ activeQubits = [e \in Engines |-> 0]
  /\ factors = [e \in Engines |-> << >>]
  /\ qubitReg = [e \in Engines |-> << >>]
  /\ order = [e \in Engines |-> << >>]
  /\ bits = [e \in Engines |-> << >>]
  /\ promised = [e \in Engines |-> << >>]

NumericalNext ==
  /\ backend \in Numerical
  /\ \E e \in Engines :
       \/ \E place \in 1 .. MaxInAll : AddNumerical(e, place)
       \/ \E p \in Active(e) : OneQubit(e, p) \/ Take(e, p)
       \/ \E c, t \in Active(e) : c # t /\ TwoQubits(e, c, t)
       \/ \E f \in Engines \ {e} : \E places \in [DOMAIN bits[f] -> 1 .. MaxInAll] :
            AbsorbRegister(e, f, places)
  /\ UNCHANGED <<group, backend>>

NextBackend ==
  \/ backend = "stabilizer" /\ Next /\ UNCHANGED <<backend, engineVars>>
  \/ NumericalNext

SpecBackend == InitBackend /\ [][NextBackend]_allVars

\* Whatever the order in which ProjectQ keeps its bits and however qubits were
\* added, taken out and merged, position p of a register is the qubit that
\* was promised there, and the counts are right, with both libraries.
PositionsPromised ==
  backend \in Numerical =>
    \A e \in Engines :
      /\ activeQubits[e] = Len(promised[e])
      /\ activeQubits[e] <= MaxQubits[e]
      /\ IF backend = "qutip"
         THEN factors[e] = promised[e]
         ELSE /\ Len(qubitReg[e]) = activeQubits[e]
              /\ [p \in DOMAIN qubitReg[e] |-> bits[e][BitOf(e, p)]] = promised[e]
=============================================================================
