CONSTANTS
  Nodes = {alice, bob, charlie}
  Qubits = {q1, q2, q3}
  Nowhere = Nowhere
  MaxQubits = 2
  MaxRegisters = 2
  RegisterSize = 2
  RegBound = 1
SPECIFICATION Spec
SYMMETRY Symmetry
INVARIANTS
  Addressing
  SimulationExact
PROPERTY
  ActsAsAsked
CHECK_DEADLOCK FALSE
