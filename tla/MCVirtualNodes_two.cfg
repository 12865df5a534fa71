CONSTANTS
  Nodes = {alice, bob}
  Qubits = {q1, q2, q3}
  Nowhere = Nowhere
  MaxQubits = 2
  MaxRegisters = 2
  RegisterSize = 1
  RegBound = 2
SPECIFICATION Spec
SYMMETRY Symmetry
INVARIANTS
  TypeOK
  HeldOnce
  NumbersUnique
  EnginesExact
  RegisterCount
PROPERTY
  ImplementsNetwork
CHECK_DEADLOCK FALSE
