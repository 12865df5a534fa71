CONSTANTS
  alice = alice
  bob = bob
  charlie = charlie
  Nodes = {alice, bob, charlie}
  Qubits = {q1, q2, q3}
  Clients <- MergeClients
  At <- AtNode
  Kinds <- MergeKinds
  MaxOps = 1
  MaxTimeouts = 0
SPECIFICATION Spec
INVARIANTS
  TypeOK
  Exclusive
  NoLostLock
  SimulatorLocked
  RegisterInOnePlace
PROPERTIES
  NotMovedUnderneath
CHECK_DEADLOCK FALSE
