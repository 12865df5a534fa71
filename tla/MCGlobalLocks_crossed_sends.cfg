CONSTANTS
  alice = alice
  bob = bob
  charlie = charlie
  Nodes = {alice, bob}
  Qubits = {q1, q2}
  Clients <- SendClients
  At <- AtNode
  Kinds <- SendKinds
  MaxOps = 1
  MaxTimeouts = 0
SPECIFICATION FairSpec
PROPERTIES
  OperationsFinish
CHECK_DEADLOCK FALSE
