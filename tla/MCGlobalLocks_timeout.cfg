CONSTANTS
  alice = alice
  bob = bob
  charlie = charlie
  Nodes = {alice, bob, charlie}
  Qubits = {q1, q2, q3}
  Clients <- TimeoutClients
  At <- AtNode
  Kinds <- TimeoutKinds
  MaxOps = 1
  MaxTimeouts = 1
SPECIFICATION Spec
INVARIANTS
  NeverLost
CHECK_DEADLOCK FALSE
