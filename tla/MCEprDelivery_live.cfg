CONSTANTS
  alice = alice
  bob = bob
  Nodes = {alice, bob}
  SocketIds = {0, 1}
  Sessions <- ReuseSessions
  Home <- ReuseHome
  Job <- ReuseJob
  Peer <- Crossed
  MaxQubits <- Ample
  MaxTimeouts = 0
  Nobody = Nobody
SPECIFICATION FairSpec
INVARIANTS
  TypeOK
  ResultsRight
  ListedHalves
PROPERTIES
  Served
CHECK_DEADLOCK FALSE
