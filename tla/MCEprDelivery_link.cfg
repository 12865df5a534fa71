CONSTANTS
  alice = alice
  bob = bob
  Nodes = {alice, bob}
  SocketIds = {0}
  Sessions <- LinkSessions
  Home <- LinkHome
  Job <- LinkJob
  Peer <- Straight
  MaxQubits <- LinkRoom
  MaxTimeouts = 1
  Nobody = Nobody
SPECIFICATION Spec
INVARIANTS
  PairsMatch
  LockNeverStuck
  NothingStranded
  NoAddressClash
CHECK_DEADLOCK FALSE
