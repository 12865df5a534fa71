CONSTANTS
  ann = ann
  bob = bob
  default = default
  lab = lab
  Nodes = {ann, bob}
  Networks = {default, lab}
  Default = default
  NodeLists <- Lists
  Asked = {"path", "complete"}
  Additions <- Added
  MaxPort = 12
  MaxStarts = 2
  MaxEdits = 1
  Contested = {2}
  Serial = TRUE
  NoPort = NoPort
  NoTopology = NoTopology
  Nothing = Nothing
SPECIFICATION FairSpec
INVARIANTS
  TypeOK
  OwnServers
  NeighborsAgree

  
CHECK_DEADLOCK FALSE
