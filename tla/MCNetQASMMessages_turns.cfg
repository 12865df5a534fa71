CONSTANTS
  probe = probe
  first = first
  second = second
  NoClient = NoClient
  Clients = {probe, first, second}
  Job <- InTurn
  Blocks <- Waits
  MaxResults = 1
  Overlap = FALSE
SPECIFICATION FairSpec
INVARIANTS
  TypeOK
  
  

  
CHECK_DEADLOCK FALSE
