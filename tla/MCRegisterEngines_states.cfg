CONSTANTS
  large = large
  small = small
  Engines = {large, small}
  MaxQubits <- Room
  Called <- Moves
  MaxInAll = 3
SPECIFICATION SpecBackend
INVARIANTS
  TypeOK
  ProperTableau
  GatesConjugate
  MeasurementsCollapse
  MergesJoin
  StatesRecognized
  PositionsPromised
CHECK_DEADLOCK FALSE
