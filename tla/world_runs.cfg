SPECIFICATION WorldSpec
CONSTANTS
  Node = {1, 2}
  Group = {5}
  FaultModels <- PerfectOrWifi
  Million = 4
  SlewPpm = 2
  OwedMax = 3
  Key = {1, 2}
  KeyLen = 1
  MaxValueLen = 2
  Capacity = 4
  Duration = 3
  MaxPasses = 2
  Delay = {0, 2}
  Offset <- BackAndForth
  Rate <- Slow
  Length = {1, 3}
  Ops = 2
INVARIANTS
  WorldTypeOK
  NothingIsLate
PROPERTIES
  CorrectionsConverge
  RunEnds
CHECK_DEADLOCK FALSE
