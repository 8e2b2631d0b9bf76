SPECIFICATION GatewaySpec
CONSTANTS
  Id = {1, 2, 3}
  ConsoleId = {3}
  Kind <- AllKinds
  AppKind <- AppKinds
  Binding <- Bindings
  Frames <- LoudFrames
  AmbientFloorMax = 0
  MaxGatewayPriority = 1
  DefaultLease = 1
  PixelMax = 4
  NoPriority = NoPriority
  Budget = 3
  MaxConcurrent = 2
  Never = Never
  TimeMax = 2
  Horizon = 3
  Calls = 4
INVARIANTS
  NothingLeftOut
  ToldTheTruth
  NothingOverstays
  TopCovers
  NothingSticks
  ConsolesHideNoAlert
  CeilingTakesHold
