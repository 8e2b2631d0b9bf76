SPECIFICATION AdapterSpec
CONSTANTS
  Suite <- Suites
  Nothing = Nothing
  Id = {1, 2, 3, 4}
  Prefix = {11}
  Key = {21}
  Signature = {31}
  EmptyBytes = 39
  StripDevice = 4
  Projection <- Projections
  Parses = {40}
  RecordKinds = {1, 2, 3, 4}
  U8 = 8
  U16 = 16
  U32 = 32
  AmbientFloorMax = 0
  Never = Never
  MaxKeepers = 2
  MaxGatewayPriority = 2
  DefaultLease = 3
  PixelMax = 15
  NoPriority = NoPriority
  One = 4
  Nesting = 2
  Events = 4
INVARIANTS
  FramePaintsStack
  GatewayKeepsInside
  KeepersAgree
  PlacedInOrder
PROPERTIES
  EveryRequestAnswered
  ErrorsChangeNothing
