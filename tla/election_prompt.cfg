SPECIFICATION MeshSafety
CONSTANTS
  Node <- ThreeDevices
  Capacity = {1, 2}
  FollowerTimeout = 3
  CandidateSettle = 2
  TickInterval = 1
  YieldHysteresis = 3
  EpochMax = 2
  Faults = {"off"}
  Budget = 1
  Endless = TRUE
  Crowd = 3
  Loopback = TRUE
  MaxInFlight = 20
  Prompt = TRUE
INVARIANTS
  AtMostOneLeader
PROPERTIES
  NobodyStandsAgainstLeader
