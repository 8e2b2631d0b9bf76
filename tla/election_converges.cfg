SPECIFICATION MeshSpec
CONSTANTS
  Node <- ThreeDevices
  Capacity = {1}
  FollowerTimeout = 3
  CandidateSettle = 2
  TickInterval = 1
  YieldHysteresis = 3
  EpochMax = 2
  Faults <- Disturbed
  Budget = 1
  Endless = FALSE
  Crowd = 3
  Loopback = FALSE
  MaxInFlight = 20
  Prompt = TRUE
PROPERTIES
  Converges
  RolesSettle
  StrongestKeepsRole
