SPECIFICATION NodeSpec
CONSTANTS
  Node <- ThreeDevices
  Capacity = {1}
  FollowerTimeout = 3
  CandidateSettle = 2
  TickInterval = 1
  YieldHysteresis = 3
  EpochMax = 2
  SamplesRequired = 2
  ResyncInterval = 4
  MissLimit = 3
  TickPeriod = 1
  RoundTrips = {1}
  ProbeTimeout = 1
  Faults <- Disturbed
  Budget = 1
  Endless = FALSE
  Crowd = 2
  Loopback = TRUE
  MaxInFlight = 6
  Prompt = TRUE
PROPERTIES
  ImplementsElection
  FollowersSync
