SPECIFICATION RecordingSpec
CONSTANTS
  CoreActions <- Reaction
  MaxValueLength = 3
  Mtu = 3
  Scenario <- Scenarios
  FormatVersion = 1
  Notes = 1
  OpSample <- Differing
INVARIANTS
  ReadsBack
  VerdictIsRight
  EventsToldApart
CHECK_DEADLOCK FALSE
