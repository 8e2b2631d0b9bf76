SPECIFICATION ZonesSpec
CONSTANTS
  Led = {0, 1}
  Site = {0, 1, 2}
  Device = {d1, d2}
  Self = d1
  ZoneId = {z1, z2}
  Selector <- Selectors
  Settle = 2
INVARIANTS
  NothingForgotten
PROPERTIES
  NoFlicker
  EditsAreShown
  DarkIsExplained
