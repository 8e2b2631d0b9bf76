SPECIFICATION RecordsSafety
CONSTANTS
  Controller = {1, 2}
  Device = {}
  Scene = {7}
  PerMs = 2
  HlcMax = 3
  WallMax = 1
  Budget = 0
  MaxQueue = 0
INVARIANT
  EqualClocksSameRecord
