SPECIFICATION RecordsSpec
CONSTANTS
  Controller = {1, 2}
  Device = {}
  Scene = {7}
  PerMs = 2
  HlcMax = 3
  WallMax = 1
  Budget = 2
  MaxQueue = 1
PROPERTIES
  FreshEditWins
  EditsSurvive
  DigestsAgree
