SPECIFICATION ChannelSpec
CONSTANTS
  Producer = {mic, desktop}
  Nobody = Nobody
  Priority = {1, 2}
  Lease = 2
  Hold = 2
  SeqSpace = 8
  Delay = 5
  FirstFrame = 5
  LastFrame = 12
INVARIANTS
  FreshIsTaken
PROPERTIES
  LatestWins
  OnlyFramesFreshen
  CrashedLetsGo
