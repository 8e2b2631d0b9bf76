SPECIFICATION ShardsSpec
CONSTANTS
  Cores = 2
  Whole = Whole
  Strip = 3
  show = show
  alert = alert
  Source = {show, alert}
  Coverings <- Overlapping
  Faults <- OneFault
  MaxLayers = 2
  Trail = 2
INVARIANTS
  SplitIsWhole
  NothingLost
