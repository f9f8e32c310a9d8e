SPECIFICATION Spec
CONSTANTS
  Pads = {2, 3}
  Means = {5}
  HeaderSlopes = {0, 2}
  HostCals <- MCHostCals
  TRef = 22
  KPad = 1
  Reopens = TRUE
  Attempts = 2
  Budget = 3
  NaN = NaN
  NoTemp = NoTemp
  NoFrame = NoFrame
INVARIANT PinSurvivesReopen
