SPECIFICATION FairSpec
CONSTANTS
  Pads = {2, 3}
  Means = {5, 6}
  HeaderSlopes = {0, 2}
  HostCals <- MCHostCals
  TRef = 22
  KPad = 1
  Reopens = TRUE
  Attempts = 2
  Budget = 3
  NaN = NaN
  NoTemp = NoTemp
  NoFrame = NoFrame
INVARIANTS StreamingSeeded HostOwnsMapping C0Coherent FailedOpenReleases
PROPERTIES AnchorMovesOnlyByPin OpenReturns ImplementsOwner
