SPECIFICATION SessionSpec
CONSTANTS
  Frames = 2
  Warmup = 1
  Factor = 1
  Slack = 1
  Anchors = {1, 3}
  Errors = {0, 2}
  Known = 1
  Offsets = {1}
  Versions = {v1}
  Drift = TRUE
  DiskFull = TRUE
  NaN = NaN
  Unset = Unset
  NoFile = NoFile
  Torn = Torn
  MaxDegrees = 2
INVARIANTS SuccessIsFull KnownSurfaceReads CapturesSetUp UnsavedIsCut MeasuredUnderSeed
PROPERTIES RawCapturesReturn
