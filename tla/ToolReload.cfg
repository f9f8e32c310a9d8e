SPECIFICATION ToolSpec
CONSTANTS
  Anchors = {1, 3}
  Errors = {0, 2}
  Known = 1
  Offsets = {1}
  Versions = {v1}
  Drift = FALSE
  DiskFull = FALSE
  NaN = NaN
  Unset = Unset
  NoFile = NoFile
  Torn = Torn
  MaxDegrees = 3
INVARIANT SavedFileLoads
