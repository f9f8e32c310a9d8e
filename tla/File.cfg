SPECIFICATION FileSpec
CONSTANTS
  Saved <- MCSaved
  Numbers = {1, 2, 3, 4}
  FrameSize = 4
  Comments = 1
  MaxEdits = 1
  Garbage = Garbage
  Unset = Unset
  NaN = NaN
INVARIANTS ParsedIsLastValue RoundTrip TornLosesEnd
