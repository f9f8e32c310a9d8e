SPECIFICATION DumpSpec
CONSTANTS
  Products = {"Compact", "CompactPro", "Nano300"}
  MaxRetries = 2
  Attempts = 2
  Pages = 2
  ExtraPages = 3
  Frames = 2
INVARIANTS FeatureIsLatest PagesInOrder CopiesProduction
PROPERTIES ImplementsSetup DumpEnds
\* The program ends.
CHECK_DEADLOCK FALSE
