SPECIFICATION FairLinkSpec
CONSTANTS
  Total = 5
  Request = 2
  Sizes = {0, 4, 5, 7}
  MaxGrabs = 3
  Product = "CompactPro"
  MaxRetries = 4
INVARIANTS FitsBuffer GrabsFromBooted
PROPERTIES SetupReturns ImplementsWholeFrame
