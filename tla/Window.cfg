SPECIFICATION WindowSpec
CONSTANTS
  Values = {0, 1, 2}
  DefaultCount = 2
  MaxCount = 4
INVARIANT WindowIsRecent
PROPERTY CleanStays
