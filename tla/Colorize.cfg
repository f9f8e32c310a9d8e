SPECIFICATION Spec
CONSTANTS
  Temps = {0, 1}
  Limits = {0, 1}
  Transforms <- MCTransforms
  DefaultCount = 2
  MaxCount = 3
  MaxRaw = 2
CONSTRAINT FewChanges
INVARIANTS BoundsHonoured AutomaticIsMedian
