SPECIFICATION Spec
CONSTANTS
  Grabbers = {g1, g2}
  Setters = {s1, s2}
  Opener = o
  MaxCals = 2
  Nobody = Nobody
SYMMETRY Symmetric
INVARIANTS OwnFrame CalibrationWhole BootSeeds
