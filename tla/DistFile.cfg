CONSTANTS
  w1 = w1
  w2 = w2
  Workers = {w1, w2}
  M <- TwoEach
  InitModes = {2}
  Files <- Quarters
  Notifies = {}
  Crashes = 2
  pbsize = 3
  lar = 2
  SmallestPart = 2
SPECIFICATION Spec
SYMMETRY Symmetry
INVARIANTS OptimumSafe SortedCopies
