CONSTANTS
  w1 = w1
  w2 = w2
  Workers = {w1, w2}
  M <- OneAndTwo
  InitModes = {1}
  Files = {}
  Notifies = {}
  Crashes = 1
  pbsize = 3
  lar = 2
  SmallestPart = 2
SPECIFICATION Spec
INVARIANTS TypeOK OptimumSafe OneOwner
