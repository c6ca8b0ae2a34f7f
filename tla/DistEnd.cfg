CONSTANTS
  w1 = w1
  w2 = w2
  Workers = {w1, w2}
  M <- OneAndTwo
  InitModes = {3, 4}
  Files = {}
  Notifies = {w1, w2}
  Crashes = 0
  pbsize = 3
  lar = 2
  SmallestPart = 2
SPECIFICATION Spec
INVARIANTS EndSound Delivered OnlySmallerExit
PROPERTY AllEnd
