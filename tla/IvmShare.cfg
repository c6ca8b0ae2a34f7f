CONSTANTS
  size = 4
  Explorer = {0, 1}
  Costs <- Flat
  sortNodes = 0
  branchingMode = 1
  findAll = TRUE
  Margin = 2
SPECIFICATION Spec
INVARIANTS AllOptimaVisited VisitedOnce
