CONSTANTS
  M = 2
  Leaf <- ThreeLeaves
  mc_ws_select = "left"
  singleNode = TRUE
SPECIFICATION FairSpec
PROPERTIES TerminationDetected
