CONSTANTS
  M = 3
  Leaf <- TwoLeaves
  mc_ws_select = "o"
  singleNode = TRUE
SPECIFICATION FairSpec
PROPERTIES TerminationDetected
