CONSTANTS
  M = 2
  Leaf <- ThreeLeaves
  mc_ws_select = "r"
  singleNode = FALSE
SPECIFICATION FairSpec
PROPERTIES ShutdownCompletes WaitEnds
