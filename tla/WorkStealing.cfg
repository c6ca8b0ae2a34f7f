CONSTANTS
  M = 3
  Leaf <- TwoLeaves
  mc_ws_select = "o"
  singleNode = TRUE
SPECIFICATION Spec
INVARIANTS TypeOK NoFatalExit WorkConserved TerminationSound CounterExact RequestPending
PROPERTIES ImplementsPool
