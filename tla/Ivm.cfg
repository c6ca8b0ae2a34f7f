CONSTANTS
  size = 3
  Explorer = {0, 1}
  Costs <- Graded
  sortNodes = 1
  branchingMode <- Alternate
  findAll = FALSE
  Margin = 1
SPECIFICATION Spec
INVARIANTS TypeOK Exact RowsArePermutations
PROPERTIES ImplementsPool Termination
