SPECIFICATION Spec
CONSTANTS
  nbJob = 5
  nbMachines = 3
  Instances <- BothInstances
  Starts <- OneStart
  igiter = 1
  INT_MAX = 1000
  Settings <- AllSettings
  nbIVM = 4
  Margin = 3
  StrongChoices <- SomeChildren
INVARIANTS UpperBoundAttained BoundsAdmissible Exact EvaluatedOnce
