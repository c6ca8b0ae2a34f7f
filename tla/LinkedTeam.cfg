CONSTANTS
  M = 3
  Leaves = 4
  Select = "o"
SPECIFICATION Spec
INVARIANTS TypeOK CounterExact SleeperKnown
PROPERTIES ImplementsPool ExploredOrOvertaken
