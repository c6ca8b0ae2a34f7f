CONSTANTS
  h1 = h1
  Heuristics = {h1}
  MaxUnits = 2
  MaxFound = 2
SPECIFICATION Spec
INVARIANTS TypeOK BufferSafe ReportsCurrent
PROPERTIES KeepsReporting EndConfirmed
