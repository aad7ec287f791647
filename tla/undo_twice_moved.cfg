SPECIFICATION Spec
CONSTANTS
  Refs = {a, b}
  Spots = {p, q}
  MaxItems = 2
  MaxRuns = 1
  MaxUuid = 1
  MaxRaises = 0
  MaxLost = 0
  MaxUnsaved = 0
  MaxRefused = 0
  MaxDeaths = 0
  Revisits = TRUE
  ImprintLogs = "later"
SYMMETRY Symmetry
CHECK_DEADLOCK FALSE
INVARIANT UndoRestores
