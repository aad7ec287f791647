SPECIFICATION Spec
CONSTANTS
  Refs = {a, b}
  Spots = {p, q}
  MaxItems = 2
  MaxRuns = 1
  MaxUuid = 2
  MaxRaises = 1
  MaxLost = 1
  MaxUnsaved = 1
  MaxRefused = 1
  MaxDeaths = 1
  Revisits = FALSE
  ImprintLogs = "later"
SYMMETRY Symmetry
CHECK_DEADLOCK FALSE
INVARIANT UndoRestores
INVARIANT AllLogged
