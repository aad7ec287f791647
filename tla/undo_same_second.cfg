SPECIFICATION Spec
CONSTANTS
  Refs = {a}
  Spots = {p, q}
  MaxItems = 1
  MaxRuns = 1
  MaxUuid = 2
  MaxRaises = 0
  MaxLost = 0
  MaxUnsaved = 0
  MaxRefused = 0
  MaxDeaths = 0
  Revisits = FALSE
  ImprintLogs = "same second"
SYMMETRY Symmetry
CHECK_DEADLOCK FALSE
INVARIANT AllLogged
