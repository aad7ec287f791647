SPECIFICATION Spec
CONSTANTS
  Files = {f}
  Workers = {w}
  None = None
  MaxContent = 3
  MaxExternal = 0
  MaxFailures = 0
  MayDiscard = FALSE
  ExternalInSave = FALSE
  MayLift = FALSE
SYMMETRY Symmetry
CHECK_DEADLOCK FALSE
INVARIANT ValidatedIsWritten
