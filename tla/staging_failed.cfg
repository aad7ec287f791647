SPECIFICATION Spec
CONSTANTS
  Files = {f, g}
  Workers = {}
  None = None
  MaxContent = 3
  MaxExternal = 0
  MaxFailures = 1
  MayDiscard = FALSE
  ExternalInSave = FALSE
  MayLift = FALSE
SYMMETRY Symmetry
CHECK_DEADLOCK FALSE
INVARIANT NothingLost
