SPECIFICATION Spec
CONSTANTS
  Files = {f, g}
  Workers = {}
  None = None
  MaxContent = 3
  MaxExternal = 0
  MaxFailures = 0
  MayDiscard = TRUE
  ExternalInSave = FALSE
  MayLift = FALSE
SYMMETRY Symmetry
CHECK_DEADLOCK FALSE
INVARIANT LoadsCurrent
