SPECIFICATION Spec
CONSTANTS
  Files = {f, g}
  Workers = {}
  None = None
  MaxContent = 3
  MaxExternal = 1
  MaxFailures = 0
  MayDiscard = FALSE
  ExternalInSave = TRUE
  MayLift = FALSE
SYMMETRY Symmetry
CHECK_DEADLOCK FALSE
PROPERTY PreviousKept
