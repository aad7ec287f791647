SPECIFICATION Spec
CONSTANTS
  Files = {f, g}
  Workers = {w}
  None = None
  MaxContent = 4
  MaxExternal = 1
  MaxFailures = 1
  MayDiscard = TRUE
  ExternalInSave = TRUE
  MayLift = TRUE
SYMMETRY Symmetry
CHECK_DEADLOCK FALSE
INVARIANT FileReadsCurrent
INVARIANT LossReported
INVARIANT LoadsCurrentUndisturbed
INVARIANT ValidatedIsWrittenUndisturbed
PROPERTY PreviousKeptUndisturbed
PROPERTY NewerKept
