SPECIFICATION Spec
CONSTANTS
  Items = {x, y}
  Places = {l, m}
  None = None
  Gone = Gone
  Processes = {"gui"}
  Overlap = FALSE
  StalePlans = TRUE
  MaxEdits = 2
  MaxFaults = 0
SYMMETRY Symmetry
CHECK_DEADLOCK FALSE
INVARIANT NothingLost
