SPECIFICATION Spec
CONSTANTS
  Items = {x, y}
  Places = {l, m}
  None = None
  Gone = Gone
  Processes = {"gui", "cli"}
  Overlap = TRUE
  StalePlans = FALSE
  MaxEdits = 0
  MaxFaults = 0
SYMMETRY Symmetry
CHECK_DEADLOCK FALSE
INVARIANT NothingLost
