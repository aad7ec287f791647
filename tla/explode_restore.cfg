SPECIFICATION Spec
CONSTANTS
  Items = {x, y}
  Places = {l, m}
  None = None
  Gone = Gone
  Processes = {"gui", "cli"}
  Overlap = FALSE
  StalePlans = FALSE
  MaxEdits = 2
  MaxFaults = 2
SYMMETRY Symmetry
CHECK_DEADLOCK FALSE
INVARIANT TypeOK
INVARIANT NothingLost
INVARIANT LockHolds
PROPERTY JournalStays
