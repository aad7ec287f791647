SPECIFICATION Spec
CONSTANTS
  Anchors = {a}
  Entities = {a}
  Indices = {i, j}
  Poses = {p, q}
  Slots = {s, t, u}
  NoSlot = NoSlot
  NoPlace = NoPlace
  Layouts <- DistinctLayouts
  MaxUuid = 6
  MaxEdits = 2
  MaxRefused = 0
  MaxCrashes = 0
  BatchSize = 2
SYMMETRY Symmetry
CHECK_DEADLOCK FALSE
INVARIANT KeepsTrack
