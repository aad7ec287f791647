SPECIFICATION Spec
CONSTANTS
  Anchors = {a}
  Entities = {a}
  Indices = {i, j}
  Poses = {p, q}
  Slots = {s, t}
  NoSlot = NoSlot
  NoPlace = NoPlace
  Layouts <- StableLayouts
  MaxUuid = 6
  MaxEdits = 2
  MaxRefused = 1
  MaxCrashes = 2
  BatchSize = 2
SYMMETRY PlaceSymmetry
CHECK_DEADLOCK FALSE
INVARIANT Settled
INVARIANT StaleGone
INVARIANT NoDuplicates
INVARIANT KeepsTrack
