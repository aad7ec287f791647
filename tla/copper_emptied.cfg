SPECIFICATION Spec
CONSTANTS
  Anchors = {a}
  Entities = {a}
  Indices = {i, j}
  Poses = {p, q}
  Slots = {s, t}
  NoSlot = NoSlot
  NoPlace = NoPlace
  Layouts <- AllLayouts
  MaxUuid = 4
  MaxEdits = 1
  MaxRefused = 0
  MaxCrashes = 0
  BatchSize = 2
SYMMETRY Symmetry
CHECK_DEADLOCK FALSE
INVARIANT StaleGone
