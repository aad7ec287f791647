SPECIFICATION Spec
CONSTANTS
  Anchors = {a, b}
  Entities = {a, b}
  Indices = {i}
  Poses = {p, q}
  Slots = {s}
  NoSlot = NoSlot
  NoPlace = NoPlace
  Layouts <- AllLayouts
  MaxUuid = 4
  MaxEdits = 1
  MaxRefused = 1
  MaxCrashes = 0
  BatchSize = 2
SYMMETRY Symmetry
CHECK_DEADLOCK FALSE
INVARIANT OneOwner
