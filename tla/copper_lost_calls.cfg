SPECIFICATION Spec
CONSTANTS
  Anchors = {a}
  Entities = {a}
  Indices = {i, j}
  Poses = {p, q}
  Slots = {s, t}
  NoSlot = NoSlot
  NoPlace = NoPlace
  Layouts <- AllLayouts
  MaxUuid = 6
  MaxEdits = 2
  MaxRefused = 2
  MaxCrashes = 0
  BatchSize = 2
SYMMETRY PlaceSymmetry
CHECK_DEADLOCK FALSE
INVARIANT Settled
INVARIANT OneOwner
