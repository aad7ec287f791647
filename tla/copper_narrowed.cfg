SPECIFICATION Spec
CONSTANTS
  Anchors = {a, b}
  Entities = {a}
  Indices = {i}
  Poses = {p, q}
  Slots = {s}
  NoSlot = NoSlot
  NoPlace = NoPlace
  Layouts <- AllLayouts
  MaxUuid = 4
  MaxEdits = 1
  MaxRefused = 0
  MaxCrashes = 0
  BatchSize = 2
SYMMETRY PoseSymmetry
CHECK_DEADLOCK FALSE
PROPERTY ProtectedSurvives
