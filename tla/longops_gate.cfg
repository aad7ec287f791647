SPECIFICATION Spec
CONSTANTS
  a = a
  b = b
  c = c
  v = v
  w = w
  Ops = {a, b, c}
  Timers = {fast, slow}
  Widgets = {v, w}
  Guards <- OwnGuards
  Windows <- OwnWindows
  Exempt = {c}
  Reads = {c}
  Journal = TRUE
CHECK_DEADLOCK FALSE
PROPERTY GateHolds
