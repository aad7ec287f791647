SPECIFICATION Spec
CONSTANTS
  a = a
  b = b
  c = c
  v = v
  w = w
  Ops = {a, b, c}
  Timers = {fast, slow}
  Widgets = {v, w}
  Guards <- SharedGuards
  Windows <- OwnWindows
  Exempt = {}
  Reads = {}
  Journal = FALSE
CHECK_DEADLOCK FALSE
INVARIANT ComesDown
