SPECIFICATION Spec
CONSTANTS
  Projects = {p, q}
  Documents = {d, e}
  None = None
  MaxAdapters = 2
  MaxRecords = 1
  MaxChanges = 2
  Boards = {d, e}
  Spots = {x, y}
  NoBoard = None
  MaxLinks = 3
  MaxCalls = 2
  MaxEvents = 2
CHECK_DEADLOCK FALSE
INVARIANT ShownInForce
INVARIANT SocketsOwned
INVARIANT ExitAsked
INVARIANT ExitBoardBack
PROPERTY MovesAsAsked
