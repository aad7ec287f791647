SPECIFICATION Spec
CONSTANTS
  Files = {f, g}
  Registries = {vias}
  Names = {m, n}
  None = None
  Gui = Gui
  Mcp = Mcp
  MaxOpens = 2
  MaxEdits = 2
  MaxTroubles = 1
SYMMETRY Alike
CHECK_DEADLOCK FALSE
INVARIANT ReferencesMeant
INVARIANT LoadsWhatever
INVARIANT PreviousCopied
INVARIANT KeysFollow
INVARIANT LiftsAll
