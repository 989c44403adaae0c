SPECIFICATION Spec
CONSTANTS
  Windows = {w1, w2, w3}
  None = None
  Careful = TRUE
  MaxDepth = 2
SYMMETRY Symmetry
CHECK_DEADLOCK FALSE
INVARIANT
  ListIsWhole
  ShownHasCurrent
  CallersLive
  FlagsTellCalls
