CONSTANTS
  Requests = {r1, r2, r3}
  Flushes = {}
  Size = 1
SPECIFICATION ReleaseOnceSpec
SYMMETRY CallSymmetry
INVARIANT SlotLimit
CHECK_DEADLOCK FALSE
