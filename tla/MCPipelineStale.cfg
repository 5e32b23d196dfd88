SPECIFICATION Spec
CONSTANTS
  Addresses = {a1, a2}
  NULL = NULL
  Backtraces = {b1, b2}
  NoBacktrace = NoBacktrace
  Sizes = {1, 2}
  Tags = {g}
  NoTag = NoTag
  Udp = FALSE
  FreeBacktraces = {NoBacktrace}
  MaxOps = 3
  MaxInTransit = 2
  MaxFaults = 0
SYMMETRY Symmetry
INVARIANTS ListedInUse
CHECK_DEADLOCK FALSE
