SPECIFICATION Spec
CONSTANTS
  Addresses = {a1, a2}
  NULL = NULL
  Backtraces = {b1, b2}
  NoBacktrace = NoBacktrace
  Sizes = {1, 2}
  Tags = {g}
  NoTag = NoTag
  Udp = TRUE
  FreeBacktraces = {NoBacktrace}
  MaxOps = 3
  MaxInTransit = 2
  MaxFaults = 1
SYMMETRY Symmetry
INVARIANTS LossNumber
CHECK_DEADLOCK FALSE
