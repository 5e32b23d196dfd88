SPECIFICATION Spec
CONSTANTS
  Threads = {t1, t2}
  NoThread = NoThread
  NULL = NULL
  HDR = 1
  HEAP = 4
  WORD = 16
  Sizes = {1, 2}
  BitAnd <- MCBitAnd
SYMMETRY Symmetry
INVARIANTS ReallocFailureKeepsBlock
CHECK_DEADLOCK FALSE
