SPECIFICATION Spec
CONSTANTS
  Threads = {t1, t2}
  NoThread = NoThread
  NULL = NULL
  HDR = 3
  HEAP = 13
  WORD = 16
  Sizes = {1, 3}
  BitAnd <- MCBitAnd
SYMMETRY Symmetry
INVARIANTS Inv PayloadsPrivate FreeListExact FailureJustified ReallocKeepsData RoutesBack
PROPERTIES HeadersStable HeapSpec ScanDescends
CHECK_DEADLOCK FALSE
