SPECIFICATION Spec
CONSTANTS
  Threads = {t1, t2}
  Cold = {t1}
  NoThread = NoThread
  NULL = NULL
  Heap = {a1, a2}
  Pool = {i1}
  StdioMallocs = {}
  BacktraceFree = FALSE
  StartEnabled = TRUE
  InnerSteals = FALSE
  MaxCalls = 4
  MaxInner = 0
SYMMETRY Symmetry
INVARIANTS ReplayExact
