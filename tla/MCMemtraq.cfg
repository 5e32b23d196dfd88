SPECIFICATION FairSpec
CONSTANTS
  Threads = {t1, t2}
  Cold = {t1}
  NoThread = NoThread
  NULL = NULL
  Heap = {a1, a2}
  Pool = {i1}
  StdioMallocs = {}
  BacktraceFree = TRUE
  StartEnabled = TRUE
  InnerSteals = TRUE
  MaxCalls = 3
  MaxInner = 1
INVARIANTS TypeOK LevelsBalanced InnerFromPool OneInit LogBalances ReplayAlone Conserved
PROPERTIES InnerUnrecorded CallsReturn
