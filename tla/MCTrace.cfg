SPECIFICATION FairSpec
CONSTANTS
  Threads = {t1, t2}
  Nobody = Nobody
  Unset = Unset
  Environments <- MCEnvironments
  Calls <- MCCalls
  MaxCalls = 3
INVARIANTS TypeOK LinesWhole SaysAll
PROPERTY CallsReturn
