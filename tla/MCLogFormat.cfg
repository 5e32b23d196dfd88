SPECIFICATION Spec
CONSTANTS
  PTR = 4
  BUFFER = 48
  MAX_BT = 3
  Addresses = {f, g}
  Letters = {x}
  Requests <- MCRequests
  BacktraceFree = TRUE
  StartEnabled = TRUE
  Undef = Undef
  Garbled = Garbled
  MaxRecords = 3
  a = a
  b = b
  f = f
  g = g
  x = x
  null = null
INVARIANTS TypeOK LogReadsBack DisabledSurvives
PROPERTIES RecordsFit
