SPECIFICATION Spec
CONSTANTS
  MaxInt = 7
  KeepHistory = 2
  Amount <- MCAmount
  Config <- MCConfig
  NoConfig = NoConfig
  Given <- MCGiven
  MaxSignals = 4
CHECK_DEADLOCK FALSE
INVARIANTS
  TypeOK
  ValueWithinLimit
  HistoryExplainsValue
PROPERTIES
  OnlyResetLowers
