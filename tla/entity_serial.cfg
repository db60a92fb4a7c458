SPECIFICATION Spec
CONSTANTS
  first = first
  again = again
  last = last
  other = other
  k1 = k1
  k2 = k2
  acme = acme
  stray = stray
  Name = {acme}
  Empty = Empty
  NoContext = NoContext
  NoOne = NoOne
  NotCalled = NotCalled
  NoKey = NoKey
  NoMetadata = NoMetadata
  Update = {first, again, last, other, stray}
  Key <- MCKey
  key <- MCkey
  caller <- MCOneCaller
  requestTime <- MCrequestTime
  Refused = {first}
  HasStorage = TRUE
  Faults = {"compress", "cancel"}
  RequestsBeforeCAN = 3
  MaxTime = 3
  MaxReplays = 0
  MaxRuns = 3
CHECK_DEADLOCK FALSE
INVARIANTS
  EngineInSync
  DuplicatesWereApplied
  PreviousIsEarlier
  EveryUpdateRecorded
PROPERTIES
  ImplementsSerialEntity
