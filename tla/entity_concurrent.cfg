SPECIFICATION FairSpec
CONSTANTS
  first = first
  again = again
  last = last
  other = other
  k1 = k1
  k2 = k2
  acme = acme
  stray = stray
  Name = {acme}
  Empty = Empty
  NoContext = NoContext
  NoOne = NoOne
  NotCalled = NotCalled
  NoKey = NoKey
  NoMetadata = NoMetadata
  Update = {first, again, last, other}
  Key <- MCKey
  key <- MCkey
  caller <- MCcaller
  requestTime <- MCrequestTime
  Refused = {last}
  HasStorage = TRUE
  Faults = {"replay", "timeout", "suggest", "compress", "cancel", "storage", "resend", "task"}
  RequestsBeforeCAN = 3
  MaxTime = 2
  MaxReplays = 1
  MaxRuns = 2
CHECK_DEADLOCK FALSE
INVARIANTS
  TypeOK
  LockDiscipline
  PendingAccounted
  AcceptedWithinThreshold
  CallersOwnEntity
  NumberedOnce
  AppliedOnce
PROPERTIES
  EveryUpdateAnswered
  ContinuesAsNew
