SPECIFICATION Spec
CONSTANTS
  first = first
  again = again
  last = last
  other = other
  k1 = k1
  k2 = k2
  acme = acme
  stray = stray
  Name = {acme}
  Empty = Empty
  NoContext = NoContext
  NoOne = NoOne
  NotCalled = NotCalled
  NoKey = NoKey
  NoMetadata = NoMetadata
  Update = {first, again, last, other}
  Key <- MCKey
  key <- MCkey
  caller <- MCOneCaller
  requestTime <- MCrequestTime
  Refused = {}
  HasStorage = FALSE
  Faults = {"suggest"}
  RequestsBeforeCAN = 3
  MaxTime = 2
  MaxReplays = 0
  MaxRuns = 2
CHECK_DEADLOCK FALSE
INVARIANTS
  AckedNotLost
