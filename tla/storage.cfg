SPECIFICATION FairSpec
CONSTANTS
  p = p
  q = q
  current = current
  other = other
  earlier = earlier
  record = record
  key = key
  None = None
  Adapter = {current, other}
  Process = {p, q}
  Record = {earlier, record}
  Earlier = {earlier}
  Key = {key}
  Home <- MCHome
  TablePrefix <- MCTablePrefix
  recordKey <- MCrecordKey
  MaxRetries = 1
  MaxFaults = 2
INVARIANTS
  TypeOK
  OpenIsMigrated
  RegisteredIsOpen
  SuccessIsStored
PROPERTIES
  StoredUntilCleaned
  ImplementsRecordStore
  ActivityEnds
  OpenSucceeds
CHECK_DEADLOCK FALSE
