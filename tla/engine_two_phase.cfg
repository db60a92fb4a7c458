SPECIFICATION OrderedSpec
CONSTANTS
  State <- MCState
  Event <- MCEvent
  InvalidEvent <- MCInvalidEvent
  BadTransition <- MCBadTransition
  Processor <- MCProcessor
  Rejected = Rejected
  NoState = NoState
  MaxSequence = 3
  MaxBatch = 2
  MaxTransactions = 3
CHECK_DEADLOCK FALSE
INVARIANT PreparedIsCurrent
PROPERTIES
  NoReapplication
  ImplementsAtomicEngine
