SPECIFICATION Spec
CONSTANTS
  MaxBackup = 3
  MaxArchive = 3
  Deleters = {d1}
  Keep = 1
  MaxRetry = 0
  MaxFault = 0
  MaxRestart = 1
INVARIANT IntactChainIsRestorable
INVARIANT IncrementSitsOnParent
INVARIANT ChainAcyclic
INVARIANT CompletedHasArchive
PROPERTY Lifecycle
CHECK_DEADLOCK FALSE
