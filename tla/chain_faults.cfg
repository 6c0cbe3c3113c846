SPECIFICATION Spec
CONSTANTS
  MaxBackup = 3
  MaxArchive = 4
  Deleters = {}
  Keep = 1
  MaxRetry = 0
  MaxFault = 1
  MaxRestart = 1
INVARIANT TypeOK
INVARIANT CompletedIsRestorable
INVARIANT SnapshotSettled
CHECK_DEADLOCK FALSE
