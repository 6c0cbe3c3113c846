SPECIFICATION FairSpec
CONSTANTS
  MaxBackup = 2
  MaxArchive = 2
  Deleters = {d1}
  Keep = 1
  MaxRetry = 1
  MaxFault = 1
  MaxRestart = 0
INVARIANT OneArchiveAtATime
INVARIANT PathsMatchEngineId
 
CHECK_DEADLOCK FALSE
