SPECIFICATION FairSpec
CONSTANTS
  MaxBackup = 1
  MaxArchive = 1
  Deleters = {}
  Keep = 1
  MaxRetry = 0
  MaxFault = 0
  MaxRestart = 1
PROPERTY BackupEnds
CHECK_DEADLOCK FALSE
