SPECIFICATION FilesSpec
CONSTANTS
  a = a
  b = b
  d = d
  e = e
  n = n
  nc = nc
  EdFiles = {a, b}
  EdAbsent = EdAbsent
  EdMaxText = 2
  EdMaxReads = 2
  FtSites = {a, b}
  FtDirs = {d, e}
  FtNames = {n, nc}
  FtFolders = {n}
  FtCopyOf <- CopyOfName
  FtNone = FtNone
  FtMaxOps = 2
  FlTargets = {a, b}
  FlDomainOf <- OwnDomain
  FlFolders = {1, 2}
  FlRows = {1, 2}
  FlPageSize = 1
  FlNoRows = FlNoRows
  FlMaxChanges = 2
  FlMaxHasty = 1
  PsAdmin = PsAdmin
  PsCustomer = PsCustomer
  PsNoOne = PsNoOne
  PsMaxTokens = 3
  PsMaxPolls = 1
 
INVARIANT CalmTabs
INVARIANT OneUploadRun
INVARIANT ListingTrue
INVARIANT ShownIsSignedIn
PROPERTY WaitingKeepsItems
CHECK_DEADLOCK FALSE
