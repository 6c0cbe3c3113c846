SPECIFICATION ServicesSpec
CONSTANTS
  StWorkers = {1, 2}
  StMaxCalls = 2
  StMaxAsks = 3
  StMaxFaults = 1
  UpMaxFiles = 3
  UpMaxFaults = 2
  HqNames = {1, 2, 3, 4}
  HqRequests = {1, 2, 3}
  HqMax = 2
  CrMaxRuns = 3
  CrMaxKills = 1
  PuMaxRuns = 3
  PuMaxFaults = 2
  f = f
  g = g
  SeFiles = {f, g}
  SeMaxChanges = 2
PROPERTY UpdateEnds
CHECK_DEADLOCK FALSE
