SPECIFICATION FairSpec
CONSTANTS
  Payers = {p1, p2}
  p1 = p1
  p2 = p2
  Overlap = TRUE
  AutoTerminate = FALSE
  Cycle = 4
  DueDays = 1
  GenerateDays = 2
  SuspendAfter = 2
  TerminateAfter = 3
  MaxInvoice = 3
  MaxSubscription = 2
  MaxDay = 8
  MaxAdmin = 0
  MaxFault = 0
INVARIANT ProvisionedOnce
 
PROPERTY UnpaidServiceStops
CHECK_DEADLOCK FALSE
