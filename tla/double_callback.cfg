SPECIFICATION FairSpec
CONSTANTS
  Payers = {p1, p2}
  p1 = p1
  p2 = p2
  Overlap = TRUE
  AutoTerminate = FALSE
  Cycle = 4
  DueDays = 2
  GenerateDays = 3
  SuspendAfter = 1
  TerminateAfter = 2
  MaxInvoice = 2
  MaxSubscription = 2
  MaxDay = 2
  MaxAdmin = 0
  MaxFault = 0
PROPERTY ExtendedByPayment
CHECK_DEADLOCK FALSE
