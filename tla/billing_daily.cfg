SPECIFICATION Spec
CONSTANTS
  Payers = {p1}
  p1 = p1
  Overlap = FALSE
  AutoTerminate = TRUE
  Cycle = 4
  DueDays = 1
  GenerateDays = 2
  SuspendAfter = 1
  TerminateAfter = 2
  MaxInvoice = 3
  MaxSubscription = 2
  MaxDay = 9
  MaxAdmin = 2
  MaxFault = 1
INVARIANT TypeOK
INVARIANT OneOpenRenewal
INVARIANT DueAfterTerm
 
PROPERTY SuspendedWhenLapsed
PROPERTY KeepsPromise
CHECK_DEADLOCK FALSE
