--------------------------- MODULE HostingService ---------------------------
(***************************************************************************)
(* What billing promises the customer of one hosting service, without       *)
(* invoices, callbacks and commands: the first payment starts the service,  *)
(* each further one extends it by one cycle and makes it active, and unless *)
(* an administrator intervenes it is suspended, and then ended, only when   *)
(* its paid term is over by the days of grace.  Nobody moves that term but  *)
(* by a payment.                                                            *)
(***************************************************************************)
EXTENDS Naturals

CONSTANTS Cycle, SuspendAfter, TerminateAfter, AutoTerminate

VARIABLES
  today,
  payments,  \* payments received so far
  interventions,  \* of administrators, so far
  service,
  until      \* the day the paid term ends

vars == <<today, payments, interventions, service, until>>

Init ==
  /\ today = 0
  /\ payments = 0
  /\ interventions = 0
  /\ service = "none"
  /\ until = 0

Day ==
  /\ today' = today + 1
  /\ UNCHANGED <<payments, interventions, service, until>>

(* A payment buys one cycle, from the end of the term or from today.        *)
Pay ==
  /\ payments' = payments + 1
  /\ service' = "active"
  /\ until' = (IF service # "none" /\ until > today THEN until ELSE today) + Cycle
  /\ UNCHANGED <<today, interventions>>

(* The service could not be set up, or its order was cancelled; never a     *)
(* payment for a service that exists.                                       *)
PayInVain ==
  /\ payments' = payments + 1
  /\ service = "none"
  /\ UNCHANGED <<today, interventions, service, until>>

Intervene ==
  /\ interventions' = interventions + 1
  /\ service' \in (IF service = "none" THEN {"none"}
                                      ELSE {"active", "suspended", "terminated"})
  /\ UNCHANGED <<today, payments, until>>

LapsedFor(days) == today > until /\ today - until >= days

Suspend ==
  /\ service = "active"
  /\ LapsedFor(SuspendAfter)
  /\ service' = "suspended"
  /\ UNCHANGED <<today, payments, interventions, until>>

Terminate ==
  /\ AutoTerminate
  /\ service = "suspended"
  /\ LapsedFor(TerminateAfter)
  /\ service' = "terminated"
  /\ UNCHANGED <<today, payments, interventions, until>>

Next == Day \/ Pay \/ PayInVain \/ Intervene \/ Suspend \/ Terminate

Spec == Init /\ [][Next]_vars
=============================================================================
