------------------------------ MODULE Billing ------------------------------
(***************************************************************************)
(* The panel's billing of one hosting order: its invoices, the subscription *)
(* that payment creates, the site it switches on and off, and the actors    *)
(* that meet at them: gateway callbacks and administrators who mark an      *)
(* invoice paid, the daily commands billing:dunning and                     *)
(* billing:generate-renewals, and administrators who cancel, suspend and    *)
(* terminate.  Eloquent models are read long before they are saved, and a   *)
(* save writes only what differs from the model that was read.              *)
(*                                                                          *)
(* Time is counted in days.  A request or a command takes less than a day.  *)
(***************************************************************************)
EXTENDS Naturals, FiniteSets

CONSTANTS
  Payers,          \* callbacks and mark-paid requests at work at the same time
  Overlap,         \* whether requests and commands may run beside each other
  Cycle,           \* billing_cycle, in days
  DueDays,         \* due_days
  GenerateDays,    \* renew_generate_days_before
  SuspendAfter,    \* suspend_after_days
  TerminateAfter,  \* terminate_after_days
  AutoTerminate,   \* auto_terminate
  MaxInvoice,      \* bound: invoices ever made
  MaxSubscription, \* bound: subscriptions ever made
  MaxDay,          \* bound: last day
  MaxAdmin,        \* bound: interventions of administrators
  MaxFault         \* bound: engine calls and provisionings that fail

ASSUME OverlapAssumption == Overlap \in BOOLEAN /\ AutoTerminate \in BOOLEAN
ASSUME DaysAssumption ==
  /\ Cycle \in Nat \ {0}
  /\ DueDays \in Nat /\ GenerateDays \in Nat
  /\ SuspendAfter \in Nat /\ TerminateAfter \in Nat
ASSUME MaximaAssumption ==
  /\ MaxInvoice \in Nat \ {0} /\ MaxSubscription \in Nat \ {0}
  /\ MaxDay \in Nat /\ MaxAdmin \in Nat /\ MaxFault \in Nat

VARIABLES
  today,
  order,        \* the order's status
  invoices,     \* the invoices table
  lastInvoice,
  subs,         \* the subscriptions table
  lastSub,
  site,         \* the site at engine and panel, which change together
  payers,       \* each payer, inside markPaid or one of its callers
  dunning,      \* what the running billing:dunning has still to do
  renewing,     \* what the running billing:generate-renewals has still to do
  cancelling,   \* the invoice an administrator's cancel request has loaded
  admins, faults  \* bounds used up

tables == <<order, invoices, lastInvoice, subs, lastSub, site>>
actors == <<payers, dunning, renewing, cancelling>>
vars == <<today, tables, actors, admins, faults>>

None == 0
Invoice == 1 .. MaxInvoice
InvoiceOrNone == 0 .. MaxInvoice
Subscription == 1 .. MaxSubscription
SubscriptionOrNone == 0 .. MaxSubscription
OrderInvoice == 1
Service == {"none", "active", "suspended", "terminated"}

InvoiceRow ==
  [status : {"absent", "unpaid", "overdue", "paid", "cancelled"},
   due : Nat, sub : SubscriptionOrNone]
AbsentInvoice == [status |-> "absent", due |-> 0, sub |-> None]

SubscriptionRow == [service : Service, due : Nat]
AbsentSubscription == [service |-> "none", due |-> 0]

(* sub: the subscription_id of the invoice as it was loaded.  order and     *)
(* seen: what was read inside the transaction, under the invoice's lock.    *)
Payer ==
  [pc : {"idle", "read", "locked"},
   inv : InvoiceOrNone,
   sub : SubscriptionOrNone,
   order : {"none", "pending", "active", "cancelled"},
   seen : SubscriptionRow]
IdlePayer == [pc |-> "idle", inv |-> None, sub |-> None, order |-> "none",
              seen |-> AbsentSubscription]

(* todo: loaded invoices; service: the loaded subscriptions they share.     *)
Dunning ==
  [todo : SUBSET [inv : Invoice, status : {"unpaid", "overdue"}, due : Nat,
                  sub : SubscriptionOrNone],
   service : [Subscription -> Service]]
IdleDunning == [todo |-> {}, service |-> [s \in Subscription |-> "none"]]

TypeOK ==
  /\ today \in Nat
  /\ order \in {"none", "pending", "active", "cancelled"}
  /\ invoices \in [Invoice -> InvoiceRow]
  /\ lastInvoice \in InvoiceOrNone
  /\ subs \in [Subscription -> SubscriptionRow]
  /\ lastSub \in SubscriptionOrNone
  /\ site \in {"none", "active", "suspended"}
  /\ payers \in [Payers -> Payer]
  /\ dunning \in Dunning
  /\ renewing \subseteq [sub : Subscription, due : Nat]
  /\ cancelling \in InvoiceOrNone
  /\ admins \in Nat
  /\ faults \in Nat

Init ==
  /\ today = 0
  /\ order = "none"
  /\ invoices = [i \in Invoice |-> AbsentInvoice]
  /\ lastInvoice = 0
  /\ subs = [s \in Subscription |-> AbsentSubscription]
  /\ lastSub = 0
  /\ site = "none"
  /\ payers = [p \in Payers |-> IdlePayer]
  /\ dunning = IdleDunning
  /\ renewing = {}
  /\ cancelling = None
  /\ admins = 0
  /\ faults = 0

Quiet ==
  /\ \A p \in Payers : payers[p].pc = "idle"
  /\ dunning.todo = {}
  /\ renewing = {}
  /\ cancelling = None

MayBegin == Overlap \/ Quiet

Payable(status) == status \in {"unpaid", "overdue"}

(* A save of an invoice waits for the transaction that has updated it.      *)
Locked(i) == \E p \in Payers : payers[p].pc = "locked" /\ payers[p].inv = i

NextDay ==
  /\ today < MaxDay
  /\ Quiet
  /\ today' = today + 1
  /\ UNCHANGED <<tables, actors, admins, faults>>

-----------------------------------------------------------------------------
(* Orders and invoices                                                      *)

IssueInvoice(due, sub) ==
  /\ lastInvoice < MaxInvoice
  /\ lastInvoice' = lastInvoice + 1
  /\ invoices' = [invoices EXCEPT ![lastInvoice + 1] =
        [status |-> "unpaid", due |-> due, sub |-> sub]]

(* OrderService::place, one hosting item with a domain, and createForOrder. *)
Place ==
  /\ order = "none"
  /\ MayBegin
  /\ order' = "pending"
  /\ IssueInvoice(today + DueDays, None)
  /\ UNCHANGED <<today, subs, lastSub, site, actors, admins, faults>>

(* billing:generate-renewals loads the subscriptions that are nearly due.   *)
RenewalsList ==
  /\ MayBegin
  /\ renewing = {}
  /\ renewing' = {[sub |-> s, due |-> subs[s].due] :
        s \in {t \in Subscription : /\ subs[t].service \notin {"none", "terminated"}
                                    /\ subs[t].due <= today + GenerateDays}}
  /\ renewing' # {}
  /\ UNCHANGED <<today, tables, payers, dunning, cancelling, admins, faults>>

(* Mutant: overdue invoices do not count as open.                           *)
HasUnpaidRenewal(s) ==
  \E i \in Invoice : invoices[i].sub = s /\ invoices[i].status = "unpaid"

HasOpenRenewal(s) ==
  \E i \in Invoice : invoices[i].sub = s /\ Payable(invoices[i].status)

(* Mutant: the term of payment counts from today, not from the due date.    *)
RenewalDueFromToday(due) == today + DueDays

RenewalDue(due) == IF due > today THEN due ELSE today + DueDays

(* One subscription of the loop, in the order of the ids: the open invoices *)
(* are looked up now, the due date is the one that was loaded.  At the      *)
(* bound creating the invoice fails, which is only reported.                *)
RenewalsOne ==
  \E r \in renewing :
    /\ \A q \in renewing : r.sub <= q.sub
    /\ renewing' = renewing \ {r}
    /\ IF HasOpenRenewal(r.sub) \/ lastInvoice = MaxInvoice
         THEN UNCHANGED <<invoices, lastInvoice>>
         ELSE IssueInvoice(RenewalDue(r.due), r.sub)
    /\ UNCHANGED <<today, order, subs, lastSub, site, payers, dunning,
                   cancelling, admins, faults>>

-----------------------------------------------------------------------------
(* The site                                                                 *)

Fail == faults < MaxFault /\ faults' = faults + 1

(* setPanelStatus: engine call and domain row, or neither when the engine   *)
(* fails; every caller catches the exception and goes on.                   *)
SetSite(status) ==
  IF site \in {"none", status}
    THEN UNCHANGED <<site, faults>>
    ELSE \/ site' = status /\ UNCHANGED faults
         \/ Fail /\ UNCHANGED site

-----------------------------------------------------------------------------
(* Payment                                                                  *)

(* A callback or request loads the invoice and finds it payable.            *)
PayRead(p, i) ==
  /\ MayBegin
  /\ payers[p].pc = "idle"
  /\ Payable(invoices[i].status)
  /\ payers' = [payers EXCEPT ![p] =
        [IdlePayer EXCEPT !.pc = "read", !.inv = i, !.sub = invoices[i].sub]]
  /\ UNCHANGED <<today, tables, dunning, renewing, cancelling, admins, faults>>

(* The transaction goes on: order and subscription are read now, the        *)
(* subscription by the id the invoice had when it was loaded.               *)
ReadAll(p) ==
  /\ payers[p].pc = "read"
  /\ payers' = [payers EXCEPT
        ![p].pc = "locked",
        ![p].order = IF payers[p].inv = OrderInvoice THEN order ELSE "none",
        ![p].seen = IF payers[p].sub = None THEN AbsentSubscription
                                            ELSE subs[payers[p].sub]]
  /\ UNCHANGED <<today, tables, dunning, renewing, cancelling, admins, faults>>

(* Mutant: the invoice is updated last, so that nothing waits for its lock. *)
PayLockUnlocked(p) == ReadAll(p)

(* markPaid's transaction: the UPDATE of the invoice takes its row lock,    *)
(* whatever the status has become, before anything is read.                 *)
PayLock(p) == ~Locked(payers[p].inv) /\ ReadAll(p)

(* The invoice of a pending order: the item is provisioned, or fails and is *)
(* only reported; the order becomes active either way.                      *)
PayOrder(p) ==
  /\ order' = "active"
  /\ \/ /\ lastSub < MaxSubscription
        /\ lastSub' = lastSub + 1
        /\ subs' = [subs EXCEPT ![lastSub + 1] =
              [service |-> "active", due |-> today + Cycle]]
        /\ site' = IF site = "none" THEN "active" ELSE site
        /\ invoices' = [invoices EXCEPT
              ![payers[p].inv].status = "paid",
              ![payers[p].inv].sub =
                  IF payers[p].sub = None THEN lastSub + 1 ELSE invoices[payers[p].inv].sub]
        /\ UNCHANGED faults
     \/ /\ Fail
        /\ invoices' = [invoices EXCEPT ![payers[p].inv].status = "paid"]
        /\ UNCHANGED <<subs, lastSub, site>>

(* Mutant: an early renewal counts from today.                              *)
ExtendedFromToday(due) == today + Cycle

Extended(due) == (IF due > today THEN due ELSE today) + Cycle

(* Mutant: renew does not unsuspend.                                        *)
PayRenewalKeepsSite(p) ==
  LET s == payers[p].sub
  IN /\ invoices' = [invoices EXCEPT ![payers[p].inv].status = "paid"]
     /\ subs' = [subs EXCEPT ![s] =
           [service |-> "active", due |-> Extended(payers[p].seen.due)]]
     /\ UNCHANGED <<order, lastSub, site, faults>>

(* renew: the new due date is always written, the service status only when  *)
(* it was not active in the model.                                          *)
PayRenewal(p) ==
  LET s == payers[p].sub
      seen == payers[p].seen
  IN /\ invoices' = [invoices EXCEPT ![payers[p].inv].status = "paid"]
     /\ subs' = [subs EXCEPT ![s] =
           [service |-> IF seen.service # "active" THEN "active" ELSE subs[s].service,
            due |-> Extended(seen.due)]]
     /\ IF seen.service = "suspended" THEN SetSite("active")
                                      ELSE UNCHANGED <<site, faults>>
     /\ UNCHANGED <<order, lastSub>>

(* Nothing to do: the order is active already, and the invoice had no       *)
(* subscription when it was loaded.                                         *)
PayNothing(p) ==
  /\ invoices' = [invoices EXCEPT ![payers[p].inv].status = "paid"]
  /\ UNCHANGED <<order, subs, lastSub, site, faults>>

PayCommit(p) ==
  /\ payers[p].pc = "locked"
  /\ CASE payers[p].order = "pending" -> PayOrder(p)
       [] payers[p].order # "pending" /\ payers[p].sub # None -> PayRenewal(p)
       [] OTHER -> PayNothing(p)
  /\ payers' = [payers EXCEPT ![p] = IdlePayer]
  /\ UNCHANGED <<today, lastInvoice, dunning, renewing, cancelling, admins>>

-----------------------------------------------------------------------------
(* billing:dunning                                                          *)

(* Mutant: what is not paid is dunned.                                      *)
DunnedNotPaid(status) == status # "paid"

(* Mutant: an invoice is dunned until it has become overdue.                *)
DunnedUnpaid(status) == status = "unpaid"

Dunned(status) == Payable(status)

DunningList ==
  /\ MayBegin
  /\ dunning.todo = {}
  /\ dunning' =
        [todo |-> {[inv |-> i, status |-> invoices[i].status,
                    due |-> invoices[i].due, sub |-> invoices[i].sub] :
                     i \in {j \in Invoice : Dunned(invoices[j].status)}},
         service |-> [s \in Subscription |-> subs[s].service]]
  /\ dunning'.todo # {}
  /\ UNCHANGED <<today, tables, payers, renewing, cancelling, admins, faults>>

(* suspend and terminate write the status on top of whatever it is by now.  *)
Stop(s, service) ==
  /\ subs' = [subs EXCEPT ![s].service = service]
  /\ SetSite("suspended")

Overdue(d, n) == d.due < today /\ today - d.due >= n

(* Mutant: the suspension comes as soon as the invoice is due.              *)
VerdictAtOnce(d) ==
  IF d.sub # None /\ dunning.service[d.sub] = "active" THEN "suspended"
  ELSE IF d.sub = None THEN "none" ELSE dunning.service[d.sub]

(* What dunning does to the subscription of invoice d: the service it has   *)
(* from then on.                                                            *)
Verdict(d) ==
  LET service == IF d.sub = None THEN "none" ELSE dunning.service[d.sub]
  IN CASE AutoTerminate /\ Overdue(d, TerminateAfter) /\ service = "suspended" -> "terminated"
       [] Overdue(d, SuspendAfter) /\ service = "active" -> "suspended"
       [] OTHER -> service

(* One invoice of the loop, in the order of the ids, by the loaded models.  *)
DunningOne ==
  \E d \in dunning.todo :
    LET late == d.due < today /\ d.status = "unpaid"
        stop == d.sub # None /\ Verdict(d) # dunning.service[d.sub]
    IN
    /\ \A e \in dunning.todo : d.inv <= e.inv
    /\ late => ~Locked(d.inv)
    /\ invoices' = IF late THEN [invoices EXCEPT ![d.inv].status = "overdue"] ELSE invoices
    /\ IF stop THEN Stop(d.sub, Verdict(d)) ELSE UNCHANGED <<subs, site, faults>>
    /\ dunning' = [todo |-> dunning.todo \ {d},
                   service |-> IF stop THEN [dunning.service EXCEPT ![d.sub] = Verdict(d)]
                                       ELSE dunning.service]
    /\ UNCHANGED <<today, order, lastInvoice, lastSub, payers, renewing,
                   cancelling, admins>>

-----------------------------------------------------------------------------
(* Administrators                                                           *)

Intervene == MayBegin /\ admins < MaxAdmin /\ admins' = admins + 1

(* Mutant: any invoice can be cancelled.                                    *)
CancelReadAny(i) ==
  /\ Intervene
  /\ cancelling = None
  /\ invoices[i].status # "absent"
  /\ cancelling' = i
  /\ UNCHANGED <<today, tables, payers, dunning, renewing, faults>>

(* cancelInvoice loads the invoice and finds it neither paid nor refunded.  *)
CancelRead(i) ==
  /\ Intervene
  /\ cancelling = None
  /\ Payable(invoices[i].status)
  /\ cancelling' = i
  /\ UNCHANGED <<today, tables, payers, dunning, renewing, faults>>

CancelWrite ==
  /\ cancelling # None
  /\ ~Locked(cancelling)
  /\ invoices' = [invoices EXCEPT ![cancelling].status = "cancelled"]
  /\ cancelling' = None
  /\ UNCHANGED <<today, order, lastInvoice, subs, lastSub, site, payers,
                 dunning, renewing, admins, faults>>

CancelOrder ==
  /\ Intervene
  /\ order \in {"pending", "active"}
  /\ order' = "cancelled"
  /\ UNCHANGED <<today, invoices, lastInvoice, subs, lastSub, site, actors, faults>>

SuspendService(s) ==
  /\ Intervene
  /\ subs[s].service # "none"
  /\ Stop(s, "suspended")
  /\ UNCHANGED <<today, order, invoices, lastInvoice, lastSub, actors>>

UnsuspendService(s) ==
  /\ Intervene
  /\ subs[s].service # "none"
  /\ subs' = [subs EXCEPT ![s].service = "active"]
  /\ SetSite("active")
  /\ UNCHANGED <<today, order, invoices, lastInvoice, lastSub, actors>>

(* terminateService, with or without delete_site.                           *)
TerminateService(s) ==
  /\ Intervene
  /\ subs[s].service # "none"
  /\ \/ Stop(s, "terminated")
     \/ /\ subs' = [subs EXCEPT ![s].service = "terminated"]
        /\ site' = "none"
        /\ UNCHANGED faults
  /\ UNCHANGED <<today, order, invoices, lastInvoice, lastSub, actors>>

-----------------------------------------------------------------------------
Pay == \E p \in Payers : (\E i \in Invoice : PayRead(p, i)) \/ PayLock(p) \/ PayCommit(p)

Scheduled == RenewalsList \/ RenewalsOne \/ DunningList \/ DunningOne

Administer ==
  \/ \E i \in Invoice : CancelRead(i)
  \/ CancelWrite
  \/ CancelOrder
  \/ \E s \in Subscription :
       SuspendService(s) \/ UnsuspendService(s) \/ TerminateService(s)

Next == NextDay \/ Place \/ Pay \/ Scheduled \/ Administer

Spec == Init /\ [][Next]_vars

(* cron starts billing:dunning every day and the command runs to its end; a *)
(* transaction that has begun is committed.  Nobody has to pay.             *)
Fairness ==
  /\ WF_vars(DunningList)
  /\ WF_vars(DunningOne)
  /\ \A p \in Payers : WF_vars(PayLock(p)) /\ WF_vars(PayCommit(p))
  /\ WF_vars(CancelWrite)

FairSpec == Spec /\ Fairness
=============================================================================
