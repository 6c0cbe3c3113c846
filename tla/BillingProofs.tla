---------------------------- MODULE BillingProofs ----------------------------
(***************************************************************************)
(* What TLAPS proves of Billing, for any number of payers, invoices,        *)
(* subscriptions and days.  While requests and commands run beside each     *)
(* other: its types, that an order is never provisioned twice, and that a   *)
(* service shown as active is served.  When they come one after the other   *)
(* (Overlap is FALSE) nobody works with a stale model: no subscription has  *)
(* two open invoices, dunning suspends none within its paid term, and the   *)
(* whole keeps what HostingService promises.                                *)
(***************************************************************************)
EXTENDS BillingProperties, FiniteSetTheorems, TLAPS

-----------------------------------------------------------------------------
(* Type correctness                                                         *)

LEMMA Ranges ==
  /\ None \notin Invoice /\ InvoiceOrNone = Invoice \cup {None}
  /\ None \notin Subscription /\ SubscriptionOrNone = Subscription \cup {None}
  /\ OrderInvoice \in Invoice
  /\ None \in Nat
BY MaximaAssumption
   DEF None, Invoice, InvoiceOrNone, Subscription, SubscriptionOrNone, OrderInvoice

(* The site after an engine call is again a site.                           *)
LEMMA SetSiteType ==
  ASSUME TypeOK, NEW status \in {"active", "suspended"}, SetSite(status)
  PROVE  /\ site' \in {"none", "active", "suspended"}
         /\ faults' \in Nat
BY DEF TypeOK, SetSite, Fail

(* Another service status, or another invoice status, is one of the table.  *)
LEMMA ServiceType ==
  ASSUME TypeOK, NEW s \in Subscription, NEW service \in Service
  PROVE  [subs EXCEPT ![s].service = service] \in [Subscription -> SubscriptionRow]
<1>1. subs \in [Subscription -> SubscriptionRow]
  BY DEF TypeOK
<1>2. [subs[s] EXCEPT !.service = service] \in SubscriptionRow
  BY <1>1 DEF SubscriptionRow
<1>3. QED  BY <1>1, <1>2

LEMMA InvoiceStatusType ==
  ASSUME TypeOK, NEW i \in InvoiceOrNone, NEW status \in {"overdue", "paid", "cancelled"}
  PROVE  [invoices EXCEPT ![i].status = status] \in [Invoice -> InvoiceRow]
<1>1. invoices \in [Invoice -> InvoiceRow]
  BY DEF TypeOK
<1>2. i \in Invoice => [invoices[i] EXCEPT !.status = status] \in InvoiceRow
  BY <1>1 DEF InvoiceRow
<1>3. QED  BY <1>1, <1>2

(* Stopping a service keeps the types of tables and site.                   *)
LEMMA StopType ==
  ASSUME TypeOK, NEW s \in Subscription, NEW service \in Service, Stop(s, service)
  PROVE  /\ subs' \in [Subscription -> SubscriptionRow]
         /\ site' \in {"none", "active", "suspended"}
         /\ faults' \in Nat
<1>1. site' \in {"none", "active", "suspended"} /\ faults' \in Nat
  BY SetSiteType DEF Stop
<1>2. subs' \in [Subscription -> SubscriptionRow]
  BY ServiceType DEF Stop
<1>3. QED  BY <1>1, <1>2

(* Dunning leaves a service in one of the four states.                      *)
LEMMA VerdictType ==
  ASSUME TypeOK, NEW d \in dunning.todo
  PROVE  Verdict(d) \in Service
<1>1. d.sub \in SubscriptionOrNone /\ dunning.service \in [Subscription -> Service]
  BY DEF TypeOK, Dunning
<1>2. d.sub # None => dunning.service[d.sub] \in Service
  BY <1>1, Ranges
<1>3. {"none", "suspended", "terminated"} \subseteq Service
  BY DEF Service
<1>4. QED  BY <1>2, <1>3 DEF Verdict

LEMMA IssueInvoiceType ==
  ASSUME TypeOK, NEW due \in Nat, NEW sub \in SubscriptionOrNone, IssueInvoice(due, sub)
  PROVE  /\ invoices' \in [Invoice -> InvoiceRow]
         /\ lastInvoice' \in InvoiceOrNone
<1>1. lastInvoice + 1 \in InvoiceOrNone /\ lastInvoice + 1 \in Invoice
  BY MaximaAssumption DEF TypeOK, IssueInvoice, Invoice, InvoiceOrNone
<1>2. [status |-> "unpaid", due |-> due, sub |-> sub] \in InvoiceRow
  BY DEF InvoiceRow
<1>3. QED  BY <1>1, <1>2 DEF TypeOK, IssueInvoice

LEMMA InitType == Init => TypeOK
<1> SUFFICES ASSUME Init PROVE TypeOK
  OBVIOUS
<1>1. None \in InvoiceOrNone /\ None \in SubscriptionOrNone /\ 0 = None
  BY Ranges DEF None
<1>2. AbsentInvoice \in InvoiceRow /\ AbsentSubscription \in SubscriptionRow
  BY <1>1 DEF AbsentInvoice, InvoiceRow, AbsentSubscription, SubscriptionRow, Service
<1>3. IdlePayer \in Payer
  BY <1>1, <1>2 DEF IdlePayer, Payer
<1>4. IdleDunning \in Dunning
  BY DEF IdleDunning, Dunning, Service
<1>5. QED  BY <1>1, <1>2, <1>3, <1>4 DEF Init, TypeOK

(* Each step keeps the types.                                               *)
LEMMA StepType == TypeOK /\ [Next]_vars => TypeOK'
<1> SUFFICES ASSUME TypeOK, [Next]_vars PROVE TypeOK'
  OBVIOUS
<1>1. CASE NextDay
  BY <1>1 DEF NextDay, TypeOK, tables, actors
<1>2. CASE Place
  <2>1. today + DueDays \in Nat /\ None \in SubscriptionOrNone
    BY DaysAssumption, Ranges DEF TypeOK
  <2>2. invoices' \in [Invoice -> InvoiceRow] /\ lastInvoice' \in InvoiceOrNone
    BY <1>2, <2>1, IssueInvoiceType DEF Place
  <2>3. QED  BY <1>2, <2>2 DEF Place, TypeOK, actors
<1>3. CASE RenewalsList
  <2>1. renewing' \subseteq [sub : Subscription, due : Nat]
    BY <1>3 DEF RenewalsList, TypeOK, SubscriptionRow
  <2>2. QED  BY <1>3, <2>1 DEF RenewalsList, TypeOK, tables
<1>4. CASE RenewalsOne
  <2>1. PICK r \in renewing : RenewalsOne!(r)
    BY <1>4 DEF RenewalsOne
  <2>2. r.sub \in Subscription /\ RenewalDue(r.due) \in Nat
    BY DaysAssumption DEF TypeOK, RenewalDue
  <2>3. invoices' \in [Invoice -> InvoiceRow] /\ lastInvoice' \in InvoiceOrNone
    BY <2>1, <2>2, Ranges, IssueInvoiceType DEF TypeOK
  <2>4. QED  BY <2>1, <2>3 DEF TypeOK
<1>5. ASSUME NEW p \in Payers, NEW i \in Invoice, PayRead(p, i) PROVE TypeOK'
  <2> DEFINE new == [IdlePayer EXCEPT !.pc = "read", !.inv = i, !.sub = invoices[i].sub]
  <2>0. invoices[i].sub \in SubscriptionOrNone /\ AbsentSubscription \in SubscriptionRow
    BY DEF TypeOK, InvoiceRow, AbsentSubscription, SubscriptionRow, Service
  <2>a. new \in Payer
    BY <2>0, Ranges DEF IdlePayer, Payer
  <2>1. payers' \in [Payers -> Payer]
    BY <1>5, <2>a DEF PayRead, TypeOK
  <2>2. QED  BY <1>5, <2>1 DEF PayRead, TypeOK, tables
<1>6. ASSUME NEW p \in Payers, PayLock(p) PROVE TypeOK'
  <2> DEFINE new == [payers[p] EXCEPT
        !.pc = "locked",
        !.order = IF payers[p].inv = OrderInvoice THEN order ELSE "none",
        !.seen = IF payers[p].sub = None THEN AbsentSubscription ELSE subs[payers[p].sub]]
  <2>0. payers[p] \in Payer /\ AbsentSubscription \in SubscriptionRow
    BY DEF TypeOK, AbsentSubscription, SubscriptionRow, Service
  <2>a. payers[p].sub # None => subs[payers[p].sub] \in SubscriptionRow
    BY <2>0, Ranges DEF TypeOK, Payer
  <2>b. new \in Payer
    BY <2>0, <2>a DEF Payer, TypeOK
  <2>1. payers' \in [Payers -> Payer]
    <3>1. payers' = [payers EXCEPT ![p] = new]
      BY <1>6 DEF PayLock, ReadAll, TypeOK
    <3>2. QED  BY <2>b, <3>1 DEF TypeOK
  <2>2. QED  BY <1>6, <2>1 DEF PayLock, ReadAll, TypeOK, tables
<1>7. ASSUME NEW p \in Payers, PayCommit(p) PROVE TypeOK'
  <2>0. payers[p] \in Payer
    BY DEF TypeOK
  <2>a. IdlePayer \in Payer
    BY Ranges DEF IdlePayer, Payer, AbsentSubscription, SubscriptionRow, Service
  <2>1. payers' \in [Payers -> Payer]
    BY <1>7, <2>a DEF PayCommit, TypeOK
  <2>2. CASE PayOrder(p)
    <3> DEFINE i == payers[p].inv
               sub == IF payers[p].sub = None THEN lastSub + 1 ELSE invoices[i].sub
    <3>a. i \in InvoiceOrNone
      BY <2>0 DEF Payer
    <3>b. lastSub < MaxSubscription => lastSub + 1 \in Subscription
      BY MaximaAssumption DEF TypeOK, Subscription, SubscriptionOrNone
    <3>c. lastSub < MaxSubscription /\ i \in Invoice
            => [invoices[i] EXCEPT !.status = "paid", !.sub = sub] \in InvoiceRow
      BY <3>b, Ranges DEF TypeOK, InvoiceRow
    <3>1. invoices' \in [Invoice -> InvoiceRow]
      <4>1. CASE invoices' = [invoices EXCEPT ![i].status = "paid"]
        BY <3>a, <4>1, InvoiceStatusType
      <4>2. CASE /\ lastSub < MaxSubscription
                 /\ invoices' = [invoices EXCEPT ![i].status = "paid", ![i].sub = sub]
        BY <3>c, <4>2 DEF TypeOK
      <4>3. QED  BY <2>2, <4>1, <4>2 DEF PayOrder
    <3>d. [service |-> "active", due |-> today + Cycle] \in SubscriptionRow
      BY DaysAssumption DEF TypeOK, SubscriptionRow, Service
    <3>2. subs' \in [Subscription -> SubscriptionRow] /\ lastSub' \in SubscriptionOrNone
      BY <2>2, <3>b, <3>d, Ranges DEF PayOrder, TypeOK
    <3>3. site' \in {"none", "active", "suspended"} /\ faults' \in Nat /\ order' = "active"
      BY <2>2 DEF PayOrder, TypeOK, Fail
    <3>4. QED  BY <1>7, <2>1, <3>1, <3>2, <3>3 DEF PayCommit, TypeOK
  <2>3. CASE payers[p].sub # None /\ PayRenewal(p)
    <3>1. payers[p].sub \in Subscription /\ payers[p].seen.due \in Nat
      BY <2>0, <2>3, Ranges DEF Payer, SubscriptionRow
    <3>2. Extended(payers[p].seen.due) \in Nat
      BY <3>1, DaysAssumption DEF Extended, TypeOK
    <3>3. subs' \in [Subscription -> SubscriptionRow]
      BY <2>3, <3>1, <3>2 DEF PayRenewal, TypeOK, SubscriptionRow, Service
    <3>4. site' \in {"none", "active", "suspended"} /\ faults' \in Nat
      BY <2>3, SetSiteType DEF PayRenewal, TypeOK
    <3>5. invoices' \in [Invoice -> InvoiceRow]
      BY <2>0, <2>3, InvoiceStatusType DEF PayRenewal, Payer
    <3>6. QED  BY <1>7, <2>1, <2>3, <3>3, <3>4, <3>5 DEF PayCommit, PayRenewal, TypeOK
  <2>4. CASE PayNothing(p)
    <3>1. invoices' \in [Invoice -> InvoiceRow]
      BY <2>0, <2>4, InvoiceStatusType DEF PayNothing, Payer
    <3>2. QED  BY <1>7, <2>1, <2>4, <3>1 DEF PayCommit, PayNothing, TypeOK
  <2>5. QED  BY <1>7, <2>2, <2>3, <2>4 DEF PayCommit
<1>8. CASE DunningList
  <2>1. dunning' \in Dunning
    BY <1>8 DEF DunningList, Dunned, Payable, TypeOK, Dunning, InvoiceRow, SubscriptionRow
  <2>2. QED  BY <1>8, <2>1 DEF DunningList, TypeOK, tables
<1>9. CASE DunningOne
  <2>1. PICK d \in dunning.todo : DunningOne!(d)
    BY <1>9 DEF DunningOne
  <2>2. /\ d.sub \in SubscriptionOrNone
        /\ d.inv \in InvoiceOrNone
        /\ Verdict(d) \in Service
    BY VerdictType, Ranges DEF TypeOK, Dunning
  <2>3. dunning' \in Dunning
    BY <2>1, <2>2 DEF TypeOK, Dunning
  <2>4. invoices' \in [Invoice -> InvoiceRow]
    BY <2>1, <2>2, InvoiceStatusType DEF TypeOK
  <2>5. /\ subs' \in [Subscription -> SubscriptionRow]
        /\ site' \in {"none", "active", "suspended"}
        /\ faults' \in Nat
    <3>1. CASE d.sub # None /\ Verdict(d) # dunning.service[d.sub]
      BY <2>1, <2>2, <3>1, Ranges, StopType
    <3>2. CASE ~(d.sub # None /\ Verdict(d) # dunning.service[d.sub])
      BY <2>1, <3>2 DEF TypeOK
    <3>3. QED  BY <3>1, <3>2
  <2>6. QED  BY <2>1, <2>3, <2>4, <2>5 DEF TypeOK
<1>10. ASSUME NEW i \in Invoice, CancelRead(i) PROVE TypeOK'
  BY <1>10, Ranges DEF CancelRead, Intervene, TypeOK, tables
<1>11. CASE CancelWrite
  <2>1. invoices' \in [Invoice -> InvoiceRow]
    BY <1>11, InvoiceStatusType DEF CancelWrite, TypeOK
  <2>2. QED  BY <1>11, <2>1, Ranges DEF CancelWrite, TypeOK
<1>12. CASE CancelOrder
  BY <1>12 DEF CancelOrder, Intervene, TypeOK, actors
<1>13. ASSUME NEW s \in Subscription, SuspendService(s) PROVE TypeOK'
  <2>1. /\ subs' \in [Subscription -> SubscriptionRow]
        /\ site' \in {"none", "active", "suspended"}
        /\ faults' \in Nat
    BY <1>13, StopType DEF SuspendService, Service
  <2>2. QED  BY <1>13, <2>1 DEF SuspendService, Intervene, TypeOK, actors
<1>14. ASSUME NEW s \in Subscription, UnsuspendService(s) PROVE TypeOK'
  <2>1. site' \in {"none", "active", "suspended"} /\ faults' \in Nat
    BY <1>14, SetSiteType DEF UnsuspendService
  <2>2. subs' \in [Subscription -> SubscriptionRow]
    BY <1>14, ServiceType DEF UnsuspendService, Service
  <2>3. QED  BY <1>14, <2>1, <2>2 DEF UnsuspendService, Intervene, TypeOK, actors
<1>15. ASSUME NEW s \in Subscription, TerminateService(s) PROVE TypeOK'
  <2>1. /\ subs' \in [Subscription -> SubscriptionRow]
        /\ site' \in {"none", "active", "suspended"}
        /\ faults' \in Nat
    <3>1. CASE Stop(s, "terminated")
      BY <3>1, StopType DEF Service
    <3>2. CASE ~Stop(s, "terminated")
      BY <1>15, <3>2, ServiceType DEF TerminateService, TypeOK, Service
    <3>3. QED  BY <3>1, <3>2
  <2>2. QED  BY <1>15, <2>1 DEF TerminateService, Intervene, TypeOK, tables, actors
<1>16. CASE UNCHANGED vars
  BY <1>16 DEF vars, tables, actors, TypeOK
<1>17. QED
  BY <1>1, <1>2, <1>3, <1>4, <1>5, <1>6, <1>7, <1>8, <1>9, <1>10, <1>11, <1>12,
     <1>13, <1>14, <1>15, <1>16 DEF Next, Pay, Scheduled, Administer

(* Every state of the panel's billing has the types of its tables and       *)
(* actors.                                                                  *)
THEOREM BillingTypes == Spec => []TypeOK
<1>1. QED  BY InitType, StepType, PTL DEF Spec

-----------------------------------------------------------------------------
(* One provisioning per order                                               *)

(* The lock on an invoice's row is held by one transaction at a time.       *)
LockIsExclusive ==
  \A p, q \in Payers :
    payers[p].pc = "locked" /\ payers[q].pc = "locked" /\ payers[p].inv = payers[q].inv
      => p = q

(* A transaction that has seen the order pending holds the lock of the      *)
(* order's invoice, and nothing is provisioned while it does.               *)
PendingIsLocked ==
  \A p \in Payers :
    payers[p].pc = "locked" /\ payers[p].order = "pending"
      => payers[p].inv = OrderInvoice /\ lastSub = 0

(* An order that is still pending is not provisioned.                       *)
PendingIsUnprovisioned == order \in {"none", "pending"} => lastSub = 0

OnceInv == TypeOK /\ LockIsExclusive /\ PendingIsLocked /\ PendingIsUnprovisioned
             /\ ProvisionedOnce

LEMMA OnceInit == Init => OnceInv
BY InitType DEF Init, OnceInv, LockIsExclusive, PendingIsLocked, PendingIsUnprovisioned,
                ProvisionedOnce, IdlePayer

(* Only PayCommit provisions, and only for the one transaction that saw the *)
(* order pending under the lock.                                            *)
LEMMA OnceStep == OnceInv /\ [Next]_vars => OnceInv'
<1> SUFFICES ASSUME OnceInv, [Next]_vars PROVE OnceInv'
  OBVIOUS
<1> USE DEF OnceInv
<1>0. TypeOK /\ TypeOK'
  BY StepType
<1>1. CASE UNCHANGED <<payers, lastSub>> /\ (order' = order \/ order' \notin {"none", "pending"})
  BY <1>0, <1>1 DEF LockIsExclusive, PendingIsLocked, PendingIsUnprovisioned, ProvisionedOnce
<1>2. CASE Place
  BY <1>0, <1>2 DEF Place, actors, LockIsExclusive, PendingIsLocked, PendingIsUnprovisioned,
                    ProvisionedOnce
<1>3. ASSUME NEW p \in Payers, NEW i \in Invoice, PayRead(p, i) PROVE OnceInv'
  <2>1. /\ payers'[p].pc = "read"
        /\ \A q \in Payers : q # p => payers'[q] = payers[q]
        /\ UNCHANGED <<order, lastSub>>
    BY <1>0, <1>3 DEF PayRead, TypeOK, tables, IdlePayer
  <2>2. QED  BY <1>0, <2>1 DEF LockIsExclusive, PendingIsLocked, PendingIsUnprovisioned,
                              ProvisionedOnce
<1>4. ASSUME NEW p \in Payers, PayLock(p) PROVE OnceInv'
  <2>1. /\ payers'[p].inv = payers[p].inv
        /\ payers'[p].order = IF payers[p].inv = OrderInvoice THEN order ELSE "none"
        /\ \A q \in Payers : q # p => payers'[q] = payers[q]
        /\ UNCHANGED <<order, lastSub>>
    BY <1>0, <1>4 DEF PayLock, ReadAll, TypeOK, Payer, tables
  <2>2. \A q \in Payers : payers[q].pc = "locked" => payers[q].inv # payers[p].inv
    BY <1>4 DEF PayLock, Locked
  <2>3. LockIsExclusive'
    BY <2>1, <2>2 DEF LockIsExclusive
  <2>4. PendingIsLocked'
    BY <2>1 DEF PendingIsLocked, PendingIsUnprovisioned
  <2>5. QED  BY <1>0, <2>1, <2>3, <2>4 DEF PendingIsUnprovisioned, ProvisionedOnce
<1>5. ASSUME NEW p \in Payers, PayCommit(p) PROVE OnceInv'
  <2>1. /\ payers[p].pc = "locked"
        /\ payers'[p].pc = "idle"
        /\ \A q \in Payers : q # p => payers'[q] = payers[q]
    BY <1>0, <1>5 DEF PayCommit, TypeOK, IdlePayer
  <2>2. LockIsExclusive'
    BY <2>1 DEF LockIsExclusive
  <2>3. CASE payers[p].order = "pending"
    <3>1. lastSub = 0 /\ order' = "active" /\ lastSub' \in {lastSub, lastSub + 1}
      BY <1>5, <2>1, <2>3 DEF PayCommit, PayOrder, PendingIsLocked
    <3>2. \A q \in Payers : payers'[q].pc = "locked" => payers'[q].order # "pending"
      BY <2>1, <2>3 DEF PendingIsLocked, LockIsExclusive
    <3>3. QED  BY <1>0, <2>2, <3>1, <3>2 DEF PendingIsLocked, PendingIsUnprovisioned,
                                           ProvisionedOnce
  <2>4. CASE payers[p].order # "pending"
    <3>1. UNCHANGED <<order, lastSub>>
      BY <1>5, <2>4 DEF PayCommit, PayRenewal, PayNothing
    <3>2. QED  BY <1>0, <2>1, <2>2, <3>1 DEF PendingIsLocked, PendingIsUnprovisioned,
                                           ProvisionedOnce
  <2>5. QED  BY <2>3, <2>4
<1>6. CASE NextDay \/ Scheduled
  BY <1>1, <1>6 DEF NextDay, Scheduled, RenewalsList, RenewalsOne, DunningList, DunningOne,
                    tables, actors
<1>7. CASE Administer
  BY <1>1, <1>7 DEF Administer, CancelRead, CancelWrite, CancelOrder, SuspendService,
                    UnsuspendService, TerminateService, tables, actors
<1>8. CASE UNCHANGED vars
  BY <1>1, <1>8 DEF vars, tables, actors
<1>9. QED
  BY <1>2, <1>3, <1>4, <1>5, <1>6, <1>7, <1>8 DEF Next, Pay

(* An order is provisioned at most once, whoever reports its payment and    *)
(* whenever (markPaid).                                                     *)
THEOREM OrderProvisionedOnce == Spec => []ProvisionedOnce
<1>1. OnceInv => ProvisionedOnce
  BY DEF OnceInv
<1>2. QED  BY OnceInit, OnceStep, <1>1, PTL DEF Spec

-----------------------------------------------------------------------------
(* A service shown as active is served, with requests and commands at work   *)
(* beside each other                                                         *)

(* Whatever refers to a subscription refers to one that has been made.       *)
RefersToMade ==
  /\ \A i \in Invoice : invoices[i].sub <= lastSub
  /\ \A p \in Payers : payers[p].sub <= lastSub
  /\ \A d \in dunning.todo : d.sub <= lastSub
  /\ \A r \in renewing : r.sub <= lastSub

MadeIsShown ==
  /\ \A s \in Subscription : s <= lastSub <=> subs[s].service # "none"
  /\ \A p \in Payers : payers[p].pc = "locked" /\ payers[p].sub # None => payers[p].seen.service # "none"

(* While no administrator has intervened and no engine call has failed the   *)
(* site is off only when the service is suspended; nothing is terminated.    *)
SiteFollows ==
  admins = 0 /\ faults = 0 =>
    /\ lastSub = 0 <=> site = "none"
    /\ \A s \in Subscription : subs[s].service # "terminated"
    /\ \A p \in Payers : payers[p].seen.service # "terminated"
    /\ ServedAsShown

ServedInv == OnceInv /\ RefersToMade /\ MadeIsShown /\ SiteFollows

LEMMA ServedInit == Init => ServedInv
<1> SUFFICES ASSUME Init PROVE ServedInv
  OBVIOUS
<1>1. RefersToMade
  BY DEF Init, RefersToMade, AbsentInvoice, IdlePayer, IdleDunning, None
<1>2. MadeIsShown
  BY DEF Init, MadeIsShown, AbsentSubscription, IdlePayer, Subscription
<1>3. SiteFollows
  BY DEF Init, SiteFollows, ServedAsShown, AbsentSubscription, IdlePayer
<1>4. QED  BY <1>1, <1>2, <1>3, OnceInit DEF ServedInv

(* What a committed payment writes.                                          *)
LEMMA CommitWrites ==
  ASSUME TypeOK, NEW p \in Payers, PayCommit(p)
  PROVE  /\ lastSub' \in {lastSub, lastSub + 1} /\ lastSub \in Nat
         /\ UNCHANGED <<dunning, renewing, cancelling, admins>>
         /\ payers'[p] = IdlePayer /\ \A q \in Payers : q # p => payers'[q] = payers[q]
         /\ \A i \in Invoice : invoices'[i].sub \in {invoices[i].sub, lastSub'}
<1>1. lastSub' \in {lastSub, lastSub + 1} /\ lastSub \in Nat
  BY MaximaAssumption DEF PayCommit, PayOrder, PayRenewal, PayNothing, TypeOK, SubscriptionOrNone
<1>2. /\ UNCHANGED <<dunning, renewing, cancelling, admins>>
      /\ payers'[p] = IdlePayer /\ \A q \in Payers : q # p => payers'[q] = payers[q]
  BY DEF PayCommit, TypeOK
<1>3. ASSUME NEW i \in Invoice  PROVE invoices'[i].sub \in {invoices[i].sub, lastSub'}
  <2>1. invoices \in [Invoice -> InvoiceRow] /\ invoices[i] \in InvoiceRow
    BY DEF TypeOK
  <2>2. CASE invoices' = [invoices EXCEPT ![payers[p].inv].status = "paid"]
    BY <2>1, <2>2 DEF InvoiceRow
  <2>3. CASE /\ lastSub' = lastSub + 1
             /\ invoices' = [invoices EXCEPT ![payers[p].inv].status = "paid",
                   ![payers[p].inv].sub = IF payers[p].sub = None THEN lastSub + 1
                                                                ELSE invoices[payers[p].inv].sub]
    BY <2>1, <2>3 DEF InvoiceRow
  <2>4. QED  BY <2>2, <2>3 DEF PayCommit, PayOrder, PayRenewal, PayNothing
<1>4. QED  BY <1>1, <1>2, <1>3

LEMMA RefersStep == TypeOK /\ RefersToMade /\ MadeIsShown /\ [Next]_vars => RefersToMade'
<1> SUFFICES ASSUME TypeOK, RefersToMade, MadeIsShown, [Next]_vars  PROVE RefersToMade'
  OBVIOUS
<1>0. /\ invoices \in [Invoice -> InvoiceRow] /\ payers \in [Payers -> Payer] /\ lastSub \in Nat
      /\ \A i \in Invoice : invoices[i].sub \in Nat
  BY MaximaAssumption DEF TypeOK, SubscriptionOrNone, InvoiceRow
<1>1. ASSUME NEW p \in Payers, PayCommit(p)  PROVE RefersToMade'
  <2>1. /\ lastSub' \in Nat /\ lastSub' >= lastSub /\ UNCHANGED <<dunning, renewing>>
        /\ payers'[p] = IdlePayer /\ \A q \in Payers : q # p => payers'[q] = payers[q]
        /\ \A i \in Invoice : invoices'[i].sub \in {invoices[i].sub, lastSub'}
    BY <1>1, CommitWrites
  <2>2. \A i \in Invoice : invoices'[i].sub <= lastSub'
    BY <1>0, <2>1 DEF RefersToMade
  <2>3. \A q \in Payers : payers'[q].sub <= lastSub'
    <3>1. \A q \in Payers : payers[q].sub \in Nat
      BY <1>0, MaximaAssumption DEF Payer, SubscriptionOrNone
    <3>2. IdlePayer.sub = 0
      BY DEF IdlePayer, None
    <3>3. QED  BY <1>0, <2>1, <3>1, <3>2 DEF RefersToMade
  <2>4. /\ \A d \in dunning.todo : d.sub \in Nat
        /\ \A r \in renewing : r.sub \in Nat
    BY MaximaAssumption DEF TypeOK, Dunning, SubscriptionOrNone, Subscription
  <2>5. QED  BY <1>0, <2>1, <2>2, <2>3, <2>4 DEF RefersToMade
<1>2. ASSUME NEW p \in Payers, NEW i \in Invoice, PayRead(p, i)  PROVE RefersToMade'
  <2>1. /\ UNCHANGED <<invoices, lastSub, dunning, renewing>> /\ payers'[p].sub = invoices[i].sub
        /\ \A q \in Payers : q # p => payers'[q] = payers[q]
    BY <1>0, <1>2 DEF PayRead, tables, IdlePayer
  <2>2. QED  BY <2>1 DEF RefersToMade
<1>3. ASSUME NEW p \in Payers, PayLock(p)  PROVE RefersToMade'
  <2>1. /\ UNCHANGED <<invoices, lastSub, dunning, renewing>> /\ payers'[p].sub = payers[p].sub
        /\ \A q \in Payers : q # p => payers'[q] = payers[q]
    BY <1>0, <1>3 DEF PayLock, ReadAll, tables, Payer
  <2>2. QED  BY <2>1 DEF RefersToMade
<1>4. CASE Place
  <2>1. UNCHANGED <<lastSub, payers, dunning, renewing>>
        /\ invoices' = [invoices EXCEPT ![lastInvoice + 1] =
              [status |-> "unpaid", due |-> today + DueDays, sub |-> None]]
    BY <1>4 DEF Place, IssueInvoice, actors
  <2>2. \A i \in Invoice : invoices'[i].sub \in {0, invoices[i].sub}
    BY <1>0, <2>1 DEF None
  <2>3. QED  BY <1>0, <2>1, <2>2 DEF RefersToMade
<1>5. CASE RenewalsOne
  <2>1. PICK r \in renewing : RenewalsOne!(r)
    BY <1>5 DEF RenewalsOne
  <2>2. /\ UNCHANGED <<lastSub, payers, dunning>> /\ renewing' \subseteq renewing
        /\ \/ UNCHANGED invoices
           \/ invoices' = [invoices EXCEPT ![lastInvoice + 1] =
                [status |-> "unpaid", due |-> RenewalDue(r.due), sub |-> r.sub]]
    BY <2>1 DEF IssueInvoice
  <2>3. \A i \in Invoice : invoices'[i].sub \in {r.sub, invoices[i].sub}
    BY <1>0, <2>2
  <2>4. QED  BY <2>2, <2>3 DEF RefersToMade
<1>6. CASE RenewalsList
  <2>1. /\ UNCHANGED <<invoices, lastSub, payers, dunning>>
        /\ \A r \in renewing' : r.sub \in Subscription /\ subs[r.sub].service # "none"
    BY <1>6 DEF RenewalsList, tables
  <2>2. QED  BY <2>1 DEF RefersToMade, MadeIsShown
<1>7. CASE DunningList
  <2>1. /\ UNCHANGED <<invoices, lastSub, payers, renewing>>
        /\ dunning'.todo = {[inv |-> i, status |-> invoices[i].status, due |-> invoices[i].due,
              sub |-> invoices[i].sub] : i \in {j \in Invoice : Dunned(invoices[j].status)}}
    BY <1>7 DEF DunningList, tables
  <2>2. \A d \in dunning'.todo : \E i \in Invoice : d.sub = invoices[i].sub
    BY <2>1
  <2>3. QED  BY <2>1, <2>2 DEF RefersToMade
<1>8. CASE DunningOne
  <2>1. PICK d \in dunning.todo : DunningOne!(d)
    BY <1>8 DEF DunningOne
  <2>2. /\ UNCHANGED <<lastSub, payers, renewing>> /\ dunning'.todo \subseteq dunning.todo
        /\ invoices' \in {invoices, [invoices EXCEPT ![d.inv].status = "overdue"]}
    BY <2>1
  <2>3. \A i \in Invoice : invoices'[i].sub = invoices[i].sub
    BY <1>0, <2>2 DEF InvoiceRow
  <2>4. QED  BY <2>2, <2>3 DEF RefersToMade
<1>9. CASE CancelWrite
  <2>1. UNCHANGED <<lastSub, payers, dunning, renewing>>
        /\ invoices' = [invoices EXCEPT ![cancelling].status = "cancelled"]
    BY <1>9 DEF CancelWrite
  <2>2. \A i \in Invoice : invoices'[i].sub = invoices[i].sub
    BY <1>0, <2>1 DEF InvoiceRow
  <2>3. QED  BY <2>1, <2>2 DEF RefersToMade
<1>10. CASE UNCHANGED <<invoices, lastSub, payers, dunning, renewing>>
  BY <1>10 DEF RefersToMade
<1>11. QED
  BY <1>1, <1>2, <1>3, <1>4, <1>5, <1>6, <1>7, <1>8, <1>9, <1>10 DEF Next, Pay, NextDay, Scheduled, Administer,
     CancelRead, CancelOrder, SuspendService, UnsuspendService, TerminateService, tables, actors, vars

(* Each step writes one service at most, never one that has not been made.   *)
LEMMA ServiceWritten ==
  ASSUME ServedInv, Next
  PROVE  /\ lastSub' \in {lastSub, lastSub + 1} /\ lastSub \in Nat
         /\ \/ UNCHANGED <<subs, lastSub>>
            \/ \E s \in Subscription : /\ s = lastSub + 1 /\ lastSub' = s /\ subs'[s].service = "active"
                                       /\ \A t \in Subscription : t # s => subs'[t] = subs[t]
            \/ \E s \in Subscription : /\ s <= lastSub /\ subs'[s].service # "none" /\ lastSub' = lastSub
                                       /\ \A t \in Subscription : t # s => subs'[t] = subs[t]
<1>0. TypeOK /\ subs \in [Subscription -> SubscriptionRow] /\ lastSub \in Nat /\ payers \in [Payers -> Payer]
  BY MaximaAssumption DEF ServedInv, OnceInv, TypeOK, SubscriptionOrNone
<1> DEFINE Writes(s) == /\ s <= lastSub /\ subs'[s].service # "none" /\ lastSub' = lastSub
                        /\ \A t \in Subscription : t # s => subs'[t] = subs[t]
<1>1. ASSUME NEW s \in Subscription, NEW service, s <= lastSub, service # "none", UNCHANGED lastSub,
             subs' = [subs EXCEPT ![s].service = service]
      PROVE  Writes(s)
  BY <1>0, <1>1 DEF SubscriptionRow
<1>2. ASSUME NEW p \in Payers, PayCommit(p)
      PROVE  \/ UNCHANGED <<subs, lastSub>>
             \/ \E s \in Subscription : /\ s = lastSub + 1 /\ lastSub' = s /\ subs'[s].service = "active"
                                        /\ \A t \in Subscription : t # s => subs'[t] = subs[t]
             \/ \E s \in Subscription : Writes(s)
  <2>1. CASE PayOrder(p)
    <3>1. CASE UNCHANGED <<subs, lastSub>>
      BY <3>1
    <3>2. CASE /\ lastSub < MaxSubscription /\ lastSub' = lastSub + 1
               /\ subs' = [subs EXCEPT ![lastSub + 1] = [service |-> "active", due |-> today + Cycle]]
      <4>1. lastSub + 1 \in Subscription
        BY <1>0, <3>2, MaximaAssumption DEF Subscription
      <4>2. QED  BY <1>0, <3>2, <4>1
    <3>3. QED  BY <2>1, <3>1, <3>2 DEF PayOrder
  <2>2. CASE payers[p].sub # None /\ PayRenewal(p)
    <3>1. payers[p].sub \in Subscription /\ payers[p].sub <= lastSub /\ subs[payers[p].sub].service # "none"
      BY <1>0, <2>2, Ranges DEF Payer, ServedInv, RefersToMade, MadeIsShown
    <3>2. subs'[payers[p].sub].service # "none" /\ lastSub' = lastSub
          /\ \A t \in Subscription : t # payers[p].sub => subs'[t] = subs[t]
      BY <1>0, <2>2, <3>1 DEF PayRenewal
    <3>3. QED  BY <3>1, <3>2
  <2>3. CASE PayNothing(p)
    BY <2>3 DEF PayNothing
  <2>4. QED  BY <1>2, <2>1, <2>2, <2>3 DEF PayCommit
<1>3. CASE DunningOne
  <2>1. PICK d \in dunning.todo : DunningOne!(d)
    BY <1>3 DEF DunningOne
  <2>2. d.sub \in SubscriptionOrNone /\ d.sub <= lastSub
    BY <1>0 DEF TypeOK, Dunning, ServedInv, RefersToMade
  <2>3. CASE d.sub # None /\ Verdict(d) # dunning.service[d.sub]
    <3>1. Verdict(d) # "none" /\ d.sub \in Subscription
      BY <2>2, <2>3, Ranges DEF Verdict
    <3>2. Writes(d.sub)
      BY <1>1, <2>1, <2>2, <2>3, <3>1 DEF Stop
    <3>3. QED  BY <1>0, <2>1, <3>1, <3>2
  <2>4. CASE ~(d.sub # None /\ Verdict(d) # dunning.service[d.sub])
    BY <1>0, <2>1, <2>4
  <2>5. QED  BY <2>3, <2>4
<1>4. ASSUME NEW s \in Subscription, SuspendService(s) \/ UnsuspendService(s) \/ TerminateService(s)
      PROVE  Writes(s)
  <2>1. s <= lastSub
    BY <1>4 DEF SuspendService, UnsuspendService, TerminateService, ServedInv, MadeIsShown
  <2>2. UNCHANGED lastSub /\ \E service \in {"active", "suspended", "terminated"} :
                                 subs' = [subs EXCEPT ![s].service = service]
    BY <1>4 DEF SuspendService, UnsuspendService, TerminateService, Stop
  <2>3. QED  BY <1>1, <2>1, <2>2
<1>5. CASE UNCHANGED <<subs, lastSub>>
  BY <1>0, <1>5
<1>6. QED
  BY <1>0, <1>2, <1>3, <1>4, <1>5 DEF Next, NextDay, Place, Pay, PayRead, PayLock, ReadAll, Scheduled,
     RenewalsList, RenewalsOne, DunningList, Administer, CancelRead, CancelWrite, CancelOrder, tables

LEMMA ShownStep == ServedInv /\ [Next]_vars => MadeIsShown'
<1> SUFFICES ASSUME ServedInv, [Next]_vars  PROVE MadeIsShown'
  OBVIOUS
<1>0. TypeOK /\ payers \in [Payers -> Payer]
  BY DEF ServedInv, OnceInv, TypeOK
<1>1. \A s \in Subscription : s <= lastSub' <=> subs'[s].service # "none"
  <2>1. CASE UNCHANGED vars
    BY <2>1 DEF vars, tables, ServedInv, MadeIsShown
  <2>2. CASE Next
    BY <2>2, ServiceWritten DEF ServedInv, MadeIsShown, Subscription
  <2>3. QED  BY <2>1, <2>2
<1>2. ASSUME NEW p \in Payers, payers'[p].pc = "locked", payers'[p].sub # None
      PROVE  payers'[p].seen.service # "none"
  <2>1. ASSUME NEW q \in Payers, PayLock(q)  PROVE payers'[p].seen.service # "none"
    <3>1. CASE q = p
      <4>1. payers'[p].sub = payers[p].sub /\ payers[p].sub \in SubscriptionOrNone
        BY <1>0, <2>1, <3>1 DEF PayLock, ReadAll, Payer
      <4>2. payers[p].sub \in Subscription /\ payers[p].sub <= lastSub
        BY <1>2, <4>1, Ranges DEF ServedInv, RefersToMade
      <4>3. payers'[p].seen = subs[payers[p].sub]
        BY <1>0, <1>2, <2>1, <3>1, <4>1 DEF PayLock, ReadAll, Payer
      <4>4. QED  BY <4>2, <4>3 DEF ServedInv, MadeIsShown
    <3>2. CASE q # p
      BY <1>0, <1>2, <2>1, <3>2 DEF PayLock, ReadAll, ServedInv, MadeIsShown
    <3>3. QED  BY <3>1, <3>2
  <2>2. ASSUME NEW q \in Payers, NEW i, PayRead(q, i)  PROVE payers'[p].seen.service # "none"
    BY <1>0, <1>2, <2>2 DEF PayRead, IdlePayer, ServedInv, MadeIsShown
  <2>3. ASSUME NEW q \in Payers, PayCommit(q)  PROVE payers'[p].seen.service # "none"
    BY <1>0, <1>2, <2>3 DEF PayCommit, IdlePayer, ServedInv, MadeIsShown
  <2>4. CASE UNCHANGED payers
    BY <1>2, <2>4 DEF ServedInv, MadeIsShown
  <2>5. QED
    BY <2>1, <2>2, <2>3, <2>4 DEF Next, NextDay, Place, Pay, Scheduled, RenewalsList, RenewalsOne, DunningList,
       DunningOne, Administer, CancelRead, CancelWrite, CancelOrder, SuspendService, UnsuspendService,
       TerminateService, tables, actors, vars
<1>3. QED  BY <1>1, <1>2 DEF MadeIsShown

(* A step counts at most one fault and one intervention, the ones it is.     *)
LEMMA CountersStep ==
  ASSUME [Next]_vars
  PROVE  (faults' = faults \/ Fail) /\ (admins' = admins \/ Intervene)
<1>1. CASE NextDay \/ Place \/ Scheduled \/ UNCHANGED vars
  <2>1. CASE DunningOne
    <3>1. PICK d \in dunning.todo : DunningOne!(d)
      BY <2>1 DEF DunningOne
    <3>2. QED  BY <3>1 DEF Stop, SetSite
  <2>2. QED
    BY <1>1, <2>1 DEF NextDay, Place, Scheduled, RenewalsList, RenewalsOne, DunningList, tables, actors, vars
<1>2. CASE Pay
  <2>1. PICK p \in Payers : (\E i \in Invoice : PayRead(p, i)) \/ PayLock(p) \/ PayCommit(p)
    BY <1>2 DEF Pay
  <2>2. CASE PayCommit(p)
    <3>1. PayOrder(p) \/ PayRenewal(p) \/ PayNothing(p)
      BY <2>2 DEF PayCommit
    <3>2. faults' = faults \/ Fail
      BY <3>1 DEF PayOrder, PayRenewal, PayNothing, SetSite
    <3>3. QED  BY <2>2, <3>2 DEF PayCommit
  <2>3. QED  BY <2>1, <2>2 DEF PayRead, PayLock, ReadAll
<1>3. CASE Administer
  <2>1. ASSUME NEW s \in Subscription, SuspendService(s) \/ UnsuspendService(s) \/ TerminateService(s)
        PROVE  (faults' = faults \/ Fail) /\ (admins' = admins \/ Intervene)
    BY <2>1 DEF SuspendService, UnsuspendService, TerminateService, Stop, SetSite
  <2>2. QED  BY <1>3, <2>1 DEF Administer, CancelRead, CancelWrite, CancelOrder, actors
<1>4. QED  BY <1>1, <1>2, <1>3 DEF Next

LEMMA SiteStep ==
  ASSUME ~AutoTerminate
  PROVE  ServedInv /\ [Next]_vars => SiteFollows'
<1> SUFFICES ASSUME ServedInv, [Next]_vars, admins' = 0, faults' = 0
             PROVE  /\ lastSub' = 0 <=> site' = "none"
                    /\ \A s \in Subscription : subs'[s].service # "terminated"
                    /\ \A p \in Payers : payers'[p].seen.service # "terminated"
                    /\ ServedAsShown'
  BY DEF SiteFollows
<1>0. /\ TypeOK /\ subs \in [Subscription -> SubscriptionRow] /\ lastSub \in 0 .. 1 /\ payers \in [Payers -> Payer]
      /\ faults \in Nat /\ admins \in Nat /\ site \in {"none", "active", "suspended"}
  BY MaximaAssumption DEF ServedInv, OnceInv, ProvisionedOnce, TypeOK, SubscriptionOrNone
<1>1. admins = 0 /\ faults = 0 /\ ~Intervene
  BY <1>0, CountersStep DEF Fail, Intervene
<1>2. /\ lastSub = 0 <=> site = "none"
      /\ \A s \in Subscription : subs[s].service # "terminated"
      /\ \A p \in Payers : payers[p].seen.service # "terminated"
      /\ \A s \in Subscription : subs[s].service = "active" => site = "active"
  BY <1>1 DEF ServedInv, SiteFollows, ServedAsShown
<1>3. ~Fail
  BY <1>1 DEF Fail
<1>4. ASSUME NEW p \in Payers, PayCommit(p)
      PROVE  /\ lastSub' = 0 <=> site' = "none"
             /\ \A s \in Subscription : subs'[s].service # "terminated"
             /\ \A s \in Subscription : subs'[s].service = "active" => site' = "active"
  <2>1. CASE PayOrder(p) /\ payers[p].order = "pending"
    <3>1. lastSub = 0
      BY <1>4, <2>1 DEF PayCommit, ServedInv, OnceInv, PendingIsLocked
    <3>2. /\ lastSub' = 1 /\ site' = "active"
          /\ subs' = [subs EXCEPT ![1] = [service |-> "active", due |-> today + Cycle]]
      BY <1>2, <1>3, <2>1, <3>1 DEF PayOrder
    <3>3. QED  BY <1>0, <1>2, <3>2
  <2>2. CASE PayRenewal(p) /\ payers[p].sub # None
    <3>1. payers[p].sub \in Subscription /\ payers[p].sub <= lastSub
      BY <1>0, <2>2, Ranges DEF Payer, ServedInv, RefersToMade
    <3>2. lastSub = 1 /\ lastSub' = 1 /\ site # "none"
      BY <1>0, <1>2, <2>2, <3>1 DEF Subscription, PayRenewal
    <3>3. payers[p].seen.service \in {"active", "suspended"}
      BY <1>0, <1>2, <1>4, <2>2 DEF PayCommit, ServedInv, MadeIsShown, Payer, SubscriptionRow, Service
    <3>4. subs' = [subs EXCEPT ![payers[p].sub] =
              [service |-> IF payers[p].seen.service # "active" THEN "active" ELSE subs[payers[p].sub].service,
               due |-> Extended(payers[p].seen.due)]]
      BY <2>2 DEF PayRenewal
    <3>5. CASE payers[p].seen.service = "active"
      <4>1. site' = site
        BY <2>2, <3>5 DEF PayRenewal
      <4>2. \A s \in Subscription : subs'[s].service = subs[s].service
        BY <1>0, <3>1, <3>4, <3>5
      <4>3. QED  BY <1>2, <3>2, <4>1, <4>2
    <3>6. CASE payers[p].seen.service = "suspended"
      <4>1. site' = "active"
        BY <1>0, <1>3, <2>2, <3>2, <3>6 DEF PayRenewal, SetSite
      <4>2. \A s \in Subscription : subs'[s].service # "terminated"
        BY <1>0, <1>2, <3>1, <3>4, <3>6
      <4>3. QED  BY <3>2, <4>1, <4>2
    <3>7. QED  BY <3>3, <3>5, <3>6
  <2>3. CASE PayNothing(p)
    BY <1>2, <2>3 DEF PayNothing
  <2>4. QED  BY <1>4, <2>1, <2>2, <2>3 DEF PayCommit
<1>5. CASE DunningOne
  <2>1. PICK d \in dunning.todo : DunningOne!(d)
    BY <1>5 DEF DunningOne
  <2>2. d.sub \in SubscriptionOrNone /\ d.sub <= lastSub /\ UNCHANGED <<lastSub, payers>>
    BY <1>0, <2>1 DEF TypeOK, Dunning, ServedInv, RefersToMade
  <2>3. CASE d.sub # None /\ Verdict(d) # dunning.service[d.sub]
    <3>1. Verdict(d) = "suspended"
      BY <2>3 DEF Verdict
    <3>2. subs' = [subs EXCEPT ![d.sub].service = "suspended"] /\ site' \in {site, "suspended"}
          /\ SetSite("suspended")
      BY <2>1, <2>3, <3>1 DEF Stop, SetSite
    <3>3. d.sub = 1 /\ lastSub = 1 /\ site # "none"
      BY <1>0, <1>2, <2>2, <2>3 DEF SubscriptionOrNone, None
    <3>4. site' # "none"
      BY <3>2, <3>3
    <3>5. \A s \in Subscription : subs'[s].service # "terminated" /\ subs'[s].service # "active"
      <4>1. subs'[1].service = "suspended"
        BY <1>0, <2>2, <2>3, <3>2, <3>3, Ranges DEF SubscriptionRow
      <4>2. \A s \in Subscription : s # 1 => subs'[s] = subs[s]
        BY <1>0, <3>2, <3>3
      <4>3. \A s \in Subscription : s # 1 => subs[s].service = "none"
        BY <3>3 DEF ServedInv, MadeIsShown, Subscription
      <4>4. QED  BY <4>1, <4>2, <4>3
    <3>6. QED  BY <1>2, <2>2, <3>3, <3>4, <3>5 DEF ServedAsShown
  <2>4. CASE ~(d.sub # None /\ Verdict(d) # dunning.service[d.sub])
    BY <1>2, <2>1, <2>2, <2>4 DEF ServedAsShown
  <2>5. QED  BY <2>3, <2>4
<1>6. \A p \in Payers : payers'[p].seen.service # "terminated"
  <2>1. ASSUME NEW p \in Payers, NEW q \in Payers, PayLock(q)  PROVE payers'[p].seen.service # "terminated"
    <3>1. payers[q].sub \in SubscriptionOrNone
      BY <1>0 DEF Payer
    <3>2. payers'[q].seen = IF payers[q].sub = None THEN AbsentSubscription ELSE subs[payers[q].sub]
      BY <1>0, <2>1 DEF PayLock, ReadAll, Payer
    <3>3. payers'[q].seen.service # "terminated"
      BY <1>2, <3>1, <3>2, Ranges DEF AbsentSubscription
    <3>4. q # p => payers'[p] = payers[p]
      BY <1>0, <2>1 DEF PayLock, ReadAll
    <3>5. QED  BY <1>2, <3>3, <3>4
  <2>2. ASSUME NEW p \in Payers, NEW q \in Payers, NEW i, PayRead(q, i)
        PROVE  payers'[p].seen.service # "terminated"
    BY <1>0, <1>2, <2>2 DEF PayRead, IdlePayer, AbsentSubscription
  <2>3. ASSUME NEW p \in Payers, NEW q \in Payers, PayCommit(q)  PROVE payers'[p].seen.service # "terminated"
    BY <1>0, <1>2, <2>3 DEF PayCommit, IdlePayer, AbsentSubscription
  <2>4. CASE UNCHANGED payers
    BY <1>2, <2>4
  <2>5. QED
    BY <2>1, <2>2, <2>3, <2>4 DEF Next, NextDay, Place, Pay, Scheduled, RenewalsList, RenewalsOne, DunningList,
       DunningOne, Administer, CancelRead, CancelWrite, CancelOrder, SuspendService, UnsuspendService,
       TerminateService, tables, actors, vars
<1>7. CASE UNCHANGED <<subs, lastSub, site>>
  BY <1>2, <1>6, <1>7 DEF ServedAsShown
<1>8. QED
  BY <1>1, <1>4, <1>5, <1>6, <1>7 DEF Next, NextDay, Place, Pay, PayRead, PayLock, ReadAll, Scheduled,
     RenewalsList, RenewalsOne, DunningList, Administer, CancelRead, CancelWrite, CancelOrder, SuspendService,
     UnsuspendService, TerminateService, tables, vars, ServedAsShown

(* Until an administrator intervenes or an engine call fails, a service      *)
(* shown as active is served, however callbacks, mark-paid requests, dunning *)
(* and renewals meet, when dunning does not terminate (auto_terminate off,   *)
(* the default): for any number of payers, invoices and days (renew,         *)
(* billing:dunning).                                                         *)
THEOREM ActiveIsServed ==
  ASSUME ~AutoTerminate
  PROVE  Spec => [](admins = 0 /\ faults = 0 => ServedAsShown)
<1>1. ServedInv /\ [Next]_vars => ServedInv'
  BY OnceStep, RefersStep, ShownStep, SiteStep DEF ServedInv, OnceInv
<1>2. ServedInv => (admins = 0 /\ faults = 0 => ServedAsShown)
  BY DEF ServedInv, SiteFollows
<1>3. QED  BY <1>1, <1>2, ServedInit, PTL DEF Spec

-----------------------------------------------------------------------------
(* Nobody's model is stale                                                  *)

NoPayer == \A p \in Payers : payers[p].pc = "idle"

(* At most one payer, one command or one cancellation is at work.           *)
OneAtATime ==
  /\ \A p, q \in Payers : payers[p].pc # "idle" /\ payers[q].pc # "idle" => p = q
  /\ dunning.todo # {} => NoPayer /\ renewing = {} /\ cancelling = None
  /\ renewing # {} => NoPayer /\ cancelling = None
  /\ cancelling # None => NoPayer

(* What each actor has loaded is what the tables say.                       *)
PayerIsFresh ==
  \A p \in Payers :
    payers[p].pc # "idle" =>
      /\ payers[p].inv \in Invoice
      /\ Payable(invoices[payers[p].inv].status)
      /\ payers[p].sub = invoices[payers[p].inv].sub

DunningIsFresh ==
  \A d \in dunning.todo :
    /\ Payable(invoices[d.inv].status)
    /\ d.status = invoices[d.inv].status
    /\ d.due = invoices[d.inv].due
    /\ d.sub = invoices[d.inv].sub

RenewingIsFresh == \A r \in renewing : r.due = subs[r.sub].due /\ r.sub <= lastSub

CancelIsFresh == cancelling # None => Payable(invoices[cancelling].status)

(* Rows that do not exist yet are empty, and no invoice is for one of them. *)
FutureIsEmpty ==
  /\ \A i \in Invoice : i > lastInvoice => invoices[i].status = "absent"
  /\ \A i \in Invoice : invoices[i].sub <= lastSub
  /\ \A s \in Subscription : subs[s].service # "none" => s <= lastSub

FreshInv == OneAtATime /\ PayerIsFresh /\ DunningIsFresh /\ RenewingIsFresh
              /\ CancelIsFresh /\ FutureIsEmpty

SeqInv == TypeOK /\ FreshInv /\ OneOpenRenewal /\ DueAfterTerm

LEMMA SeqInit == Init => SeqInv
<1> SUFFICES ASSUME Init PROVE SeqInv
  OBVIOUS
<1>1. \A i \in Invoice : invoices[i].status = "absent" /\ invoices[i].sub = 0
  BY DEF Init, AbsentInvoice, None
<1>2. \A s \in Subscription : OpenInvoices(s) = {}
  BY <1>1 DEF OpenInvoices, Payable
<1>3. FreshInv
  BY <1>1 DEF Init, FreshInv, OneAtATime, NoPayer, PayerIsFresh, DunningIsFresh,
     RenewingIsFresh, CancelIsFresh, FutureIsEmpty, IdlePayer, IdleDunning, AbsentSubscription
<1>4. OneOpenRenewal /\ DueAfterTerm
  BY <1>2 DEF OneOpenRenewal, DueAfterTerm
<1>5. QED  BY <1>3, <1>4, InitType DEF SeqInv

(* Whoever begins is alone.                                                 *)
LEMMA BeginsAlone ==
  ASSUME ~Overlap, MayBegin
  PROVE  NoPayer /\ dunning.todo = {} /\ renewing = {} /\ cancelling = None
BY DEF MayBegin, Quiet, NoPayer

(* Open invoices stay one per subscription and due after the term when no   *)
(* invoice opens or changes its terms, and a term changes only where no     *)
(* invoice is open any more.                                                *)
LEMMA OpenShrinks ==
  ASSUME OneOpenRenewal, DueAfterTerm,
         \A i \in Invoice : Payable(invoices'[i].status) =>
           /\ Payable(invoices[i].status)
           /\ invoices'[i].sub = invoices[i].sub
           /\ invoices'[i].due = invoices[i].due,
         \A s \in Subscription :
           \/ subs'[s].due = subs[s].due
           \/ \A i \in Invoice : invoices'[i].sub = s => ~Payable(invoices'[i].status)
  PROVE  OneOpenRenewal' /\ DueAfterTerm'
<1>1. \A s \in Subscription : OpenInvoices(s)' \subseteq OpenInvoices(s)
  BY DEF OpenInvoices
<1>2. OneOpenRenewal'
  BY <1>1 DEF OneOpenRenewal
<1>3. ASSUME NEW s \in Subscription, NEW i \in OpenInvoices(s)'
      PROVE  invoices'[i].due >= subs'[s].due
  <2>1. i \in Invoice /\ invoices'[i].sub = s /\ Payable(invoices'[i].status)
    BY <1>3 DEF OpenInvoices
  <2>2. subs'[s].due = subs[s].due /\ invoices'[i].due = invoices[i].due
    BY <2>1
  <2>3. i \in OpenInvoices(s)
    BY <1>1, <1>3
  <2>4. invoices[i].due >= subs[s].due
    BY <2>3 DEF DueAfterTerm
  <2>5. QED  BY <2>2, <2>4
<1>4. DueAfterTerm'
  BY <1>3 DEF DueAfterTerm
<1>5. QED  BY <1>2, <1>4

(* What an invoice that is issued changes.                                  *)
LEMMA IssueEffect ==
  ASSUME TypeOK, NEW due \in Nat, NEW sub \in SubscriptionOrNone, IssueInvoice(due, sub)
  PROVE  /\ lastInvoice + 1 \in Invoice /\ lastInvoice' = lastInvoice + 1
         /\ invoices'[lastInvoice + 1] = [status |-> "unpaid", due |-> due, sub |-> sub]
         /\ \A i \in Invoice \ {lastInvoice + 1} : invoices'[i] = invoices[i]
BY MaximaAssumption DEF TypeOK, IssueInvoice, Invoice, InvoiceOrNone

(* What a payment changes: one invoice becomes paid, and the term of its    *)
(* subscription or of a new one changes.                                    *)
LEMMA PayEffect ==
  ASSUME SeqInv, NEW p \in Payers, PayCommit(p)
  PROVE  /\ payers[p].pc # "idle" /\ payers'[p].pc = "idle"
         /\ \A q \in Payers : q # p => payers'[q] = payers[q]
         /\ UNCHANGED <<lastInvoice, dunning, renewing, cancelling, today>>
         /\ payers[p].inv \in Invoice
         /\ invoices'[payers[p].inv].status = "paid"
         /\ \A i \in Invoice \ {payers[p].inv} : invoices'[i] = invoices[i]
         /\ lastSub' \in Nat /\ lastSub' >= lastSub /\ invoices'[payers[p].inv].sub <= lastSub'
         /\ \A s \in Subscription :
              subs'[s] # subs[s] => s = payers[p].sub \/ (s = lastSub + 1 /\ s = lastSub')
<1> DEFINE i == payers[p].inv
<1>1. /\ payers[p].pc = "locked" /\ payers'[p].pc = "idle"
      /\ \A q \in Payers : q # p => payers'[q] = payers[q]
      /\ UNCHANGED <<lastInvoice, dunning, renewing, cancelling, today>>
  BY DEF PayCommit, SeqInv, TypeOK, IdlePayer
<1>2. i \in Invoice
  BY <1>1 DEF SeqInv, FreshInv, PayerIsFresh
<1>3. /\ invoices \in [Invoice -> InvoiceRow] /\ invoices[i] \in InvoiceRow
      /\ lastSub \in Nat /\ invoices[i].sub <= lastSub /\ invoices[i].sub \in Nat
  BY <1>2, MaximaAssumption DEF SeqInv, TypeOK, FreshInv, FutureIsEmpty, InvoiceRow, SubscriptionOrNone
<1>4. subs \in [Subscription -> SubscriptionRow]
  BY DEF SeqInv, TypeOK
<1>5. ASSUME invoices' = [invoices EXCEPT ![i].status = "paid"]
      PROVE  /\ invoices'[i].status = "paid"
             /\ \A j \in Invoice \ {i} : invoices'[j] = invoices[j]
             /\ invoices'[i].sub = invoices[i].sub
  BY <1>2, <1>3, <1>5 DEF InvoiceRow
<1>6. CASE PayOrder(p)
  <2>1. CASE /\ lastSub' = lastSub + 1
             /\ subs' = [subs EXCEPT ![lastSub + 1] =
                   [service |-> "active", due |-> today + Cycle]]
             /\ invoices' = [invoices EXCEPT
                   ![i].status = "paid",
                   ![i].sub = IF payers[p].sub = None THEN lastSub + 1 ELSE invoices[i].sub]
    <3>1. /\ invoices'[i].status = "paid"
          /\ invoices'[i].sub \in {lastSub + 1, invoices[i].sub}
          /\ \A j \in Invoice \ {i} : invoices'[j] = invoices[j]
      BY <1>2, <1>3, <2>1 DEF InvoiceRow
    <3>2. lastSub' \in Nat /\ lastSub' >= lastSub /\ invoices'[i].sub <= lastSub'
      BY <1>3, <2>1, <3>1
    <3>3. \A s \in Subscription : s # lastSub + 1 => subs'[s] = subs[s]
      BY <1>4, <2>1
    <3>4. QED  BY <1>1, <1>2, <2>1, <3>1, <3>2, <3>3
  <2>2. CASE invoices' = [invoices EXCEPT ![i].status = "paid"] /\ UNCHANGED <<subs, lastSub>>
    BY <1>1, <1>2, <1>3, <1>5, <2>2
  <2>3. QED  BY <1>6, <2>1, <2>2 DEF PayOrder
<1>7. CASE PayRenewal(p)
  <2>1. invoices' = [invoices EXCEPT ![i].status = "paid"] /\ UNCHANGED lastSub
    BY <1>7 DEF PayRenewal
  <2>2. \A s \in Subscription : s # payers[p].sub => subs'[s] = subs[s]
    BY <1>4, <1>7 DEF PayRenewal
  <2>3. QED  BY <1>1, <1>2, <1>3, <1>5, <2>1, <2>2
<1>8. CASE PayNothing(p)
  <2>1. invoices' = [invoices EXCEPT ![i].status = "paid"] /\ UNCHANGED <<subs, lastSub>>
    BY <1>8 DEF PayNothing
  <2>2. QED  BY <1>1, <1>2, <1>3, <1>5, <2>1
<1>9. QED  BY <1>6, <1>7, <1>8 DEF PayCommit

(* A change of service leaves every term alone.                             *)
LEMMA ServiceKeepsTerm ==
  ASSUME TypeOK, NEW s \in Subscription, NEW service,
         subs' = [subs EXCEPT ![s].service = service]
  PROVE  /\ \A t \in Subscription : subs'[t].due = subs[t].due
         /\ \A t \in Subscription : t # s => subs'[t] = subs[t]
<1>1. subs \in [Subscription -> SubscriptionRow]
  BY DEF TypeOK
<1>2. \A t \in Subscription : t # s => subs'[t] = subs[t]
  BY <1>1
<1>3. subs'[s].due = subs[s].due
  BY <1>1 DEF SubscriptionRow
<1>4. QED  BY <1>2, <1>3

(* What one invoice of dunning changes: it may become overdue, and no term  *)
(* changes.                                                                 *)
LEMMA DunningEffect ==
  ASSUME SeqInv, NEW d \in dunning.todo, DunningOne!(d)
  PROVE  /\ d.inv \in Invoice
         /\ dunning'.todo = dunning.todo \ {d}
         /\ Payable(invoices'[d.inv].status)
         /\ invoices'[d.inv].sub = invoices[d.inv].sub
         /\ invoices'[d.inv].due = invoices[d.inv].due
         /\ \A i \in Invoice \ {d.inv} : invoices'[i] = invoices[i]
         /\ \A s \in Subscription : subs'[s].due = subs[s].due
         /\ \A s \in Subscription : subs'[s] # subs[s] => s <= lastSub
         /\ UNCHANGED <<lastInvoice, lastSub, payers, renewing, cancelling, today>>
<1>1. d.inv \in Invoice /\ d.sub \in SubscriptionOrNone
  BY DEF SeqInv, TypeOK, Dunning
<1>2. Payable(invoices[d.inv].status) /\ invoices \in [Invoice -> InvoiceRow]
  BY DEF SeqInv, FreshInv, DunningIsFresh, TypeOK
<1>3. /\ \A s \in Subscription : subs'[s].due = subs[s].due
      /\ \A s \in Subscription : subs'[s] # subs[s] => s <= lastSub
  <2>1. CASE d.sub # None /\ Verdict(d) # dunning.service[d.sub]
    <3>1. d.sub \in Subscription /\ subs' = [subs EXCEPT ![d.sub].service = Verdict(d)]
      BY <1>1, <2>1, Ranges DEF Stop
    <3>2. d.sub <= lastSub
      BY <1>1 DEF SeqInv, FreshInv, DunningIsFresh, FutureIsEmpty
    <3>3. QED  BY <3>1, <3>2, ServiceKeepsTerm DEF SeqInv
  <2>2. CASE ~(d.sub # None /\ Verdict(d) # dunning.service[d.sub])
    BY <2>2
  <2>3. QED  BY <2>1, <2>2
<1>4. /\ Payable(invoices'[d.inv].status)
      /\ invoices'[d.inv].sub = invoices[d.inv].sub
      /\ invoices'[d.inv].due = invoices[d.inv].due
      /\ \A i \in Invoice \ {d.inv} : invoices'[i] = invoices[i]
  <2>1. CASE invoices' = [invoices EXCEPT ![d.inv].status = "overdue"]
    BY <1>1, <1>2, <2>1 DEF InvoiceRow, Payable
  <2>2. CASE invoices' = invoices
    BY <1>2, <2>2
  <2>3. QED  BY <2>1, <2>2
<1>5. dunning'.todo = dunning.todo \ {d}
  OBVIOUS
<1>6. QED  BY <1>1, <1>3, <1>4, <1>5

-----------------------------------------------------------------------------
(* Each step keeps SeqInv                                                   *)

LEMMA PlaceKeeps ==
  ASSUME ~Overlap, SeqInv, Place
  PROVE  FreshInv' /\ OneOpenRenewal' /\ DueAfterTerm'
<1>1. NoPayer /\ dunning.todo = {} /\ renewing = {} /\ cancelling = None
  BY BeginsAlone DEF Place
<1>2. UNCHANGED <<payers, dunning, renewing, cancelling, subs, lastSub>>
  BY DEF Place, actors
<1>3. /\ lastInvoice + 1 \in Invoice /\ lastInvoice' = lastInvoice + 1
      /\ invoices'[lastInvoice + 1] = [status |-> "unpaid", due |-> today + DueDays, sub |-> None]
      /\ \A i \in Invoice \ {lastInvoice + 1} : invoices'[i] = invoices[i]
  BY IssueEffect, Ranges, DaysAssumption DEF Place, SeqInv, TypeOK
<1>4. FutureIsEmpty'
  <2>1. lastSub \in Nat /\ lastInvoice \in Nat /\ \A i \in Invoice : i \in Nat
    BY MaximaAssumption DEF SeqInv, TypeOK, SubscriptionOrNone, InvoiceOrNone, Invoice
  <2>2. QED  BY <1>2, <1>3, <2>1 DEF SeqInv, FreshInv, FutureIsEmpty, None
<1>5. FreshInv'
  BY <1>1, <1>2, <1>4 DEF FreshInv, OneAtATime, NoPayer, PayerIsFresh, DunningIsFresh,
                         RenewingIsFresh, CancelIsFresh
<1>6. \A s \in Subscription : OpenInvoices(s)' = OpenInvoices(s) \ {lastInvoice + 1}
  <2>1. invoices[lastInvoice + 1].status = "absent"
    BY <1>3 DEF SeqInv, TypeOK, FreshInv, FutureIsEmpty, InvoiceOrNone
  <2>2. QED  BY <1>3, <2>1, Ranges DEF OpenInvoices
<1>7. \A s \in Subscription : \A i \in OpenInvoices(s)' :
        i \in OpenInvoices(s) /\ invoices'[i] = invoices[i]
  BY <1>3, <1>6 DEF OpenInvoices
<1>8. OneOpenRenewal' /\ DueAfterTerm'
  BY <1>2, <1>7 DEF SeqInv, OneOpenRenewal, DueAfterTerm
<1>9. QED  BY <1>5, <1>8

LEMMA RenewalsListKeeps ==
  ASSUME ~Overlap, SeqInv, RenewalsList
  PROVE  FreshInv' /\ OneOpenRenewal' /\ DueAfterTerm'
<1>1. NoPayer /\ dunning.todo = {} /\ renewing = {} /\ cancelling = None
  BY BeginsAlone DEF RenewalsList
<1>2. UNCHANGED <<payers, dunning, cancelling, subs, lastSub, invoices, lastInvoice>>
  BY DEF RenewalsList, tables
<1>3. RenewingIsFresh'
  <2>1. renewing' = {[sub |-> t, due |-> subs[t].due] : t \in {u \in Subscription :
           /\ subs[u].service \notin {"none", "terminated"}
           /\ subs[u].due <= today + GenerateDays}}
    BY DEF RenewalsList
  <2>2. QED  BY <1>2, <2>1 DEF RenewingIsFresh, SeqInv, FreshInv, FutureIsEmpty
<1>4. QED
  BY <1>1, <1>2, <1>3 DEF SeqInv, FreshInv, OneAtATime, NoPayer, PayerIsFresh, DunningIsFresh,
     CancelIsFresh, FutureIsEmpty, OneOpenRenewal, DueAfterTerm, OpenInvoices

LEMMA RenewalsOneKeeps ==
  ASSUME ~Overlap, SeqInv, RenewalsOne
  PROVE  FreshInv' /\ OneOpenRenewal' /\ DueAfterTerm'
<1>1. PICK r \in renewing : RenewalsOne!(r)
  BY DEF RenewalsOne
<1>2. NoPayer /\ dunning.todo = {} /\ cancelling = None
  BY <1>1 DEF SeqInv, FreshInv, OneAtATime
<1>3. UNCHANGED <<payers, dunning, cancelling, subs, lastSub, today>>
  BY <1>1
<1>4. renewing' \subseteq renewing
  BY <1>1
<1>5. OneAtATime' /\ PayerIsFresh' /\ DunningIsFresh' /\ RenewingIsFresh' /\ CancelIsFresh'
  BY <1>2, <1>3, <1>4 DEF SeqInv, FreshInv, OneAtATime, NoPayer, PayerIsFresh, DunningIsFresh,
                         RenewingIsFresh, CancelIsFresh
<1>6. CASE UNCHANGED <<invoices, lastInvoice>>
  BY <1>3, <1>5, <1>6 DEF SeqInv, FreshInv, FutureIsEmpty, OneOpenRenewal, DueAfterTerm, OpenInvoices
<1>7. CASE ~HasOpenRenewal(r.sub) /\ IssueInvoice(RenewalDue(r.due), r.sub)
  <2> DEFINE n == lastInvoice + 1
  <2>1. /\ r.sub \in Subscription /\ r.sub \in SubscriptionOrNone /\ r.sub # None
        /\ r.due \in Nat /\ r.due = subs[r.sub].due
    BY Ranges DEF SeqInv, TypeOK, FreshInv, RenewingIsFresh
  <2>2. RenewalDue(r.due) \in Nat /\ RenewalDue(r.due) >= r.due
    BY <2>1, DaysAssumption DEF RenewalDue, SeqInv, TypeOK
  <2>3. /\ n \in Invoice /\ lastInvoice' = n
        /\ invoices'[n] = [status |-> "unpaid", due |-> RenewalDue(r.due), sub |-> r.sub]
        /\ \A i \in Invoice \ {n} : invoices'[i] = invoices[i]
    BY <1>7, <2>1, <2>2, IssueEffect DEF SeqInv
  <2>4. FutureIsEmpty'
    <3>1. r.sub <= lastSub
      BY DEF SeqInv, FreshInv, RenewingIsFresh
    <3>2. lastInvoice \in Nat /\ \A i \in Invoice : i \in Nat
      BY MaximaAssumption DEF SeqInv, TypeOK, InvoiceOrNone, Invoice
    <3>3. QED  BY <1>3, <2>3, <3>1, <3>2 DEF SeqInv, FreshInv, FutureIsEmpty
  <2>5. OpenInvoices(r.sub) = {}
    BY <1>7 DEF OpenInvoices, HasOpenRenewal
  <2>6. OpenInvoices(r.sub)' = {n}
    BY <2>3, <2>5 DEF OpenInvoices, Payable
  <2>7. \A s \in Subscription \ {r.sub} : \A i \in OpenInvoices(s)' :
          i \in OpenInvoices(s) /\ invoices'[i] = invoices[i]
    BY <2>3 DEF OpenInvoices
  <2>8. OneOpenRenewal'
    BY <2>6, <2>7 DEF SeqInv, OneOpenRenewal
  <2>9. invoices'[n].due >= subs'[r.sub].due
    BY <1>3, <2>1, <2>2, <2>3
  <2>10. DueAfterTerm'
    BY <1>3, <2>6, <2>7, <2>9 DEF SeqInv, DueAfterTerm
  <2>11. QED  BY <1>5, <2>4, <2>8, <2>10 DEF FreshInv
<1>8. QED  BY <1>1, <1>6, <1>7

LEMMA PayReadKeeps ==
  ASSUME ~Overlap, SeqInv, NEW p \in Payers, NEW i \in Invoice, PayRead(p, i)
  PROVE  FreshInv' /\ OneOpenRenewal' /\ DueAfterTerm'
<1>1. NoPayer /\ dunning.todo = {} /\ renewing = {} /\ cancelling = None
  BY BeginsAlone DEF PayRead
<1>2. UNCHANGED <<dunning, renewing, cancelling, subs, lastSub, invoices, lastInvoice>>
  BY DEF PayRead, tables
<1>3. /\ \A q \in Payers : q # p => payers'[q] = payers[q]
      /\ payers'[p].inv = i /\ payers'[p].sub = invoices[i].sub /\ Payable(invoices[i].status)
  BY DEF PayRead, SeqInv, TypeOK, IdlePayer
<1>4. OneAtATime' /\ PayerIsFresh'
  BY <1>1, <1>2, <1>3 DEF OneAtATime, NoPayer, PayerIsFresh
<1>5. QED
  BY <1>1, <1>2, <1>4 DEF SeqInv, FreshInv, DunningIsFresh, RenewingIsFresh,
     CancelIsFresh, FutureIsEmpty, OneOpenRenewal, DueAfterTerm, OpenInvoices

LEMMA PayLockKeeps ==
  ASSUME SeqInv, NEW p \in Payers, PayLock(p)
  PROVE  FreshInv' /\ OneOpenRenewal' /\ DueAfterTerm'
<1>1. UNCHANGED <<dunning, renewing, cancelling, subs, lastSub, invoices, lastInvoice>>
  BY DEF PayLock, ReadAll, tables
<1>2. /\ \A q \in Payers : q # p => payers'[q] = payers[q]
      /\ payers[p].pc # "idle" /\ payers'[p].inv = payers[p].inv /\ payers'[p].sub = payers[p].sub
  BY DEF PayLock, ReadAll, SeqInv, TypeOK, Payer
<1>3. OneAtATime' /\ PayerIsFresh'
  BY <1>1, <1>2 DEF SeqInv, FreshInv, OneAtATime, NoPayer, PayerIsFresh
<1>4. QED
  BY <1>1, <1>3 DEF SeqInv, FreshInv, DunningIsFresh, RenewingIsFresh,
     CancelIsFresh, FutureIsEmpty, OneOpenRenewal, DueAfterTerm, OpenInvoices

LEMMA PayCommitKeeps ==
  ASSUME SeqInv, NEW p \in Payers, PayCommit(p)
  PROVE  FreshInv' /\ OneOpenRenewal' /\ DueAfterTerm'
<1> DEFINE i == payers[p].inv
<1>1. /\ payers[p].pc # "idle" /\ payers'[p].pc = "idle"
      /\ \A q \in Payers : q # p => payers'[q] = payers[q]
      /\ UNCHANGED <<lastInvoice, dunning, renewing, cancelling, today>>
      /\ i \in Invoice
      /\ invoices'[i].status = "paid"
      /\ \A j \in Invoice \ {i} : invoices'[j] = invoices[j]
      /\ lastSub' \in Nat /\ lastSub' >= lastSub /\ invoices'[i].sub <= lastSub'
      /\ \A s \in Subscription :
           subs'[s] # subs[s] => s = payers[p].sub \/ (s = lastSub + 1 /\ s = lastSub')
  BY PayEffect
<1>2. /\ dunning.todo = {} /\ renewing = {} /\ cancelling = None
      /\ \A q \in Payers : q # p => payers[q].pc = "idle"
  BY <1>1 DEF SeqInv, FreshInv, OneAtATime, NoPayer
<1>3. payers[p].sub = invoices[i].sub /\ Payable(invoices[i].status)
  BY <1>1 DEF SeqInv, FreshInv, PayerIsFresh
<1>4. OneAtATime' /\ PayerIsFresh' /\ DunningIsFresh' /\ RenewingIsFresh' /\ CancelIsFresh'
  BY <1>1, <1>2 DEF OneAtATime, NoPayer, PayerIsFresh, DunningIsFresh, RenewingIsFresh, CancelIsFresh
<1>5. lastSub \in Nat /\ \A j \in Invoice : invoices[j].sub \in Nat
  BY MaximaAssumption DEF SeqInv, TypeOK, SubscriptionOrNone, InvoiceRow
<1>6. FutureIsEmpty'
  <2>1. \A j \in Invoice : j > lastInvoice' => invoices'[j].status = "absent"
    BY <1>1, <1>3 DEF SeqInv, FreshInv, FutureIsEmpty, Payable
  <2>2. \A j \in Invoice : invoices'[j].sub <= lastSub'
    BY <1>1, <1>5 DEF SeqInv, FreshInv, FutureIsEmpty
  <2>3. \A s \in Subscription : subs'[s].service # "none" => s <= lastSub'
    <3>1. invoices[i].sub <= lastSub /\ \A s \in Subscription : s \in Nat
      BY <1>1, MaximaAssumption DEF SeqInv, FreshInv, FutureIsEmpty, Subscription
    <3>2. QED  BY <1>1, <1>3, <1>5, <3>1 DEF SeqInv, FreshInv, FutureIsEmpty
  <2>4. QED  BY <2>1, <2>2, <2>3 DEF FutureIsEmpty
<1>7. \A j \in Invoice : Payable(invoices'[j].status) =>
        j # i /\ invoices'[j] = invoices[j]
  BY <1>1 DEF Payable
<1>8. ASSUME NEW s \in Subscription, subs'[s] # subs[s],
             NEW j \in Invoice, invoices'[j].sub = s
      PROVE  ~Payable(invoices'[j].status)
  <2> SUFFICES ASSUME Payable(invoices'[j].status) PROVE FALSE
    OBVIOUS
  <2>1. j # i /\ invoices'[j] = invoices[j]
    BY <1>7
  <2>2. s # lastSub + 1
    BY <1>5, <1>8, <2>1 DEF SeqInv, FreshInv, FutureIsEmpty
  <2>3. s = invoices[i].sub
    BY <1>1, <1>3, <1>8, <2>2
  <2>4. i \in OpenInvoices(s) /\ j \in OpenInvoices(s)
    BY <1>1, <1>3, <1>8, <2>1, <2>3 DEF OpenInvoices
  <2>5. QED  BY <2>1, <2>4 DEF SeqInv, OneOpenRenewal
<1>9. OneOpenRenewal' /\ DueAfterTerm'
  BY <1>7, <1>8, OpenShrinks DEF SeqInv
<1>10. QED  BY <1>4, <1>6, <1>9 DEF FreshInv

LEMMA DunningListKeeps ==
  ASSUME ~Overlap, SeqInv, DunningList
  PROVE  FreshInv' /\ OneOpenRenewal' /\ DueAfterTerm'
<1>1. NoPayer /\ dunning.todo = {} /\ renewing = {} /\ cancelling = None
  BY BeginsAlone DEF DunningList
<1>2. UNCHANGED <<payers, renewing, cancelling, subs, lastSub, invoices, lastInvoice>>
  BY DEF DunningList, tables
<1>3. DunningIsFresh'
  <2>1. dunning'.todo = {[inv |-> i, status |-> invoices[i].status,
                          due |-> invoices[i].due, sub |-> invoices[i].sub] :
                            i \in {j \in Invoice : Payable(invoices[j].status)}}
    BY DEF DunningList, Dunned
  <2>2. QED  BY <1>2, <2>1 DEF DunningIsFresh
<1>4. QED
  BY <1>1, <1>2, <1>3 DEF SeqInv, FreshInv, OneAtATime, NoPayer, PayerIsFresh, RenewingIsFresh,
     CancelIsFresh, FutureIsEmpty, OneOpenRenewal, DueAfterTerm, OpenInvoices

LEMMA DunningOneKeeps ==
  ASSUME SeqInv, DunningOne
  PROVE  FreshInv' /\ OneOpenRenewal' /\ DueAfterTerm'
<1>1. PICK d \in dunning.todo : DunningOne!(d)
  BY DEF DunningOne
<1>2. /\ d.inv \in Invoice
      /\ dunning'.todo = dunning.todo \ {d}
      /\ Payable(invoices'[d.inv].status)
      /\ invoices'[d.inv].sub = invoices[d.inv].sub
      /\ invoices'[d.inv].due = invoices[d.inv].due
      /\ \A i \in Invoice \ {d.inv} : invoices'[i] = invoices[i]
      /\ \A s \in Subscription : subs'[s].due = subs[s].due
      /\ \A s \in Subscription : subs'[s] # subs[s] => s <= lastSub
      /\ UNCHANGED <<lastInvoice, lastSub, payers, renewing, cancelling, today>>
  BY <1>1, DunningEffect
<1>3. NoPayer /\ renewing = {} /\ cancelling = None
  BY DEF SeqInv, FreshInv, OneAtATime
<1>4. Payable(invoices[d.inv].status)
  BY DEF SeqInv, FreshInv, DunningIsFresh
<1>5. DunningIsFresh'
  <2> SUFFICES ASSUME NEW e \in dunning.todo \ {d} PROVE e.inv \in Invoice \ {d.inv}
    BY <1>2 DEF SeqInv, FreshInv, DunningIsFresh
  <2>1. e.inv \in Invoice
    BY DEF SeqInv, TypeOK, Dunning
  <2>2. e.inv = d.inv => e.status = d.status /\ e.due = d.due /\ e.sub = d.sub
    BY DEF SeqInv, FreshInv, DunningIsFresh
  <2>3. e.inv = d.inv => e = d
    BY <2>2 DEF SeqInv, TypeOK, Dunning
  <2>4. QED  BY <2>1, <2>3
<1>6. OneAtATime' /\ PayerIsFresh' /\ RenewingIsFresh' /\ CancelIsFresh'
  BY <1>2, <1>3 DEF OneAtATime, NoPayer, PayerIsFresh, RenewingIsFresh, CancelIsFresh
<1>7. FutureIsEmpty'
  BY <1>2, <1>4 DEF SeqInv, FreshInv, FutureIsEmpty, Payable
<1>8. \A i \in Invoice : Payable(invoices'[i].status) =>
        /\ Payable(invoices[i].status)
        /\ invoices'[i].sub = invoices[i].sub
        /\ invoices'[i].due = invoices[i].due
  BY <1>2, <1>4
<1>9. OneOpenRenewal' /\ DueAfterTerm'
  BY <1>2, <1>8, OpenShrinks DEF SeqInv
<1>10. QED  BY <1>5, <1>6, <1>7, <1>9 DEF FreshInv

LEMMA CancelReadKeeps ==
  ASSUME ~Overlap, SeqInv, NEW i \in Invoice, CancelRead(i)
  PROVE  FreshInv' /\ OneOpenRenewal' /\ DueAfterTerm'
<1>1. NoPayer /\ dunning.todo = {} /\ renewing = {} /\ Payable(invoices[i].status)
  BY BeginsAlone DEF CancelRead, Intervene
<1>2. /\ UNCHANGED <<payers, dunning, renewing, subs, lastSub, invoices, lastInvoice>>
      /\ cancelling' = i
  BY DEF CancelRead, tables
<1>3. QED
  BY <1>1, <1>2 DEF SeqInv, FreshInv, OneAtATime, NoPayer, PayerIsFresh, DunningIsFresh,
     RenewingIsFresh, CancelIsFresh, FutureIsEmpty, OneOpenRenewal, DueAfterTerm, OpenInvoices

LEMMA CancelEffect ==
  ASSUME SeqInv, CancelWrite
  PROVE  /\ cancelling \in Invoice
         /\ invoices'[cancelling].status = "cancelled"
         /\ invoices'[cancelling].sub = invoices[cancelling].sub
         /\ \A i \in Invoice \ {cancelling} : invoices'[i] = invoices[i]
<1>1. cancelling \in Invoice /\ invoices \in [Invoice -> InvoiceRow]
  BY Ranges DEF CancelWrite, SeqInv, TypeOK
<1>2. invoices' = [invoices EXCEPT ![cancelling].status = "cancelled"]
  BY DEF CancelWrite
<1>3. QED  BY <1>1, <1>2 DEF InvoiceRow

LEMMA CancelWriteKeeps ==
  ASSUME SeqInv, CancelWrite
  PROVE  FreshInv' /\ OneOpenRenewal' /\ DueAfterTerm'
<1>1. /\ cancelling \in Invoice /\ Payable(invoices[cancelling].status)
      /\ NoPayer /\ dunning.todo = {} /\ renewing = {}
  BY CancelEffect DEF CancelWrite, SeqInv, FreshInv, OneAtATime, CancelIsFresh
<1>2. /\ UNCHANGED <<payers, dunning, renewing, subs, lastSub, lastInvoice>>
      /\ cancelling' = None
  BY DEF CancelWrite
<1>3. FutureIsEmpty'
  BY <1>1, <1>2, CancelEffect DEF SeqInv, FreshInv, FutureIsEmpty, Payable
<1>4. FreshInv'
  BY <1>1, <1>2, <1>3 DEF FreshInv, OneAtATime, NoPayer, PayerIsFresh, DunningIsFresh,
                         RenewingIsFresh, CancelIsFresh
<1>5. OneOpenRenewal' /\ DueAfterTerm'
  <2>1. \A i \in Invoice : Payable(invoices'[i].status) => invoices'[i] = invoices[i]
    BY CancelEffect DEF Payable
  <2>2. QED  BY <1>2, <2>1, OpenShrinks DEF SeqInv
<1>6. QED  BY <1>4, <1>5

(* An administrator's change of a service changes neither invoices nor      *)
(* terms.                                                                   *)
LEMMA ServiceStepKeeps ==
  ASSUME ~Overlap, SeqInv, NEW s \in Subscription, NEW service, MayBegin,
         subs[s].service # "none", subs' = [subs EXCEPT ![s].service = service],
         UNCHANGED <<invoices, lastInvoice, lastSub, actors>>
  PROVE  FreshInv' /\ OneOpenRenewal' /\ DueAfterTerm'
<1>1. NoPayer /\ dunning.todo = {} /\ renewing = {} /\ cancelling = None
  BY BeginsAlone
<1>2. UNCHANGED <<payers, dunning, renewing, cancelling>>
  BY DEF actors
<1>3. /\ \A t \in Subscription : subs'[t].due = subs[t].due
      /\ \A t \in Subscription : t # s => subs'[t] = subs[t]
  BY ServiceKeepsTerm DEF SeqInv
<1>4. FutureIsEmpty'
  BY <1>3 DEF SeqInv, FreshInv, FutureIsEmpty
<1>5. FreshInv'
  BY <1>1, <1>2, <1>4 DEF FreshInv, OneAtATime, NoPayer, PayerIsFresh, DunningIsFresh,
                         RenewingIsFresh, CancelIsFresh
<1>6. OneOpenRenewal' /\ DueAfterTerm'
  BY <1>3, OpenShrinks DEF SeqInv
<1>7. QED  BY <1>5, <1>6

(* Steps that touch nothing the invariant speaks of.                        *)
LEMMA IdleStepKeeps ==
  ASSUME SeqInv, UNCHANGED <<invoices, lastInvoice, subs, lastSub, actors>>
  PROVE  FreshInv' /\ OneOpenRenewal' /\ DueAfterTerm'
BY DEF SeqInv, FreshInv, OneAtATime, NoPayer, PayerIsFresh, DunningIsFresh, RenewingIsFresh,
       CancelIsFresh, FutureIsEmpty, OneOpenRenewal, DueAfterTerm, OpenInvoices, actors

LEMMA SeqStep == ASSUME ~Overlap PROVE SeqInv /\ [Next]_vars => SeqInv'
<1> SUFFICES ASSUME SeqInv, [Next]_vars PROVE FreshInv' /\ OneOpenRenewal' /\ DueAfterTerm'
  BY StepType DEF SeqInv
<1>1. CASE NextDay \/ CancelOrder \/ UNCHANGED vars
  BY <1>1, IdleStepKeeps DEF NextDay, CancelOrder, vars, tables
<1>2. ASSUME NEW s \in Subscription,
             SuspendService(s) \/ UnsuspendService(s) \/ TerminateService(s)
      PROVE  FreshInv' /\ OneOpenRenewal' /\ DueAfterTerm'
  <2>1. MayBegin /\ subs[s].service # "none"
        /\ UNCHANGED <<invoices, lastInvoice, lastSub, actors>>
    BY <1>2 DEF SuspendService, UnsuspendService, TerminateService, Intervene
  <2>2. \E service : subs' = [subs EXCEPT ![s].service = service]
    BY <1>2 DEF SuspendService, UnsuspendService, TerminateService, Stop
  <2>3. QED  BY <2>1, <2>2, ServiceStepKeeps
<1>3. QED
  BY <1>1, <1>2, PlaceKeeps, RenewalsListKeeps, RenewalsOneKeeps, PayReadKeeps, PayLockKeeps,
     PayCommitKeeps, DunningListKeeps, DunningOneKeeps, CancelReadKeeps, CancelWriteKeeps
     DEF Next, Pay, Scheduled, Administer

LEMMA SeqAlways == ASSUME ~Overlap PROVE Spec => []SeqInv
<1>1. SeqInv /\ [Next]_vars => SeqInv'
  BY SeqStep
<1>2. QED  BY SeqInit, <1>1, PTL DEF Spec

(* Requests and commands one after the other: a customer never has two open *)
(* renewal invoices for one subscription (hasOpenRenewal).                  *)
THEOREM SequentialOneOpenRenewal == ASSUME ~Overlap PROVE Spec => []OneOpenRenewal
<1>1. SeqInv => OneOpenRenewal
  BY DEF SeqInv
<1>2. QED  BY SeqAlways, <1>1, PTL

(* And no renewal invoice falls due before the term it renews ends          *)
(* (createRenewal, renew).                                                  *)
THEOREM SequentialDueAfterTerm == ASSUME ~Overlap PROVE Spec => []DueAfterTerm
<1>1. SeqInv => DueAfterTerm
  BY DEF SeqInv
<1>2. QED  BY SeqAlways, <1>1, PTL

-----------------------------------------------------------------------------
(* What a step may do                                                       *)

LEMMA PaidStaysStep ==
  ASSUME SeqInv, [Next]_vars, NEW i \in Invoice, invoices[i].status = "paid"
  PROVE  invoices'[i].status = "paid"
<1>0. SUFFICES ASSUME invoices' # invoices PROVE invoices'[i].status = "paid"
  OBVIOUS
<1>a. TypeOK /\ lastInvoice \in Nat
  BY MaximaAssumption DEF SeqInv, TypeOK, InvoiceOrNone
<1>1. CASE Place
  <2>0. today + DueDays \in Nat /\ None \in SubscriptionOrNone
    BY <1>a, Ranges, DaysAssumption DEF TypeOK
  <2>1. /\ lastInvoice + 1 \in Invoice
        /\ \A j \in Invoice \ {lastInvoice + 1} : invoices'[j] = invoices[j]
    BY <1>a, <1>1, <2>0, IssueEffect DEF Place
  <2>2. i # lastInvoice + 1
    BY <1>a, <2>1 DEF SeqInv, FreshInv, FutureIsEmpty
  <2>3. QED  BY <2>1, <2>2
<1>2. CASE RenewalsOne
  <2>1. PICK r \in renewing : IssueInvoice(RenewalDue(r.due), r.sub)
    BY <1>0, <1>2 DEF RenewalsOne
  <2>2. RenewalDue(r.due) \in Nat /\ r.sub \in SubscriptionOrNone
    BY Ranges, DaysAssumption DEF SeqInv, TypeOK, RenewalDue
  <2>3. /\ lastInvoice + 1 \in Invoice
        /\ \A j \in Invoice \ {lastInvoice + 1} : invoices'[j] = invoices[j]
    BY <1>a, <2>1, <2>2, IssueEffect
  <2>4. i # lastInvoice + 1
    BY <1>a, <2>3 DEF SeqInv, FreshInv, FutureIsEmpty
  <2>5. QED  BY <2>3, <2>4
<1>3. ASSUME NEW p \in Payers, PayCommit(p) PROVE invoices'[i].status = "paid"
  <2>1. /\ invoices'[payers[p].inv].status = "paid"
        /\ \A j \in Invoice \ {payers[p].inv} : invoices'[j] = invoices[j]
    BY <1>3, PayEffect
  <2>2. QED  BY <2>1
<1>4. CASE DunningOne
  <2>1. PICK d \in dunning.todo : DunningOne!(d)
    BY <1>4 DEF DunningOne
  <2>2. i # d.inv
    BY DEF SeqInv, FreshInv, DunningIsFresh, Payable
  <2>3. QED  BY <2>1, <2>2, DunningEffect
<1>5. CASE CancelWrite
  <2>1. i # cancelling
    BY <1>5 DEF CancelWrite, SeqInv, FreshInv, CancelIsFresh, Payable
  <2>2. QED  BY <1>5, <2>1, CancelEffect
<1>6. QED
  BY <1>0, <1>1, <1>2, <1>3, <1>4, <1>5 DEF Next, Pay, Scheduled, Administer, NextDay, RenewalsList,
     PayRead, PayLock, ReadAll, DunningList, CancelRead, CancelOrder, SuspendService,
     UnsuspendService, TerminateService, vars, tables

(* A paid invoice stays paid (dunning, cancel), when requests and commands  *)
(* come one after the other.                                                *)
THEOREM SequentialPaidStays == ASSUME ~Overlap PROVE Spec => PaidStays
<1>1. SeqInv /\ [Next]_vars =>
        [\A i \in Invoice : invoices[i].status = "paid" => invoices'[i].status = "paid"]_vars
  BY PaidStaysStep
<1>2. QED  BY SeqAlways, <1>1, PTL DEF Spec, PaidStays

(* Only dunning suspends without an administrator, and the invoice it acts  *)
(* on is due after the term.                                                *)
LEMMA SuspendedWhenLapsedStep ==
  ASSUME SeqInv, [Next]_vars, NEW s \in Subscription,
         subs[s].service = "active", subs'[s].service = "suspended", admins' = admins
  PROVE  subs[s].due < today
<1>1. DunningOne
  <2>1. ASSUME NEW p \in Payers, PayCommit(p) PROVE FALSE
    <3>1. subs \in [Subscription -> SubscriptionRow] /\ lastSub \in Nat
      BY MaximaAssumption DEF SeqInv, TypeOK, SubscriptionOrNone
    <3>2. CASE PayOrder(p)
      BY <3>1, <3>2 DEF PayOrder
    <3>3. CASE PayRenewal(p)
      BY <3>1, <3>3 DEF PayRenewal
    <3>4. CASE PayNothing(p)
      BY <3>4 DEF PayNothing
    <3>5. QED  BY <2>1, <3>2, <3>3, <3>4 DEF PayCommit
  <2>2. subs' # subs
    OBVIOUS
  <2>3. ~Intervene
    BY DEF Intervene, SeqInv, TypeOK
  <2>4. QED
    BY <2>1, <2>2, <2>3 DEF Next, Pay, Scheduled, Administer, NextDay, Place, RenewalsList,
       RenewalsOne, PayRead, PayLock, ReadAll, DunningList, CancelRead, CancelWrite, CancelOrder,
       SuspendService, UnsuspendService, TerminateService, vars, tables
<1>2. PICK d \in dunning.todo : DunningOne!(d)
  BY <1>1 DEF DunningOne
<1>3. d.sub \in SubscriptionOrNone /\ d.inv \in Invoice
  BY DEF SeqInv, TypeOK, Dunning
<1>4. d.sub = s /\ Verdict(d) = "suspended" /\ Verdict(d) # dunning.service[d.sub]
  <2>1. d.sub # None /\ Verdict(d) # dunning.service[d.sub]
        /\ subs' = [subs EXCEPT ![d.sub].service = Verdict(d)]
    BY <1>2 DEF Stop
  <2>2. subs \in [Subscription -> SubscriptionRow]
    BY DEF SeqInv, TypeOK
  <2>3. QED  BY <1>3, <2>1, <2>2, Ranges DEF SubscriptionRow
<1>5. d.due < today
  BY <1>4, Ranges DEF Verdict, Overdue
<1>6. d.inv \in OpenInvoices(s) /\ d.due = invoices[d.inv].due
  BY <1>3, <1>4 DEF OpenInvoices, SeqInv, FreshInv, DunningIsFresh
<1>7. invoices[d.inv].due >= subs[s].due
  BY <1>6 DEF SeqInv, DueAfterTerm
<1>8. subs[s].due \in Nat /\ d.due \in Nat /\ today \in Nat
  BY DEF SeqInv, TypeOK, SubscriptionRow, Dunning
<1>9. QED  BY <1>5, <1>6, <1>7, <1>8

(* Dunning suspends only services whose paid term is over, when requests    *)
(* and commands come one after the other (billing:dunning).                 *)
THEOREM SequentialSuspendedWhenLapsed == ASSUME ~Overlap PROVE Spec => SuspendedWhenLapsed
<1>1. SeqInv /\ [Next]_vars =>
        [\A s \in Subscription :
           (subs[s].service = "active" /\ subs'[s].service = "suspended" /\ admins' = admins)
             => subs[s].due < today]_vars
  BY SuspendedWhenLapsedStep
<1>2. QED  BY SeqAlways, <1>1, PTL DEF Spec, SuspendedWhenLapsed

-----------------------------------------------------------------------------
(* The promise to the customer: every step of billing is one of the steps    *)
(* HostingService allows, or changes nothing the customer sees               *)

(* Inside a transaction the order and the subscription are as they were      *)
(* read, and dunning's service is the one of the tables.                     *)
LockedIsFresh ==
  \A p \in Payers :
    payers[p].pc = "locked" =>
      /\ payers[p].order = IF payers[p].inv = OrderInvoice THEN order ELSE "none"
      /\ payers[p].sub # None => payers[p].seen = subs[payers[p].sub]

ServiceIsFresh ==
  dunning.todo # {} => \A s \in Subscription : dunning.service[s] = subs[s].service

(* Only the order's invoice is for no subscription, and it is paid when the  *)
(* order is provisioned; what is provisioned exists.                         *)
OnlyOrderIsBare ==
  \A i \in Invoice : Payable(invoices[i].status) /\ invoices[i].sub = None
                       => i = OrderInvoice /\ lastSub = 0
OrderIsFirst == order = "none" => lastInvoice = 0
ProvisionedIsThere == \A s \in Subscription : s <= lastSub => subs[s].service # "none"

PromiseInv ==
  /\ SeqInv /\ OnceInv
  /\ LockedIsFresh /\ ServiceIsFresh /\ OnlyOrderIsBare /\ OrderIsFirst /\ ProvisionedIsThere

LEMMA PromiseInit == Init => PromiseInv
<1> SUFFICES ASSUME Init PROVE PromiseInv
  OBVIOUS
<1>1. LockedIsFresh /\ ServiceIsFresh /\ OnlyOrderIsBare /\ OrderIsFirst /\ ProvisionedIsThere
  BY DEF Init, LockedIsFresh, ServiceIsFresh, OnlyOrderIsBare, OrderIsFirst, ProvisionedIsThere,
     IdlePayer, IdleDunning, AbsentInvoice, Payable, Subscription
<1>2. QED  BY <1>1, SeqInit, OnceInit DEF PromiseInv

(* While a transaction or dunning is at work nobody else is.                *)
LEMMA OthersWait ==
  ASSUME ~Overlap, SeqInv, Next
  PROVE  /\ \A p \in Payers : payers[p].pc # "idle" => PayLock(p) \/ PayCommit(p)
         /\ dunning.todo # {} => DunningOne
<1>1. (NoPayer /\ dunning.todo = {}) \/ ~MayBegin
  BY BeginsAlone
<1>2. ASSUME ~MayBegin
      PROVE  \/ \E p \in Payers : PayLock(p) \/ PayCommit(p)
             \/ RenewalsOne \/ DunningOne \/ CancelWrite
  BY <1>2 DEF Next, NextDay, MayBegin, Place, Pay, PayRead, Scheduled, RenewalsList, DunningList, Administer,
              CancelRead, CancelOrder, SuspendService, UnsuspendService, TerminateService, Intervene
<1>3. ASSUME NEW p \in Payers, PayLock(p) \/ PayCommit(p)  PROVE payers[p].pc # "idle"
  BY <1>3 DEF PayLock, ReadAll, PayCommit
<1>4. DunningOne => dunning.todo # {}
  BY DEF DunningOne
<1>5. RenewalsOne => renewing # {}
  BY DEF RenewalsOne
<1>6. CancelWrite => cancelling # None
  BY DEF CancelWrite
<1>7. OneAtATime
  BY DEF SeqInv, FreshInv
<1>8. ASSUME NEW p \in Payers, payers[p].pc # "idle"  PROVE PayLock(p) \/ PayCommit(p)
  <2>1. ~NoPayer
    BY <1>8 DEF NoPayer
  <2>2. ~RenewalsOne /\ ~DunningOne /\ ~CancelWrite
    BY <1>4, <1>5, <1>6, <1>7, <2>1 DEF OneAtATime
  <2>3. PICK q \in Payers : PayLock(q) \/ PayCommit(q)
    BY <1>1, <1>2, <2>1, <2>2
  <2>4. q = p
    BY <1>3, <1>7, <1>8, <2>3 DEF OneAtATime
  <2>5. QED  BY <2>3, <2>4
<1>9. ASSUME dunning.todo # {}  PROVE DunningOne
  <2>1. NoPayer /\ renewing = {} /\ cancelling = None
    BY <1>7, <1>9 DEF OneAtATime
  <2>2. \A p \in Payers : ~PayLock(p) /\ ~PayCommit(p)
    BY <1>3, <2>1 DEF NoPayer
  <2>3. QED  BY <1>1, <1>2, <1>5, <1>6, <1>9, <2>1, <2>2
<1>10. QED  BY <1>8, <1>9

LEMMA LockedStaysFresh ==
  ASSUME ~Overlap, PromiseInv, Next
  PROVE  LockedIsFresh'
<1> SUFFICES ASSUME NEW p \in Payers, payers'[p].pc = "locked"
             PROVE  /\ payers'[p].order = IF payers'[p].inv = OrderInvoice THEN order' ELSE "none"
                    /\ payers'[p].sub # None => payers'[p].seen = subs'[payers'[p].sub]
  BY DEF LockedIsFresh
<1>0. payers \in [Payers -> Payer]
  BY DEF PromiseInv, SeqInv, TypeOK
<1>1. CASE payers[p].pc # "idle"
  <2>1. PayLock(p) \/ PayCommit(p)
    BY <1>1, OthersWait DEF PromiseInv
  <2>2. ~PayCommit(p)
    BY <1>0 DEF PayCommit, IdlePayer
  <2>3. QED  BY <1>0, <2>1, <2>2 DEF PayLock, ReadAll, tables, Payer
<1>2. CASE payers[p].pc = "idle"
  <2>1. ASSUME NEW q \in Payers, NEW i, PayRead(q, i)  PROVE FALSE
    BY <1>0, <1>2, <2>1 DEF PayRead, IdlePayer
  <2>2. ASSUME NEW q \in Payers, PayLock(q)  PROVE FALSE
    BY <1>0, <1>2, <2>2 DEF PayLock, ReadAll
  <2>3. ASSUME NEW q \in Payers, PayCommit(q)  PROVE FALSE
    BY <1>0, <1>2, <2>3 DEF PayCommit, IdlePayer
  <2>4. CASE UNCHANGED payers
    BY <1>2, <2>4
  <2>5. QED
    BY <2>1, <2>2, <2>3, <2>4 DEF Next, Pay, NextDay, Place, Scheduled, RenewalsList, RenewalsOne, DunningList,
       DunningOne, Administer, CancelRead, CancelWrite, CancelOrder, SuspendService, UnsuspendService,
       TerminateService, actors
<1>3. QED  BY <1>1, <1>2

LEMMA ServiceStaysFresh ==
  ASSUME ~Overlap, PromiseInv, Next
  PROVE  ServiceIsFresh'
<1>0. TypeOK /\ subs \in [Subscription -> SubscriptionRow] /\ dunning.service \in [Subscription -> Service]
  BY DEF PromiseInv, SeqInv, TypeOK, Dunning
<1>1. CASE dunning.todo # {}
  <2>1. PICK d \in dunning.todo : DunningOne!(d)
    BY <1>1, OthersWait DEF PromiseInv, DunningOne
  <2>2. d.sub \in SubscriptionOrNone
    BY <1>0 DEF TypeOK, Dunning
  <2>3. \A s \in Subscription : dunning.service[s] = subs[s].service
    BY <1>1 DEF PromiseInv, ServiceIsFresh
  <2>4. CASE d.sub # None /\ Verdict(d) # dunning.service[d.sub]
    <3>1. /\ subs' = [subs EXCEPT ![d.sub].service = Verdict(d)]
          /\ dunning' = [todo |-> dunning.todo \ {d}, service |-> [dunning.service EXCEPT ![d.sub] = Verdict(d)]]
      BY <2>1, <2>4 DEF Stop
    <3>2. dunning'.service = [dunning.service EXCEPT ![d.sub] = Verdict(d)]
      BY <3>1
    <3>3. ASSUME NEW s \in Subscription  PROVE dunning'.service[s] = subs'[s].service
      BY <1>0, <2>3, <3>1, <3>2 DEF SubscriptionRow
    <3>4. QED  BY <3>3 DEF ServiceIsFresh
  <2>5. CASE ~(d.sub # None /\ Verdict(d) # dunning.service[d.sub])
    <3>1. subs' = subs /\ dunning' = [todo |-> dunning.todo \ {d}, service |-> dunning.service]
      BY <2>1, <2>5
    <3>2. QED  BY <2>3, <3>1 DEF ServiceIsFresh
  <2>6. QED  BY <2>4, <2>5
<1>2. CASE dunning.todo = {}
  <2>1. CASE DunningList
    BY <2>1 DEF DunningList, tables, ServiceIsFresh
  <2>2. CASE UNCHANGED dunning
    BY <1>2, <2>2 DEF ServiceIsFresh
  <2>3. ~DunningOne
    BY <1>2 DEF DunningOne
  <2>4. QED
    BY <2>1, <2>2, <2>3 DEF Next, Pay, PayRead, PayLock, ReadAll, PayCommit, NextDay, Place, Scheduled,
       RenewalsList, RenewalsOne, Administer, CancelRead, CancelWrite, CancelOrder, SuspendService,
       UnsuspendService, TerminateService, actors
<1>3. QED  BY <1>1, <1>2


(* Which invoice becomes payable: the order's first one, or one for a        *)
(* subscription that exists.                                                 *)
LEMMA IssuedBy ==
  ASSUME ~Overlap, PromiseInv, Next, NEW i \in Invoice, Payable(invoices'[i].status),
         ~(Payable(invoices[i].status) /\ invoices'[i].sub = invoices[i].sub)
  PROVE  /\ (i = OrderInvoice /\ order = "none") \/ invoices'[i].sub # None
         /\ lastSub' = lastSub
<1>0. SeqInv /\ TypeOK /\ lastInvoice \in Nat
  BY MaximaAssumption DEF PromiseInv, SeqInv, TypeOK, InvoiceOrNone
<1>1. CASE Place
  <2>1. today + DueDays \in Nat /\ None \in SubscriptionOrNone
    BY <1>0, Ranges, DaysAssumption DEF TypeOK
  <2>2. lastInvoice = 0 /\ order = "none" /\ lastSub' = lastSub
    BY <1>1 DEF Place, PromiseInv, OrderIsFirst
  <2>3. \A j \in Invoice \ {lastInvoice + 1} : invoices'[j] = invoices[j]
    BY <1>0, <1>1, <2>1, IssueEffect DEF Place
  <2>4. i = lastInvoice + 1
    BY <2>3
  <2>5. QED  BY <2>2, <2>4 DEF OrderInvoice
<1>2. CASE RenewalsOne
  <2>1. PICK r \in renewing : RenewalsOne!(r)
    BY <1>2 DEF RenewalsOne
  <2>2. IssueInvoice(RenewalDue(r.due), r.sub) /\ lastSub' = lastSub
    BY <2>1
  <2>3. RenewalDue(r.due) \in Nat /\ r.sub \in SubscriptionOrNone /\ r.sub # None
    BY <1>0, Ranges, DaysAssumption DEF TypeOK, RenewalDue
  <2>4. /\ invoices'[lastInvoice + 1] = [status |-> "unpaid", due |-> RenewalDue(r.due), sub |-> r.sub]
        /\ \A j \in Invoice \ {lastInvoice + 1} : invoices'[j] = invoices[j]
    BY <1>0, <2>2, <2>3, IssueEffect
  <2>5. QED  BY <2>2, <2>3, <2>4
<1>3. ASSUME NEW p \in Payers, PayCommit(p)  PROVE FALSE
  <2>1. /\ invoices'[payers[p].inv].status = "paid"
        /\ \A j \in Invoice \ {payers[p].inv} : invoices'[j] = invoices[j]
    BY <1>0, <1>3, PayEffect
  <2>2. QED  BY <2>1 DEF Payable
<1>4. CASE DunningOne
  <2>1. PICK d \in dunning.todo : DunningOne!(d)
    BY <1>4 DEF DunningOne
  <2>2. Payable(invoices[d.inv].status)
    BY <1>0 DEF SeqInv, FreshInv, DunningIsFresh
  <2>3. QED  BY <1>0, <2>1, <2>2, DunningEffect
<1>5. CASE CancelWrite
  <2>1. /\ invoices'[cancelling].status = "cancelled"
        /\ \A j \in Invoice \ {cancelling} : invoices'[j] = invoices[j]
    BY <1>0, <1>5, CancelEffect
  <2>2. QED  BY <2>1 DEF Payable
<1>6. CASE UNCHANGED invoices
  BY <1>6
<1>7. QED
  BY <1>1, <1>2, <1>3, <1>4, <1>5, <1>6 DEF Next, Pay, NextDay, PayRead, PayLock, ReadAll, Scheduled,
     RenewalsList, DunningList, Administer, CancelRead, CancelOrder, SuspendService, UnsuspendService,
     TerminateService, tables

(* How the order and the subscriptions move.                                *)
LEMMA OrderMoves ==
  ASSUME TypeOK, Next
  PROVE  /\ order' = "none" => (order = "none" /\ lastInvoice' = lastInvoice) \/ RenewalsOne
         /\ lastSub' # lastSub => \E p \in Payers :
              /\ PayCommit(p) /\ payers[p].order = "pending" /\ payers[p].pc = "locked"
              /\ lastSub' = lastSub + 1
              /\ subs' = [subs EXCEPT ![lastSub + 1] = [service |-> "active", due |-> today + Cycle]]
<1>1. ASSUME NEW p \in Payers, PayCommit(p)
      PROVE  /\ lastInvoice' = lastInvoice /\ order' \in {order, "active"}
             /\ lastSub' # lastSub =>
                  /\ payers[p].order = "pending" /\ payers[p].pc = "locked" /\ lastSub' = lastSub + 1
                  /\ subs' = [subs EXCEPT ![lastSub + 1] = [service |-> "active", due |-> today + Cycle]]
  BY <1>1 DEF PayCommit, PayOrder, PayRenewal, PayNothing
<1>2. CASE \E p \in Payers : PayCommit(p)
  BY <1>1, <1>2
<1>3. CASE ~\E p \in Payers : PayCommit(p)
  BY <1>3 DEF Next, Pay, NextDay, Place, PayRead, PayLock, ReadAll, Scheduled, RenewalsList, RenewalsOne,
     DunningList, DunningOne, Administer, CancelRead, CancelWrite, CancelOrder, SuspendService,
     UnsuspendService, TerminateService, tables
<1>4. QED  BY <1>2, <1>3

LEMMA ThereStays ==
  ASSUME PromiseInv, Next, NEW s \in Subscription, s <= lastSub
  PROVE  subs'[s].service # "none"
<1>0. TypeOK /\ subs \in [Subscription -> SubscriptionRow] /\ subs[s].service # "none" /\ lastSub \in Nat
  BY MaximaAssumption DEF PromiseInv, SeqInv, TypeOK, ProvisionedIsThere, SubscriptionOrNone
<1>1. ASSUME NEW t, NEW service, service # "none", subs' = [subs EXCEPT ![t].service = service]
      PROVE  subs'[s].service # "none"
  BY <1>0, <1>1 DEF SubscriptionRow
<1>2. CASE Administer
  BY <1>0, <1>1, <1>2 DEF Administer, CancelRead, CancelWrite, CancelOrder, SuspendService,
     UnsuspendService, TerminateService, Stop, tables
<1>3. CASE DunningOne
  <2>1. PICK d \in dunning.todo : DunningOne!(d)
    BY <1>3 DEF DunningOne
  <2>2. CASE d.sub # None /\ Verdict(d) # dunning.service[d.sub]
    <3>1. Verdict(d) # "none"
      BY <2>2 DEF Verdict
    <3>2. subs' = [subs EXCEPT ![d.sub].service = Verdict(d)]
      BY <2>1, <2>2 DEF Stop
    <3>3. QED  BY <1>1, <3>1, <3>2
  <2>3. CASE ~(d.sub # None /\ Verdict(d) # dunning.service[d.sub])
    BY <1>0, <2>1, <2>3
  <2>4. QED  BY <2>2, <2>3
<1>4. ASSUME NEW p \in Payers, PayCommit(p)  PROVE subs'[s].service # "none"
  <2>1. CASE PayOrder(p)
    BY <1>0, <2>1 DEF PayOrder
  <2>2. CASE PayRenewal(p)
    BY <1>0, <2>2 DEF PayRenewal, SubscriptionRow
  <2>3. CASE PayNothing(p)
    BY <1>0, <2>3 DEF PayNothing
  <2>4. QED  BY <1>4, <2>1, <2>2, <2>3 DEF PayCommit
<1>5. CASE UNCHANGED subs
  BY <1>0, <1>5
<1>6. QED
  BY <1>2, <1>3, <1>4, <1>5 DEF Next, Pay, NextDay, Place, PayRead, PayLock, ReadAll, Scheduled, RenewalsList,
     RenewalsOne, DunningList, tables

LEMMA PromiseInvStep ==
  ASSUME ~Overlap
  PROVE  PromiseInv /\ [Next]_vars => PromiseInv'
<1> SUFFICES ASSUME PromiseInv, [Next]_vars  PROVE PromiseInv'
  OBVIOUS
<1>0. SeqInv' /\ OnceInv' /\ TypeOK /\ lastSub \in Nat
  BY SeqStep, OnceStep, MaximaAssumption DEF PromiseInv, SeqInv, TypeOK, SubscriptionOrNone
<1>1. CASE UNCHANGED vars
  BY <1>0, <1>1 DEF PromiseInv, vars, tables, actors, LockedIsFresh, ServiceIsFresh, OnlyOrderIsBare,
     OrderIsFirst, ProvisionedIsThere
<1>2. CASE Next
  <2>1. LockedIsFresh' /\ ServiceIsFresh'
    BY <1>2, LockedStaysFresh, ServiceStaysFresh
  <2>2. OrderIsFirst'
    <3>1. ~RenewalsOne \/ order # "none"
      <4> SUFFICES ASSUME RenewalsOne, order = "none" PROVE FALSE
        OBVIOUS
      <4>1. PICK r \in renewing : r.sub \in Subscription
        BY <1>0 DEF RenewalsOne, TypeOK
      <4>2. r.sub <= lastSub
        BY DEF PromiseInv, SeqInv, FreshInv, RenewingIsFresh
      <4>3. lastSub = 0
        BY DEF PromiseInv, OnceInv, PendingIsUnprovisioned
      <4>4. QED  BY <4>1, <4>2, <4>3 DEF Subscription
    <3>2. order' = "none" => (order = "none" /\ lastInvoice' = lastInvoice) \/ RenewalsOne
      BY <1>0, <1>2, OrderMoves
    <3>3. RenewalsOne => order' = order
      BY DEF RenewalsOne
    <3>4. QED  BY <3>1, <3>2, <3>3 DEF PromiseInv, OrderIsFirst
  <2>3. ProvisionedIsThere'
    <3> SUFFICES ASSUME NEW s \in Subscription, s <= lastSub'  PROVE subs'[s].service # "none"
      BY DEF ProvisionedIsThere
    <3>1. CASE s <= lastSub
      BY <1>2, <3>1, ThereStays
    <3>2. CASE ~(s <= lastSub)
      <4>1. /\ lastSub' = lastSub + 1
            /\ subs' = [subs EXCEPT ![lastSub + 1] = [service |-> "active", due |-> today + Cycle]]
        BY <1>0, <1>2, <3>2, OrderMoves
      <4>2. s = lastSub + 1
        BY <1>0, <3>2, <4>1 DEF Subscription
      <4>3. QED  BY <1>0, <4>1, <4>2 DEF TypeOK
    <3>3. QED  BY <3>1, <3>2
  <2>4. OnlyOrderIsBare'
    <3> SUFFICES ASSUME NEW i \in Invoice, Payable(invoices'[i].status), invoices'[i].sub = None
                 PROVE  i = OrderInvoice /\ lastSub' = 0
      BY DEF OnlyOrderIsBare
    <3>1. CASE Payable(invoices[i].status) /\ invoices[i].sub = None
      <4>1. i = OrderInvoice /\ lastSub = 0
        BY <3>1 DEF PromiseInv, OnlyOrderIsBare
      <4>2. ASSUME NEW p \in Payers, PayCommit(p), payers[p].order = "pending", payers[p].pc = "locked"
            PROVE  FALSE
        <5>1. payers[p].inv = OrderInvoice
          BY <4>2 DEF PromiseInv, OnceInv, PendingIsLocked
        <5>2. invoices'[payers[p].inv].status = "paid"
          BY <4>2, PayEffect DEF PromiseInv
        <5>3. QED  BY <4>1, <5>1, <5>2 DEF Payable
      <4>3. lastSub' = lastSub
        BY <1>0, <1>2, <4>2, OrderMoves
      <4>4. QED  BY <4>1, <4>3
    <3>2. CASE ~(Payable(invoices[i].status) /\ invoices[i].sub = None)
      <4>1. i = OrderInvoice /\ order = "none" /\ lastSub' = lastSub
        BY <1>2, <3>2, IssuedBy
      <4>2. lastSub = 0
        BY <4>1 DEF PromiseInv, OnceInv, PendingIsUnprovisioned
      <4>3. QED  BY <4>1, <4>2
    <3>3. QED  BY <3>1, <3>2
  <2>5. QED  BY <1>0, <2>1, <2>2, <2>3, <2>4 DEF PromiseInv
<1>3. QED  BY <1>1, <1>2


-----------------------------------------------------------------------------
(* Each step maps to a step of the promise, or to none                       *)

LEMMA PaidAreFinite == IsFiniteSet(PaidInvoices) /\ Cardinality(PaidInvoices) \in Nat
<1>1. IsFiniteSet(Invoice)
  BY MaximaAssumption, FS_Interval DEF Invoice
<1>2. PaidInvoices \in SUBSET Invoice
  BY DEF PaidInvoices
<1>3. QED  BY <1>1, <1>2, FS_Subset, FS_CardinalityType

LEMMA NobodyElsePays ==
  ASSUME PromiseInv, Next, \A p \in Payers : ~PayCommit(p)
  PROVE  Cardinality(PaidInvoices)' = Cardinality(PaidInvoices)
<1>0. SeqInv /\ TypeOK
  BY DEF PromiseInv, SeqInv
<1>1. ASSUME NEW i \in Invoice, invoices'[i].status = "paid", invoices[i].status # "paid"  PROVE FALSE
  <2>1. CASE Place
    <3>1. today + DueDays \in Nat /\ None \in SubscriptionOrNone
      BY <1>0, Ranges, DaysAssumption DEF TypeOK
    <3>2. /\ invoices'[lastInvoice + 1] = [status |-> "unpaid", due |-> today + DueDays, sub |-> None]
          /\ \A j \in Invoice \ {lastInvoice + 1} : invoices'[j] = invoices[j]
      BY <1>0, <2>1, <3>1, IssueEffect DEF Place
    <3>3. QED  BY <1>1, <3>2
  <2>2. CASE RenewalsOne
    <3>1. PICK r \in renewing : RenewalsOne!(r)
      BY <2>2 DEF RenewalsOne
    <3>2. IssueInvoice(RenewalDue(r.due), r.sub)
      BY <1>1, <3>1
    <3>3. RenewalDue(r.due) \in Nat /\ r.sub \in SubscriptionOrNone
      BY <1>0, Ranges, DaysAssumption DEF TypeOK, RenewalDue
    <3>4. /\ invoices'[lastInvoice + 1] = [status |-> "unpaid", due |-> RenewalDue(r.due), sub |-> r.sub]
          /\ \A j \in Invoice \ {lastInvoice + 1} : invoices'[j] = invoices[j]
      BY <1>0, <3>2, <3>3, IssueEffect
    <3>5. QED  BY <1>1, <3>4
  <2>3. CASE DunningOne
    <3>1. PICK d \in dunning.todo : DunningOne!(d)
      BY <2>3 DEF DunningOne
    <3>2. QED  BY <1>0, <1>1, <3>1, DunningEffect DEF Payable
  <2>4. CASE CancelWrite
    BY <1>0, <1>1, <2>4, CancelEffect
  <2>5. CASE UNCHANGED invoices
    BY <1>1, <2>5
  <2>6. QED
    BY <2>1, <2>2, <2>3, <2>4, <2>5 DEF Next, Pay, NextDay, PayRead, PayLock, ReadAll, Scheduled,
       RenewalsList, DunningList, Administer, CancelRead, CancelOrder, SuspendService, UnsuspendService,
       TerminateService, tables
<1>2. \A i \in Invoice : invoices[i].status = "paid" => invoices'[i].status = "paid"
  BY <1>0, PaidStaysStep
<1>3. PaidInvoices' = PaidInvoices
  BY <1>1, <1>2 DEF PaidInvoices
<1>4. QED  BY <1>3

LEMMA PaysOne ==
  ASSUME SeqInv, NEW p \in Payers, PayCommit(p)
  PROVE  Cardinality(PaidInvoices)' = Cardinality(PaidInvoices) + 1
<1>1. /\ payers[p].inv \in Invoice /\ invoices'[payers[p].inv].status = "paid"
      /\ \A j \in Invoice \ {payers[p].inv} : invoices'[j] = invoices[j]
  BY PayEffect
<1>2. Payable(invoices[payers[p].inv].status)
  BY DEF PayCommit, SeqInv, FreshInv, PayerIsFresh
<1>3. PaidInvoices' = PaidInvoices \cup {payers[p].inv} /\ payers[p].inv \notin PaidInvoices
  BY <1>1, <1>2 DEF PaidInvoices, Payable
<1>4. PICK i : i = payers[p].inv
  OBVIOUS
<1>5. Cardinality(PaidInvoices \cup {i}) = Cardinality(PaidInvoices) + 1
  BY <1>3, <1>4, PaidAreFinite, FS_AddElement
<1>6. QED  BY <1>3, <1>4, <1>5

PromiseStep == [Promise!Next]_(Promise!vars)

(* A payment buys a cycle of the service, or is one for nothing while there  *)
(* is none.                                                                  *)
LEMMA PaymentMaps ==
  ASSUME PromiseInv, NEW p \in Payers, PayCommit(p)
  PROVE  PromiseStep
<1>0. /\ SeqInv /\ TypeOK /\ subs \in [Subscription -> SubscriptionRow] /\ 1 \in Subscription
      /\ subs[1] \in SubscriptionRow /\ lastSub \in 0 .. 1 /\ lastSub <= MaxSubscription /\ today \in Nat
  BY MaximaAssumption DEF PromiseInv, OnceInv, ProvisionedOnce, SeqInv, TypeOK, Subscription, SubscriptionOrNone
<1>1. /\ Cardinality(PaidInvoices)' = Cardinality(PaidInvoices) + 1
      /\ payers[p].pc = "locked" /\ UNCHANGED <<today, admins>>
  BY <1>0, PaysOne DEF PayCommit
<1>2. /\ payers[p].inv \in Invoice /\ Payable(invoices[payers[p].inv].status)
      /\ payers[p].sub = invoices[payers[p].inv].sub /\ payers[p].sub <= lastSub
      /\ payers[p].sub \in SubscriptionOrNone
  BY <1>0, <1>1 DEF SeqInv, FreshInv, PayerIsFresh, FutureIsEmpty, TypeOK, InvoiceRow
<1>3. lastSub = 0 => subs[1].service = "none"
  BY <1>0 DEF SeqInv, FreshInv, FutureIsEmpty
<1>4. CASE payers[p].order = "pending"
  <2>1. lastSub = 0 /\ PayOrder(p)
    BY <1>1, <1>4 DEF PayCommit, PromiseInv, OnceInv, PendingIsLocked
  <2>2. CASE subs' = [subs EXCEPT ![lastSub + 1] = [service |-> "active", due |-> today + Cycle]]
    <3>1. subs'[1].service = "active" /\ subs'[1].due = today + Cycle
      BY <1>0, <2>1, <2>2
    <3>2. Promise!Pay
      BY <1>1, <1>3, <2>1, <3>1 DEF Promise!Pay, TermEnd
    <3>3. QED  BY <3>2 DEF PromiseStep, Promise!Next
  <2>3. CASE UNCHANGED subs
    <3>1. Promise!PayInVain
      BY <1>1, <1>3, <2>1, <2>3 DEF Promise!PayInVain, TermEnd
    <3>2. QED  BY <3>1 DEF PromiseStep, Promise!Next
  <2>4. QED  BY <2>1, <2>2, <2>3 DEF PayOrder
<1>5. CASE payers[p].order # "pending" /\ payers[p].sub # None
  <2>1. payers[p].sub = 1 /\ lastSub = 1
    BY <1>0, <1>2, <1>5 DEF SubscriptionOrNone, None
  <2>2. payers[p].seen = subs[1]
    BY <1>1, <1>5, <2>1 DEF PromiseInv, LockedIsFresh
  <2>3. subs' = [subs EXCEPT ![1] =
           [service |-> IF subs[1].service # "active" THEN "active" ELSE subs[1].service,
            due |-> Extended(subs[1].due)]]
    BY <1>5, <2>1, <2>2 DEF PayCommit, PayRenewal
  <2>4. subs'[1].service = "active" /\ subs'[1].due = Extended(subs[1].due)
    BY <1>0, <2>3
  <2>5. subs[1].service # "none"
    BY <1>0, <2>1 DEF PromiseInv, ProvisionedIsThere
  <2>6. Promise!Pay
    BY <1>1, <2>4, <2>5 DEF Promise!Pay, TermEnd, Extended
  <2>7. QED  BY <2>6 DEF PromiseStep, Promise!Next
<1>6. CASE payers[p].order # "pending" /\ payers[p].sub = None
  <2>1. lastSub = 0
    BY <1>2, <1>6 DEF PromiseInv, OnlyOrderIsBare
  <2>2. UNCHANGED subs
    BY <1>6 DEF PayCommit, PayNothing
  <2>3. Promise!PayInVain
    BY <1>1, <1>3, <2>1, <2>2 DEF Promise!PayInVain, TermEnd
  <2>4. QED  BY <2>3 DEF PromiseStep, Promise!Next
<1>7. QED  BY <1>4, <1>5, <1>6

(* Dunning suspends or ends only a service whose paid term is over.          *)
LEMMA DunningMaps ==
  ASSUME PromiseInv, DunningOne
  PROVE  PromiseStep
<1>0. /\ SeqInv /\ TypeOK /\ subs \in [Subscription -> SubscriptionRow] /\ 1 \in Subscription
      /\ subs[1] \in SubscriptionRow /\ lastSub \in 0 .. 1 /\ today \in Nat
  BY MaximaAssumption DEF PromiseInv, OnceInv, ProvisionedOnce, SeqInv, TypeOK, Subscription, SubscriptionOrNone
<1>1. PICK d \in dunning.todo : DunningOne!(d)
  BY DEF DunningOne
<1>2. Cardinality(PaidInvoices)' = Cardinality(PaidInvoices)
  <2>1. Next
    BY DEF Next, Scheduled
  <2>2. dunning.todo # {}
    OBVIOUS
  <2>3. \A p \in Payers : ~PayCommit(p)
    BY <1>0, <2>2 DEF SeqInv, FreshInv, OneAtATime, NoPayer, PayCommit
  <2>4. QED  BY <2>1, <2>3, NobodyElsePays
<1>3. UNCHANGED <<today, admins>> /\ subs'[1].due = subs[1].due
  BY <1>0, <1>1, DunningEffect
<1>4. CASE d.sub # None /\ Verdict(d) # dunning.service[d.sub]
  <2>1. /\ d.sub \in SubscriptionOrNone /\ d.sub <= lastSub /\ d.inv \in Invoice
        /\ d.due = invoices[d.inv].due /\ d.sub = invoices[d.inv].sub /\ Payable(invoices[d.inv].status)
        /\ d.due \in Nat
    BY <1>0 DEF SeqInv, FreshInv, DunningIsFresh, FutureIsEmpty, TypeOK, Dunning
  <2>2. d.sub = 1
    BY <1>0, <1>4, <2>1 DEF SubscriptionOrNone, None
  <2>3. dunning.service[1] = subs[1].service
    BY <1>0 DEF PromiseInv, ServiceIsFresh
  <2>4. d.inv \in OpenInvoices(1)
    BY <2>1, <2>2 DEF OpenInvoices
  <2>5. d.due >= subs[1].due /\ subs[1].due \in Nat
    BY <1>0, <2>1, <2>4 DEF SeqInv, DueAfterTerm, SubscriptionRow
  <2>6. subs'[1].service = Verdict(d)
    <3>1. subs' = [subs EXCEPT ![1].service = Verdict(d)]
      BY <1>1, <1>4, <2>2 DEF Stop
    <3>2. QED  BY <1>0, <3>1 DEF SubscriptionRow
  <2>7. CASE AutoTerminate /\ Overdue(d, TerminateAfter) /\ subs[1].service = "suspended"
    <3>1. Verdict(d) = "terminated"
      BY <1>4, <2>2, <2>3, <2>7 DEF Verdict
    <3>2. today > TermEnd /\ today - TermEnd >= TerminateAfter
      BY <1>0, <2>1, <2>5, <2>7, DaysAssumption DEF Overdue, TermEnd
    <3>3. Promise!Terminate
      BY <1>2, <1>3, <2>6, <2>7, <3>1, <3>2 DEF Promise!Terminate, Promise!LapsedFor, TermEnd
    <3>4. QED  BY <3>3 DEF PromiseStep, Promise!Next
  <2>8. CASE ~(AutoTerminate /\ Overdue(d, TerminateAfter) /\ subs[1].service = "suspended")
    <3>1. Overdue(d, SuspendAfter) /\ subs[1].service = "active" /\ Verdict(d) = "suspended"
      BY <1>4, <2>2, <2>3, <2>8 DEF Verdict
    <3>2. today > TermEnd /\ today - TermEnd >= SuspendAfter
      BY <1>0, <2>1, <2>5, <3>1, DaysAssumption DEF Overdue, TermEnd
    <3>3. Promise!Suspend
      BY <1>2, <1>3, <2>6, <3>1, <3>2 DEF Promise!Suspend, Promise!LapsedFor, TermEnd
    <3>4. QED  BY <3>3 DEF PromiseStep, Promise!Next
  <2>9. QED  BY <2>7, <2>8
<1>5. CASE ~(d.sub # None /\ Verdict(d) # dunning.service[d.sub])
  <2>1. UNCHANGED subs
    BY <1>1, <1>5
  <2>2. UNCHANGED Promise!vars
    BY <1>2, <1>3, <2>1 DEF Promise!vars, TermEnd
  <2>3. QED  BY <2>2 DEF PromiseStep
<1>6. QED  BY <1>4, <1>5

(* What an administrator does to the service counts as an intervention.      *)
LEMMA InterventionMaps ==
  ASSUME PromiseInv, Intervene, UNCHANGED <<today, invoices>>,
         UNCHANGED subs \/ \E s \in Subscription, service \in {"active", "suspended", "terminated"} :
           subs[s].service # "none" /\ subs' = [subs EXCEPT ![s].service = service]
  PROVE  PromiseStep
<1>0. /\ SeqInv /\ TypeOK /\ subs \in [Subscription -> SubscriptionRow] /\ 1 \in Subscription
      /\ subs[1] \in SubscriptionRow /\ lastSub \in 0 .. 1
  BY MaximaAssumption DEF PromiseInv, OnceInv, ProvisionedOnce, SeqInv, TypeOK, Subscription, SubscriptionOrNone
<1>1. Cardinality(PaidInvoices)' = Cardinality(PaidInvoices) /\ admins' = admins + 1
  BY DEF PaidInvoices, Intervene
<1>2. /\ subs'[1].due = subs[1].due
      /\ subs'[1].service \in IF subs[1].service = "none" THEN {"none"} ELSE {"active", "suspended", "terminated"}
  <2>1. CASE UNCHANGED subs
    BY <1>0, <2>1 DEF SubscriptionRow, Service
  <2>2. ASSUME NEW s \in Subscription, NEW service \in {"active", "suspended", "terminated"},
               subs[s].service # "none", subs' = [subs EXCEPT ![s].service = service]
        PROVE  /\ subs'[1].due = subs[1].due
               /\ subs'[1].service \in IF subs[1].service = "none" THEN {"none"}
                                                               ELSE {"active", "suspended", "terminated"}
    <3>1. s <= lastSub
      BY <1>0, <2>2 DEF SeqInv, FreshInv, FutureIsEmpty
    <3>2. s = 1
      BY <1>0, <3>1 DEF Subscription
    <3>3. QED  BY <1>0, <2>2, <3>2 DEF SubscriptionRow
  <2>3. QED  BY <2>1, <2>2
<1>3. Promise!Intervene
  BY <1>1, <1>2 DEF Promise!Intervene, TermEnd
<1>4. QED  BY <1>3 DEF PromiseStep, Promise!Next

LEMMA EveryStepKeepsPromise ==
  ASSUME ~Overlap, PromiseInv, [Next]_vars
  PROVE  PromiseStep
<1>1. CASE UNCHANGED vars
  <2>1. UNCHANGED Promise!vars
    BY <1>1 DEF vars, tables, Promise!vars, TermEnd, PaidInvoices
  <2>2. QED  BY <2>1 DEF PromiseStep
<1>2. CASE NextDay
  <2>1. Promise!Day
    BY <1>2 DEF NextDay, tables, Promise!Day, TermEnd, PaidInvoices
  <2>2. QED  BY <2>1 DEF PromiseStep, Promise!Next
<1>3. ASSUME NEW p \in Payers, PayCommit(p)  PROVE PromiseStep
  BY <1>3, PaymentMaps
<1>4. CASE DunningOne
  BY <1>4, DunningMaps
<1>5. CASE (\E i \in Invoice : CancelRead(i)) \/ CancelOrder
           \/ \E s \in Subscription : SuspendService(s) \/ UnsuspendService(s) \/ TerminateService(s)
  <2>1. /\ Intervene /\ UNCHANGED <<today, invoices>>
        /\ UNCHANGED subs \/ \E s \in Subscription, service \in {"active", "suspended", "terminated"} :
             subs[s].service # "none" /\ subs' = [subs EXCEPT ![s].service = service]
    BY <1>5 DEF CancelRead, CancelOrder, SuspendService, UnsuspendService, TerminateService, Stop, tables
  <2>2. QED  BY <2>1, InterventionMaps
<1>6. CASE /\ Next /\ UNCHANGED <<today, subs, admins>> /\ \A p \in Payers : ~PayCommit(p)
  <2>1. UNCHANGED Promise!vars
    BY <1>6, NobodyElsePays DEF Promise!vars, TermEnd
  <2>2. QED  BY <2>1 DEF PromiseStep
<1>7. CASE Next
  <2>1. CASE (\E p \in Payers : PayCommit(p)) \/ NextDay \/ DunningOne
             \/ (\E i \in Invoice : CancelRead(i)) \/ CancelOrder
             \/ \E s \in Subscription : SuspendService(s) \/ UnsuspendService(s) \/ TerminateService(s)
    BY <1>2, <1>3, <1>4, <1>5, <2>1
  <2>2. CASE ~((\E p \in Payers : PayCommit(p)) \/ NextDay \/ DunningOne
               \/ (\E i \in Invoice : CancelRead(i)) \/ CancelOrder
               \/ \E s \in Subscription : SuspendService(s) \/ UnsuspendService(s) \/ TerminateService(s))
    <3>1. UNCHANGED <<today, subs, admins>>
      BY <1>7, <2>2 DEF Next, Pay, Scheduled, Administer, Place, PayRead, PayLock, ReadAll, RenewalsList,
         RenewalsOne, DunningList, CancelWrite, tables
    <3>2. QED  BY <1>6, <1>7, <2>2, <3>1
  <2>3. QED  BY <2>1, <2>2
<1>8. QED  BY <1>1, <1>7

(* Requests and commands one after the other: each payment for a service     *)
(* gives its cycle, only a lapsed service is suspended or ended, and nothing *)
(* else moves the term, for any cycle, days of grace, number of invoices,    *)
(* interventions and failures (markPaid, renew, billing:dunning).            *)
THEOREM BillingKeepsPromise == ASSUME ~Overlap PROVE Spec => KeepsPromise
<1>1. Init => Promise!Init
  <2> SUFFICES ASSUME Init PROVE Promise!Init
    OBVIOUS
  <2>1. PaidInvoices = {}
    BY DEF Init, PaidInvoices, AbsentInvoice
  <2>2. 1 \in Subscription
    BY MaximaAssumption DEF Subscription
  <2>3. QED  BY <2>1, <2>2, FS_EmptySet DEF Init, Promise!Init, TermEnd, AbsentSubscription
<1>2. PromiseInv /\ [Next]_vars => [Promise!Next]_(Promise!vars)
  BY EveryStepKeepsPromise DEF PromiseStep
<1>3. PromiseInv /\ [Next]_vars => PromiseInv'
  BY PromiseInvStep
<1>4. QED  BY <1>1, <1>2, <1>3, PromiseInit, PTL DEF Spec, KeepsPromise, Promise!Spec
==============================================================================
