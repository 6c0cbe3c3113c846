-------------------------- MODULE BillingProperties --------------------------
(***************************************************************************)
(* The properties of the panel's billing, stated over Billing.              *)
(***************************************************************************)
EXTENDS Billing

-----------------------------------------------------------------------------
(* Invariants                                                               *)

(* An order is provisioned at most once, however many callbacks and         *)
(* mark-paid requests meet at its invoice: the second transaction waits for *)
(* the invoice's row and then finds the order active (markPaid).            *)
ProvisionedOnce == lastSub <= 1

OpenInvoices(s) == {i \in Invoice : invoices[i].sub = s /\ Payable(invoices[i].status)}

(* A customer never owes two invoices for the renewal of one subscription   *)
(* (hasOpenRenewal).                                                        *)
OneOpenRenewal ==
  \A s \in Subscription : \A i, j \in OpenInvoices(s) : i = j

(* An open renewal invoice falls due no earlier than the term it renews     *)
(* ends (createRenewal), so that dunning by the invoice's date never takes  *)
(* away days that are paid for.                                             *)
DueAfterTerm ==
  \A s \in Subscription : \A i \in OpenInvoices(s) : invoices[i].due >= subs[s].due

(* A service shown as active is served: its site is not switched off (renew *)
(* is to open it again, "askidaysa tekrar ac").                             *)
ServedAsShown ==
  \A s \in Subscription : subs[s].service = "active" => site = "active"

-----------------------------------------------------------------------------
(* What a step may do                                                       *)

(* A paid invoice stays paid: neither dunning nor a cancellation reopens it *)
(* or takes it back.                                                        *)
PaidStays ==
  [][\A i \in Invoice : invoices[i].status = "paid" => invoices'[i].status = "paid"]_vars

(* The term of a subscription is extended only together with an invoice     *)
(* that becomes paid: one payment, one cycle (renew, "vadeyi bir dongu      *)
(* uzat").                                                                  *)
ExtendedByPayment ==
  [][\A s \in Subscription :
       subs'[s].due # subs[s].due
         => \E i \in Invoice : /\ invoices[i].status # "paid"
                               /\ invoices'[i].status = "paid"]_vars

(* Nobody but an administrator suspends a service whose paid term is not    *)
(* over (billing:dunning suspends "suresi gecen" services).                 *)
SuspendedWhenLapsed ==
  [][\A s \in Subscription :
       (subs[s].service = "active" /\ subs'[s].service = "suspended" /\ admins' = admins)
         => subs[s].due < today]_vars

-----------------------------------------------------------------------------
(* What the customer is promised                                            *)

TermEnd == subs[1].due
PaidInvoices == {i \in Invoice : invoices[i].status = "paid"}

Promise == INSTANCE HostingService WITH
  payments <- Cardinality(PaidInvoices),
  interventions <- admins,
  service <- subs[1].service,
  until <- TermEnd

(* While requests and commands come one after the other, each payment for   *)
(* a service gives its cycle, and only a lapsed one is suspended or ended,  *)
(* whatever fails and whatever administrators do in between (markPaid,      *)
(* renew, billing:dunning).                                                 *)
KeepsPromise == Promise!Spec

-----------------------------------------------------------------------------
(* Liveness                                                                 *)

(* A service does not run on unpaid: when its renewal is overdue by         *)
(* suspend_after_days, it is suspended or the invoice is paid or cancelled, *)
(* although dunning works on models it loaded before (billing:dunning).     *)
UnpaidServiceStops ==
  \A s \in Subscription : \A i \in Invoice :
    (/\ i \in OpenInvoices(s)
     /\ subs[s].service = "active"
     /\ today > invoices[i].due /\ today - invoices[i].due >= SuspendAfter)
      ~> (i \notin OpenInvoices(s) \/ subs[s].service # "active")
=============================================================================
