----------------------------- MODULE MCBilling -----------------------------
(***************************************************************************)
(* Billing for TLC: days are few and cycles short, in the proportions of    *)
(* the defaults; payers are model values and interchangeable.               *)
(***************************************************************************)
EXTENDS BillingProperties, TLC

PayerSymmetry == Permutations(Payers)
=============================================================================
