--------------------------- MODULE MCSubscriptions ---------------------------
(***************************************************************************)
(* Billing for TLC.  Subscriptions and invoices share no state, so a run   *)
(* explores the one or the other.                                          *)
(***************************************************************************)
EXTENDS Subscriptions, Invoices, TLC

VARIABLE focus   \* which of the two moves

BillingInit == Init /\ InvoicesInit /\ focus \in {"subscriptions", "invoices"}

BillingNext ==
    \/ focus = "subscriptions" /\ Next /\ UNCHANGED <<billVars, focus>>
    \/ focus = "invoices" /\ InvoicesNext /\ UNCHANGED <<vars, focus>>

BillingSpec == BillingInit /\ [][BillingNext]_<<vars, billVars, focus>>

BillingTypeOK == TypeOK /\ InvoicesTypeOK

BillingSymmetry == Permutations(Customer) \cup Permutations(Invoice)
=============================================================================
