------------------------------- MODULE Invoices -------------------------------
(***************************************************************************)
(* Invoices, products and prices of app/services/stripe.py: rows that      *)
(* mirror what Stripe keeps, the handlers that change both sides, the      *)
(* ways a school pays, the webhooks, and the reports over the charges.     *)
(* As in Subscriptions every handler is one step, may die between Stripe   *)
(* and the database, and Stripe repeats an event until it is answered with *)
(* success or gives it up.                                                 *)
(***************************************************************************)
EXTENDS Integers, Sequences, FiniteSets, SequencesExt

CONSTANTS Invoice,     \* invoice ids Stripe may hand out
          Product,     \* product ids, each with its default price
          Period,      \* calendar periods of the timeseries, numbers
          PageSize,    \* charges on a page of Stripe's list, 100 in the code
          MaxOffers,   \* bound: intents and sessions per invoice
          MaxCharges,  \* bound: charges
          MaxMishaps   \* bound: requests that die, events given up

ASSUME InvoicesAssumption ==
    /\ Period \subseteq Nat
    /\ PageSize \in Nat \ {0}
    /\ {MaxOffers, MaxCharges, MaxMishaps} \subseteq Nat

VARIABLES stripeInvoices,   \* at Stripe: invoice -> its status
          offers,           \* at Stripe: invoice -> intents and sessions for it
          charges,          \* at Stripe: the charges, oldest first
          stripeProducts,   \* at Stripe: the products
          invoices,         \* the rows: invoice -> its status and deletion
          stripe_products,  \* the rows of products
          stripe_prices,    \* the rows of prices, by their product
          notices,          \* events issued and not answered with success
          mishaps,          \* requests that died and events given up
          torn              \* history: invoices and products these concern

atStripe == <<stripeInvoices, offers, charges, stripeProducts>>
inRows == <<invoices, stripe_products, stripe_prices>>
billVars == <<atStripe, inRows, notices, mishaps, torn>>

Statuses == {"draft", "open", "paid", "void"}
NoBill == [status |-> "no row", deleted |-> FALSE]

Notice == [type : {"invoice.paid"}, of : Invoice]
            \cup [type : {"product.created", "price.created"}, of : Product]

InvoicesTypeOK ==
    /\ stripeInvoices \in [Invoice -> Statuses \cup {"none"}]
    /\ offers \in [Invoice -> 0..MaxOffers]
    /\ \A k \in 1..Len(charges) : charges[k] \in [period : Period, paid : BOOLEAN]
    /\ stripe_products \subseteq stripeProducts /\ stripeProducts \subseteq Product
    /\ stripe_prices \subseteq stripe_products
    /\ \A i \in Invoice : invoices[i] # NoBill =>
         invoices[i] \in [status : Statuses \ {"draft"}, deleted : BOOLEAN]
    /\ notices \subseteq Notice
    /\ mishaps \in 0..MaxMishaps
    /\ torn \subseteq Invoice \cup Product

InvoicesInit ==
    /\ stripeInvoices = [i \in Invoice |-> "none"]
    /\ offers = [i \in Invoice |-> 0]
    /\ charges = <<>>
    /\ stripeProducts = {}
    /\ invoices = [i \in Invoice |-> NoBill]
    /\ stripe_products = {} /\ stripe_prices = {}
    /\ notices = {}
    /\ mishaps = 0
    /\ torn = {}
-----------------------------------------------------------------------------
(* What Stripe does. *)

Charged(p, paid) ==
    /\ Len(charges) < MaxCharges
    /\ charges # <<>> => Last(charges).period <= p
    /\ charges' = Append(charges, [period |-> p, paid |-> paid])

\* Stripe charges what is open: the invoice is paid and the event is issued.
StripePays(i, p) ==
    /\ stripeInvoices[i] = "open"
    /\ stripeInvoices' = [stripeInvoices EXCEPT ![i] = "paid"]
    /\ notices' = notices \cup {[type |-> "invoice.paid", of |-> i]}
    /\ Charged(p, TRUE)

\* The school pays on the page of Stripe that the invoice came with.
PayHosted(i, p) ==
    /\ StripePays(i, p)
    /\ UNCHANGED <<offers, stripeProducts, inRows, mishaps, torn>>

(***************************************************************************)
(* An intent or a session of the invoice is paid, or the card is declined. *)
(* Neither is linked to the invoice at Stripe, whose status stays; the     *)
(* events are unhandled, or ignored for want of a subscription.            *)
(***************************************************************************)
PayOffer(i, p, paid) ==
    /\ offers[i] > 0
    /\ Charged(p, paid)
    /\ offers' = IF paid THEN [offers EXCEPT ![i] = @ - 1] ELSE offers
    /\ UNCHANGED <<stripeInvoices, stripeProducts, inRows, notices, mishaps, torn>>

GiveUpNotice(n) ==
    /\ mishaps < MaxMishaps
    /\ mishaps' = mishaps + 1
    /\ notices' = notices \ {n}
    /\ torn' = torn \cup {n.of}
    /\ UNCHANGED <<atStripe, inRows>>
-----------------------------------------------------------------------------
(* The service. *)

\* Stripe has acted on x: the rows are committed, or the request dies before.
Writes(x, rows) ==
    \/ rows /\ UNCHANGED <<mishaps, torn>>
    \/ /\ mishaps < MaxMishaps
       /\ mishaps' = mishaps + 1
       /\ torn' = torn \cup {x}
       /\ UNCHANGED inRows

BillWith(i, bill) ==
    invoices' = [invoices EXCEPT ![i] = bill]
    /\ UNCHANGED <<stripe_products, stripe_prices>>

\* The rows crud_invoice finds: it passes over the deleted ones.
Billed(i) == invoices[i] # NoBill /\ ~ invoices[i].deleted

\* create_invoice: create, add the item, finalize, then the row.
CreateInvoice(i) ==
    /\ stripeInvoices[i] = "none"
    /\ \/ /\ stripeInvoices' = [stripeInvoices EXCEPT ![i] = "open"]
          /\ Writes(i, BillWith(i, [status |-> "open", deleted |-> FALSE]))
       \/ /\ stripeInvoices' = [stripeInvoices EXCEPT ![i] = "draft"]
          /\ Writes(i, FALSE)
    /\ UNCHANGED <<offers, charges, stripeProducts, notices>>

(***************************************************************************)
(* update_invoice_status: three transitions, or the status it has already. *)
(* Any other asks an attribute of the string `status` and ends in a 500.   *)
(***************************************************************************)
UpdateInvoiceStatus(i, status, p) ==
    /\ \/ /\ stripeInvoices[i] = "draft" /\ status = "open"
          /\ stripeInvoices' = [stripeInvoices EXCEPT ![i] = "open"]
          /\ UNCHANGED <<charges, notices>>
       \/ status = "paid" /\ StripePays(i, p)
       \/ /\ stripeInvoices[i] = "open" /\ status = "void"
          /\ stripeInvoices' = [stripeInvoices EXCEPT ![i] = "void"]
          /\ UNCHANGED <<charges, notices>>
       \/ stripeInvoices[i] = status /\ UNCHANGED <<stripeInvoices, charges, notices>>
    /\ \/ Billed(i) /\ Writes(i, BillWith(i, [invoices[i] EXCEPT !.status = status]))
       \/ ~ Billed(i) /\ UNCHANGED <<inRows, mishaps, torn>>
    /\ UNCHANGED <<offers, stripeProducts>>

(***************************************************************************)
(* delete_invoice voids at Stripe, which refuses unless the invoice is     *)
(* open, and marks the row; its status stays.                              *)
(***************************************************************************)
DeleteInvoice(i) ==
    /\ Billed(i)
    /\ stripeInvoices[i] = "open"
    /\ stripeInvoices' = [stripeInvoices EXCEPT ![i] = "void"]
    /\ Writes(i, BillWith(i, [invoices[i] EXCEPT !.deleted = TRUE]))
    /\ UNCHANGED <<offers, charges, stripeProducts, notices>>

\* create_invoice_payment_intent and create_invoice_checkout_session.
OfferPayment(i) ==
    /\ Billed(i)
    /\ invoices[i].status \in {"open", "draft"}
    /\ offers[i] < MaxOffers
    /\ offers' = [offers EXCEPT ![i] = @ + 1]
    /\ UNCHANGED <<stripeInvoices, charges, stripeProducts, inRows, notices, mishaps, torn>>

\* create_product with a price: two events, and no row until they arrive.
CreateProduct(q) ==
    /\ q \notin stripeProducts
    /\ stripeProducts' = stripeProducts \cup {q}
    /\ notices' = notices \cup [type : {"product.created", "price.created"}, of : {q}]
    /\ UNCHANGED <<stripeInvoices, offers, charges, inRows, mishaps, torn>>
-----------------------------------------------------------------------------
(* The webhooks. *)

\* Without a live row the event is answered all the same.
HandleInvoicePaid(i) ==
    /\ invoices' = [invoices EXCEPT ![i].status = IF Billed(i) THEN "paid" ELSE @]
    /\ UNCHANGED <<stripe_products, stripe_prices>>

HandleProductCreated(q) ==
    /\ stripe_products' = stripe_products \cup {q}
    /\ UNCHANGED <<invoices, stripe_prices>>

\* The foreign key refuses a price before its product: Stripe tries again.
HandlePriceCreated(q) ==
    /\ q \in stripe_products
    /\ stripe_prices' = stripe_prices \cup {q}
    /\ UNCHANGED <<invoices, stripe_products>>

\* Mutant of TakeNotice: the event is answered before it is handled.
TakeNoticeFirst(n) ==
    /\ notices' = notices \ {n}
    /\ \/ n.type = "invoice.paid" /\ HandleInvoicePaid(n.of)
       \/ n.type = "product.created" /\ HandleProductCreated(n.of)
       \/ n.type = "price.created" /\ n.of \in stripe_products /\ HandlePriceCreated(n.of)
       \/ n.type = "price.created" /\ n.of \notin stripe_products /\ UNCHANGED inRows
    /\ UNCHANGED <<atStripe, mishaps, torn>>

\* Stripe may not have seen the answer, and send the event again.
TakeNotice(n) ==
    /\ notices' \in {notices, notices \ {n}}
    /\ \/ n.type = "invoice.paid" /\ HandleInvoicePaid(n.of)
       \/ n.type = "product.created" /\ HandleProductCreated(n.of)
       \/ n.type = "price.created" /\ HandlePriceCreated(n.of)
    /\ UNCHANGED <<atStripe, mishaps, torn>>

InvoicesNext ==
    \/ \E i \in Invoice : CreateInvoice(i) \/ DeleteInvoice(i) \/ OfferPayment(i)
    \/ \E i \in Invoice, s \in Statuses, p \in Period : UpdateInvoiceStatus(i, s, p)
    \/ \E i \in Invoice, p \in Period : PayHosted(i, p)
    \/ \E i \in Invoice, p \in Period, paid \in BOOLEAN : PayOffer(i, p, paid)
    \/ \E q \in Product : CreateProduct(q)
    \/ \E n \in notices : TakeNotice(n) \/ GiveUpNotice(n)

InvoicesSpec == InvoicesInit /\ [][InvoicesNext]_billVars
-----------------------------------------------------------------------------
(* The reports over the charges. *)

\* Stripe numbers the charges as they come; these are the ones in the range.
Within(from, to) == {k \in DOMAIN charges : charges[k].period \in from..to}

Paid(k) == charges[k].paid

\* Those older than the charge `before`, and the page of them: the newest first.
Older(list, before) == {k \in list : k < before}

Page(list, before) ==
    {k \in Older(list, before) :
        Cardinality({j \in Older(list, before) : k < j}) < PageSize}

\* Mutant of SeenAfter: the last charge of a page begins the next one.
SeenAgain(page) == IF PageSize > 1 THEN Min(page) + 1 ELSE Min(page)

\* starting_after: the last charge on the page, which is its oldest.
SeenAfter(page) == Min(page)

\* get_total_revenue: page after page while there are more, each charge one unit.
get_total_revenue(from, to) ==
    LET list == Within(from, to)
        total[before \in 1 .. Len(charges) + 1] ==
            LET page == Page(list, before)
                has_more == Older(list, before) # page
            IN  Cardinality({k \in page : Paid(k)})
                  + IF has_more THEN total[SeenAfter(page)] ELSE 0
    IN  total[Len(charges) + 1]

\* get_transaction_timeseries: the revenue of each period that has some.
get_transaction_timeseries(from, to) ==
    LET list == Within(from, to)
        series[before \in 1 .. Len(charges) + 1] ==
            LET page == Page(list, before)
                has_more == Older(list, before) # page
                paidIn(p) == {k \in page : Paid(k) /\ charges[k].period = p}
            IN  [p \in Period |->
                   Cardinality(paidIn(p))
                     + IF has_more THEN series[SeenAfter(page)][p] ELSE 0]
    IN  series[Len(charges) + 1]
-----------------------------------------------------------------------------
(* Properties. *)

(***************************************************************************)
(* Once the events about it have been answered, a row is as Stripe's, and  *)
(* every product has its row and its price, unless a request died or an    *)
(* event was given up: only then is an invoice that Stripe holds for       *)
(* closed still offered for payment.                                       *)
(***************************************************************************)
BillingAgreesWhenQuiet ==
    /\ \A i \in Invoice \ (torn \cup {n.of : n \in notices}) :
         /\ stripeInvoices[i] # "none" => invoices[i] # NoBill
         /\ Billed(i) => invoices[i].status = stripeInvoices[i]
    /\ stripeProducts \ (torn \cup {n.of : n \in notices}) \subseteq stripe_prices

(***************************************************************************)
(* Both reports see every charge of the range once, however many pages it  *)
(* takes: the revenue of each period is that of a range of this period     *)
(* alone, and what was charged in it.                                      *)
(***************************************************************************)
RevenueIsCharged ==
    \A from, to \in Period :
      from <= to =>
        /\ get_total_revenue(from, to) =
             Cardinality({k \in 1..Len(charges) :
               charges[k].paid /\ charges[k].period \in from..to})
        /\ \A p \in Period \cap (from..to) :
             get_transaction_timeseries(from, to)[p] = get_total_revenue(p, p)
=============================================================================
