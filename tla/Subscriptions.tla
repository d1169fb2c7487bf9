---------------------------- MODULE Subscriptions ----------------------------
(***************************************************************************)
(* The subscriptions of app/services/stripe.py: the rows that mirror       *)
(* Stripe's customers and subscriptions, the handlers that change both     *)
(* sides, and the webhooks (app/endpoints/webhooks.py) by which Stripe     *)
(* reports what happened on its own.                                       *)
(*                                                                         *)
(* A call of the Stripe library is synchronous and blocks the event loop,  *)
(* so a handler and a webhook are each one step.  But Stripe and the       *)
(* database are two systems: a request may die after Stripe has acted and  *)
(* before the row is committed.  Stripe delivers an event until it is      *)
(* answered with success, in any order, perhaps more than once, and gives  *)
(* up after some days.  Stripe itself, external to the code, is modelled   *)
(* by the states a subscription goes through; an event carries the one it  *)
(* was issued in.                                                          *)
(***************************************************************************)
EXTENDS Integers, Sequences, SequencesExt, FiniteSets

CONSTANTS User,        \* users who pay
          Customer,    \* customer ids Stripe may hand out
          Sub,         \* subscription ids Stripe may hand out
          MaxChanges,  \* bound: states of one subscription
          MaxDeaths    \* bound: requests that die after Stripe acted

ASSUME SubscriptionsAssumption == MaxChanges \in Nat /\ MaxDeaths \in Nat

VARIABLES stripeCustomers,   \* at Stripe: customer -> its user, NoUser before
          stripeSubs,        \* at Stripe: sub -> its customer and its states
          stripe_customers,  \* the rows: user -> customer
          subscriptions,     \* the rows: sub -> user, customer, state
          events,            \* issued and not answered with success
          deaths,            \* requests that died so far
          delivered,         \* history: sub -> newest state an event delivered
          disordered,        \* history: subs with an event that came too late
          missed,            \* history: subs with an event that had no effect
          told               \* history: sub -> what auto-renewal was last set to

stripeVars == <<stripeCustomers, stripeSubs>>
rowVars == <<stripe_customers, subscriptions>>
orderVars == <<delivered, disordered, missed>>
vars == <<stripeVars, rowVars, events, deaths, orderVars, told>>

NoUser == "no user"
NoCustomer == "no customer"
NoRow == [user |-> NoUser]

ASSUME NamesAssumption == NoUser \notin User /\ NoCustomer \notin Customer

\* "past_due" stands for every status that is neither active nor final.
Status == {"active", "past_due", "canceled"}
State == [status : Status, cancel_at_period_end : BOOLEAN]

Event == [type : {"customer"}, customer : Customer]
           \cup [type : {"checkout"}, sub : Sub]
           \cup [type : {"created", "updated", "deleted"}, sub : Sub, at : Nat]

TypeOK ==
    /\ stripeCustomers \in [Customer -> User \cup {NoUser}]
    /\ \A s \in Sub : /\ ToSet(stripeSubs[s].states) \subseteq State
                      /\ stripeSubs[s].states # <<>> => stripeSubs[s].customer \in Customer
    /\ stripe_customers \in [User -> Customer \cup {NoCustomer}]
    /\ subscriptions \in [Sub -> [user : User, customer : Customer, state : State]
                                   \cup {NoRow}]
    /\ events \subseteq Event
    /\ deaths \in Nat
    /\ delivered \in [Sub -> Nat]
    /\ disordered \subseteq Sub
    /\ missed \subseteq Sub
    /\ told \in [Sub -> {"nothing", "enabled", "disabled"}]

Init ==
    /\ stripeCustomers = [c \in Customer |-> NoUser]
    /\ stripeSubs = [s \in Sub |-> [customer |-> NoCustomer, states |-> <<>>]]
    /\ stripe_customers = [u \in User |-> NoCustomer]
    /\ subscriptions = [s \in Sub |-> NoRow]
    /\ events = {}
    /\ deaths = 0
    /\ delivered = [s \in Sub |-> 0]
    /\ disordered = {}
    /\ missed = {}
    /\ told = [s \in Sub |-> "nothing"]
-----------------------------------------------------------------------------
(* Stripe. *)

Exists(s) == stripeSubs[s].states # <<>>

Now(s) == Last(stripeSubs[s].states)

\* The subscription is in a new state; the event tells of it.
Becomes(s, state, type) ==
    /\ Exists(s)
    /\ Now(s).status # "canceled"
    /\ Len(stripeSubs[s].states) < MaxChanges
    /\ stripeSubs' = [stripeSubs EXCEPT ![s].states = Append(@, state)]
    /\ events' = events \cup
                   {[type |-> type, sub |-> s, at |-> Len(stripeSubs[s].states) + 1]}

\* A new subscription: its first payment may be pending.
Opens(s, c, state, extra) ==
    /\ ~ Exists(s)
    /\ state.status # "canceled" /\ ~ state.cancel_at_period_end
    /\ stripeSubs' = [stripeSubs EXCEPT ![s] = [customer |-> c, states |-> <<state>>]]
    /\ events' = events \cup {[type |-> "created", sub |-> s, at |-> 1]} \cup extra

\* A payment fails or succeeds, or the user changes the renewal in the portal.
StripeUpdates(s, state) ==
    /\ Exists(s)
    /\ state # Now(s)
    /\ state.status # "canceled"
    /\ Becomes(s, state, "updated")
    /\ told' = IF state.cancel_at_period_end = Now(s).cancel_at_period_end
                 THEN told ELSE [told EXCEPT ![s] = "nothing"]
    /\ UNCHANGED <<stripeCustomers, rowVars, deaths, orderVars>>

\* The period ends of a subscription that was to be cancelled then.
PeriodEnds(s) ==
    /\ Exists(s)
    /\ Now(s).cancel_at_period_end
    /\ Becomes(s, [Now(s) EXCEPT !.status = "canceled"], "deleted")
    /\ UNCHANGED <<stripeCustomers, rowVars, deaths, orderVars, told>>

\* Mutant of PayCheckout: the session is created for no customer.
PayAnonymously(u, s) ==
    /\ Opens(s, stripe_customers[u], [status |-> "active", cancel_at_period_end |-> FALSE],
             {[type |-> "checkout", sub |-> s]})
    /\ UNCHANGED <<stripeCustomers, rowVars, deaths, orderVars, told>>

\* The user completes a session that create_checkout_session made.
PayCheckout(u, s) ==
    /\ stripe_customers[u] # NoCustomer
    /\ Opens(s, stripe_customers[u], [status |-> "active", cancel_at_period_end |-> FALSE],
             {[type |-> "checkout", sub |-> s]})
    /\ UNCHANGED <<stripeCustomers, rowVars, deaths, orderVars, told>>

\* Stripe gives up on an event, or delivers it where it has no effect.
GiveUp(e) ==
    /\ e \in events
    /\ events' = events \ {e}
    /\ missed' = IF \/ e.type \in {"updated", "deleted"}
                    \/ e.type = "created" /\ subscriptions[e.sub] = NoRow
                   THEN missed \cup {e.sub} ELSE missed
    /\ UNCHANGED <<stripeVars, rowVars, deaths, delivered, disordered, told>>
-----------------------------------------------------------------------------
(* The service. *)

\* The row is committed after Stripe has acted, or the request dies before.
Commits(rows) ==
    \/ rows /\ UNCHANGED deaths
    \/ UNCHANGED rowVars /\ deaths < MaxDeaths /\ deaths' = deaths + 1

(***************************************************************************)
(* _get_or_create_customer for a user without a row.  It is the first part *)
(* of create_subscription and create_checkout_session as well; with a row  *)
(* it changes nothing.                                                     *)
(***************************************************************************)
CreateCustomer(u, c) ==
    /\ stripe_customers[u] = NoCustomer
    /\ stripeCustomers[c] = NoUser
    /\ stripeCustomers' = [stripeCustomers EXCEPT ![c] = u]
    /\ events' = events \cup {[type |-> "customer", customer |-> c]}
    /\ Commits(/\ stripe_customers' = [stripe_customers EXCEPT ![u] = c]
               /\ UNCHANGED subscriptions)
    /\ UNCHANGED <<stripeSubs, orderVars, told>>

\* subscriptions with the row of s in a state.
WithState(s, state) ==
    /\ subscriptions' = [subscriptions EXCEPT ![s].state = state]
    /\ UNCHANGED stripe_customers

CreateSubscription(u, s, state) ==
    LET c == stripe_customers[u] IN
    /\ c # NoCustomer
    /\ Opens(s, c, state, {})
    /\ Commits(/\ subscriptions' = [subscriptions EXCEPT
                    ![s] = [user |-> u, customer |-> c, state |-> state]]
               /\ UNCHANGED stripe_customers)
    /\ UNCHANGED <<stripeCustomers, orderVars, told>>

CancelSubscription(s) ==
    /\ subscriptions[s] # NoRow
    /\ Becomes(s, [Now(s) EXCEPT !.status = "canceled"], "deleted")
    /\ Commits(WithState(s, [Now(s) EXCEPT !.status = "canceled"]))
    /\ UNCHANGED <<stripeCustomers, orderVars, told>>

\* update_subscription_auto_renewal: cancel_at_period_end = auto_renew.
UpdateAutoRenewal(s, auto_renew) ==
    LET state == [Now(s) EXCEPT !.cancel_at_period_end = auto_renew] IN
    /\ subscriptions[s] # NoRow
    /\ subscriptions[s].state.status = "active"
    /\ \/ state # Now(s) /\ Becomes(s, state, "updated")
       \/ state = Now(s) /\ state.status # "canceled" /\ UNCHANGED <<stripeSubs, events>>
    /\ Commits(WithState(s, state))
    /\ told' = IF deaths' > deaths THEN told
               ELSE [told EXCEPT ![s] = IF auto_renew THEN "enabled" ELSE "disabled"]
    /\ UNCHANGED <<stripeCustomers, orderVars>>
-----------------------------------------------------------------------------
(* The webhooks. *)

\* The event was handled; Stripe may not have seen the answer.
Answers(e) ==
    /\ e \in events
    /\ events' \in {events, events \ {e}}
    /\ UNCHANGED <<stripeVars, deaths, told>>

\* The event about s that carries its at-th state is delivered.
Delivers(s, at) ==
    /\ delivered' = [delivered EXCEPT ![s] = IF at > @ THEN at ELSE @]
    /\ disordered' = IF at < delivered[s] THEN disordered \cup {s} ELSE disordered

Misses(s) == missed' = missed \cup {s} /\ UNCHANGED rowVars

Finds == UNCHANGED missed

\* The user whose customer row has the id; there is at most one.
Payers(c) == {u \in User : stripe_customers[u] = c}

RowFor(s, u, state) ==
    [user |-> u, customer |-> stripeSubs[s].customer, state |-> state]

(***************************************************************************)
(* A row for the user of the metadata is made, or pointed at the customer; *)
(* the foreign key of the subscriptions refuses to let go of the old one,  *)
(* and the event is then delivered again.                                  *)
(***************************************************************************)
HandleCustomerCreated(e) ==
    LET u == stripeCustomers[e.customer]
        old == stripe_customers[u]
    IN  /\ Answers(e)
        /\ \/ old = e.customer
           \/ \A s \in Sub : subscriptions[s] # NoRow => subscriptions[s].customer # old
        /\ stripe_customers' = [stripe_customers EXCEPT ![u] = e.customer]
        /\ UNCHANGED <<subscriptions, orderVars>>

\* Where the row exists the insert fails and the event is delivered again.
HandleSubscriptionCreated(e) ==
    LET s == e.sub IN
    /\ Answers(e)
    /\ subscriptions[s] = NoRow
    /\ Delivers(s, e.at)
    /\ \/ \E u \in Payers(stripeSubs[s].customer) :
            /\ subscriptions' = [subscriptions EXCEPT
                                   ![s] = RowFor(s, u, stripeSubs[s].states[e.at])]
            /\ UNCHANGED stripe_customers
            /\ Finds
       \/ Payers(stripeSubs[s].customer) = {} /\ Misses(s)

\* The row takes the state of the event, however old; without a row, nothing.
HandleSubscriptionUpdated(e) ==
    LET s == e.sub IN
    /\ Answers(e)
    /\ Delivers(s, e.at)
    /\ \/ subscriptions[s] # NoRow /\ WithState(s, stripeSubs[s].states[e.at]) /\ Finds
       \/ subscriptions[s] = NoRow /\ Misses(s)

\* Mutant of HandleSubscriptionDeleted: the row keeps its status.
KeepDeleted(e) ==
    /\ Answers(e)
    /\ Delivers(e.sub, e.at)
    /\ UNCHANGED <<rowVars, missed>>

HandleSubscriptionDeleted(e) ==
    LET s == e.sub IN
    /\ Answers(e)
    /\ Delivers(s, e.at)
    /\ \/ /\ subscriptions[s] # NoRow
          /\ WithState(s, [subscriptions[s].state EXCEPT !.status = "canceled"])
          /\ Finds
       \/ subscriptions[s] = NoRow /\ Misses(s)

\* Mutant of HandleCheckoutCompleted: the state of the session is stored.
CheckoutSnapshot(e) ==
    LET s == e.sub IN
    /\ Answers(e)
    /\ \E u \in Payers(stripeSubs[s].customer) :
         subscriptions' = [subscriptions EXCEPT
                             ![s] = RowFor(s, u, stripeSubs[s].states[1])]
    /\ UNCHANGED <<stripe_customers, orderVars>>

\* The subscription is retrieved: the row is as new as Stripe's.
HandleCheckoutCompleted(e) ==
    LET s == e.sub IN
    /\ Answers(e)
    /\ \/ /\ subscriptions[s] # NoRow
          /\ Payers(stripeSubs[s].customer) # {}
          /\ WithState(s, Now(s))
       \/ /\ subscriptions[s] = NoRow
          /\ \E u \in Payers(stripeSubs[s].customer) :
               subscriptions' = [subscriptions EXCEPT ![s] = RowFor(s, u, Now(s))]
          /\ UNCHANGED stripe_customers
       \/ Payers(stripeSubs[s].customer) = {} /\ UNCHANGED rowVars
    /\ UNCHANGED orderVars

\* stripe_webhook.
Webhook(e) ==
    \/ e.type = "customer" /\ HandleCustomerCreated(e)
    \/ e.type = "created" /\ HandleSubscriptionCreated(e)
    \/ e.type = "updated" /\ HandleSubscriptionUpdated(e)
    \/ e.type = "deleted" /\ HandleSubscriptionDeleted(e)
    \/ e.type = "checkout" /\ HandleCheckoutCompleted(e)

Next ==
    \/ \E u \in User, c \in Customer : CreateCustomer(u, c)
    \/ \E u \in User, s \in Sub : PayCheckout(u, s)
    \/ \E u \in User, s \in Sub, state \in State : CreateSubscription(u, s, state)
    \/ \E s \in Sub : CancelSubscription(s) \/ PeriodEnds(s)
    \/ \E s \in Sub, b \in BOOLEAN : UpdateAutoRenewal(s, b)
    \/ \E s \in Sub, state \in State : StripeUpdates(s, state)
    \/ \E e \in events : Webhook(e) \/ GiveUp(e)

Spec == Init /\ [][Next]_vars
-----------------------------------------------------------------------------
(* Properties. *)

About(s) == {e \in events : e.type \in {"created", "updated", "deleted"} /\ e.sub = s}

(***************************************************************************)
(* Once every event about a subscription has been answered, its row is as  *)
(* Stripe's, unless an event came after a newer one, found no row or was   *)
(* given up: a request that dies between Stripe and the database, and a    *)
(* delivery that overtakes the answer of a handler, are made good by the   *)
(* events that follow.  All that a death leaves is a customer too many.    *)
(***************************************************************************)
RowsAgreeWhenQuiet ==
    /\ \A s \in Sub \ (disordered \cup missed) :
        Exists(s) /\ About(s) = {} =>
            subscriptions[s] # NoRow /\ subscriptions[s].state = Now(s)
    /\ \A u \in User : Cardinality({c \in Customer : stripeCustomers[c] = u}) <= 1 + deaths

(***************************************************************************)
(* A canceled subscription is shown as live again only until the event of  *)
(* its cancellation arrives, or because that event or a later one went     *)
(* wrong.                                                                  *)
(***************************************************************************)
CanceledStaysCanceled ==
    [][\A s \in Sub :
         /\ subscriptions[s] # NoRow /\ subscriptions[s].state.status = "canceled"
         /\ subscriptions'[s].state.status # "canceled"
         => \/ s \in disordered' \cup missed'
            \/ \E e \in events' : e.type = "deleted" /\ e.sub = s]_vars

(***************************************************************************)
(* "Subscription auto-renewal enabled successfully": a subscription whose  *)
(* owner was told so last does not end with its period.                    *)
(***************************************************************************)
EnabledMeansRenewed ==
    [][\A s \in Sub : told[s] = "enabled" => ~ PeriodEnds(s)]_vars
=============================================================================
