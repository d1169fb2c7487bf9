---------------------------- MODULE BillingProofs ----------------------------
(***************************************************************************)
(* Proofs about Subscriptions and Invoices, for every set of users,        *)
(* customers, subscriptions and invoices and every bound: the rows agree   *)
(* with Stripe's once its events are answered, except where an event went  *)
(* wrong or a request died, and the reports count every charge once.       *)
(***************************************************************************)
EXTENDS MCSubscriptions, InductionLemmas, FiniteSetTheorems, TLAPS

(* Subscriptions. *)

StripeSub == [customer : Customer \cup {NoCustomer}, states : Seq(State)]
SubRow == [user : User, customer : Customer, state : State]

SubsTyped ==
    /\ stripeCustomers \in [Customer -> User \cup {NoUser}]
    /\ stripeSubs \in [Sub -> StripeSub]
    /\ stripe_customers \in [User -> Customer \cup {NoCustomer}]
    /\ subscriptions \in [Sub -> SubRow \cup {NoRow}]
    /\ events \subseteq Event
    /\ deaths \in Nat /\ delivered \in [Sub -> Nat]
    /\ disordered \subseteq Sub /\ missed \subseteq Sub
    /\ told \in [Sub -> {"nothing", "enabled", "disabled"}]

\* Whom Stripe knows: the customers of subscriptions and of events.
CustomersKnown ==
    /\ \A s \in Sub : Exists(s) => stripeSubs[s].customer \in Customer
    /\ \A e \in events : /\ e.type = "customer" => stripeCustomers[e.customer] \in User
                         /\ e.type = "checkout" => Exists(e.sub)

\* A user without a row has a customer only for each request that died.
CustomersCounted ==
    \A u \in User :
        LET his == {c \in Customer : stripeCustomers[c] = u} IN
        /\ IsFiniteSet(his)
        /\ Cardinality(his) <= (IF stripe_customers[u] = NoCustomer THEN 0 ELSE 1) + deaths

\* The states a subscription has gone through.
Age(s) == Len(stripeSubs[s].states)
At(s, k) == stripeSubs[s].states[k]

\* A cancellation is the last state and follows another; it changes nothing else.
\* An event about the subscription tells of one of its states.
EventsTrue(s) ==
    /\ \A k \in 1 .. Age(s) : At(s, k).status = "canceled" =>
         /\ k = Age(s) /\ k > 1
         /\ At(s, k - 1).cancel_at_period_end = At(s, k).cancel_at_period_end
    /\ \A e \in About(s) :
         /\ e.at >= 1 /\ e.at <= Age(s)
         /\ e.type = "created" <=> e.at = 1
         /\ e.type = "deleted" <=> At(s, e.at).status = "canceled"

\* There is a row, or an event delivered, only of a subscription that exists; a
\* row is canceled only after the subscription.
RowBacked(s) ==
    /\ delivered[s] <= Age(s)
    /\ Age(s) = 0 => subscriptions[s] = NoRow
    /\ subscriptions[s] # NoRow /\ subscriptions[s].state.status = "canceled" =>
         At(s, Age(s)).status = "canceled"

\* An event about state k of s is pending.
Pending(s, k) == \E e \in About(s) : e.at = k

\* Every event is pending or delivered, and the row holds a state no older than
\* the newest delivered, unless an older one is still to come.
RowFresh(s) ==
    s \notin disordered \cup missed =>
      /\ delivered[s] >= 1 => subscriptions[s] # NoRow
      /\ Age(s) >= 1 => subscriptions[s] # NoRow \/ Pending(s, 1)
      /\ \A k \in 2 .. Age(s) : Pending(s, k) \/ k <= delivered[s]
      /\ subscriptions[s] # NoRow
         /\ (\A k \in Nat : Pending(s, k) => k < 2 \/ k >= delivered[s]) =>
           \E m \in 1 .. Age(s) : m >= delivered[s] /\ subscriptions[s].state = At(s, m)

SubTracked(s) == EventsTrue(s) /\ RowBacked(s) /\ RowFresh(s)

SubsIInv ==
    /\ SubsTyped /\ CustomersKnown /\ CustomersCounted
    /\ \A s \in Sub : SubTracked(s)

Tells(type, s, k) == [type |-> type, sub |-> s, at |-> k]

LEMMA EventFacts ==
    /\ NoRow \notin SubRow
    /\ \A e \in Event : /\ e.type = "customer" => e.customer \in Customer
                        /\ e.type # "customer" => e.sub \in Sub
                        /\ e.type \notin {"customer", "checkout"} => e.at \in Nat
                        /\ e.type \in {"customer", "checkout", "created", "updated", "deleted"}
    /\ \A t \in {"created", "updated", "deleted"}, s \in Sub, k \in Nat :
         /\ Tells(t, s, k) \in Event /\ Tells(t, s, k).type = t
         /\ Tells(t, s, k).sub = s /\ Tells(t, s, k).at = k
<1>1. NoRow \notin SubRow
  BY NamesAssumption DEF NoRow, SubRow
<1>2. \A e \in Event : /\ e.type = "customer" => e.customer \in Customer
                       /\ e.type # "customer" => e.sub \in Sub
                       /\ e.type \notin {"customer", "checkout"} => e.at \in Nat
                       /\ e.type \in {"customer", "checkout", "created", "updated", "deleted"}
  BY DEF Event
<1>3. \A t \in {"created", "updated", "deleted"}, s \in Sub, k \in Nat :
         /\ Tells(t, s, k) \in Event /\ Tells(t, s, k).type = t
         /\ Tells(t, s, k).sub = s /\ Tells(t, s, k).at = k
  BY DEF Event, Tells
<1> QED
  BY <1>1, <1>2, <1>3

LEMMA AgeFacts ==
    ASSUME SubsTyped, NEW s \in Sub
    PROVE  /\ Age(s) \in Nat
           /\ \A k \in 1 .. Age(s) : At(s, k) \in State
           /\ Exists(s) <=> Age(s) >= 1
           /\ Now(s) = At(s, Age(s))
           /\ Exists(s) => Now(s) \in State
<1>1. stripeSubs[s].states \in Seq(State)
  BY DEF SubsTyped, StripeSub
<1>2. Age(s) \in Nat /\ \A k \in 1 .. Age(s) : At(s, k) \in State
  BY <1>1 DEF Age, At
<1>3. Exists(s) <=> Age(s) >= 1
  BY <1>1 DEF Age, Exists
<1>4. Now(s) = At(s, Age(s))
  BY DEF Now, Last, At, Age
<1>5. Age(s) >= 1 => Age(s) \in 1 .. Age(s)
  BY <1>2
<1>6. Exists(s) => Now(s) \in State
  BY <1>2, <1>3, <1>4, <1>5
<1> QED
  BY <1>2, <1>3, <1>4, <1>6

\* What s has gone through, and one state more.
Ages(s, state) ==
    /\ Age(s)' = Age(s) + 1
    /\ \A k \in 1 .. Age(s) : At(s, k)' = At(s, k)
    /\ \A k \in Nat : k = Age(s) + 1 => At(s, k)' = state
    /\ \A t \in Sub : t # s => stripeSubs'[t] = stripeSubs[t]
    /\ stripeSubs' \in [Sub -> StripeSub]

StateAppended(s, state) == stripeSubs' = [stripeSubs EXCEPT ![s].states = Append(@, state)]

LEMMA AppendAges ==
    ASSUME SubsTyped, NEW s \in Sub, NEW state \in State, StateAppended(s, state)
    PROVE  Ages(s, state) /\ stripeSubs'[s].customer = stripeSubs[s].customer
<1>1. /\ stripeSubs[s] \in StripeSub
      /\ stripeSubs'[s] = [stripeSubs[s] EXCEPT !.states = Append(stripeSubs[s].states, state)]
      /\ stripeSubs' = [t \in Sub |-> stripeSubs'[t]]
      /\ \A t \in Sub : t # s => stripeSubs'[t] = stripeSubs[t]
  BY DEF StateAppended, SubsTyped
<1>2. /\ stripeSubs[s].states \in Seq(State)
      /\ stripeSubs'[s].states = Append(stripeSubs[s].states, state)
      /\ stripeSubs'[s].customer = stripeSubs[s].customer
      /\ stripeSubs'[s].customer \in Customer \cup {NoCustomer}
  BY <1>1 DEF StripeSub
<1>3. /\ Append(stripeSubs[s].states, state) \in Seq(State)
      /\ Len(Append(stripeSubs[s].states, state)) = Len(stripeSubs[s].states) + 1
      /\ \A k \in 1 .. Len(stripeSubs[s].states) :
           Append(stripeSubs[s].states, state)[k] = stripeSubs[s].states[k]
      /\ Append(stripeSubs[s].states, state)[Len(stripeSubs[s].states) + 1] = state
  BY <1>2
<1>4. stripeSubs'[s] \in StripeSub
  BY <1>1, <1>2, <1>3 DEF StripeSub
<1>5. \A t \in Sub : stripeSubs'[t] \in StripeSub
  BY <1>1, <1>4 DEF SubsTyped
<1>6. stripeSubs' \in [Sub -> StripeSub]
  BY <1>1, <1>5
<1>7. Age(s)' = Age(s) + 1 /\ \A k \in 1 .. Age(s) : At(s, k)' = At(s, k)
  BY <1>2, <1>3 DEF Age, At
<1>8. \A k \in Nat : k = Age(s) + 1 => At(s, k)' = state
  BY <1>2, <1>3 DEF Age, At
<1> QED
  BY <1>1, <1>2, <1>6, <1>7, <1>8 DEF Ages

SubOpened(s, c, state) ==
    stripeSubs' = [stripeSubs EXCEPT ![s] = [customer |-> c, states |-> <<state>>]]

LEMMA OpenAges ==
    ASSUME SubsTyped, NEW s \in Sub, NEW c \in Customer, NEW state \in State,
           ~ Exists(s), SubOpened(s, c, state)
    PROVE  Ages(s, state) /\ stripeSubs'[s].customer = c
<1>1. <<state>> \in Seq(State) /\ Len(<<state>>) = 1 /\ <<state>>[1] = state
  OBVIOUS
<1>2. [customer |-> c, states |-> <<state>>] \in StripeSub
  BY <1>1 DEF StripeSub
<1>3. /\ stripeSubs' \in [Sub -> StripeSub]
      /\ stripeSubs'[s] = [customer |-> c, states |-> <<state>>]
      /\ \A t \in Sub : t # s => stripeSubs'[t] = stripeSubs[t]
  BY <1>2 DEF SubOpened, SubsTyped
<1>4. Age(s) = 0
  BY AgeFacts DEF Age
<1>5. stripeSubs'[s].states = <<state>> /\ stripeSubs'[s].customer = c
  BY <1>3
<1>6. Age(s)' = 1 /\ \A k \in Nat : k = 1 => At(s, k)' = state
  BY <1>1, <1>5 DEF Age, At
<1> QED
  BY <1>3, <1>4, <1>5, <1>6 DEF Ages

\* What is not touched stays tracked.
LEMMA SubKept ==
    ASSUME NEW s \in Sub, SubTracked(s),
           stripeSubs'[s] = stripeSubs[s], subscriptions'[s] = subscriptions[s],
           delivered'[s] = delivered[s], About(s)' = About(s),
           s \in disordered \cup missed => s \in disordered' \cup missed'
    PROVE  SubTracked(s)'
<1>1. Age(s)' = Age(s) /\ \A k : At(s, k)' = At(s, k) /\ Pending(s, k)' = Pending(s, k)
  BY DEF Age, At, Pending
<1>2. EventsTrue(s)'
  BY <1>1 DEF SubTracked, EventsTrue
<1>3. RowBacked(s)'
  BY <1>1 DEF SubTracked, RowBacked
<1>4. RowFresh(s)'
  BY <1>1 DEF SubTracked, RowFresh
<1> QED
  BY <1>2, <1>3, <1>4 DEF SubTracked

\* A new state, the event of it, and a row that takes it or stays.
LEMMA AgingTracks ==
    ASSUME SubsTyped, NEW s \in Sub, SubTracked(s), NEW state \in State, Ages(s, state),
           NEW e, About(s)' = About(s) \cup {e}, e.at = Age(s) + 1,
           e.type = "created" <=> Age(s) = 0,
           e.type = "deleted" <=> state.status = "canceled",
           Age(s) >= 1 => At(s, Age(s)).status # "canceled",
           state.status = "canceled" =>
               /\ Age(s) >= 1
               /\ At(s, Age(s)).cancel_at_period_end = state.cancel_at_period_end,
           \/ subscriptions'[s] = subscriptions[s]
           \/ subscriptions'[s] # NoRow /\ subscriptions'[s].state = state,
           UNCHANGED orderVars
    PROVE  SubTracked(s)'
<1>1. PICK n \in Nat : n = Age(s)
  BY AgeFacts
<1>2. /\ Age(s)' = n + 1
      /\ \A k \in 1 .. n : At(s, k)' = At(s, k)
      /\ At(s, n + 1)' = state
  BY <1>1 DEF Ages
<1>3. UNCHANGED <<delivered, disordered, missed>>
  BY DEF orderVars
<1>4. /\ \A k \in 1 .. n : At(s, k).status = "canceled" => FALSE
      /\ \A f \in About(s) :
           /\ f.at >= 1 /\ f.at <= n
           /\ f.type = "created" <=> f.at = 1
           /\ f.type = "deleted" <=> At(s, f.at).status = "canceled"
  BY <1>1 DEF SubTracked, EventsTrue
<1>5. \A f \in About(s) : f.at \in Nat
  BY EventFacts DEF About, SubsTyped
<1>6. EventsTrue(s)'
  <2>1. ASSUME NEW k \in 1 .. (n + 1), At(s, k)'.status = "canceled"
        PROVE  /\ k = n + 1 /\ k > 1
               /\ At(s, k - 1)'.cancel_at_period_end = At(s, k)'.cancel_at_period_end
    <3>1. k = n + 1
      BY <2>1, <1>2, <1>4
    <3>2. state.status = "canceled" /\ n >= 1
      BY <2>1, <3>1, <1>1, <1>2
    <3>3. k - 1 = n /\ n \in 1 .. n
      BY <3>1, <3>2
    <3>4. At(s, n)' = At(s, n)
      BY <3>3, <1>2
    <3> QED
      BY <3>1, <3>2, <3>3, <3>4, <1>1, <1>2
  <2>2. ASSUME NEW f \in About(s)'
        PROVE  /\ f.at >= 1 /\ f.at <= n + 1
               /\ f.type = "created" <=> f.at = 1
               /\ f.type = "deleted" <=> At(s, f.at)'.status = "canceled"
    <3>1. CASE f \in About(s)
      <4>1. f.at \in 1 .. n /\ At(s, f.at)' = At(s, f.at)
        BY <3>1, <1>2, <1>4, <1>5
      <4> QED
        BY <3>1, <4>1, <1>4
    <3>2. CASE f = e
      BY <3>2, <1>1, <1>2
    <3> QED
      BY <3>1, <3>2
  <2> QED
    BY <2>1, <2>2, <1>2 DEF EventsTrue
<1>7. RowBacked(s)'
  <2>1. delivered[s] \in Nat /\ delivered[s] <= n
    BY <1>1 DEF SubsTyped, SubTracked, RowBacked
  <2>2. CASE subscriptions'[s] = subscriptions[s]
    <3>1. subscriptions[s] # NoRow => subscriptions[s].state.status # "canceled"
      BY <1>1 DEF SubTracked, RowBacked
    <3> QED
      BY <2>1, <2>2, <3>1, <1>2, <1>3 DEF RowBacked
  <2>3. CASE subscriptions'[s] # NoRow /\ subscriptions'[s].state = state
    BY <2>1, <2>3, <1>2, <1>3 DEF RowBacked
  <2> QED
    BY <2>2, <2>3
<1>8. /\ \A k \in Nat : Pending(s, k) => Pending(s, k)'
      /\ Pending(s, n + 1)'
  BY <1>1 DEF Pending
<1>9. RowFresh(s)'
  <2> SUFFICES ASSUME s \notin disordered \cup missed
               PROVE  /\ delivered[s] >= 1 => subscriptions'[s] # NoRow
                      /\ subscriptions'[s] # NoRow \/ Pending(s, 1)'
                      /\ \A k \in 2 .. (n + 1) : Pending(s, k)' \/ k <= delivered[s]
                      /\ subscriptions'[s] # NoRow
                         /\ (\A k \in Nat : Pending(s, k)' => k < 2 \/ k >= delivered[s]) =>
                           \E m \in 1 .. (n + 1) :
                               m >= delivered[s] /\ subscriptions'[s].state = At(s, m)'
    BY <1>2, <1>3 DEF RowFresh
  <2>1. /\ delivered[s] \in Nat /\ delivered[s] <= n
        /\ n = 0 => subscriptions[s] = NoRow
    BY <1>1 DEF SubsTyped, SubTracked, RowBacked
  <2>2. /\ delivered[s] >= 1 => subscriptions[s] # NoRow
        /\ n >= 1 => subscriptions[s] # NoRow \/ Pending(s, 1)
        /\ \A k \in 2 .. n : Pending(s, k) \/ k <= delivered[s]
        /\ subscriptions[s] # NoRow
           /\ (\A k \in Nat : Pending(s, k) => k < 2 \/ k >= delivered[s]) =>
             \E m \in 1 .. n : m >= delivered[s] /\ subscriptions[s].state = At(s, m)
    BY <1>1 DEF SubTracked, RowFresh
  <2>3. delivered[s] >= 1 => subscriptions'[s] # NoRow
    BY <2>2
  <2>4. subscriptions'[s] # NoRow \/ Pending(s, 1)'
    <3>1. CASE n = 0
      BY <3>1, <1>8
    <3>2. CASE n # 0
      BY <3>2, <2>2, <1>8
    <3> QED
      BY <3>1, <3>2
  <2>5. \A k \in 2 .. (n + 1) : Pending(s, k)' \/ k <= delivered[s]
    <3> TAKE k \in 2 .. (n + 1)
    <3>1. k \in Nat /\ (k \in 2 .. n \/ k = n + 1)
      OBVIOUS
    <3> QED
      BY <3>1, <2>2, <1>8
  <2>6. ASSUME subscriptions'[s] # NoRow,
               \A k \in Nat : Pending(s, k)' => k < 2 \/ k >= delivered[s]
        PROVE  \E m \in 1 .. (n + 1) :
                   m >= delivered[s] /\ subscriptions'[s].state = At(s, m)'
    <3>1. CASE subscriptions'[s] = subscriptions[s]
      <4>1. PICK m \in 1 .. n : m >= delivered[s] /\ subscriptions[s].state = At(s, m)
        BY <2>2, <2>6, <3>1, <1>8
      <4>2. m \in 1 .. (n + 1) /\ At(s, m)' = At(s, m)
        BY <4>1, <1>2
      <4> QED
        BY <3>1, <4>1, <4>2
    <3>2. CASE subscriptions'[s].state = state
      <4>1. n + 1 \in 1 .. (n + 1) /\ n + 1 >= delivered[s]
        BY <2>1
      <4> QED
        BY <3>2, <4>1, <1>2
    <3> QED
      BY <2>6, <3>1, <3>2
  <2> QED
    BY <2>3, <2>4, <2>5, <2>6
<1> QED
  BY <1>6, <1>7, <1>9 DEF SubTracked

\* The row takes Stripe's present state.
LEMMA RefreshTracks ==
    ASSUME SubsTyped, NEW s \in Sub, SubTracked(s), Age(s) >= 1,
           stripeSubs'[s] = stripeSubs[s], About(s)' = About(s),
           subscriptions'[s] # NoRow, subscriptions'[s].state = At(s, Age(s)),
           UNCHANGED orderVars
    PROVE  SubTracked(s)'
<1>1. Age(s)' = Age(s) /\ \A k : At(s, k)' = At(s, k) /\ Pending(s, k)' = Pending(s, k)
  BY DEF Age, At, Pending
<1>2. UNCHANGED <<delivered, disordered, missed>>
  BY DEF orderVars
<1>3. PICK n \in Nat : n = Age(s) /\ n >= 1
  BY AgeFacts
<1>4. EventsTrue(s)'
  BY <1>1 DEF SubTracked, EventsTrue
<1>5. RowBacked(s)'
  BY <1>1, <1>2 DEF SubTracked, RowBacked
<1>6. RowFresh(s)'
  <2>1. n \in 1 .. n /\ n >= delivered[s] /\ subscriptions'[s].state = At(s, n)
    BY <1>3 DEF SubTracked, RowBacked
  <2>2. s \notin disordered \cup missed =>
          \A k \in 2 .. n : Pending(s, k) \/ k <= delivered[s]
    BY <1>3 DEF SubTracked, RowFresh
  <2> QED
    BY <1>1, <1>2, <1>3, <2>1, <2>2 DEF RowFresh
<1> QED
  BY <1>4, <1>5, <1>6 DEF SubTracked

LEMMA CanceledState ==
    ASSUME NEW a \in State, NEW b \in State, b.status = "canceled",
           a.cancel_at_period_end = b.cancel_at_period_end
    PROVE  [a EXCEPT !.status = "canceled"] = b
  BY DEF State, Status

\* An event about s is no longer pending, or still is, having been delivered.
Answered(s, e) ==
    /\ About(s)' \subseteq About(s)
    /\ \A f \in About(s) : f # e => f \in About(s)'

\* An event about s is delivered: the row takes its state, or a cancellation.
LEMMA DeliveryTracks ==
    ASSUME SubsTyped, NEW s \in Sub, SubTracked(s), NEW e \in About(s), Answered(s, e),
           stripeSubs'[s] = stripeSubs[s], Delivers(s, e.at), missed \subseteq missed',
           \/ s \in missed' /\ subscriptions'[s] = subscriptions[s]
           \/ subscriptions'[s] # NoRow /\ subscriptions'[s].state = At(s, e.at)
           \/ /\ e.type = "deleted" /\ subscriptions[s] # NoRow
              /\ subscriptions'[s] # NoRow
              /\ subscriptions'[s].state = [subscriptions[s].state EXCEPT !.status = "canceled"]
    PROVE  SubTracked(s)'
<1>1. Age(s)' = Age(s) /\ \A k : At(s, k)' = At(s, k)
  BY DEF Age, At
<1>2. PICK n \in Nat : n = Age(s)
  BY AgeFacts
<1>3. PICK d \in Nat : d = delivered[s]
  BY DEF SubsTyped
<1>4. PICK a \in 1 .. n : a = e.at
  BY <1>2, EventFacts DEF SubTracked, EventsTrue, About, SubsTyped
<1>5. /\ delivered'[s] = IF a > d THEN a ELSE d
      /\ s \notin disordered' => s \notin disordered /\ a >= d
      /\ d <= n
  BY <1>2, <1>3, <1>4 DEF Delivers, SubsTyped, SubTracked, RowBacked
<1>6. /\ \A k \in 1 .. n : At(s, k).status = "canceled" => k = n
      /\ e.type = "deleted" => At(s, a).status = "canceled"
  BY <1>2, <1>4 DEF SubTracked, EventsTrue
<1>7. EventsTrue(s)'
  BY <1>1 DEF SubTracked, EventsTrue, Answered
<1>8. RowBacked(s)'
  <2>1. delivered'[s] <= n
    BY <1>4, <1>5
  <2>2. ASSUME subscriptions'[s] # NoRow, subscriptions'[s].state.status = "canceled"
        PROVE  At(s, n).status = "canceled"
    <3>1. CASE subscriptions'[s] = subscriptions[s]
      BY <2>2, <3>1, <1>2 DEF SubTracked, RowBacked
    <3>2. CASE subscriptions'[s].state = At(s, e.at)
      BY <2>2, <3>2, <1>4, <1>6
    <3>3. CASE e.type = "deleted"
      BY <3>3, <1>4, <1>6
    <3> QED
      BY <3>1, <3>2, <3>3
  <2>3. n # 0
    BY <1>4
  <2> QED
    BY <1>1, <1>2, <2>1, <2>2, <2>3 DEF RowBacked
<1>9. RowFresh(s)'
  <2> SUFFICES ASSUME s \notin disordered' \cup missed'
               PROVE  /\ delivered'[s] >= 1 => subscriptions'[s] # NoRow
                      /\ n >= 1 => subscriptions'[s] # NoRow \/ Pending(s, 1)'
                      /\ \A k \in 2 .. n : Pending(s, k)' \/ k <= delivered'[s]
                      /\ subscriptions'[s] # NoRow
                         /\ (\A k \in Nat : Pending(s, k)' => k < 2 \/ k >= delivered'[s]) =>
                           \E m \in 1 .. n : m >= delivered'[s]
                                             /\ subscriptions'[s].state = At(s, m)
    BY <1>1, <1>2 DEF RowFresh
  <2>1. /\ s \notin disordered \cup missed
        /\ a >= d /\ delivered'[s] = a
    BY <1>3, <1>4, <1>5
  <2>2. /\ \A k \in 2 .. n : Pending(s, k) \/ k <= d
        /\ subscriptions[s] # NoRow
           /\ (\A k \in Nat : Pending(s, k) => k < 2 \/ k >= d) =>
             \E m \in 1 .. n : m >= d /\ subscriptions[s].state = At(s, m)
    BY <1>2, <1>3, <2>1 DEF SubTracked, RowFresh
  <2>3. \A k \in Nat : Pending(s, k) /\ k # a => Pending(s, k)'
    BY <1>4 DEF Pending, Answered
  <2>4. subscriptions'[s] # NoRow
    OBVIOUS
  <2>5. \A k \in 2 .. n : Pending(s, k)' \/ k <= a
    <3> TAKE k \in 2 .. n
    <3>1. CASE k = a
      BY <3>1
    <3>2. CASE k # a
      BY <3>2, <2>1, <2>2, <2>3
    <3> QED
      BY <3>1, <3>2
  <2>6. ASSUME \A k \in Nat : Pending(s, k)' => k < 2 \/ k >= a
        PROVE  \E m \in 1 .. n : m >= a /\ subscriptions'[s].state = At(s, m)
    <3>1. CASE subscriptions'[s].state = At(s, e.at)
      BY <3>1, <1>4
    <3>2. CASE /\ e.type = "deleted" /\ subscriptions[s] # NoRow
               /\ subscriptions'[s].state =
                    [subscriptions[s].state EXCEPT !.status = "canceled"]
      <4>1. a = n /\ At(s, n).status = "canceled" /\ n > 1
            /\ At(s, n - 1).cancel_at_period_end = At(s, n).cancel_at_period_end
        BY <3>2, <1>2, <1>4, <1>6 DEF SubTracked, EventsTrue
      <4>2. \A k \in Nat : Pending(s, k) => k < 2 \/ k >= d
        BY <2>1, <2>3, <2>6
      <4>3. PICK m \in 1 .. n : m >= d /\ subscriptions[s].state = At(s, m)
        BY <3>2, <4>2, <2>2
      <4>4. m >= n - 1
        <5>1. CASE n = 2
          BY <5>1
        <5>2. CASE n > 2
          <6>1. n - 1 \in 2 .. n /\ n - 1 \in Nat
            BY <5>2
          <6>2. ~ Pending(s, n - 1)
            BY <6>1, <4>1, <2>3, <2>6, <5>2
          <6>3. n - 1 <= d
            BY <6>1, <6>2, <2>2
          <6> QED
            BY <6>3, <4>3
        <5> QED
          BY <4>1, <5>1, <5>2
      <4>5. /\ At(s, m) \in State /\ At(s, n) \in State
            /\ At(s, m).cancel_at_period_end = At(s, n).cancel_at_period_end
        <5>1. m = n \/ m = n - 1
          BY <4>4
        <5>2. At(s, m) \in State /\ At(s, n) \in State
          BY <1>2, <4>1, AgeFacts
        <5> QED
          BY <5>1, <5>2, <4>1
      <4>6. [At(s, m) EXCEPT !.status = "canceled"] = At(s, n)
        BY <4>1, <4>5, CanceledState
      <4> QED
        BY <3>2, <4>1, <4>3, <4>6
    <3> QED
      BY <3>1, <3>2
  <2> QED
    BY <2>1, <2>4, <2>5, <2>6
<1> QED
  BY <1>7, <1>8, <1>9 DEF SubTracked

\* Stripe gives up on an event about s.
LEMMA GiveUpTracks ==
    ASSUME SubsTyped, NEW s \in Sub, SubTracked(s), NEW e \in About(s), Answered(s, e),
           stripeSubs'[s] = stripeSubs[s], subscriptions'[s] = subscriptions[s],
           UNCHANGED <<delivered, disordered>>, missed \subseteq missed',
           s \in missed' \/ (e.type = "created" /\ subscriptions[s] # NoRow)
    PROVE  SubTracked(s)'
<1>1. Age(s)' = Age(s) /\ \A k : At(s, k)' = At(s, k)
  BY DEF Age, At
<1>2. EventsTrue(s)'
  BY <1>1 DEF SubTracked, EventsTrue, Answered
<1>3. RowBacked(s)'
  BY <1>1 DEF SubTracked, RowBacked
<1>4. RowFresh(s)'
  <2>1. CASE s \in missed'
    BY <2>1 DEF RowFresh
  <2>2. CASE s \notin missed'
    <3>1. e.at = 1 /\ subscriptions[s] # NoRow /\ s \notin missed
      BY <2>2 DEF SubTracked, EventsTrue
    <3>2. \A k \in Nat : k # 1 => Pending(s, k)' = Pending(s, k)
      BY <3>1 DEF Pending, Answered
    <3>3. (\A k \in Nat : Pending(s, k)' => k < 2 \/ k >= delivered[s])
            => (\A k \in Nat : Pending(s, k) => k < 2 \/ k >= delivered[s])
      BY <3>2
    <3> QED
      BY <1>1, <3>1, <3>2, <3>3 DEF SubTracked, RowFresh
  <2> QED
    BY <2>1, <2>2
<1> QED
  BY <1>2, <1>3, <1>4 DEF SubTracked

-----------------------------------------------------------------------------
(* The steps. *)

\* Only e may go, and no event comes.
Leaves(e) == events' \subseteq events /\ \A f \in events : f # e => f \in events'

LEMMA LeavesFacts ==
    ASSUME SubsTyped, NEW e \in events, Leaves(e)
    PROVE  /\ \A s \in Sub : e \notin About(s) => About(s)' = About(s)
           /\ \A s \in Sub : e \in About(s) => Answered(s, e)
           /\ e \in Event
           /\ e.type \in {"created", "updated", "deleted"} => e.sub \in Sub /\ e \in About(e.sub)
           /\ e.type \in {"customer", "checkout"} => \A s \in Sub : e \notin About(s)
           /\ \A s \in Sub : e \in About(s) => e.sub = s
<1>1. \A s \in Sub : e \notin About(s) => About(s)' = About(s)
  BY DEF About, Leaves
<1>2. \A s \in Sub : e \in About(s) => Answered(s, e)
  BY DEF About, Leaves, Answered
<1> QED
  BY <1>1, <1>2, EventFacts DEF About, SubsTyped

\* The counts of customers stay right where no customer comes.
LEMMA CountsStay ==
    ASSUME CustomersCounted, UNCHANGED <<stripeCustomers, stripe_customers>>,
           SubsTyped, deaths' \in Nat, deaths' >= deaths
    PROVE  CustomersCounted'
<1> SUFFICES ASSUME NEW u \in User
             PROVE  LET his == {c \in Customer : stripeCustomers[c] = u} IN
                    /\ IsFiniteSet(his)
                    /\ Cardinality(his) <=
                         (IF stripe_customers[u] = NoCustomer THEN 0 ELSE 1) + deaths'
  BY DEF CustomersCounted
<1> DEFINE his == {c \in Customer : stripeCustomers[c] = u}
<1>1. /\ IsFiniteSet(his)
      /\ Cardinality(his) <= (IF stripe_customers[u] = NoCustomer THEN 0 ELSE 1) + deaths
  BY DEF CustomersCounted
<1>2. Cardinality(his) \in Nat
  BY <1>1, FS_CardinalityType
<1> HIDE DEF his
<1>3. deaths \in Nat
  BY DEF SubsTyped
<1>4. Cardinality(his) <= (IF stripe_customers[u] = NoCustomer THEN 0 ELSE 1) + deaths'
  BY <1>1, <1>2, <1>3
<1> QED
  BY <1>1, <1>4 DEF his

LEMMA AgingKeeps ==
    ASSUME SubsIInv, NEW s \in Sub, NEW state \in State, Ages(s, state),
           NEW type \in {"created", "updated", "deleted"}, NEW extra,
           events' = (events \cup {Tells(type, s, Age(s) + 1)}) \cup extra,
           \A f \in extra : f \in Event /\ f.type = "checkout" /\ f.sub = s,
           type = "created" <=> Age(s) = 0,
           type = "deleted" <=> state.status = "canceled",
           Age(s) >= 1 => At(s, Age(s)).status # "canceled",
           state.status = "canceled" =>
               /\ Age(s) >= 1
               /\ At(s, Age(s)).cancel_at_period_end = state.cancel_at_period_end,
           stripeSubs'[s].customer \in Customer,
           \/ subscriptions'[s] = subscriptions[s]
           \/ subscriptions'[s] # NoRow /\ subscriptions'[s].state = state,
           \A t \in Sub : t # s => subscriptions'[t] = subscriptions[t],
           subscriptions' \in [Sub -> SubRow \cup {NoRow}],
           UNCHANGED <<stripeCustomers, stripe_customers, orderVars>>,
           deaths' \in Nat, deaths' >= deaths,
           told' \in [Sub -> {"nothing", "enabled", "disabled"}]
    PROVE  SubsIInv'
<1> USE DEF SubsIInv
<1>1. PICK n \in Nat : n = Age(s) /\ n + 1 \in Nat
  BY AgeFacts
<1>2. PICK e \in Event : /\ e = Tells(type, s, n + 1)
                         /\ e.type = type /\ e.sub = s /\ e.at = n + 1
  BY <1>1, EventFacts
<1>3. events' = (events \cup {e}) \cup extra
  BY <1>1, <1>2
<1>4. /\ About(s)' = About(s) \cup {e}
      /\ \A t \in Sub : t # s => About(t)' = About(t)
  BY <1>2, <1>3 DEF About
<1>5. /\ UNCHANGED <<delivered, disordered, missed>> /\ stripeSubs' \in [Sub -> StripeSub]
      /\ \A t \in Sub : t # s => stripeSubs'[t] = stripeSubs[t]
      /\ Age(s)' = n + 1
  BY <1>1 DEF orderVars, Ages
<1>6. SubsTyped'
  BY <1>2, <1>3, <1>5 DEF SubsTyped
<1>7. SubTracked(s)'
  BY <1>1, <1>2, <1>4, AgingTracks
<1>8. \A t \in Sub : t # s => SubTracked(t)'
  BY <1>4, <1>5, SubKept
<1>9. CustomersCounted'
  BY CountsStay
<1>10. Exists(s)'
  <2>1. stripeSubs'[s].states # <<>>
    <3>1. Age(s)' # 0
      BY <1>5, <1>1
    <3>2. Len(stripeSubs'[s].states) # 0
      BY <3>1, Zenon DEF Age
    <3> QED
      BY <3>2
  <2> QED
    BY <2>1 DEF Exists
<1>11. CustomersKnown'
  <2>1. \A t \in Sub : Exists(t) => Exists(t)'
    <3> SUFFICES ASSUME NEW t \in Sub, Exists(t) PROVE Exists(t)'
      OBVIOUS
    <3>1. CASE t = s
      BY <3>1, <1>6, <1>10
    <3>2. CASE t # s
      BY <3>2, <1>5 DEF Exists
    <3> QED
      BY <3>1, <3>2
  <2>2. ASSUME NEW t \in Sub, Exists(t)'
        PROVE  stripeSubs'[t].customer \in Customer
    <3>1. CASE t = s
      BY <3>1
    <3>2. CASE t # s
      BY <2>2, <3>2, <1>5 DEF Exists, CustomersKnown
    <3> QED
      BY <3>1, <3>2
  <2>3. ASSUME NEW f \in events'
        PROVE  /\ f.type = "customer" => stripeCustomers'[f.customer] \in User
               /\ f.type = "checkout" => Exists(f.sub)'
    <3>1. CASE f \in events
      BY <3>1, <2>1, EventFacts DEF CustomersKnown, SubsTyped
    <3>2. CASE f = e
      BY <3>2, <1>2
    <3>3. CASE f \in extra
      BY <3>3, <1>10
    <3> QED
      BY <1>3, <3>1, <3>2, <3>3
  <2> QED
    BY <2>2, <2>3 DEF CustomersKnown
<1> QED
  BY <1>6, <1>7, <1>8, <1>9, <1>11

\* The row is committed, or the request dies and only deaths says so.
LEMMA CommitsTyped ==
    ASSUME SubsTyped, NEW rows \in BOOLEAN, Commits(rows)
    PROVE  deaths' \in Nat /\ deaths' >= deaths
  BY DEF Commits, SubsTyped

LEMMA RowWritten ==
    ASSUME SubsTyped, NEW s \in Sub, NEW row \in SubRow,
           subscriptions' = [subscriptions EXCEPT ![s] = row]
    PROVE  /\ subscriptions' \in [Sub -> SubRow \cup {NoRow}]
           /\ subscriptions'[s] = row /\ row # NoRow
           /\ \A t \in Sub : t # s => subscriptions'[t] = subscriptions[t]
  BY EventFacts DEF SubsTyped

LEMMA StateWritten ==
    ASSUME SubsTyped, NEW s \in Sub, NEW state \in State, subscriptions[s] # NoRow,
           WithState(s, state)
    PROVE  /\ subscriptions' \in [Sub -> SubRow \cup {NoRow}]
           /\ subscriptions'[s] # NoRow /\ subscriptions'[s].state = state
           /\ \A t \in Sub : t # s => subscriptions'[t] = subscriptions[t]
           /\ UNCHANGED stripe_customers
<1>1. /\ subscriptions[s] \in SubRow
      /\ subscriptions'[s] = [subscriptions[s] EXCEPT !.state = state]
      /\ subscriptions' = [t \in Sub |-> subscriptions'[t]]
      /\ \A t \in Sub : t # s => subscriptions'[t] = subscriptions[t]
      /\ UNCHANGED stripe_customers
  BY DEF WithState, SubsTyped
<1>2. subscriptions'[s] \in SubRow /\ subscriptions'[s].state = state
  BY <1>1 DEF SubRow
<1>3. \A t \in Sub : subscriptions'[t] \in SubRow \cup {NoRow}
  BY <1>1, <1>2 DEF SubsTyped
<1> QED
  BY <1>1, <1>2, <1>3, EventFacts

\* A subscription moves on at Stripe; its row takes the new state or stays.
LEMMA BecomesKeeps ==
    ASSUME SubsIInv, NEW s \in Sub, NEW state \in State, NEW type \in {"updated", "deleted"},
           Becomes(s, state, type),
           type = "deleted" <=> state.status = "canceled",
           state.status = "canceled" =>
               state.cancel_at_period_end = Now(s).cancel_at_period_end,
           \/ UNCHANGED subscriptions
           \/ subscriptions[s] # NoRow /\ WithState(s, state),
           UNCHANGED <<stripeCustomers, stripe_customers, orderVars>>,
           deaths' \in Nat, deaths' >= deaths,
           told' \in [Sub -> {"nothing", "enabled", "disabled"}]
    PROVE  SubsIInv'
<1>1. /\ SubsTyped /\ Exists(s) /\ Now(s).status # "canceled"
      /\ StateAppended(s, state)
      /\ events' = events \cup {Tells(type, s, Age(s) + 1)}
  BY DEF SubsIInv, Becomes, StateAppended, Tells, Age
<1>2. Ages(s, state) /\ stripeSubs'[s].customer = stripeSubs[s].customer
  BY <1>1, AppendAges
<1>3. stripeSubs'[s].customer \in Customer
  BY <1>1, <1>2 DEF SubsIInv, CustomersKnown
<1>4. Age(s) >= 1 /\ Now(s) = At(s, Age(s)) /\ Age(s) # 0
  BY <1>1, AgeFacts
<1>5. /\ subscriptions' \in [Sub -> SubRow \cup {NoRow}]
      /\ \A t \in Sub : t # s => subscriptions'[t] = subscriptions[t]
      /\ \/ subscriptions'[s] = subscriptions[s]
         \/ subscriptions'[s] # NoRow /\ subscriptions'[s].state = state
  <2>1. CASE UNCHANGED subscriptions
    BY <1>1, <2>1 DEF SubsTyped
  <2>2. CASE subscriptions[s] # NoRow /\ WithState(s, state)
    BY <1>1, <2>2, StateWritten
  <2> QED
    BY <2>1, <2>2
<1> DEFINE extra == {}
<1>6. events' = (events \cup {Tells(type, s, Age(s) + 1)}) \cup extra
  BY <1>1
<1>7. \A f \in extra : f \in Event /\ f.type = "checkout" /\ f.sub = s
  OBVIOUS
<1>8. /\ type \in {"created", "updated", "deleted"}
      /\ type = "created" <=> Age(s) = 0
  BY <1>4
<1>9. /\ Age(s) >= 1 => At(s, Age(s)).status # "canceled"
      /\ state.status = "canceled" =>
           At(s, Age(s)).cancel_at_period_end = state.cancel_at_period_end
  BY <1>1, <1>4
<1> HIDE DEF extra
<1> QED
  BY <1>2, <1>3, <1>4, <1>5, <1>6, <1>7, <1>8, <1>9, AgingKeeps, SMTT(60)

LEMMA StripeMovesKeep ==
    ASSUME SubsIInv, NEW s \in Sub,
           PeriodEnds(s) \/ \E state \in State : StripeUpdates(s, state)
    PROVE  SubsIInv'
<1>1. SubsTyped /\ deaths \in Nat /\ told \in [Sub -> {"nothing", "enabled", "disabled"}]
  BY DEF SubsIInv, SubsTyped
<1>2. ASSUME NEW state \in State, StripeUpdates(s, state) PROVE SubsIInv'
  <2>1. /\ Becomes(s, state, "updated") /\ state.status # "canceled"
        /\ UNCHANGED <<stripeCustomers, stripe_customers, subscriptions, orderVars>>
        /\ deaths' \in Nat /\ deaths' >= deaths
        /\ told' \in [Sub -> {"nothing", "enabled", "disabled"}]
    BY <1>1, <1>2 DEF StripeUpdates, rowVars
  <2> QED
    BY <2>1, BecomesKeeps
<1>3. ASSUME PeriodEnds(s) PROVE SubsIInv'
  <2> DEFINE state == [Now(s) EXCEPT !.status = "canceled"]
  <2>1. Now(s) \in State
    BY <1>1, <1>3, AgeFacts DEF PeriodEnds
  <2>2. /\ state \in State /\ state.status = "canceled"
        /\ state.cancel_at_period_end = Now(s).cancel_at_period_end
    BY <2>1 DEF State, Status
  <2>3. /\ Becomes(s, state, "deleted")
        /\ UNCHANGED <<stripeCustomers, stripe_customers, subscriptions, orderVars, told>>
        /\ deaths' \in Nat /\ deaths' >= deaths
    BY <1>1, <1>3 DEF PeriodEnds, rowVars
  <2> HIDE DEF state
  <2> QED
    BY <1>1, <2>2, <2>3, BecomesKeeps
<1> QED
  BY <1>2, <1>3

LEMMA CancelSubscriptionKeeps ==
    ASSUME SubsIInv, NEW s \in Sub, CancelSubscription(s)
    PROVE  SubsIInv'
<1> DEFINE state == [Now(s) EXCEPT !.status = "canceled"]
<1>1. /\ SubsTyped /\ deaths \in Nat /\ told \in [Sub -> {"nothing", "enabled", "disabled"}]
      /\ Exists(s)
  BY DEF SubsIInv, SubsTyped, CancelSubscription, Becomes
<1>2. Now(s) \in State
  BY <1>1, AgeFacts
<1>3. /\ state \in State /\ state.status = "canceled"
      /\ state.cancel_at_period_end = Now(s).cancel_at_period_end
  BY <1>2 DEF State, Status
<1>4. /\ Becomes(s, state, "deleted") /\ subscriptions[s] # NoRow
      /\ UNCHANGED <<stripeCustomers, orderVars, told>>
      /\ \/ WithState(s, state) /\ UNCHANGED deaths
         \/ UNCHANGED rowVars /\ deaths' = deaths + 1
  BY DEF CancelSubscription, Commits
<1> HIDE DEF state
<1>5. /\ deaths' \in Nat /\ deaths' >= deaths
      /\ UNCHANGED stripe_customers
      /\ UNCHANGED subscriptions \/ WithState(s, state)
  BY <1>1, <1>4 DEF WithState, rowVars
<1> QED
  BY <1>1, <1>3, <1>4, <1>5, BecomesKeeps

LEMMA UpdateAutoRenewalKeeps ==
    ASSUME SubsIInv, NEW s \in Sub, NEW auto_renew \in BOOLEAN,
           UpdateAutoRenewal(s, auto_renew)
    PROVE  SubsIInv'
<1> DEFINE state == [Now(s) EXCEPT !.cancel_at_period_end = auto_renew]
<1>1. /\ SubsTyped /\ deaths \in Nat /\ subscriptions[s] # NoRow
      /\ RowBacked(s)
  BY DEF SubsIInv, SubsTyped, UpdateAutoRenewal, SubTracked
<1>2. Age(s) \in Nat /\ Age(s) >= 1 /\ Now(s) = At(s, Age(s)) /\ Now(s) \in State /\ Exists(s)
  BY <1>1, AgeFacts DEF RowBacked
<1>3. /\ state \in State /\ state.status = Now(s).status
  BY <1>2 DEF State
<1>4. /\ \/ state # Now(s) /\ Becomes(s, state, "updated")
         \/ state = Now(s) /\ UNCHANGED <<stripeSubs, events>>
      /\ \/ WithState(s, state) /\ UNCHANGED deaths
         \/ UNCHANGED rowVars /\ deaths' = deaths + 1
      /\ UNCHANGED <<stripeCustomers, orderVars>>
  BY DEF UpdateAutoRenewal, Commits
<1>5. told' \in [Sub -> {"nothing", "enabled", "disabled"}]
  BY <1>1 DEF UpdateAutoRenewal, SubsTyped
<1> HIDE DEF state
<1>6. /\ deaths' \in Nat /\ deaths' >= deaths
      /\ UNCHANGED stripe_customers
      /\ UNCHANGED subscriptions \/ WithState(s, state)
  BY <1>1, <1>4 DEF WithState, rowVars
<1>7. CASE Becomes(s, state, "updated")
  <2>1. state.status # "canceled"
    BY <1>3, <1>7 DEF Becomes
  <2> QED
    BY <1>1, <1>3, <1>4, <1>5, <1>6, <1>7, <2>1, BecomesKeeps
<1>8. CASE state = Now(s) /\ UNCHANGED <<stripeSubs, events>>
  <2>1. /\ subscriptions' \in [Sub -> SubRow \cup {NoRow}]
        /\ \A t \in Sub : t # s => subscriptions'[t] = subscriptions[t]
        /\ \/ subscriptions'[s] = subscriptions[s]
           \/ subscriptions'[s] # NoRow /\ subscriptions'[s].state = Now(s)
    <3>1. CASE UNCHANGED subscriptions
      BY <1>1, <3>1 DEF SubsTyped
    <3>2. CASE WithState(s, state)
      BY <1>1, <1>3, <1>8, <3>2, StateWritten
    <3> QED
      BY <1>6, <3>1, <3>2
  <2>2. \A t \in Sub : About(t)' = About(t) /\ stripeSubs'[t] = stripeSubs[t]
    BY <1>8 DEF About
  <2>3. UNCHANGED <<delivered, disordered, missed>>
    BY <1>4 DEF orderVars
  <2>4. SubsTyped'
    BY <1>1, <1>4, <1>5, <1>6, <1>8, <2>1, <2>3 DEF SubsTyped
  <2>5. CustomersKnown'
    BY <1>4, <1>8 DEF SubsIInv, CustomersKnown, Exists
  <2>6. CustomersCounted'
    BY <1>1, <1>4, <1>6, CountsStay DEF SubsIInv
  <2>7. ASSUME NEW t \in Sub PROVE SubTracked(t)'
    <3>1. CASE subscriptions'[t] = subscriptions[t]
      BY <3>1, <2>2, <2>3, SubKept DEF SubsIInv
    <3>2. CASE t = s /\ subscriptions'[s] # NoRow /\ subscriptions'[s].state = Now(s)
      BY <3>2, <1>2, <1>4, <2>2, RefreshTracks DEF SubsIInv
    <3> QED
      BY <2>1, <3>1, <3>2
  <2> QED
    BY <2>4, <2>5, <2>6, <2>7 DEF SubsIInv
<1> QED
  BY <1>4, <1>7, <1>8

\* The row is as new as the subscription.
LEMMA CreateSubscriptionKeeps ==
    ASSUME SubsIInv, NEW u \in User, NEW s \in Sub, NEW state \in State,
           CreateSubscription(u, s, state)
    PROVE  SubsIInv'
<1>1. PICK c \in Customer : c = stripe_customers[u]
  BY DEF CreateSubscription, SubsIInv, SubsTyped
<1>2. /\ SubsTyped /\ deaths \in Nat /\ ~ Exists(s)
      /\ told \in [Sub -> {"nothing", "enabled", "disabled"}]
      /\ state.status # "canceled"
      /\ SubOpened(s, c, state)
      /\ UNCHANGED <<stripeCustomers, orderVars, told>>
      /\ events' = (events \cup {[type |-> "created", sub |-> s, at |-> 1]}) \cup {}
  BY <1>1 DEF SubsIInv, SubsTyped, CreateSubscription, Opens, SubOpened
<1>3. Ages(s, state) /\ stripeSubs'[s].customer = c
  BY <1>2, OpenAges
<1>4. Age(s) = 0
  BY <1>2, AgeFacts
<1>5. events' = (events \cup {Tells("created", s, Age(s) + 1)}) \cup {}
  BY <1>2, <1>4 DEF Tells
<1> DEFINE row == [user |-> u, customer |-> c, state |-> state]
           extra == {}
<1>6. row \in SubRow /\ row.state = state
  BY DEF SubRow
<1>7. \/ /\ subscriptions' = [subscriptions EXCEPT ![s] = row]
         /\ UNCHANGED <<stripe_customers, deaths>>
      \/ UNCHANGED rowVars /\ deaths' = deaths + 1
  BY <1>1 DEF CreateSubscription, Commits
<1> HIDE DEF row
<1>8. /\ deaths' \in Nat /\ deaths' >= deaths
      /\ UNCHANGED stripe_customers
      /\ UNCHANGED subscriptions \/ subscriptions' = [subscriptions EXCEPT ![s] = row]
  BY <1>2, <1>7 DEF rowVars
<1>9. /\ subscriptions' \in [Sub -> SubRow \cup {NoRow}]
      /\ \A t \in Sub : t # s => subscriptions'[t] = subscriptions[t]
      /\ \/ subscriptions'[s] = subscriptions[s]
         \/ subscriptions'[s] # NoRow /\ subscriptions'[s].state = state
  <2>1. CASE UNCHANGED subscriptions
    BY <1>2, <2>1 DEF SubsTyped
  <2>2. CASE subscriptions' = [subscriptions EXCEPT ![s] = row]
    BY <1>2, <1>6, <2>2, RowWritten
  <2> QED
    BY <1>8, <2>1, <2>2
<1>10. \A f \in extra : f \in Event /\ f.type = "checkout" /\ f.sub = s
  OBVIOUS
<1>11. ~ (Age(s) >= 1)
  BY <1>4
<1>12. events' = (events \cup {Tells("created", s, Age(s) + 1)}) \cup extra
  BY <1>5
<1>13. told' \in [Sub -> {"nothing", "enabled", "disabled"}] /\ UNCHANGED orderVars
  BY <1>2
<1>14. /\ UNCHANGED <<stripeCustomers, stripe_customers, orderVars>>
       /\ "created" \in {"created", "updated", "deleted"}
  BY <1>2, <1>8
<1> HIDE DEF extra
<1> QED
  BY <1>2, <1>3, <1>4, <1>8, <1>9, <1>10, <1>11, <1>12, <1>13, <1>14, AgingKeeps, SMTT(60)

LEMMA PayCheckoutKeeps ==
    ASSUME SubsIInv, NEW u \in User, NEW s \in Sub, PayCheckout(u, s)
    PROVE  SubsIInv'
<1> DEFINE state == [status |-> "active", cancel_at_period_end |-> FALSE]
           extra == {[type |-> "checkout", sub |-> s]}
<1>1. PICK c \in Customer : c = stripe_customers[u]
  BY DEF PayCheckout, SubsIInv, SubsTyped
<1>2. /\ SubsTyped /\ ~ Exists(s)
      /\ SubOpened(s, c, state)
      /\ UNCHANGED <<stripeCustomers, stripe_customers, subscriptions, deaths, orderVars, told>>
      /\ events' = (events \cup {[type |-> "created", sub |-> s, at |-> 1]}) \cup extra
  BY <1>1 DEF SubsIInv, PayCheckout, Opens, SubOpened, rowVars
<1>3. state \in State /\ state.status # "canceled"
  BY DEF State, Status
<1>4. \A f \in extra : f \in Event /\ f.type = "checkout" /\ f.sub = s
  BY DEF Event
<1> HIDE DEF state, extra
<1>5. Ages(s, state) /\ stripeSubs'[s].customer = c
  BY <1>2, <1>3, OpenAges
<1>6. Age(s) = 0 /\ ~ (Age(s) >= 1)
  BY <1>2, AgeFacts
<1>7. events' = (events \cup {Tells("created", s, Age(s) + 1)}) \cup extra
  BY <1>2, <1>6 DEF Tells
<1>8. /\ subscriptions' \in [Sub -> SubRow \cup {NoRow}]
      /\ \A t \in Sub : subscriptions'[t] = subscriptions[t]
      /\ deaths' \in Nat /\ deaths' >= deaths
      /\ told' \in [Sub -> {"nothing", "enabled", "disabled"}]
  BY <1>2 DEF SubsTyped
<1> QED
  BY <1>2, <1>3, <1>4, <1>5, <1>6, <1>7, <1>8, AgingKeeps, SMTT(60)

\* The customers of a user, at Stripe.
CustomersOf(u) == {c \in Customer : stripeCustomers[c] = u}
Limit(u) == (IF stripe_customers[u] = NoCustomer THEN 0 ELSE 1) + deaths

LEMMA CountFacts ==
    /\ CustomersCounted <=> \A u \in User : /\ IsFiniteSet(CustomersOf(u))
                                            /\ Cardinality(CustomersOf(u)) <= Limit(u)
    /\ CustomersCounted' <=> \A u \in User : /\ IsFiniteSet(CustomersOf(u)')
                                             /\ Cardinality(CustomersOf(u)') <= Limit(u)'
  BY DEF CustomersCounted, CustomersOf, Limit

\* A user gets a customer, and a row of it or one death more.
LEMMA CreateCustomerKeeps ==
    ASSUME SubsIInv, NEW u \in User, NEW c \in Customer, CreateCustomer(u, c)
    PROVE  SubsIInv'
<1> DEFINE e == [type |-> "customer", customer |-> c]
<1>1. /\ SubsTyped /\ stripe_customers[u] = NoCustomer /\ stripeCustomers[c] = NoUser
      /\ stripeCustomers' = [stripeCustomers EXCEPT ![c] = u]
      /\ events' = events \cup {e}
      /\ UNCHANGED <<stripeSubs, subscriptions, delivered, disordered, missed, told>>
      /\ \/ stripe_customers' = [stripe_customers EXCEPT ![u] = c] /\ deaths' = deaths
         \/ stripe_customers' = stripe_customers /\ deaths' = deaths + 1
  BY DEF SubsIInv, CreateCustomer, Commits, rowVars, orderVars
<1>2. e \in Event /\ e.type = "customer" /\ e.customer = c
  BY DEF Event
<1> HIDE DEF e
<1>3. SubsTyped'
  <2>1. /\ stripeCustomers' \in [Customer -> User \cup {NoUser}]
        /\ stripe_customers' \in [User -> Customer \cup {NoCustomer}]
        /\ deaths' \in Nat /\ events' \subseteq Event
    BY <1>1, <1>2 DEF SubsTyped
  <2> QED
    BY <1>1, <2>1 DEF SubsTyped
<1>4. CustomersKnown'
  <2>1. \A d \in Customer : stripeCustomers[d] \in User => stripeCustomers'[d] \in User
    BY <1>1 DEF SubsTyped
  <2>2. stripeCustomers'[c] \in User
    BY <1>1 DEF SubsTyped
  <2>3. \A f \in events : f.type = "customer" => f.customer \in Customer
    BY <1>1, EventFacts DEF SubsTyped
  <2> QED
    BY <1>1, <1>2, <2>1, <2>2, <2>3 DEF SubsIInv, CustomersKnown, Exists
<1>5. CustomersCounted'
  <2>1. \A v \in User : IsFiniteSet(CustomersOf(v)) /\ Cardinality(CustomersOf(v)) <= Limit(v)
    BY CountFacts DEF SubsIInv
  <2>2. /\ CustomersOf(u)' = CustomersOf(u) \cup {c} /\ c \notin CustomersOf(u)
        /\ \A v \in User : v # u => CustomersOf(v)' = CustomersOf(v)
    BY <1>1, NamesAssumption DEF CustomersOf, SubsTyped
  <2>3. /\ Limit(u) = deaths /\ Limit(u)' = deaths + 1 /\ deaths \in Nat
        /\ \A v \in User : Limit(v) \in Nat /\ Limit(v)' \in Nat
        /\ \A v \in User : v # u => Limit(v)' >= Limit(v)
    BY <1>1, NamesAssumption DEF Limit, SubsTyped
  <2>4. IsFiniteSet(CustomersOf(u)') /\ Cardinality(CustomersOf(u)') <= Limit(u)'
    <3>1. /\ IsFiniteSet(CustomersOf(u)')
          /\ Cardinality(CustomersOf(u)') = Cardinality(CustomersOf(u)) + 1
      BY <2>1, <2>2, FS_AddElement
    <3>2. Cardinality(CustomersOf(u)) \in Nat /\ Cardinality(CustomersOf(u)) <= Limit(u)
      BY <2>1, FS_CardinalityType
    <3> QED
      BY <3>1, <3>2, <2>3
  <2>5. ASSUME NEW v \in User, v # u
        PROVE  IsFiniteSet(CustomersOf(v)') /\ Cardinality(CustomersOf(v)') <= Limit(v)'
    <3>1. /\ IsFiniteSet(CustomersOf(v)) /\ Cardinality(CustomersOf(v)) \in Nat
          /\ Cardinality(CustomersOf(v)) <= Limit(v)
          /\ CustomersOf(v)' = CustomersOf(v)
          /\ Limit(v) \in Nat /\ Limit(v)' \in Nat /\ Limit(v)' >= Limit(v)
      BY <2>1, <2>2, <2>3, <2>5, FS_CardinalityType
    <3> QED
      BY <3>1
  <2> QED
    BY <2>4, <2>5, CountFacts
<1>6. ASSUME NEW s \in Sub PROVE SubTracked(s)'
  <2>1. About(s)' = About(s)
    BY <1>1, <1>2 DEF About
  <2> QED
    BY <1>1, <2>1, SubKept DEF SubsIInv
<1> QED
  BY <1>3, <1>4, <1>5, <1>6 DEF SubsIInv
-----------------------------------------------------------------------------
(* An event is answered or given up. *)

LEMMA AnswersLeave ==
    ASSUME NEW e, Answers(e)
    PROVE  Leaves(e) /\ e \in events /\ UNCHANGED <<stripeCustomers, stripeSubs, deaths, told>>
  BY DEF Answers, Leaves, stripeVars

\* What an event about s and its delivery leave alone, and what they must keep.
LEMMA LeavingKeeps ==
    ASSUME SubsIInv, NEW e \in events, Leaves(e),
           UNCHANGED <<stripeCustomers, stripeSubs, stripe_customers, deaths, told>>,
           subscriptions' \in [Sub -> SubRow \cup {NoRow}],
           delivered' \in [Sub -> Nat], disordered' \subseteq Sub, missed' \subseteq Sub,
           NEW s \in Sub, e \in About(s) \/ e.type \in {"customer", "checkout"},
           SubTracked(s)',
           \A t \in Sub : t # s =>
               /\ subscriptions'[t] = subscriptions[t] /\ delivered'[t] = delivered[t]
               /\ t \in disordered \cup missed => t \in disordered' \cup missed'
    PROVE  SubsIInv'
<1>1. SubsTyped /\ events' \subseteq events
  BY DEF SubsIInv, Leaves
<1>2. SubsTyped'
  BY <1>1 DEF SubsTyped
<1>3. CustomersKnown'
  BY <1>1 DEF SubsIInv, CustomersKnown, Exists
<1>4. CustomersCounted'
  BY <1>1, CountsStay DEF SubsIInv, SubsTyped
<1>5. ASSUME NEW t \in Sub, t # s PROVE SubTracked(t)'
  <2>1. About(t)' = About(t)
    BY <1>1, <1>5, LeavesFacts
  <2> QED
    BY <1>5, <2>1, SubKept DEF SubsIInv
<1> QED
  BY <1>2, <1>3, <1>4, <1>5 DEF SubsIInv

LEMMA GiveUpKeeps ==
    ASSUME SubsIInv, NEW e \in events, GiveUp(e)
    PROVE  SubsIInv'
<1>1. /\ SubsTyped /\ Leaves(e)
      /\ UNCHANGED <<stripeCustomers, stripeSubs, stripe_customers, subscriptions, deaths,
                     delivered, disordered, told>>
      /\ missed \subseteq missed'
  BY DEF SubsIInv, GiveUp, Leaves, stripeVars, rowVars
<1>2. CASE e.type \in {"created", "updated", "deleted"}
  <2>1. e.sub \in Sub /\ e \in About(e.sub) /\ Answered(e.sub, e)
    BY <1>1, <1>2, LeavesFacts
  <2>2. /\ e.sub \in missed' \/ (e.type = "created" /\ subscriptions[e.sub] # NoRow)
        /\ missed' \subseteq missed \cup {e.sub}
    BY <1>2 DEF GiveUp
  <2>3. SubTracked(e.sub)'
    BY <1>1, <2>1, <2>2, GiveUpTracks DEF SubsIInv
  <2>4. missed' \subseteq Sub
    BY <1>1, <2>1, <2>2 DEF SubsTyped
  <2> QED
    BY <1>1, <2>1, <2>3, <2>4, LeavingKeeps DEF SubsTyped
<1>3. CASE e.type \in {"customer", "checkout"}
  <2>1. missed' = missed
    BY <1>3 DEF GiveUp
  <2>2. ASSUME NEW s \in Sub PROVE SubTracked(s)'
    <3>1. About(s)' = About(s)
      BY <1>1, <1>3, LeavesFacts
    <3> QED
      BY <1>1, <2>1, <3>1, SubKept DEF SubsIInv
  <2>3. SubsTyped'
    BY <1>1, <2>1 DEF SubsTyped, Leaves
  <2>4. CustomersKnown'
    BY <1>1 DEF SubsIInv, CustomersKnown, Exists, Leaves
  <2>5. CustomersCounted'
    BY <1>1, CountsStay DEF SubsIInv, SubsTyped
  <2> QED
    BY <2>2, <2>3, <2>4, <2>5 DEF SubsIInv
<1> QED
  BY <1>1, <1>2, <1>3, EventFacts DEF SubsTyped

LEMMA HandleCustomerCreatedKeeps ==
    ASSUME SubsIInv, NEW e \in events, e.type = "customer", HandleCustomerCreated(e)
    PROVE  SubsIInv'
<1> DEFINE u == stripeCustomers[e.customer]
<1>1. /\ SubsTyped /\ Leaves(e)
      /\ UNCHANGED <<stripeCustomers, stripeSubs, subscriptions, deaths,
                     delivered, disordered, missed, told>>
      /\ stripe_customers' = [stripe_customers EXCEPT ![u] = e.customer]
  BY AnswersLeave DEF SubsIInv, HandleCustomerCreated, orderVars
<1>2. u \in User /\ e.customer \in Customer
  BY <1>1, EventFacts DEF SubsIInv, CustomersKnown, SubsTyped
<1> HIDE DEF u
<1>3. SubsTyped'
  <2>1. stripe_customers' \in [User -> Customer \cup {NoCustomer}]
    BY <1>1, <1>2 DEF SubsTyped
  <2> QED
    BY <1>1, <2>1 DEF SubsTyped, Leaves
<1>4. CustomersKnown'
  BY <1>1 DEF SubsIInv, CustomersKnown, Exists, Leaves
<1>5. CustomersCounted'
  <2>1. \A v \in User : IsFiniteSet(CustomersOf(v)) /\ Cardinality(CustomersOf(v)) <= Limit(v)
    BY CountFacts DEF SubsIInv
  <2>2. /\ \A v \in User : CustomersOf(v)' = CustomersOf(v)
        /\ \A v \in User : Limit(v) \in Nat /\ Limit(v)' \in Nat /\ Limit(v)' >= Limit(v)
    <3>1. \A v \in User : CustomersOf(v)' = CustomersOf(v)
      BY <1>1 DEF CustomersOf
    <3>2. \A v \in User : stripe_customers'[v] = NoCustomer => stripe_customers[v] = NoCustomer
      BY <1>1, <1>2, NamesAssumption DEF SubsTyped
    <3>3. deaths' = deaths /\ deaths \in Nat
      BY <1>1 DEF SubsTyped
    <3> QED
      BY <3>1, <3>2, <3>3 DEF Limit
  <2>3. ASSUME NEW v \in User
        PROVE  IsFiniteSet(CustomersOf(v)') /\ Cardinality(CustomersOf(v)') <= Limit(v)'
    <3>1. /\ IsFiniteSet(CustomersOf(v)) /\ Cardinality(CustomersOf(v)) \in Nat
          /\ Cardinality(CustomersOf(v)) <= Limit(v)
          /\ CustomersOf(v)' = CustomersOf(v)
          /\ Limit(v) \in Nat /\ Limit(v)' \in Nat /\ Limit(v)' >= Limit(v)
      BY <2>1, <2>2, FS_CardinalityType
    <3> QED
      BY <3>1
  <2> QED
    BY <2>3, CountFacts
<1>6. ASSUME NEW s \in Sub PROVE SubTracked(s)'
  <2>1. About(s)' = About(s)
    BY <1>1, LeavesFacts
  <2> QED
    BY <1>1, <2>1, SubKept DEF SubsIInv
<1> QED
  BY <1>3, <1>4, <1>5, <1>6 DEF SubsIInv

\* Whose row an event about s touches, and what the histories then say.
LEMMA DeliversFacts ==
    ASSUME SubsTyped, NEW s \in Sub, NEW at \in Nat, Delivers(s, at)
    PROVE  /\ delivered' \in [Sub -> Nat] /\ disordered' \subseteq Sub
           /\ disordered \subseteq disordered'
           /\ \A t \in Sub : t # s => delivered'[t] = delivered[t]
  BY DEF SubsTyped, Delivers

LEMMA MissesFacts ==
    ASSUME SubsTyped, NEW s \in Sub, Misses(s) \/ Finds
    PROVE  missed' \subseteq Sub /\ missed \subseteq missed' /\ (Misses(s) => s \in missed')
  BY DEF SubsTyped, Misses, Finds

\* An event about s is delivered to its row, or finds none.
LEMMA DeliveryKeeps ==
    ASSUME SubsIInv, NEW s \in Sub, NEW e \in About(s), Answers(e), Delivers(s, e.at),
           UNCHANGED stripe_customers,
           subscriptions' \in [Sub -> SubRow \cup {NoRow}],
           \A t \in Sub : t # s => subscriptions'[t] = subscriptions[t],
           \/ Misses(s) /\ subscriptions'[s] = subscriptions[s]
           \/ Finds /\ subscriptions'[s] # NoRow /\ subscriptions'[s].state = At(s, e.at)
           \/ /\ Finds /\ e.type = "deleted" /\ subscriptions[s] # NoRow
              /\ subscriptions'[s] # NoRow
              /\ subscriptions'[s].state = [subscriptions[s].state EXCEPT !.status = "canceled"]
    PROVE  SubsIInv'
<1>1. /\ SubsTyped /\ SubTracked(s) /\ e \in events /\ Leaves(e)
      /\ UNCHANGED <<stripeCustomers, stripeSubs, deaths, told>>
  BY AnswersLeave DEF SubsIInv
<1>2. e.at \in Nat /\ Answered(s, e)
  BY <1>1, EventFacts, LeavesFacts DEF About, SubsTyped
<1>3. /\ delivered' \in [Sub -> Nat] /\ disordered' \subseteq Sub
      /\ disordered \subseteq disordered'
      /\ \A t \in Sub : t # s => delivered'[t] = delivered[t]
  BY <1>1, <1>2, DeliversFacts
<1>4. missed' \subseteq Sub /\ missed \subseteq missed' /\ (Misses(s) => s \in missed')
  BY <1>1, MissesFacts
<1>5. SubTracked(s)'
  BY <1>1, <1>2, <1>4, DeliveryTracks
<1> QED
  BY <1>1, <1>3, <1>4, <1>5, LeavingKeeps

\* What a handler knows of the subscription its event is about.
LEMMA EventSubFacts ==
    ASSUME SubsIInv, NEW e \in events, e.type \in {"created", "updated", "deleted"}
    PROVE  /\ SubsTyped /\ e.sub \in Sub /\ e \in About(e.sub) /\ Exists(e.sub)
           /\ stripeSubs[e.sub].states[e.at] = At(e.sub, e.at) /\ At(e.sub, e.at) \in State
           /\ stripeSubs[e.sub].customer \in Customer
<1>1. SubsTyped /\ e \in Event
  BY DEF SubsIInv, SubsTyped
<1>2. e.sub \in Sub /\ e.at \in Nat /\ e \in About(e.sub)
  BY <1>1, EventFacts DEF About
<1>3. e.at >= 1 /\ e.at <= Age(e.sub)
  BY <1>2 DEF SubsIInv, SubTracked, EventsTrue
<1>4. Exists(e.sub) /\ At(e.sub, e.at) \in State
  BY <1>1, <1>2, <1>3, AgeFacts
<1> QED
  BY <1>1, <1>2, <1>4 DEF SubsIInv, CustomersKnown, At

LEMMA RowForFacts ==
    ASSUME NEW s \in Sub, NEW u \in User, NEW state \in State, stripeSubs[s].customer \in Customer
    PROVE  RowFor(s, u, state) \in SubRow /\ RowFor(s, u, state).state = state
  BY DEF RowFor, SubRow

LEMMA HandleSubscriptionCreatedKeeps ==
    ASSUME SubsIInv, NEW e \in events, e.type = "created", HandleSubscriptionCreated(e)
    PROVE  SubsIInv'
<1>1. PICK s \in Sub : s = e.sub
  BY EventSubFacts
<1>2. /\ SubsTyped /\ e \in About(s) /\ stripeSubs[s].customer \in Customer
      /\ stripeSubs[s].states[e.at] = At(s, e.at) /\ At(s, e.at) \in State
  BY <1>1, EventSubFacts
<1>3. Answers(e) /\ Delivers(s, e.at)
  BY <1>1 DEF HandleSubscriptionCreated
<1>4. CASE /\ \E u \in Payers(stripeSubs[s].customer) :
                subscriptions' = [subscriptions EXCEPT
                                   ![s] = RowFor(s, u, stripeSubs[s].states[e.at])]
           /\ UNCHANGED stripe_customers
           /\ Finds
  <2>1. PICK u \in User :
          subscriptions' = [subscriptions EXCEPT ![s] = RowFor(s, u, At(s, e.at))]
    BY <1>2, <1>4 DEF Payers
  <2>2. PICK row \in SubRow : row = RowFor(s, u, At(s, e.at)) /\ row.state = At(s, e.at)
    BY <1>2, RowForFacts
  <2>3. subscriptions' = [subscriptions EXCEPT ![s] = row]
    BY <2>1, <2>2
  <2>4. /\ subscriptions' \in [Sub -> SubRow \cup {NoRow}]
        /\ subscriptions'[s] = row /\ row # NoRow
        /\ \A t \in Sub : t # s => subscriptions'[t] = subscriptions[t]
    BY <1>2, <2>3, RowWritten
  <2> QED
    BY <1>2, <1>3, <1>4, <2>2, <2>4, DeliveryKeeps
<1>5. CASE Misses(s)
  <2>1. /\ UNCHANGED <<stripe_customers, subscriptions>>
        /\ subscriptions' \in [Sub -> SubRow \cup {NoRow}]
    BY <1>2, <1>5 DEF Misses, rowVars, SubsTyped
  <2> QED
    BY <1>2, <1>3, <1>5, <2>1, DeliveryKeeps
<1> QED
  BY <1>1, <1>4, <1>5 DEF HandleSubscriptionCreated

LEMMA HandleSubscriptionUpdatedKeeps ==
    ASSUME SubsIInv, NEW e \in events, e.type = "updated", HandleSubscriptionUpdated(e)
    PROVE  SubsIInv'
<1>1. PICK s \in Sub : s = e.sub
  BY EventSubFacts
<1>2. /\ SubsTyped /\ e \in About(s)
      /\ stripeSubs[s].states[e.at] = At(s, e.at) /\ At(s, e.at) \in State
  BY <1>1, EventSubFacts
<1>3. Answers(e) /\ Delivers(s, e.at)
  BY <1>1 DEF HandleSubscriptionUpdated
<1>4. CASE subscriptions[s] # NoRow /\ WithState(s, stripeSubs[s].states[e.at]) /\ Finds
  <2>1. /\ subscriptions' \in [Sub -> SubRow \cup {NoRow}]
        /\ subscriptions'[s] # NoRow /\ subscriptions'[s].state = At(s, e.at)
        /\ \A t \in Sub : t # s => subscriptions'[t] = subscriptions[t]
        /\ UNCHANGED stripe_customers
    BY <1>2, <1>4, StateWritten
  <2> QED
    BY <1>2, <1>3, <1>4, <2>1, DeliveryKeeps
<1>5. CASE Misses(s)
  <2>1. /\ UNCHANGED <<stripe_customers, subscriptions>>
        /\ subscriptions' \in [Sub -> SubRow \cup {NoRow}]
    BY <1>2, <1>5 DEF Misses, rowVars, SubsTyped
  <2> QED
    BY <1>2, <1>3, <1>5, <2>1, DeliveryKeeps
<1> QED
  BY <1>1, <1>4, <1>5 DEF HandleSubscriptionUpdated

LEMMA HandleSubscriptionDeletedKeeps ==
    ASSUME SubsIInv, NEW e \in events, e.type = "deleted", HandleSubscriptionDeleted(e)
    PROVE  SubsIInv'
<1>1. PICK s \in Sub : s = e.sub
  BY EventSubFacts
<1>2. SubsTyped /\ e \in About(s)
  BY <1>1, EventSubFacts
<1>3. Answers(e) /\ Delivers(s, e.at)
  BY <1>1 DEF HandleSubscriptionDeleted
<1>4. CASE /\ subscriptions[s] # NoRow
           /\ WithState(s, [subscriptions[s].state EXCEPT !.status = "canceled"])
           /\ Finds
  <2>1. subscriptions[s].state \in State
    BY <1>2, <1>4 DEF SubsTyped, SubRow
  <2>2. PICK state \in State :
          state = [subscriptions[s].state EXCEPT !.status = "canceled"]
    BY <2>1 DEF State, Status
  <2>3. /\ subscriptions' \in [Sub -> SubRow \cup {NoRow}]
        /\ subscriptions'[s] # NoRow /\ subscriptions'[s].state = state
        /\ \A t \in Sub : t # s => subscriptions'[t] = subscriptions[t]
        /\ UNCHANGED stripe_customers
    BY <1>2, <1>4, <2>2, StateWritten
  <2> QED
    BY <1>2, <1>3, <1>4, <2>2, <2>3, DeliveryKeeps
<1>5. CASE Misses(s)
  <2>1. /\ UNCHANGED <<stripe_customers, subscriptions>>
        /\ subscriptions' \in [Sub -> SubRow \cup {NoRow}]
    BY <1>2, <1>5 DEF Misses, rowVars, SubsTyped
  <2> QED
    BY <1>2, <1>3, <1>5, <2>1, DeliveryKeeps
<1> QED
  BY <1>1, <1>4, <1>5 DEF HandleSubscriptionDeleted

\* The row takes the present state of the subscription, or stays.
LEMMA HandleCheckoutCompletedKeeps ==
    ASSUME SubsIInv, NEW e \in events, e.type = "checkout", HandleCheckoutCompleted(e)
    PROVE  SubsIInv'
<1>1. /\ SubsTyped /\ Leaves(e)
      /\ UNCHANGED <<stripeCustomers, stripeSubs, deaths, told>>
      /\ UNCHANGED <<delivered, disordered, missed>> /\ UNCHANGED orderVars
  BY AnswersLeave DEF SubsIInv, HandleCheckoutCompleted, orderVars
<1>2. PICK s \in Sub : s = e.sub
  BY <1>1, EventFacts DEF SubsTyped
<1>3. Exists(s) /\ SubTracked(s) /\ stripeSubs[s].customer \in Customer
  BY <1>2 DEF SubsIInv, CustomersKnown
<1>4. Age(s) >= 1 /\ Now(s) = At(s, Age(s)) /\ Now(s) \in State
  BY <1>1, <1>3, AgeFacts
<1>5. About(s)' = About(s)
  BY <1>1, LeavesFacts
<1>6. CASE UNCHANGED rowVars
  <2>1. /\ UNCHANGED <<stripe_customers, subscriptions>>
        /\ subscriptions' \in [Sub -> SubRow \cup {NoRow}]
    BY <1>1, <1>6 DEF rowVars, SubsTyped
  <2>2. SubTracked(s)'
    BY <1>1, <1>3, <1>5, <2>1, SubKept
  <2> QED
    BY <1>1, <2>1, <2>2, LeavingKeeps DEF SubsTyped
<1>7. CASE ~ UNCHANGED rowVars
  <2>1. /\ subscriptions' \in [Sub -> SubRow \cup {NoRow}]
        /\ subscriptions'[s] # NoRow /\ subscriptions'[s].state = Now(s)
        /\ \A t \in Sub : t # s => subscriptions'[t] = subscriptions[t]
        /\ UNCHANGED stripe_customers
    <3>1. CASE subscriptions[s] # NoRow /\ WithState(s, Now(s))
      BY <1>1, <1>4, <3>1, StateWritten
    <3>2. CASE /\ \E u \in Payers(stripeSubs[s].customer) :
                    subscriptions' = [subscriptions EXCEPT ![s] = RowFor(s, u, Now(s))]
               /\ UNCHANGED stripe_customers
      <4>1. PICK u \in User : subscriptions' = [subscriptions EXCEPT ![s] = RowFor(s, u, Now(s))]
        BY <3>2 DEF Payers
      <4>2. PICK row \in SubRow : row = RowFor(s, u, Now(s)) /\ row.state = Now(s)
        BY <1>3, <1>4, RowForFacts
      <4> QED
        BY <1>1, <3>2, <4>1, <4>2, RowWritten
    <3> QED
      BY <1>2, <1>7, <3>1, <3>2 DEF HandleCheckoutCompleted
  <2>2. SubTracked(s)'
    BY <1>1, <1>3, <1>4, <1>5, <2>1, RefreshTracks
  <2> QED
    BY <1>1, <2>1, <2>2, LeavingKeeps DEF SubsTyped
<1> QED
  BY <1>6, <1>7

LEMMA WebhookKeeps ==
    ASSUME SubsIInv, NEW e \in events, Webhook(e)
    PROVE  SubsIInv'
  BY HandleCustomerCreatedKeeps, HandleSubscriptionCreatedKeeps, HandleSubscriptionUpdatedKeeps,
     HandleSubscriptionDeletedKeeps, HandleCheckoutCompletedKeeps DEF Webhook
-----------------------------------------------------------------------------
(* The invariant, and what follows. *)

LEMMA SubsBegin == Init => SubsIInv
<1> SUFFICES ASSUME Init PROVE SubsIInv
  OBVIOUS
<1>1. /\ stripeCustomers = [c \in Customer |-> NoUser]
      /\ stripe_customers = [u \in User |-> NoCustomer]
      /\ subscriptions = [s \in Sub |-> NoRow] /\ events = {} /\ deaths = 0
      /\ delivered = [s \in Sub |-> 0] /\ disordered = {} /\ missed = {}
      /\ told = [s \in Sub |-> "nothing"]
  BY DEF Init
<1>2. \A s \in Sub : /\ stripeSubs[s].states = <<>>
                     /\ stripeSubs[s].customer = NoCustomer
  BY DEF Init
<1>3. SubsTyped
  <2>1. [customer |-> NoCustomer, states |-> <<>>] \in StripeSub
    BY DEF StripeSub
  <2>2. stripeSubs \in [Sub -> StripeSub]
    BY <2>1 DEF Init
  <2> QED
    BY <1>1, <2>2 DEF SubsTyped
<1>4. CustomersKnown
  BY <1>1, <1>2 DEF CustomersKnown, Exists
<1>5. CustomersCounted
  <2>1. \A u \in User : CustomersOf(u) = {} /\ Limit(u) = 0
    BY <1>1, NamesAssumption DEF CustomersOf, Limit
  <2>2. IsFiniteSet({}) /\ Cardinality({}) = 0
    BY FS_EmptySet
  <2>3. \A u \in User : IsFiniteSet(CustomersOf(u)) /\ Cardinality(CustomersOf(u)) <= Limit(u)
    BY <2>1, <2>2
  <2> QED
    BY <2>3, CountFacts
<1>6. ASSUME NEW s \in Sub PROVE SubTracked(s)
  <2>1. Age(s) = 0 /\ About(s) = {}
    BY <1>1, <1>2 DEF Age, About
  <2>2. delivered[s] = 0 /\ subscriptions[s] = NoRow
    BY <1>1
  <2>3. EventsTrue(s)
    BY <2>1 DEF EventsTrue
  <2>4. RowBacked(s)
    BY <2>1, <2>2 DEF RowBacked
  <2>5. RowFresh(s)
    BY <2>1, <2>2 DEF RowFresh
  <2> QED
    BY <2>3, <2>4, <2>5 DEF SubTracked
<1> QED
  BY <1>3, <1>4, <1>5, <1>6 DEF SubsIInv

LEMMA SubsStutter ==
    ASSUME SubsIInv, UNCHANGED vars
    PROVE  SubsIInv'
<1>1. UNCHANGED <<stripeCustomers, stripeSubs, stripe_customers, subscriptions, events, deaths,
                  delivered, disordered, missed, told>>
  BY DEF vars, stripeVars, rowVars, orderVars
<1>2. SubsTyped'
  BY <1>1 DEF SubsIInv, SubsTyped
<1>3. CustomersKnown'
  BY <1>1 DEF SubsIInv, CustomersKnown, Exists
<1>4. CustomersCounted'
  BY <1>1 DEF SubsIInv, CustomersCounted
<1>5. \A s \in Sub : About(s)' = About(s)
  BY <1>1 DEF About
<1>6. \A s \in Sub : SubTracked(s)'
  BY <1>1, <1>5, SubKept DEF SubsIInv
<1> QED
  BY <1>2, <1>3, <1>4, <1>6 DEF SubsIInv

LEMMA SubsStep == SubsIInv /\ [Next]_vars => SubsIInv'
<1> SUFFICES ASSUME SubsIInv, [Next]_vars PROVE SubsIInv'
  OBVIOUS
<1>1. CASE UNCHANGED vars
  BY <1>1, SubsStutter
<1>2. CASE \E u \in User, c \in Customer : CreateCustomer(u, c)
  BY <1>2, CreateCustomerKeeps
<1>3. CASE \E u \in User, s \in Sub : PayCheckout(u, s)
  BY <1>3, PayCheckoutKeeps
<1>4. CASE \E u \in User, s \in Sub, state \in State : CreateSubscription(u, s, state)
  BY <1>4, CreateSubscriptionKeeps
<1>5. CASE \E s \in Sub : CancelSubscription(s) \/ PeriodEnds(s)
  BY <1>5, CancelSubscriptionKeeps, StripeMovesKeep
<1>6. CASE \E s \in Sub, b \in BOOLEAN : UpdateAutoRenewal(s, b)
  BY <1>6, UpdateAutoRenewalKeeps
<1>7. CASE \E s \in Sub, state \in State : StripeUpdates(s, state)
  BY <1>7, StripeMovesKeep
<1>8. CASE \E e \in events : Webhook(e) \/ GiveUp(e)
  BY <1>8, WebhookKeeps, GiveUpKeeps
<1> QED
  BY <1>1, <1>2, <1>3, <1>4, <1>5, <1>6, <1>7, <1>8 DEF Next

LEMMA SubsAlways == Spec => []SubsIInv
  BY SubsBegin, SubsStep, PTL DEF Spec

\* Every customer, subscription, row and event stays one of those the code can
\* write, whatever order the handlers, the webhooks and Stripe itself come in.
THEOREM SubscriptionsTypeCorrect == Spec => []TypeOK
<1>1. ASSUME SubsIInv PROVE TypeOK
  <2>1. SubsTyped
    BY <1>1 DEF SubsIInv
  <2>2. ASSUME NEW s \in Sub PROVE ToSet(stripeSubs[s].states) \subseteq State
    <3>1. PICK states \in Seq(State) : states = stripeSubs[s].states
      BY <2>1 DEF SubsTyped, StripeSub
    <3>2. \A k \in DOMAIN states : states[k] \in State
      BY <3>1
    <3> QED
      BY <3>1, <3>2 DEF ToSet
  <2>3. \A s \in Sub : stripeSubs[s].states # <<>> => stripeSubs[s].customer \in Customer
    BY <1>1 DEF SubsIInv, CustomersKnown, Exists
  <2>4. \A s \in Sub : /\ ToSet(stripeSubs[s].states) \subseteq State
                       /\ stripeSubs[s].states # <<>> => stripeSubs[s].customer \in Customer
    BY <2>2, <2>3
  <2> QED
    BY <2>1, <2>4 DEF SubsTyped, TypeOK, SubRow
<1> QED
  BY <1>1, SubsAlways, PTL

LEMMA QuietAgrees ==
    ASSUME SubsIInv, NEW s \in Sub \ (disordered \cup missed), Exists(s), About(s) = {}
    PROVE  subscriptions[s] # NoRow /\ subscriptions[s].state = Now(s)
<1>1. SubsTyped /\ RowFresh(s)
  BY DEF SubsIInv, SubTracked
<1>2. PICK n \in Nat : n = Age(s) /\ n >= 1 /\ Now(s) = At(s, n)
  BY <1>1, AgeFacts
<1>3. delivered[s] \in Nat
  BY <1>1 DEF SubsTyped
<1>4. \A k \in Nat : ~ Pending(s, k)
  BY DEF Pending
<1>5. subscriptions[s] # NoRow
  BY <1>1, <1>2, <1>4 DEF RowFresh
<1>6. PICK m \in 1 .. n : m >= delivered[s] /\ subscriptions[s].state = At(s, m)
  BY <1>1, <1>2, <1>4, <1>5 DEF RowFresh
<1>7. m = n
  <2>1. CASE n = 1
    BY <2>1
  <2>2. CASE n > 1
    <3>1. n \in 2 .. n
      BY <2>2
    <3>2. n <= delivered[s]
      BY <1>1, <1>2, <1>4, <3>1 DEF RowFresh
    <3> QED
      BY <1>3, <1>6, <3>2
  <2> QED
    BY <1>2, <2>1, <2>2
<1> QED
  BY <1>2, <1>5, <1>6, <1>7

\* Once every event about a subscription is answered its row is as Stripe's,
\* unless an event came too late, found no row or was given up; and a user has
\* at Stripe no more customers than one and those of the requests that died.
THEOREM RowsAgreeWithStripe == Spec => []RowsAgreeWhenQuiet
<1>1. ASSUME SubsIInv PROVE RowsAgreeWhenQuiet
  <2>1. \A u \in User : Cardinality(CustomersOf(u)) <= 1 + deaths
    <3> TAKE u \in User
    <3>1. /\ IsFiniteSet(CustomersOf(u)) /\ Cardinality(CustomersOf(u)) \in Nat
          /\ Cardinality(CustomersOf(u)) <= Limit(u)
      BY <1>1, CountFacts, FS_CardinalityType DEF SubsIInv
    <3>2. deaths \in Nat /\ Limit(u) \in Nat /\ Limit(u) <= 1 + deaths
      BY <1>1 DEF SubsIInv, SubsTyped, Limit
    <3> QED
      BY <3>1, <3>2
  <2> QED
    BY <1>1, <2>1, QuietAgrees DEF RowsAgreeWhenQuiet, CustomersOf
<1> QED
  BY <1>1, SubsAlways, PTL

\* Only the event of an older state, come after a newer one or before the
\* cancellation's, shows a canceled subscription as live.
LEMMA CanceledStep ==
    ASSUME SubsIInv, [Next]_vars, NEW s \in Sub,
           subscriptions[s] # NoRow, subscriptions[s].state.status = "canceled",
           subscriptions'[s].state.status # "canceled"
    PROVE  \/ s \in disordered' \cup missed'
           \/ \E e \in events' : e.type = "deleted" /\ e.sub = s
<1>1. /\ SubsTyped /\ EventsTrue(s) /\ RowBacked(s) /\ RowFresh(s)
      /\ subscriptions'[s] # subscriptions[s]
  BY DEF SubsIInv, SubTracked
<1>2. PICK n \in Nat : n = Age(s) /\ n >= 1 /\ Now(s) = At(s, n) /\ Exists(s)
  BY <1>1, AgeFacts DEF RowBacked
<1>3. At(s, n).status = "canceled" /\ Now(s).status = "canceled" /\ n \in 1 .. n /\ n > 1
  BY <1>1, <1>2 DEF RowBacked, EventsTrue
<1>4. PICK e \in events : Webhook(e)
  <2>1. ~ UNCHANGED subscriptions
    BY <1>1
  <2>2. \A t \in Sub : \A state, type : Becomes(t, state, type) => t # s
    BY <1>3 DEF Becomes
  <2>3. ASSUME NEW u \in User, NEW t \in Sub, NEW state \in State, CreateSubscription(u, t, state)
        PROVE  FALSE
    <3>1. t # s
      BY <2>3, <1>2 DEF CreateSubscription, Opens
    <3> QED
      BY <1>1, <2>1, <2>3, <3>1 DEF CreateSubscription, Commits, rowVars, SubsTyped
  <2>4. ASSUME NEW t \in Sub, CancelSubscription(t) PROVE FALSE
    <3>1. t # s
      BY <2>2, <2>4 DEF CancelSubscription
    <3> QED
      BY <1>1, <2>1, <2>4, <3>1 DEF CancelSubscription, Commits, WithState, rowVars, SubsTyped
  <2>5. ASSUME NEW t \in Sub, NEW b \in BOOLEAN, UpdateAutoRenewal(t, b) PROVE FALSE
    <3>1. t # s
      BY <2>5 DEF UpdateAutoRenewal
    <3> QED
      BY <1>1, <2>1, <2>5, <3>1 DEF UpdateAutoRenewal, Commits, WithState, rowVars, SubsTyped
  <2>6. ASSUME NEW u \in User, NEW c \in Customer, CreateCustomer(u, c) PROVE FALSE
    BY <2>1, <2>6 DEF CreateCustomer, Commits, rowVars
  <2>7. ASSUME NEW u \in User, NEW t \in Sub, PayCheckout(u, t) PROVE FALSE
    BY <2>1, <2>7 DEF PayCheckout, rowVars
  <2>8. ASSUME NEW t \in Sub, PeriodEnds(t) PROVE FALSE
    BY <2>1, <2>8 DEF PeriodEnds, rowVars
  <2>9. ASSUME NEW t \in Sub, NEW state \in State, StripeUpdates(t, state) PROVE FALSE
    BY <2>1, <2>9 DEF StripeUpdates, rowVars
  <2>10. ASSUME NEW e \in events, GiveUp(e) PROVE FALSE
    BY <2>1, <2>10 DEF GiveUp, rowVars
  <2>11. ~ UNCHANGED vars
    BY <2>1 DEF vars, rowVars
  <2> QED
    BY <2>3, <2>4, <2>5, <2>6, <2>7, <2>8, <2>9, <2>10, <2>11 DEF Next
<1>5. ~ UNCHANGED subscriptions
  BY <1>1
<1>6. ~ (e.type = "customer" /\ HandleCustomerCreated(e))
  BY <1>5 DEF HandleCustomerCreated
<1>7. ~ (e.type = "created" /\ HandleSubscriptionCreated(e))
  <2> SUFFICES ASSUME e.type = "created", HandleSubscriptionCreated(e) PROVE FALSE
    OBVIOUS
  <2>1. e.sub # s /\ e.sub \in Sub
    BY EventSubFacts DEF HandleSubscriptionCreated
  <2> QED
    BY <1>1, <1>5, <2>1 DEF HandleSubscriptionCreated, Misses, rowVars, SubsTyped
<1>8. ~ (e.type = "deleted" /\ HandleSubscriptionDeleted(e))
  <2> SUFFICES ASSUME e.type = "deleted", HandleSubscriptionDeleted(e) PROVE FALSE
    OBVIOUS
  <2>1. PICK t \in Sub : t = e.sub
    BY EventSubFacts
  <2>2. /\ subscriptions[t] # NoRow
        /\ WithState(t, [subscriptions[t].state EXCEPT !.status = "canceled"])
    BY <1>5, <2>1 DEF HandleSubscriptionDeleted, Misses, rowVars
  <2>3. subscriptions[t].state \in State
    BY <1>1, <2>2 DEF SubsTyped, SubRow
  <2> DEFINE state == [subscriptions[t].state EXCEPT !.status = "canceled"]
  <2>4. state \in State /\ state.status = "canceled" /\ WithState(t, state)
    BY <2>2, <2>3 DEF State, Status
  <2> HIDE DEF state
  <2> QED
    BY <1>1, <2>2, <2>4, StateWritten
<1>9. ~ (e.type = "checkout" /\ HandleCheckoutCompleted(e))
  <2> SUFFICES ASSUME e.type = "checkout", HandleCheckoutCompleted(e) PROVE FALSE
    OBVIOUS
  <2>1. PICK t \in Sub : t = e.sub /\ Exists(t)
    BY <1>1, EventFacts DEF SubsTyped, SubsIInv, CustomersKnown
  <2>2. Now(t) \in State
    BY <1>1, <2>1, AgeFacts
  <2>3. CASE subscriptions[t] # NoRow /\ WithState(t, Now(t))
    BY <1>1, <1>3, <2>2, <2>3, StateWritten
  <2>4. CASE subscriptions[t] = NoRow
    <3>1. t # s
      BY <2>4
    <3> QED
      BY <1>1, <1>5, <2>1, <2>4, <3>1 DEF HandleCheckoutCompleted, rowVars, SubsTyped
  <2> QED
    BY <1>5, <2>1, <2>3, <2>4 DEF HandleCheckoutCompleted, rowVars
<1>10. e.type = "updated" /\ HandleSubscriptionUpdated(e)
  BY <1>4, <1>6, <1>7, <1>8, <1>9 DEF Webhook
<1>11. e.sub = s
  <2> SUFFICES ASSUME e.sub # s PROVE FALSE
    OBVIOUS
  <2>1. e.sub \in Sub
    BY <1>10, EventSubFacts
  <2> QED
    BY <1>1, <1>5, <1>10, <2>1
    DEF HandleSubscriptionUpdated, WithState, Misses, rowVars, SubsTyped
<1>12. e \in About(s) /\ Answers(e) /\ Delivers(s, e.at) /\ (Finds \/ Misses(s))
  BY <1>10, <1>11, EventSubFacts DEF HandleSubscriptionUpdated
<1>13. PICK a \in 1 .. n : a = e.at
  <2>1. e \in Event
    BY <1>1 DEF SubsTyped
  <2>2. e.at \in Nat
    BY <2>1, <1>10, EventFacts
  <2>3. e.at >= 1 /\ e.at <= n
    BY <1>1, <1>2, <1>12 DEF EventsTrue
  <2> QED
    BY <2>2, <2>3
<1>14. PICK d \in Nat : d = delivered[s]
  BY <1>1 DEF SubsTyped
<1>15. CASE s \notin disordered' \cup missed'
  <2>1. a >= d /\ s \notin disordered \cup missed
    BY <1>12, <1>13, <1>14, <1>15 DEF Delivers, Finds, Misses
  <2>2. a # n
    BY <1>1, <1>3, <1>10, <1>12, <1>13 DEF EventsTrue
  <2>3. Pending(s, n)
    <3>1. n \in 2 .. n
      BY <1>3
    <3>2. Pending(s, n) \/ n <= d
      BY <1>1, <1>2, <1>14, <2>1, <3>1 DEF RowFresh
    <3> QED
      BY <2>1, <2>2, <3>2
  <2>4. PICK f \in About(s) : f.at = n
    BY <2>3 DEF Pending
  <2>5. f.type = "deleted" /\ f # e /\ f \in events /\ f.sub = s
    BY <1>1, <1>3, <1>10, <2>4 DEF EventsTrue, About
  <2> QED
    BY <1>12, <2>5 DEF Answers
<1> QED
  BY <1>15

\* A canceled subscription is shown as live again only until the event of its
\* cancellation arrives, or because that event or a later one went wrong.
THEOREM CanceledSubscriptionsStay == Spec => CanceledStaysCanceled
<1>1. ASSUME SubsIInv, [Next]_vars
      PROVE  [\A s \in Sub :
                /\ subscriptions[s] # NoRow /\ subscriptions[s].state.status = "canceled"
                /\ subscriptions'[s].state.status # "canceled"
                => \/ s \in disordered' \cup missed'
                   \/ \E e \in events' : e.type = "deleted" /\ e.sub = s]_vars
  BY <1>1, CanceledStep
<1> QED
  BY <1>1, SubsAlways, PTL DEF Spec, CanceledStaysCanceled
-----------------------------------------------------------------------------
(* Invoices, products and prices. *)

Bill == [status : Statuses \ {"draft"}, deleted : BOOLEAN]
Charge == [period : Period, paid : BOOLEAN]

BillsTyped ==
    /\ stripeInvoices \in [Invoice -> Statuses \cup {"none"}]
    /\ offers \in [Invoice -> 0 .. MaxOffers]
    /\ charges \in Seq(Charge)
    /\ stripe_products \subseteq stripeProducts /\ stripeProducts \subseteq Product
    /\ stripe_prices \subseteq stripe_products
    /\ invoices \in [Invoice -> Bill \cup {NoBill}]
    /\ notices \subseteq Notice
    /\ mishaps \in 0 .. MaxMishaps
    /\ torn \subseteq Invoice \cup Product

PaidNotice(i) == [type |-> "invoice.paid", of |-> i]
PriceNotice(q) == [type |-> "price.created", of |-> q]

\* What an event says has happened at Stripe; an invoice that is not finalised has
\* no row.
NoticesAreTrue ==
    /\ \A n \in notices : /\ n.type = "invoice.paid" => stripeInvoices[n.of] = "paid"
                          /\ n.type # "invoice.paid" => n.of \in stripeProducts
    /\ \A i \in Invoice : stripeInvoices[i] \in {"none", "draft"} => invoices[i] = NoBill

\* Where nothing died, the row is as Stripe's or the event that makes it so is to
\* come.
RowsFollow ==
    /\ \A i \in Invoice \ torn :
         /\ stripeInvoices[i] # "none" => invoices[i] # NoBill
         /\ Billed(i) => \/ invoices[i].status = stripeInvoices[i]
                         \/ stripeInvoices[i] = "paid" /\ PaidNotice(i) \in notices
    /\ \A q \in stripeProducts \ torn : q \in stripe_prices \/ PriceNotice(q) \in notices

InvoicesIInv == BillsTyped /\ NoticesAreTrue /\ RowsFollow

LEMMA BillsDiffer ==
    /\ NoBill \notin Bill
    /\ \A b \in Bill : b.status \in Statuses /\ b.status # "draft" /\ b.deleted \in BOOLEAN
    /\ \A i \in Invoice : PaidNotice(i) \in Notice /\ PaidNotice(i).type = "invoice.paid"
                          /\ PaidNotice(i).of = i
    /\ \A n \in Notice : n.type = "invoice.paid" => n.of \in Invoice /\ n = PaidNotice(n.of)
    /\ \A n \in Notice : n.type # "invoice.paid" => n.of \in Product
    /\ \A n \in Notice : n.type = "price.created" => n = PriceNotice(n.of)
    /\ \A n \in Notice : n.type \in {"invoice.paid", "product.created", "price.created"}
<1>1. NoBill \notin Bill
  BY DEF NoBill, Bill, Statuses
<1>2. /\ \A i \in Invoice : PaidNotice(i) \in Notice /\ PaidNotice(i).type = "invoice.paid"
                            /\ PaidNotice(i).of = i
      /\ \A n \in Notice : n.type = "invoice.paid" => n.of \in Invoice /\ n = PaidNotice(n.of)
      /\ \A n \in Notice : n.type # "invoice.paid" => n.of \in Product
      /\ \A n \in Notice : n.type = "price.created" => n = PriceNotice(n.of)
  BY DEF Notice, PaidNotice, PriceNotice
<1>3. \A n \in Notice : n.type \in {"invoice.paid", "product.created", "price.created"}
  BY DEF Notice
<1> QED
  BY <1>1, <1>2, <1>3 DEF Bill

LEMMA InvoicesBegin == InvoicesInit => InvoicesIInv
<1> SUFFICES ASSUME InvoicesInit PROVE InvoicesIInv
  OBVIOUS
<1>1. BillsTyped
  BY InvoicesAssumption DEF InvoicesInit, BillsTyped
<1>2. NoticesAreTrue /\ RowsFollow
  BY DEF InvoicesInit, NoticesAreTrue, RowsFollow, Billed, NoBill
<1> QED
  BY <1>1, <1>2 DEF InvoicesIInv

\* A charge is of a period.
LEMMA ChargedTyped ==
    ASSUME BillsTyped, NEW p \in Period, NEW paid \in BOOLEAN, Charged(p, paid)
    PROVE  charges' \in Seq(Charge)
<1>1. [period |-> p, paid |-> paid] \in Charge
  BY DEF Charge
<1> QED
  <2>1. charges' = Append(charges, [period |-> p, paid |-> paid])
    BY DEF Charged
  <2>2. charges \in Seq(Charge)
    BY DEF BillsTyped
  <2> QED
    BY <1>1, <2>1, <2>2

\* One row is written, or the request died and says so.
BillWritten(i, bill) ==
    \/ /\ UNCHANGED <<mishaps, torn, stripe_products, stripe_prices>>
       /\ invoices' = [invoices EXCEPT ![i] = bill]
    \/ /\ UNCHANGED inRows
       /\ mishaps < MaxMishaps /\ mishaps' = mishaps + 1 /\ torn' = torn \cup {i}

\* An invoice moves at Stripe, and its row with it; the other invoices do not.
LEMMA BillWrittenKeeps ==
    ASSUME InvoicesIInv, NEW i \in Invoice, NEW bill \in Bill, NEW now \in Statuses \ {"draft"},
           stripeInvoices' = [stripeInvoices EXCEPT ![i] = now],
           BillWritten(i, bill), bill.deleted \/ bill.status = now,
           offers' \in [Invoice -> 0 .. MaxOffers], charges' \in Seq(Charge),
           UNCHANGED stripeProducts,
           \/ UNCHANGED notices
           \/ now = "paid" /\ notices' = notices \cup {PaidNotice(i)},
           stripeInvoices[i] = "paid" => now = "paid"
    PROVE  InvoicesIInv'
<1> USE DEF InvoicesIInv
<1>1. /\ stripeInvoices'[i] = now
      /\ \A j \in Invoice : j # i => stripeInvoices'[j] = stripeInvoices[j]
      /\ stripeInvoices' \in [Invoice -> Statuses \cup {"none"}]
  BY DEF BillsTyped
<1>2. /\ invoices' \in [Invoice -> Bill \cup {NoBill}]
      /\ \A j \in Invoice : j # i => invoices'[j] = invoices[j]
      /\ torn \subseteq torn' /\ torn' \subseteq Invoice \cup Product
      /\ i \in torn' \/ invoices'[i] = bill
      /\ UNCHANGED <<stripe_products, stripe_prices>>
      /\ mishaps' \in 0 .. MaxMishaps
  <2>1. mishaps < MaxMishaps => mishaps + 1 \in 0 .. MaxMishaps
    BY InvoicesAssumption DEF BillsTyped
  <2>2. invoices \in [Invoice -> Bill \cup {NoBill}] /\ torn \subseteq Invoice \cup Product
        /\ mishaps \in 0 .. MaxMishaps
    BY DEF BillsTyped
  <2>3. CASE /\ UNCHANGED <<mishaps, torn, stripe_products, stripe_prices>>
             /\ invoices' = [invoices EXCEPT ![i] = bill]
    BY <2>2, <2>3
  <2>4. CASE /\ UNCHANGED inRows
             /\ mishaps < MaxMishaps /\ mishaps' = mishaps + 1 /\ torn' = torn \cup {i}
    BY <2>1, <2>2, <2>4 DEF inRows
  <2> QED
    BY <2>3, <2>4 DEF BillWritten
<1>3. notices \subseteq notices' /\ notices' \subseteq Notice
  BY BillsDiffer DEF BillsTyped
<1>4. BillsTyped'
  BY <1>1, <1>2, <1>3 DEF BillsTyped
<1>5. NoticesAreTrue'
  <2>1. ASSUME NEW n \in notices'
        PROVE  /\ n.type = "invoice.paid" => stripeInvoices'[n.of] = "paid"
               /\ n.type # "invoice.paid" => n.of \in stripeProducts
    <3>1. CASE n \in notices
      <4>1. /\ n.type = "invoice.paid" => stripeInvoices[n.of] = "paid" /\ n.of \in Invoice
            /\ n.type # "invoice.paid" => n.of \in stripeProducts
        BY <3>1, BillsDiffer DEF NoticesAreTrue, BillsTyped
      <4> QED
        BY <4>1, <1>1
    <3>2. CASE n = PaidNotice(i) /\ now = "paid"
      BY <3>2, <1>1, BillsDiffer
    <3> QED
      BY <3>1, <3>2
  <2>2. \A j \in Invoice : stripeInvoices'[j] \in {"none", "draft"} => invoices'[j] = NoBill
    BY <1>1, <1>2 DEF NoticesAreTrue, Statuses
  <2> QED
    BY <2>1, <2>2 DEF NoticesAreTrue
<1>6. RowsFollow'
  <2>1. ASSUME NEW j \in Invoice, j \notin torn'
        PROVE  /\ stripeInvoices'[j] # "none" => invoices'[j] # NoBill
               /\ Billed(j)' => \/ invoices'[j].status = stripeInvoices'[j]
                                \/ stripeInvoices'[j] = "paid" /\ PaidNotice(j) \in notices'
    <3>1. CASE j = i
      BY <2>1, <3>1, <1>1, <1>2, BillsDiffer DEF Billed
    <3>2. CASE j # i
      BY <2>1, <3>2, <1>1, <1>2, <1>3 DEF Billed, RowsFollow
    <3> QED
      BY <3>1, <3>2
  <2>2. \A q \in stripeProducts \ torn' : q \in stripe_prices' \/ PriceNotice(q) \in notices'
    BY <1>2, <1>3 DEF RowsFollow
  <2> QED
    BY <2>1, <2>2 DEF RowsFollow
<1> QED
  BY <1>4, <1>5, <1>6

\* An invoice without a live row moves at Stripe.
LEMMA UnbilledKeeps ==
    ASSUME InvoicesIInv, NEW i \in Invoice, NEW now \in Statuses, ~ Billed(i),
           stripeInvoices' = [stripeInvoices EXCEPT ![i] = now],
           UNCHANGED inRows, torn \subseteq torn', torn' \subseteq Invoice \cup Product,
           mishaps' \in 0 .. MaxMishaps,
           i \in torn' \/ stripeInvoices[i] # "none",
           now = "draft" => invoices[i] = NoBill,
           offers' \in [Invoice -> 0 .. MaxOffers], charges' \in Seq(Charge),
           UNCHANGED stripeProducts,
           \/ UNCHANGED notices
           \/ now = "paid" /\ notices' = notices \cup {PaidNotice(i)},
           stripeInvoices[i] = "paid" => now = "paid"
    PROVE  InvoicesIInv'
<1> USE DEF InvoicesIInv
<1>1. /\ stripeInvoices'[i] = now
      /\ \A j \in Invoice : j # i => stripeInvoices'[j] = stripeInvoices[j]
      /\ stripeInvoices' \in [Invoice -> Statuses \cup {"none"}]
  BY DEF BillsTyped
<1>2. UNCHANGED <<invoices, stripe_products, stripe_prices>>
  BY DEF inRows
<1>3. notices \subseteq notices' /\ notices' \subseteq Notice
  BY BillsDiffer DEF BillsTyped
<1>4. BillsTyped'
  BY <1>1, <1>2, <1>3 DEF BillsTyped
<1>5. NoticesAreTrue'
  <2>1. ASSUME NEW n \in notices'
        PROVE  /\ n.type = "invoice.paid" => stripeInvoices'[n.of] = "paid"
               /\ n.type # "invoice.paid" => n.of \in stripeProducts
    <3>1. CASE n \in notices
      <4>1. /\ n.type = "invoice.paid" => stripeInvoices[n.of] = "paid" /\ n.of \in Invoice
            /\ n.type # "invoice.paid" => n.of \in stripeProducts
        BY <3>1, BillsDiffer DEF NoticesAreTrue, BillsTyped
      <4> QED
        BY <4>1, <1>1
    <3>2. CASE n = PaidNotice(i) /\ now = "paid"
      BY <3>2, <1>1, BillsDiffer
    <3> QED
      BY <3>1, <3>2
  <2>2. \A j \in Invoice : stripeInvoices'[j] \in {"none", "draft"} => invoices'[j] = NoBill
    BY <1>1, <1>2 DEF NoticesAreTrue, Statuses
  <2> QED
    BY <2>1, <2>2 DEF NoticesAreTrue
<1>6. RowsFollow'
  <2>1. ASSUME NEW j \in Invoice, j \notin torn'
        PROVE  /\ stripeInvoices'[j] # "none" => invoices'[j] # NoBill
               /\ Billed(j)' => \/ invoices'[j].status = stripeInvoices'[j]
                                \/ stripeInvoices'[j] = "paid" /\ PaidNotice(j) \in notices'
    <3>1. CASE j = i
      BY <2>1, <3>1, <1>1, <1>2 DEF Billed, RowsFollow
    <3>2. CASE j # i
      BY <2>1, <3>2, <1>1, <1>2, <1>3 DEF Billed, RowsFollow
    <3> QED
      BY <3>1, <3>2
  <2>2. \A q \in stripeProducts \ torn' : q \in stripe_prices' \/ PriceNotice(q) \in notices'
    BY <1>2, <1>3 DEF RowsFollow
  <2> QED
    BY <2>1, <2>2 DEF RowsFollow
<1> QED
  BY <1>4, <1>5, <1>6

LEMMA CreateInvoiceKeeps ==
    ASSUME InvoicesIInv, NEW i \in Invoice, CreateInvoice(i)
    PROVE  InvoicesIInv'
<1>1. /\ stripeInvoices[i] = "none" /\ invoices[i] = NoBill /\ ~ Billed(i)
      /\ UNCHANGED <<offers, charges, stripeProducts, notices>>
      /\ offers' \in [Invoice -> 0 .. MaxOffers] /\ charges' \in Seq(Charge)
  BY DEF CreateInvoice, InvoicesIInv, NoticesAreTrue, BillsTyped, Billed
<1>2. CASE /\ stripeInvoices' = [stripeInvoices EXCEPT ![i] = "open"]
           /\ Writes(i, BillWith(i, [status |-> "open", deleted |-> FALSE]))
  <2>1. PICK bill \in Bill : bill = [status |-> "open", deleted |-> FALSE]
    BY DEF Bill, Statuses
  <2>2. BillWritten(i, bill) /\ bill.status = "open"
    BY <1>2, <2>1 DEF Writes, BillWith, BillWritten
  <2> QED
    BY <1>1, <1>2, <2>2, BillWrittenKeeps DEF Statuses
<1>3. CASE stripeInvoices' = [stripeInvoices EXCEPT ![i] = "draft"] /\ Writes(i, FALSE)
  <2>1. /\ UNCHANGED inRows /\ torn' = torn \cup {i} /\ mishaps' \in 0 .. MaxMishaps
        /\ torn' \subseteq Invoice \cup Product /\ torn \subseteq torn'
    BY <1>3, InvoicesAssumption DEF Writes, InvoicesIInv, BillsTyped
  <2> QED
    BY <1>1, <1>3, <2>1, UnbilledKeeps DEF Statuses
<1> QED
  BY <1>2, <1>3 DEF CreateInvoice

LEMMA UpdateInvoiceStatusKeeps ==
    ASSUME InvoicesIInv, NEW i \in Invoice, NEW status \in Statuses, NEW p \in Period,
           UpdateInvoiceStatus(i, status, p)
    PROVE  InvoicesIInv'
<1>1. /\ stripeInvoices' = [stripeInvoices EXCEPT ![i] = status]
      /\ \/ UNCHANGED notices
         \/ status = "paid" /\ notices' = notices \cup {PaidNotice(i)}
      /\ charges' \in Seq(Charge) /\ offers' \in [Invoice -> 0 .. MaxOffers]
      /\ UNCHANGED stripeProducts
      /\ stripeInvoices[i] # "none"
      /\ stripeInvoices[i] = "paid" => status = "paid"
      /\ status = "draft" => stripeInvoices[i] = "draft"
  <2>1. UNCHANGED charges \/ Charged(p, TRUE)
    BY DEF UpdateInvoiceStatus, StripePays
  <2>2. charges' \in Seq(Charge)
    BY <2>1, ChargedTyped DEF InvoicesIInv, BillsTyped
  <2>3. stripeInvoices \in [Invoice -> Statuses \cup {"none"}]
        /\ offers' \in [Invoice -> 0 .. MaxOffers]
    BY DEF InvoicesIInv, BillsTyped, UpdateInvoiceStatus
  <2> QED
    BY <2>2, <2>3 DEF UpdateInvoiceStatus, StripePays, PaidNotice, Statuses
<1>2. CASE Billed(i) /\ Writes(i, BillWith(i, [invoices[i] EXCEPT !.status = status]))
  <2>1. invoices[i] \in Bill /\ status \in Statuses \ {"draft"}
    BY <1>1, <1>2 DEF Billed, InvoicesIInv, BillsTyped, NoticesAreTrue
  <2> DEFINE bill == [invoices[i] EXCEPT !.status = status]
  <2>2. bill \in Bill /\ bill.status = status
    BY <2>1 DEF Bill
  <2>3. BillWritten(i, bill)
    BY <1>2 DEF Writes, BillWith, BillWritten
  <2> HIDE DEF bill
  <2> QED
    BY <1>1, <2>1, <2>2, <2>3, BillWrittenKeeps
<1>3. CASE ~ Billed(i) /\ UNCHANGED <<inRows, mishaps, torn>>
  <2>1. status = "draft" => invoices[i] = NoBill
    BY <1>1 DEF InvoicesIInv, NoticesAreTrue
  <2>2. torn' = torn /\ torn' \subseteq Invoice \cup Product /\ mishaps' \in 0 .. MaxMishaps
        /\ UNCHANGED inRows
    BY <1>3 DEF InvoicesIInv, BillsTyped
  <2> QED
    BY <1>1, <1>3, <2>1, <2>2, UnbilledKeeps
<1> QED
  BY <1>2, <1>3 DEF UpdateInvoiceStatus

LEMMA DeleteInvoiceKeeps ==
    ASSUME InvoicesIInv, NEW i \in Invoice, DeleteInvoice(i)
    PROVE  InvoicesIInv'
<1>1. /\ stripeInvoices' = [stripeInvoices EXCEPT ![i] = "void"]
      /\ Billed(i) /\ stripeInvoices[i] = "open"
      /\ Writes(i, BillWith(i, [invoices[i] EXCEPT !.deleted = TRUE]))
      /\ UNCHANGED <<offers, charges, stripeProducts, notices>>
      /\ offers' \in [Invoice -> 0 .. MaxOffers] /\ charges' \in Seq(Charge)
  BY DEF DeleteInvoice, InvoicesIInv, BillsTyped
<1>2. invoices[i] \in Bill
  BY <1>1 DEF Billed, InvoicesIInv, BillsTyped
<1> DEFINE bill == [invoices[i] EXCEPT !.deleted = TRUE]
<1>3. bill \in Bill /\ bill.deleted
  BY <1>2 DEF Bill
<1>4. BillWritten(i, bill)
  BY <1>1 DEF Writes, BillWith, BillWritten
<1> HIDE DEF bill
<1> QED
  BY <1>1, <1>3, <1>4, BillWrittenKeeps DEF Statuses

\* Stripe charges: of the invoices, only that of an open one changes.
LEMMA PaymentsKeep ==
    ASSUME InvoicesIInv, NEW i \in Invoice,
           \/ OfferPayment(i)
           \/ \E p \in Period : \/ PayHosted(i, p)
                                \/ \E paid \in BOOLEAN : PayOffer(i, p, paid)
    PROVE  InvoicesIInv'
<1> USE DEF InvoicesIInv
<1>1. /\ UNCHANGED <<stripeProducts, invoices, stripe_products, stripe_prices, mishaps, torn>>
      /\ \/ UNCHANGED <<stripeInvoices, notices>>
         \/ /\ stripeInvoices[i] = "open"
            /\ stripeInvoices' = [stripeInvoices EXCEPT ![i] = "paid"]
            /\ notices' = notices \cup {PaidNotice(i)}
      /\ UNCHANGED charges \/ \E p \in Period, paid \in BOOLEAN : Charged(p, paid)
      /\ UNCHANGED offers \/ (offers[i] > 0 /\ offers' = [offers EXCEPT ![i] = @ - 1])
         \/ (offers[i] < MaxOffers /\ offers' = [offers EXCEPT ![i] = @ + 1])
  BY DEF PayHosted, PayOffer, OfferPayment, StripePays, PaidNotice, inRows
<1>2. charges' \in Seq(Charge)
  BY <1>1, ChargedTyped DEF BillsTyped
<1>3. offers' \in [Invoice -> 0 .. MaxOffers]
  <2>1. offers[i] \in 0 .. MaxOffers /\ MaxOffers \in Nat
    BY InvoicesAssumption DEF BillsTyped
  <2>2. /\ offers[i] > 0 => offers[i] - 1 \in 0 .. MaxOffers
        /\ offers[i] < MaxOffers => offers[i] + 1 \in 0 .. MaxOffers
    BY <2>1
  <2> QED
    BY <1>1, <2>2 DEF BillsTyped
<1>4. notices \subseteq notices' /\ notices' \subseteq Notice
  BY <1>1, BillsDiffer DEF BillsTyped
<1>5. /\ \A j \in Invoice : \/ stripeInvoices'[j] = stripeInvoices[j]
                            \/ /\ j = i /\ stripeInvoices[i] = "open"
                               /\ stripeInvoices'[i] = "paid" /\ PaidNotice(i) \in notices'
      /\ stripeInvoices' \in [Invoice -> Statuses \cup {"none"}]
  BY <1>1 DEF BillsTyped, Statuses
<1>6. BillsTyped'
  BY <1>1, <1>2, <1>3, <1>4, <1>5 DEF BillsTyped
<1>7. NoticesAreTrue'
  <2>1. ASSUME NEW n \in notices'
        PROVE  /\ n.type = "invoice.paid" => stripeInvoices'[n.of] = "paid"
               /\ n.type # "invoice.paid" => n.of \in stripeProducts
    <3>1. CASE n \in notices
      <4>1. /\ n.type = "invoice.paid" => stripeInvoices[n.of] = "paid" /\ n.of \in Invoice
            /\ n.type # "invoice.paid" => n.of \in stripeProducts
        BY <3>1, BillsDiffer DEF NoticesAreTrue, BillsTyped
      <4> QED
        BY <4>1, <1>5
    <3>2. CASE n \notin notices
      <4>1. n = PaidNotice(i) /\ stripeInvoices'[i] = "paid"
        BY <3>2, <1>1 DEF BillsTyped
      <4> QED
        BY <4>1, BillsDiffer
    <3> QED
      BY <3>1, <3>2
  <2> QED
    BY <2>1, <1>1, <1>5 DEF NoticesAreTrue
<1>8. RowsFollow'
  BY <1>1, <1>4, <1>5 DEF RowsFollow, Billed
<1> QED
  BY <1>6, <1>7, <1>8

LEMMA CreateProductKeeps ==
    ASSUME InvoicesIInv, NEW q \in Product, CreateProduct(q)
    PROVE  InvoicesIInv'
<1> USE DEF InvoicesIInv
<1>1. /\ UNCHANGED <<stripeInvoices, offers, charges, invoices, stripe_products, stripe_prices,
                     mishaps, torn>>
      /\ stripeProducts' = stripeProducts \cup {q}
  BY DEF CreateProduct, inRows
<1>2. /\ notices \subseteq notices' /\ notices' \subseteq Notice
      /\ \A n \in notices' \ notices : n.type # "invoice.paid" /\ n.of = q
      /\ PriceNotice(q) \in notices'
  BY DEF CreateProduct, BillsTyped, Notice, PriceNotice
<1>3. BillsTyped'
  BY <1>1, <1>2 DEF BillsTyped
<1>4. NoticesAreTrue'
  BY <1>1, <1>2 DEF NoticesAreTrue
<1>5. RowsFollow'
  BY <1>1, <1>2 DEF RowsFollow, Billed
<1> QED
  BY <1>3, <1>4, <1>5

LEMMA GiveUpNoticeKeeps ==
    ASSUME InvoicesIInv, NEW n \in notices, GiveUpNotice(n)
    PROVE  InvoicesIInv'
<1> USE DEF InvoicesIInv
<1>1. /\ UNCHANGED <<stripeInvoices, offers, charges, stripeProducts,
                     invoices, stripe_products, stripe_prices>>
      /\ notices' = notices \ {n} /\ torn' = torn \cup {n.of} /\ mishaps' \in 0 .. MaxMishaps
      /\ n \in Notice /\ n.of \in Invoice \cup Product
  BY BillsDiffer, InvoicesAssumption DEF GiveUpNotice, atStripe, inRows, BillsTyped
<1>2. BillsTyped'
  BY <1>1 DEF BillsTyped
<1>3. NoticesAreTrue'
  BY <1>1 DEF NoticesAreTrue
<1>4. RowsFollow'
  <2>1. /\ \A i : PaidNotice(i) = n => i = n.of
        /\ \A q : PriceNotice(q) = n => q = n.of
    BY DEF PaidNotice, PriceNotice
  <2> QED
    BY <1>1, <2>1 DEF RowsFollow, Billed
<1> QED
  BY <1>2, <1>3, <1>4

LEMMA TakeNoticeKeeps ==
    ASSUME InvoicesIInv, NEW n \in notices, TakeNotice(n)
    PROVE  InvoicesIInv'
<1> USE DEF InvoicesIInv
<1>1. /\ UNCHANGED <<stripeInvoices, offers, charges, stripeProducts, mishaps, torn>>
      /\ notices' \subseteq notices /\ \A m \in notices : m # n => m \in notices'
      /\ n \in Notice
  BY DEF TakeNotice, atStripe, BillsTyped
<1>2. CASE n.type = "invoice.paid" /\ HandleInvoicePaid(n.of)
  <2>1. n.of \in Invoice /\ n = PaidNotice(n.of) /\ stripeInvoices[n.of] = "paid"
    BY <1>1, <1>2, BillsDiffer DEF NoticesAreTrue
  <2>2. PICK i \in Invoice : i = n.of
    BY <2>1
  <2>3. /\ invoices' \in [Invoice -> Bill \cup {NoBill}]
        /\ \A j \in Invoice : j # i => invoices'[j] = invoices[j]
        /\ invoices'[i] = NoBill <=> invoices[i] = NoBill
        /\ Billed(i)' => invoices'[i].status = "paid"
    <3>1. invoices' = [invoices EXCEPT ![i].status = IF Billed(i) THEN "paid" ELSE @]
      BY <1>2, <2>2 DEF HandleInvoicePaid
    <3>2. CASE Billed(i)
      <4>1. invoices[i] \in Bill
        BY <3>2 DEF Billed, BillsTyped
      <4>2. [invoices[i] EXCEPT !.status = "paid"] \in Bill
            /\ [invoices[i] EXCEPT !.status = "paid"].status = "paid"
        BY <4>1 DEF Bill, Statuses
      <4>3. /\ invoices'[i] = [invoices[i] EXCEPT !.status = "paid"]
            /\ \A j \in Invoice : j # i => invoices'[j] = invoices[j]
            /\ invoices' = [j \in Invoice |-> invoices'[j]]
        BY <3>1, <3>2 DEF BillsTyped
      <4>4. \A j \in Invoice : invoices'[j] \in Bill \cup {NoBill}
        BY <4>2, <4>3 DEF BillsTyped
      <4> QED
        BY <3>2, <4>2, <4>3, <4>4, BillsDiffer DEF Billed
    <3>3. CASE ~ Billed(i)
      <4>1. invoices[i] \in Bill \/ invoices[i] = NoBill
        BY DEF BillsTyped
      <4>2. [invoices[i] EXCEPT !.status = invoices[i].status] = invoices[i]
        BY <4>1 DEF Bill, NoBill
      <4>3. /\ invoices'[i] = [invoices[i] EXCEPT !.status = invoices[i].status]
            /\ \A j \in Invoice : j # i => invoices'[j] = invoices[j]
            /\ invoices' = [j \in Invoice |-> invoices'[j]]
        BY <3>1, <3>3 DEF BillsTyped
      <4>4. \A j \in Invoice : invoices'[j] = invoices[j]
        BY <4>2, <4>3
      <4>5. invoices' \in [Invoice -> Bill \cup {NoBill}]
        BY <4>3, <4>4 DEF BillsTyped
      <4> QED
        BY <3>3, <4>4, <4>5 DEF Billed
    <3> QED
      BY <3>2, <3>3
  <2>4. UNCHANGED <<stripe_products, stripe_prices>>
    BY <1>2 DEF HandleInvoicePaid
  <2>5. BillsTyped'
    BY <1>1, <2>3, <2>4 DEF BillsTyped
  <2>6. NoticesAreTrue'
    BY <1>1, <2>3 DEF NoticesAreTrue
  <2>7. \A q : PriceNotice(q) # n
    BY <1>2 DEF PriceNotice
  <2>8. \A j \in Invoice : j # i => PaidNotice(j) # n
    BY <2>2 DEF PaidNotice
  <2>9. RowsFollow'
    <3>1. \A j \in Invoice : j # i => Billed(j)' = Billed(j)
      BY <2>3 DEF Billed
    <3>2. \A j \in Invoice \ torn :
            /\ stripeInvoices[j] # "none" => invoices'[j] # NoBill
            /\ Billed(j)' => \/ invoices'[j].status = stripeInvoices[j]
                             \/ stripeInvoices[j] = "paid" /\ PaidNotice(j) \in notices'
      BY <1>1, <2>1, <2>2, <2>3, <2>8, <3>1 DEF RowsFollow
    <3>3. \A q \in stripeProducts \ torn : q \in stripe_prices \/ PriceNotice(q) \in notices'
      BY <1>1, <2>7 DEF RowsFollow
    <3> QED
      BY <1>1, <2>4, <3>2, <3>3 DEF RowsFollow
  <2> QED
    BY <2>5, <2>6, <2>9
<1>3. CASE \/ n.type = "product.created" /\ HandleProductCreated(n.of)
           \/ n.type = "price.created" /\ HandlePriceCreated(n.of)
  <2>1. /\ invoices' = invoices
        /\ stripe_prices \subseteq stripe_prices'
        /\ stripe_prices' \subseteq stripe_products' /\ stripe_products' \subseteq stripeProducts
        /\ n.type = "price.created" => n.of \in stripe_prices'
        /\ n.type # "invoice.paid"
    BY <1>3 DEF HandleProductCreated, HandlePriceCreated, BillsTyped, NoticesAreTrue
  <2>2. /\ \A i : PaidNotice(i) # n
        /\ \A q : PriceNotice(q) = n => q = n.of /\ n.type = "price.created"
    BY <2>1 DEF PaidNotice, PriceNotice
  <2>3. BillsTyped'
    BY <1>1, <2>1 DEF BillsTyped
  <2>4. NoticesAreTrue'
    BY <1>1, <2>1 DEF NoticesAreTrue
  <2>5. RowsFollow'
    BY <1>1, <2>1, <2>2 DEF RowsFollow, Billed
  <2> QED
    BY <2>3, <2>4, <2>5
<1> QED
  BY <1>2, <1>3 DEF TakeNotice

LEMMA InvoicesStep == InvoicesIInv /\ [InvoicesNext]_billVars => InvoicesIInv'
<1> SUFFICES ASSUME InvoicesIInv, [InvoicesNext]_billVars PROVE InvoicesIInv'
  OBVIOUS
<1>1. CASE UNCHANGED billVars
  <2>1. UNCHANGED <<stripeInvoices, offers, charges, stripeProducts, invoices,
                    stripe_products, stripe_prices, notices, mishaps, torn>>
    BY <1>1 DEF billVars, atStripe, inRows
  <2> QED
    BY <2>1 DEF InvoicesIInv, BillsTyped, NoticesAreTrue, RowsFollow, Billed
<1>2. ASSUME NEW i \in Invoice, CreateInvoice(i) \/ DeleteInvoice(i)
      PROVE  InvoicesIInv'
  BY <1>2, CreateInvoiceKeeps, DeleteInvoiceKeeps
<1>3. ASSUME NEW i \in Invoice, NEW s \in Statuses, NEW p \in Period,
             UpdateInvoiceStatus(i, s, p)
      PROVE  InvoicesIInv'
  BY <1>3, UpdateInvoiceStatusKeeps
<1>4. ASSUME NEW i \in Invoice, NEW p \in Period, NEW paid \in BOOLEAN,
             PayHosted(i, p) \/ PayOffer(i, p, paid)
      PROVE  InvoicesIInv'
  BY <1>4, PaymentsKeep
<1>5. ASSUME NEW q \in Product, CreateProduct(q)
      PROVE  InvoicesIInv'
  BY <1>5, CreateProductKeeps
<1>6. ASSUME NEW n \in notices, TakeNotice(n) \/ GiveUpNotice(n)
      PROVE  InvoicesIInv'
  BY <1>6, TakeNoticeKeeps, GiveUpNoticeKeeps
<1>7. ASSUME NEW i \in Invoice, OfferPayment(i)
      PROVE  InvoicesIInv'
  BY <1>7, PaymentsKeep
<1> QED
  BY <1>1, <1>2, <1>3, <1>4, <1>5, <1>6, <1>7 DEF InvoicesNext

\* The rows of bills, products and prices are well formed: a row is never of a
\* draft, and a price never without its product.
THEOREM BillsTypeCorrect == InvoicesSpec => []InvoicesTypeOK
<1>1. InvoicesIInv => InvoicesTypeOK
  <2> SUFFICES ASSUME InvoicesIInv PROVE InvoicesTypeOK
    OBVIOUS
  <2>1. charges \in Seq(Charge)
    BY DEF InvoicesIInv, BillsTyped
  <2>2. \A k \in 1 .. Len(charges) : charges[k] \in [period : Period, paid : BOOLEAN]
    <3>1. \A k \in 1 .. Len(charges) : charges[k] \in Charge
      BY <2>1
    <3> QED
      BY <3>1 DEF Charge
  <2>3. \A i \in Invoice : invoices[i] # NoBill => invoices[i] \in Bill
    BY DEF InvoicesIInv, BillsTyped
  <2>4. \A i \in Invoice : invoices[i] # NoBill =>
          invoices[i] \in [status : Statuses \ {"draft"}, deleted : BOOLEAN]
    BY <2>3 DEF Bill
  <2>5. /\ stripeInvoices \in [Invoice -> Statuses \cup {"none"}]
        /\ offers \in [Invoice -> 0 .. MaxOffers]
        /\ stripe_products \subseteq stripeProducts /\ stripeProducts \subseteq Product
        /\ stripe_prices \subseteq stripe_products
        /\ notices \subseteq Notice /\ mishaps \in 0 .. MaxMishaps
        /\ torn \subseteq Invoice \cup Product
    BY DEF InvoicesIInv, BillsTyped
  <2> QED
    BY <2>2, <2>4, <2>5 DEF InvoicesTypeOK
<1> QED
  BY <1>1, InvoicesBegin, InvoicesStep, PTL DEF InvoicesSpec

\* Once its events have been answered, a bill is as Stripe's and a product has its
\* price, unless a request died or an event was given up.
THEOREM BillsFollowStripe == InvoicesSpec => []BillingAgreesWhenQuiet
<1>1. InvoicesIInv => BillingAgreesWhenQuiet
  <2> SUFFICES ASSUME InvoicesIInv PROVE BillingAgreesWhenQuiet
    OBVIOUS
  <2>1. /\ \A i : PaidNotice(i).of = i
        /\ \A q : PriceNotice(q).of = q
    BY DEF PaidNotice, PriceNotice
  <2> QED
    BY <2>1 DEF InvoicesIInv, RowsFollow, BillingAgreesWhenQuiet
<1> QED
  BY <1>1, InvoicesBegin, InvoicesStep, PTL DEF InvoicesSpec
-----------------------------------------------------------------------------
(***************************************************************************)
(* The reports.  A total is taken by a recursion over pages.  That it is   *)
(* the number of charges of the range rests on two facts: what is older    *)
(* than a charge is on the page that follows it or older than the page's   *)
(* last, and this last lies further back.                                  *)
(***************************************************************************)

\* How many charges of W are before a charge in the list, and on the page before it.
Before(list, W, b) == Cardinality({k \in Older(list, b) : k \in W})

OnPage(list, W, b) == Cardinality({k \in Page(list, b) : k \in W})

\* A page that is not the last holds the newest of those older than the charge
\* it starts after; the next page begins below its oldest.
LEMMA NextPage ==
    ASSUME NEW n \in Nat, NEW list \in SUBSET (1 .. n), NEW b \in 1 .. n + 1,
           Older(list, b) # Page(list, b)
    PROVE  LET m == SeenAfter(Page(list, b))
           IN  /\ m \in Page(list, b)
               /\ m \in 1 .. b - 1
               /\ \A k \in Older(list, b) : k \in Page(list, b) <=> k >= m
<1> DEFINE old == Older(list, b)
           page == Page(list, b)
           m == SeenAfter(page)
<1>1. old \subseteq 1 .. b - 1 /\ page \subseteq old /\ IsFiniteSet(old)
  <2>1. \A k \in old : k \in 1 .. n /\ k < b
    BY DEF Older
  <2>2. old \subseteq 1 .. b - 1
    <3> HIDE DEF old
    <3> QED
      BY <2>1
  <2>3. page \subseteq old
    BY DEF Page
  <2>4. IsFiniteSet(1 .. b - 1)
    BY FS_Interval
  <2> HIDE DEF old, page
  <2> QED
    BY <2>2, <2>3, <2>4, FS_Subset
<1>2. old # {}
  BY DEF Page, Older
<1>3. page # {}
  <2>1. PICK top \in old : \A k \in old : top >= k
    <3>1. old \in SUBSET Int
      BY <1>1
    <3> HIDE DEF old
    <3> QED
      BY <1>1, <1>2, <3>1, GreatestElement
  <2>2. {j \in old : top < j} = {}
    BY <1>1, <2>1
  <2>3. Cardinality({j \in old : top < j}) = 0
    BY <2>2, FS_EmptySet, Zenon
  <2>4. top \in page
    BY <2>1, <2>3, InvoicesAssumption DEF Page
  <2> QED
    BY <2>4
<1>4. m \in page /\ \A k \in page : m <= k
  <2>1. page \in SUBSET Nat
    BY <1>1
  <2> HIDE DEF page
  <2>2. \E x \in page : \A k \in page : x <= k
    BY <1>3, <2>1, LeastNatural
  <2> QED
    BY <2>2 DEF SeenAfter, Min
<1>5. ASSUME NEW k \in old, k >= m PROVE k \in page
  <2> DEFINE above(x) == {j \in old : x < j}
  <2>1. m \in Int /\ above(k) \subseteq above(m)
    BY <1>1, <1>4, <1>5
  <2>2. IsFiniteSet(above(m))
    BY <1>1, FS_Subset
  <2>3. Cardinality(above(k)) <= Cardinality(above(m)) /\ Cardinality(above(k)) \in Nat
        /\ Cardinality(above(m)) \in Nat
    <3> HIDE DEF above
    <3> QED
      BY <2>1, <2>2, FS_Subset, FS_CardinalityType
  <2>4. Cardinality(above(m)) < PageSize
    BY <1>4 DEF Page
  <2>5. Cardinality(above(k)) < PageSize
    <3> HIDE DEF above
    <3> QED
      BY <2>3, <2>4, InvoicesAssumption
  <2> QED
    BY <2>5 DEF Page
<1> QED
  BY <1>1, <1>4, <1>5

\* What is before a charge is on the page before it or before the next page.
LEMMA PageByPage ==
    ASSUME NEW n \in Nat, NEW list \in SUBSET (1 .. n), NEW W, NEW b \in 1 .. n + 1
    PROVE  /\ Before(list, W, b) \in Nat
           /\ OnPage(list, W, b) \in Nat
           /\ Older(list, b) = Page(list, b) => Before(list, W, b) = OnPage(list, W, b)
           /\ Older(list, b) # Page(list, b) =>
                LET m == SeenAfter(Page(list, b))
                IN  /\ m \in 1 .. b - 1
                    /\ Before(list, W, b) = OnPage(list, W, b) + Before(list, W, m)
<1> DEFINE old == Older(list, b)
           page == Page(list, b)
           In(S) == {k \in S : k \in W}
           m == SeenAfter(page)
<1>1. old \subseteq 1 .. n /\ page \subseteq old
  BY DEF Older, Page
<1>2. IsFiniteSet(old) /\ IsFiniteSet(page) /\ IsFiniteSet(In(old)) /\ IsFiniteSet(In(page))
  <2>1. In(old) \subseteq old /\ In(page) \subseteq page
    OBVIOUS
  <2> HIDE DEF In, old, page
  <2>2. IsFiniteSet(1 .. n)
    BY FS_Interval
  <2>3. IsFiniteSet(old)
    BY <1>1, <2>2, FS_Subset
  <2>4. IsFiniteSet(page)
    BY <1>1, <2>3, FS_Subset
  <2> QED
    BY <2>1, <2>3, <2>4, FS_Subset
<1>3. Before(list, W, b) \in Nat /\ OnPage(list, W, b) \in Nat
  BY <1>2, FS_CardinalityType DEF Before, OnPage
<1>4. old = page => Before(list, W, b) = OnPage(list, W, b)
  <2>1. old = page => In(old) = In(page)
    BY Zenon
  <2> QED
    BY <2>1, Zenon DEF Before, OnPage
<1>5. ASSUME old # page
      PROVE  m \in 1 .. b - 1 /\ Before(list, W, b) = OnPage(list, W, b) + Before(list, W, m)
  <2>1. m \in 1 .. b - 1 /\ \A k \in old : k \in page <=> k >= m
    BY <1>5, NextPage
  <2> DEFINE rest == Older(list, m)
  <2>2. \A k : k \in rest <=> k \in old /\ k \notin page
    <3>1. \A k \in 1 .. n : k < m => k < b
      BY <2>1
    <3>2. \A k \in 1 .. n : k < m <=> ~ (k >= m)
      BY <2>1
    <3> QED
      BY <1>1, <2>1, <3>1, <3>2 DEF Older
  <2>3. In(rest) \subseteq In(old)
    BY <2>2
  <2> HIDE DEF old, page, rest
  <2>4. In(old) = In(page) \cup In(rest) /\ In(page) \cap In(rest) = {}
    BY <1>1, <2>2
  <2>5. IsFiniteSet(In(rest))
    <3> HIDE DEF In, old, rest
    <3> QED
      BY <1>2, <2>3, FS_Subset
  <2>6. Cardinality(In(old)) = Cardinality(In(page)) + Cardinality(In(rest))
    <3>1. Cardinality(In(page) \cup In(rest)) = Cardinality(In(page)) + Cardinality(In(rest))
      <4> HIDE DEF In, page, rest
      <4>1. Cardinality(In(page) \cup In(rest)) =
               Cardinality(In(page)) + Cardinality(In(rest)) - Cardinality(In(page) \cap In(rest))
        BY <1>2, <2>5, FS_Union
      <4>2. Cardinality(In(page) \cap In(rest)) = 0
        BY <2>4, FS_EmptySet, Zenon
      <4> QED
        BY <1>2, <2>5, <4>1, <4>2, FS_CardinalityType
    <3>2. Cardinality(In(old)) = Cardinality(In(page) \cup In(rest))
      BY <2>4, Zenon
    <3> QED
      BY <3>1, <3>2, Zenon
  <2> QED
    BY <2>1, <2>6, Zenon DEF Before, OnPage, old, page, rest
<1> QED
  BY <1>3, <1>4, <1>5

\* A sum taken page after page, as both reports take it, is the number there is.
LEMMA PagesAddUp ==
    ASSUME NEW n \in Nat, NEW list \in SUBSET (1 .. n), NEW W, NEW sum,
           \A b \in 1 .. n + 1 :
             sum[b] = OnPage(list, W, b)
                        + IF Older(list, b) # Page(list, b)
                            THEN sum[SeenAfter(Page(list, b))] ELSE 0
    PROVE  sum[n + 1] = Cardinality({k \in list : k \in W})
<1> DEFINE G == {c \in 0 .. n + 1 : \A b \in 1 .. c : sum[b] = Before(list, W, b)}
<1>1. 0 \in G
  OBVIOUS
<1>2. ASSUME NEW c \in 0 .. n + 1 - 1, c \in G PROVE c + 1 \in G
  <2>1. c + 1 \in 1 .. n + 1
    OBVIOUS
  <2>2. sum[c + 1] = Before(list, W, c + 1)
    <3>1. CASE Older(list, c + 1) = Page(list, c + 1)
      <4>1. sum[c + 1] = OnPage(list, W, c + 1) + 0
        BY <2>1, <3>1
      <4> QED
        BY <2>1, <3>1, <4>1, PageByPage
    <3>2. CASE Older(list, c + 1) # Page(list, c + 1)
      <4> DEFINE m == SeenAfter(Page(list, c + 1))
      <4>1. m \in 1 .. c + 1 - 1
            /\ Before(list, W, c + 1) = OnPage(list, W, c + 1) + Before(list, W, m)
        BY <2>1, <3>2, PageByPage
      <4>2. sum[c + 1] = OnPage(list, W, c + 1) + sum[m]
        BY <2>1, <3>2
      <4> HIDE DEF m
      <4>3. m \in 1 .. c
        BY <4>1
      <4>4. sum[m] = Before(list, W, m)
        BY <1>2, <4>3
      <4> QED
        BY <4>1, <4>2, <4>4
    <3> QED
      BY <3>1, <3>2
  <2>3. \A b \in 1 .. c + 1 : b = c + 1 \/ b \in 1 .. c
    OBVIOUS
  <2>4. \A b \in 1 .. c + 1 : sum[b] = Before(list, W, b)
    BY <1>2, <2>2, <2>3
  <2> QED
    BY <2>4
<1>3. n + 1 \in G
  <2> HIDE DEF G
  <2>1. 0 .. n + 1 \subseteq G
    BY <1>1, <1>2, UpwardInduction
  <2> QED
    BY <2>1
<1>4. sum[n + 1] = Before(list, W, n + 1)
  BY <1>3
<1>5. Older(list, n + 1) = list
  <2>1. \A k \in list : k < n + 1
    OBVIOUS
  <2> QED
    BY <2>1, Zenon DEF Older
<1> QED
  BY <1>4, <1>5, Zenon DEF Before

\* Of the charges in a range those that are paid, and of these those of a period.
PaidOnes == {k \in DOMAIN charges : Paid(k)}

PaidIn(p) == {k \in DOMAIN charges : Paid(k) /\ charges[k].period = p}

\* Charges are told apart by their place.
LEMMA ChargesInRange ==
    ASSUME charges \in Seq(Charge), NEW from, NEW to
    PROVE  /\ Len(charges) \in Nat /\ DOMAIN charges = 1 .. Len(charges)
           /\ Within(from, to) \in SUBSET (1 .. Len(charges))
           /\ \A b : Page(Within(from, to), b) \subseteq 1 .. Len(charges)
<1>1. Len(charges) \in Nat /\ DOMAIN charges = 1 .. Len(charges)
  OBVIOUS
<1> QED
  BY <1>1 DEF Within, Page, Older

\* The recursion has a solution, the count, and every solution is it.
LEMMA TotalIsCount ==
    ASSUME charges \in Seq(Charge), NEW from \in Period, NEW to \in Period
    PROVE  get_total_revenue(from, to) = Cardinality({k \in Within(from, to) : k \in PaidOnes})
<1> DEFINE n == Len(charges)
           list == Within(from, to)
           D == 1 .. n + 1
           Total(f, b) == Cardinality({k \in Page(list, b) : Paid(k)})
                            + IF Older(list, b) # Page(list, b)
                                THEN f[SeenAfter(Page(list, b))] ELSE 0
           sum == CHOOSE f : f = [b \in D |-> Total(f, b)]
<1>1. /\ n \in Nat /\ DOMAIN charges = 1 .. n /\ list \in SUBSET (1 .. n)
      /\ \A b : Page(list, b) \subseteq 1 .. n
  BY ChargesInRange
<1>2. \A b : Cardinality({k \in Page(list, b) : Paid(k)}) = OnPage(list, PaidOnes, b)
  <2> TAKE b
  <2>1. {k \in Page(list, b) : Paid(k)} = {k \in Page(list, b) : k \in PaidOnes}
    BY <1>1 DEF PaidOnes
  <2> QED
    BY <2>1, Zenon DEF OnPage
<1>3. \E f : f = [b \in D |-> Total(f, b)]
  <2> DEFINE g == [b \in D |-> Before(list, PaidOnes, b)]
  <2>1. ASSUME NEW b \in D PROVE Before(list, PaidOnes, b) = Total(g, b)
    <3> DEFINE m == SeenAfter(Page(list, b))
    <3>1. CASE Older(list, b) = Page(list, b)
      <4>1. Total(g, b) = OnPage(list, PaidOnes, b) + 0
        BY <1>2, <3>1
      <4>2. Before(list, PaidOnes, b) = OnPage(list, PaidOnes, b)
            /\ OnPage(list, PaidOnes, b) \in Nat
        BY <1>1, <3>1, PageByPage
      <4> HIDE DEF Total
      <4> QED
        BY <4>1, <4>2
    <3>2. CASE Older(list, b) # Page(list, b)
      <4>1. m \in 1 .. b - 1
            /\ Before(list, PaidOnes, b) = OnPage(list, PaidOnes, b) + Before(list, PaidOnes, m)
        BY <1>1, <3>2, PageByPage
      <4>2. m \in D
        <5> HIDE DEF m
        <5> QED
          BY <1>1, <4>1
      <4>3. g[m] = Before(list, PaidOnes, m)
        BY <4>2
      <4>4. Total(g, b) = OnPage(list, PaidOnes, b) + g[m]
        BY <1>2, <3>2
      <4> QED
        BY <4>1, <4>3, <4>4, Zenon
    <3> QED
      BY <3>1, <3>2
  <2>2. g = [b \in D |-> Total(g, b)]
    <3> HIDE DEF Total
    <3> QED
      BY <2>1
  <2> QED
    BY <2>2, Zenon
<1>4. sum = [b \in D |-> Total(sum, b)]
  <2> HIDE DEF Total
  <2> QED
    BY <1>3, Zenon
<1>5. get_total_revenue(from, to) = sum[n + 1]
  BY Zenon DEF get_total_revenue
<1>6. \A b \in 1 .. n + 1 :
         sum[b] = OnPage(list, PaidOnes, b)
                    + IF Older(list, b) # Page(list, b)
                        THEN sum[SeenAfter(Page(list, b))] ELSE 0
  <2> TAKE b \in 1 .. n + 1
  <2>1. sum[b] = Total(sum, b)
    <3> HIDE DEF sum, Total
    <3> QED
      BY <1>4
  <2> HIDE DEF sum
  <2> QED
    BY <1>2, <2>1, Zenon
<1> HIDE DEF sum
<1>7. sum[n + 1] = Cardinality({k \in list : k \in PaidOnes})
  <2> HIDE DEF n, list
  <2> QED
    BY <1>1, <1>6, PagesAddUp
<1> QED
  BY <1>5, <1>7, Zenon

\* The same of each period on its own.
LEMMA SeriesIsCount ==
    ASSUME charges \in Seq(Charge), NEW from \in Period, NEW to \in Period, NEW p \in Period
    PROVE  get_transaction_timeseries(from, to)[p] =
             Cardinality({k \in Within(from, to) : k \in PaidIn(p)})
<1> DEFINE n == Len(charges)
           list == Within(from, to)
           D == 1 .. n + 1
           More(b) == Older(list, b) # Page(list, b)
           Following(b) == SeenAfter(Page(list, b))
           On(b, q) == Cardinality({k \in Page(list, b) : Paid(k) /\ charges[k].period = q})
           Row(f, b) == [q \in Period |-> On(b, q) + IF More(b) THEN f[Following(b)][q] ELSE 0]
           series == CHOOSE f : f = [b \in D |-> Row(f, b)]
<1>1. /\ n \in Nat /\ DOMAIN charges = 1 .. n /\ list \in SUBSET (1 .. n)
      /\ \A b : Page(list, b) \subseteq 1 .. n
  BY ChargesInRange
<1>2. \A b : \A q : On(b, q) = OnPage(list, PaidIn(q), b)
  <2> TAKE b, q
  <2>1. {k \in Page(list, b) : Paid(k) /\ charges[k].period = q}
           = {k \in Page(list, b) : k \in PaidIn(q)}
    BY <1>1 DEF PaidIn
  <2> QED
    BY <2>1, Zenon DEF OnPage
<1>3. \E f : f = [b \in D |-> Row(f, b)]
  <2> DEFINE g == [b \in D |-> [q \in Period |-> Before(list, PaidIn(q), b)]]
  <2>1. ASSUME NEW b \in D, NEW q \in Period
        PROVE  Before(list, PaidIn(q), b) = On(b, q) + IF More(b) THEN g[Following(b)][q] ELSE 0
    <3>1. CASE ~ More(b)
      <4>1. Before(list, PaidIn(q), b) = OnPage(list, PaidIn(q), b)
            /\ OnPage(list, PaidIn(q), b) \in Nat
        BY <1>1, <3>1, PageByPage
      <4>2. On(b, q) = OnPage(list, PaidIn(q), b)
        BY <1>2, Zenon
      <4> HIDE DEF g, On, More
      <4> QED
        BY <3>1, <4>1, <4>2
    <3>2. CASE More(b)
      <4>1. /\ Following(b) \in 1 .. b - 1
            /\ Before(list, PaidIn(q), b) =
                 OnPage(list, PaidIn(q), b) + Before(list, PaidIn(q), Following(b))
        BY <1>1, <3>2, PageByPage
      <4>2. Following(b) \in D
        <5> HIDE DEF Following
        <5> QED
          BY <1>1, <4>1
      <4>3. g[Following(b)][q] = Before(list, PaidIn(q), Following(b))
        <5> HIDE DEF Following, D
        <5> QED
          BY <4>2
      <4>4. On(b, q) = OnPage(list, PaidIn(q), b)
        BY <1>2, Zenon
      <4> HIDE DEF g, On, More, Following
      <4> QED
        BY <3>2, <4>1, <4>3, <4>4
    <3> QED
      BY <3>1, <3>2
  <2>2. g = [b \in D |-> Row(g, b)]
    <3>1. \A b \in D : g[b] = [q \in Period |-> Before(list, PaidIn(q), b)]
      <4> HIDE DEF D
      <4> QED
        OBVIOUS
    <3>2. \A b \in D : [q \in Period |-> Before(list, PaidIn(q), b)] = Row(g, b)
      <4> TAKE b \in D
      <4> HIDE DEF g, On, More, Following, D
      <4> QED
        BY <2>1, Zenon
    <3> HIDE DEF Row, D
    <3> QED
      BY <3>2, Zenon
  <2> QED
    BY <2>2, Zenon
<1>4. series = [b \in D |-> Row(series, b)]
  <2> HIDE DEF Row
  <2> QED
    BY <1>3, Zenon
<1>5. get_transaction_timeseries(from, to)[p] = series[n + 1][p]
  BY Zenon DEF get_transaction_timeseries
<1> DEFINE sum == [b \in D |-> series[b][p]]
<1>6. \A b \in 1 .. n + 1 :
         sum[b] = OnPage(list, PaidIn(p), b) + IF More(b) THEN sum[Following(b)] ELSE 0
  <2> TAKE b \in 1 .. n + 1
  <2>1. series[b] = Row(series, b)
    <3> HIDE DEF series, Row
    <3> QED
      BY <1>4
  <2>2. series[b][p] = On(b, p) + IF More(b) THEN series[Following(b)][p] ELSE 0
    <3> HIDE DEF series, On, More, Following
    <3> QED
      BY <2>1
  <2>3. More(b) => Following(b) \in D
    <3>1. More(b) => Following(b) \in 1 .. b - 1
      BY <1>1, PageByPage
    <3> HIDE DEF More, Following
    <3> QED
      BY <1>1, <3>1
  <2>4. On(b, p) = OnPage(list, PaidIn(p), b)
    BY <1>2, Zenon
  <2> HIDE DEF series, On, More, Following
  <2> QED
    BY <2>2, <2>3, <2>4
<1> HIDE DEF series
<1>7. sum[n + 1] = Cardinality({k \in list : k \in PaidIn(p)})
  <2> HIDE DEF n, list, sum
  <2> QED
    BY <1>1, <1>6, PagesAddUp
<1>8. sum[n + 1] = series[n + 1][p]
  BY <1>1
<1> QED
  BY <1>5, <1>7, <1>8, Zenon

\* What both reports come to, of any charges.
LEMMA ReportsCount ==
    ASSUME charges \in Seq(Charge)
    PROVE  RevenueIsCharged
<1> SUFFICES ASSUME NEW from \in Period, NEW to \in Period, from <= to
             PROVE  /\ get_total_revenue(from, to) =
                          Cardinality({k \in 1..Len(charges) :
                            charges[k].paid /\ charges[k].period \in from..to})
                    /\ \A p \in Period \cap (from..to) :
                          get_transaction_timeseries(from, to)[p] = get_total_revenue(p, p)
  BY DEF RevenueIsCharged
<1>1. /\ DOMAIN charges = 1 .. Len(charges)
      /\ \A k \in DOMAIN charges : charges[k].period \in Period
  <2>1. DOMAIN charges = 1 .. Len(charges) /\ \A k \in DOMAIN charges : charges[k] \in Charge
    OBVIOUS
  <2> QED
    BY <2>1 DEF Charge
<1>2. {k \in Within(from, to) : k \in PaidOnes} =
         {k \in 1..Len(charges) : charges[k].paid /\ charges[k].period \in from..to}
  BY <1>1 DEF Within, PaidOnes, Paid
<1>3. ASSUME NEW p \in Period \cap (from..to)
      PROVE  {k \in Within(from, to) : k \in PaidIn(p)} =
               {k \in Within(p, p) : k \in PaidOnes}
  <2>1. p \in Nat
    BY InvoicesAssumption
  <2>2. \A k \in DOMAIN charges : charges[k].period \in p .. p <=> charges[k].period = p
    BY <1>1, <2>1, InvoicesAssumption
  <2> QED
    BY <1>1, <2>2 DEF Within, PaidOnes, PaidIn, Paid
<1>4. get_total_revenue(from, to) =
         Cardinality({k \in 1..Len(charges) :
           charges[k].paid /\ charges[k].period \in from..to})
  BY <1>2, TotalIsCount, Zenon
<1>5. ASSUME NEW p \in Period \cap (from..to)
      PROVE  get_transaction_timeseries(from, to)[p] = get_total_revenue(p, p)
  <2>1. p \in Period
    OBVIOUS
  <2>2. get_total_revenue(p, p) = Cardinality({k \in Within(p, p) : k \in PaidOnes})
    BY <2>1, TotalIsCount
  <2>3. get_transaction_timeseries(from, to)[p] =
           Cardinality({k \in Within(from, to) : k \in PaidIn(p)})
    BY <2>1, SeriesIsCount
  <2> QED
    BY <1>3, <2>2, <2>3, Zenon
<1> QED
  BY <1>4, <1>5

\* RevenueIsCharged: a report sees every charge of its range once, whatever the
\* size of a page and however many charges there are.
THEOREM RevenueIsRight == InvoicesSpec => []RevenueIsCharged
<1>1. InvoicesIInv => RevenueIsCharged
  BY ReportsCount DEF InvoicesIInv, BillsTyped
<1> QED
  BY <1>1, InvoicesBegin, InvoicesStep, PTL DEF InvoicesSpec
-----------------------------------------------------------------------------
(***************************************************************************)
(* Subscriptions and invoices side by side.                                *)
(***************************************************************************)
LEMMA BillingFollowsBoth == BillingSpec => Spec /\ InvoicesSpec
<1>1. BillingInit => Init /\ InvoicesInit
  BY DEF BillingInit
<1>2. [BillingNext]_<<vars, billVars, focus>> => [Next]_vars /\ [InvoicesNext]_billVars
  BY DEF BillingNext
<1> QED
  BY <1>1, <1>2, PTL DEF BillingSpec, Spec, InvoicesSpec

\* BillingTypeOK: the rows of both keep their types.
THEOREM BillingTypeCorrect == BillingSpec => []BillingTypeOK
  BY BillingFollowsBoth, SubscriptionsTypeCorrect, BillsTypeCorrect, PTL DEF BillingTypeOK
=============================================================================
