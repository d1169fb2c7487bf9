--------------------------- MODULE OrderRateLimit ---------------------------
(***************************************************************************)
(* The sliding-window limiter of app/services/trading.py: the decorator    *)
(* rate_limit_orders and the process-wide dictionary order_limits.  The    *)
(* dictionary lives in memory, so a restart of the worker empties it.      *)
(* TradingOrders extends this module and runs its actions as the first     *)
(* part of place_order.                                                    *)
(***************************************************************************)
EXTENDS Integers, FiniteSets

CONSTANTS User,        \* the students who place orders
          Request,     \* HTTP requests; each is sent once
          MaxOrders,   \* max_orders of the decorator
          Window,      \* window_minutes, in ticks of the clock
          MaxTime      \* bound: the last tick

ASSUME LimitAssumption == MaxOrders \in Nat /\ Window \in Nat /\ MaxTime \in Nat

VARIABLES now,           \* datetime.utcnow()
          order_limits,  \* user -> the admissions the decorator remembers
          admitted       \* history: user -> every admission of this process

limitVars == <<now, order_limits, admitted>>

\* One appended timestamp; the request tells equal timestamps apart.
Admission == [request : Request, at : Nat]

LimitTypeOK ==
    /\ now \in Nat
    /\ order_limits \in [User -> SUBSET Admission]
    /\ admitted \in [User -> SUBSET Admission]

LimitInit ==
    /\ now = 0
    /\ order_limits = [u \in User |-> {}]
    /\ admitted = [u \in User |-> {}]

\* Mutant of Young: a timestamp is forgotten one tick early.
YoungShort(entries) == {e \in entries : now - e.at < Window - 1}

\* The timestamps of a set that are younger than the window.
Young(entries) == {e \in entries : now - e.at < Window}

\* The list is pruned before it is measured, whatever the verdict.
AdmitOrder(u, r) ==
    LET recent == Young(order_limits[u])
        entry == [request |-> r, at |-> now]
    IN  /\ Cardinality(recent) < MaxOrders
        /\ order_limits' = [order_limits EXCEPT ![u] = recent \cup {entry}]
        /\ admitted' = [admitted EXCEPT ![u] = @ \cup {entry}]
        /\ UNCHANGED now

\* Mutant of RefuseOrder: the list is measured before it is pruned.
RefuseUnpruned(u) ==
    /\ Cardinality(order_limits[u]) >= MaxOrders
    /\ order_limits' = [order_limits EXCEPT ![u] = Young(@)]
    /\ UNCHANGED <<now, admitted>>

\* HTTP 429: the pruned list stays, the order is not executed.
RefuseOrder(u) ==
    LET recent == Young(order_limits[u])
    IN  /\ Cardinality(recent) >= MaxOrders
        /\ order_limits' = [order_limits EXCEPT ![u] = recent]
        /\ UNCHANGED <<now, admitted>>

Tick ==
    /\ now < MaxTime
    /\ now' = now + 1
    /\ UNCHANGED <<order_limits, admitted>>

\* A new process starts with an empty dictionary.
ForgetOrders ==
    /\ order_limits' = [u \in User |-> {}]
    /\ admitted' = [u \in User |-> {}]
    /\ UNCHANGED now

LimitNext ==
    \/ \E u \in User, r \in Request : AdmitOrder(u, r)
    \/ \E u \in User : RefuseOrder(u)
    \/ Tick
    \/ ForgetOrders

(***************************************************************************)
(* "Maximum {max_orders} orders per {window_minutes} minute(s)": no window *)
(* of that length, wherever it starts, holds more than MaxOrders of the    *)
(* orders one process executed for a user.  A window that holds any        *)
(* admission can be moved to start at its first one.                       *)
(***************************************************************************)
WindowNeverExceeded ==
    \A u \in User : \A first \in admitted[u] :
        Cardinality({e \in admitted[u] :
            first.at <= e.at /\ e.at < first.at + Window}) <= MaxOrders
=============================================================================
