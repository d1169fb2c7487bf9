----------------------------- MODULE Brokerage -----------------------------
(***************************************************************************)
(* What the order desk promises its users: cash and shares that change     *)
(* only together, by whole deposits and whole orders, and never below      *)
(* zero.  TradingOrders implements it as long as the requests of one user  *)
(* do not overlap and no commit fails (TradingRefinement).                 *)
(***************************************************************************)
EXTENDS Money

CONSTANTS User, Symbol, Price, Quantity, Amount

VARIABLES cash,    \* user -> money
          shares   \* user -> symbol -> shares held

bookVars == <<cash, shares>>

BookInit ==
    /\ cash = [u \in User |-> 0]
    /\ shares = [u \in User |-> [s \in Symbol |-> 0]]

Deposit(u, amount) ==
    /\ cash' = [cash EXCEPT ![u] = @ + amount]
    /\ UNCHANGED shares

Buy(u, s, quantity, price) ==
    /\ cash[u] >= TotalAmount(quantity, price)
    /\ cash' = [cash EXCEPT ![u] = @ - TotalAmount(quantity, price)]
    /\ shares' = [shares EXCEPT ![u][s] = @ + quantity]

Sell(u, s, quantity, price) ==
    /\ shares[u][s] >= quantity
    /\ cash' = [cash EXCEPT ![u] = @ + TotalAmount(quantity, price)]
    /\ shares' = [shares EXCEPT ![u][s] = @ - quantity]

BookNext ==
    \E u \in User :
        \/ \E amount \in Amount : Deposit(u, amount)
        \/ \E s \in Symbol, q \in Quantity, p \in Price :
             q > 0 /\ (Buy(u, s, q, p) \/ Sell(u, s, q, p))

BookSpec == BookInit /\ [][BookNext]_bookVars
=============================================================================
