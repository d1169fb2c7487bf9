--------------------------- MODULE TradingOrders ---------------------------
(***************************************************************************)
(* The order desk of the paper-trading service: TradingService.place_order *)
(* and add_funds_to_student_account (app/services/trading.py) over the     *)
(* tables account_balances, portfolio_positions, trade_orders and          *)
(* transactions.                                                           *)
(*                                                                         *)
(* The service runs as one asyncio worker (Dockerfile: --workers 1) and    *)
(* the database calls are synchronous, so a handler loses control only at  *)
(* an await that suspends.  place_order has one before its writes, the     *)
(* quote: it is two steps here, PlaceOrder before it and one of the        *)
(* outcome actions after it.  Every CRUD call commits on its own           *)
(* (app/crud/base.py), so a commit that fails leaves the earlier ones of   *)
(* the same request behind: the constant of commits that reached the       *)
(* database is chosen by each writing action.                              *)
(***************************************************************************)
EXTENDS Money, OrderRateLimit

CONSTANTS Symbol,           \* stocks
          Price,            \* usable quotes, in units
          Quantity,         \* quantities a client may ask for
          Amount,           \* deposits a teacher may make
          MaxInFlight,      \* bound: requests of one user at the same time
          MaxFailedCommits, \* bound: requests that die between two commits
          MaxRestarts       \* bound: restarts of the worker

ASSUME TradingAssumption ==
    /\ Price \subseteq Nat \ {0}
    /\ Quantity \subseteq Int
    /\ Amount \subseteq Nat \ {0}
    /\ MaxInFlight \in Nat
    /\ MaxFailedCommits \in Nat
    /\ MaxRestarts \in Nat

VARIABLES accounts,      \* users with a row in account_balances
          balance,       \* the balance column, 0 where there is no row
          position,      \* portfolio_positions; quantity 0: no row
          cashReplay,    \* what replaying transactions and trade_orders yields
          sharesReplay,  \* the holdings replaying trade_orders yields
          status,        \* where each request is
          order,         \* the order a request carries
          seen,          \* the balance its session loaded before the quote
          failedCommits, \* requests so far that died between two commits
          restarts,      \* restarts so far
          overlapped,    \* history: a balance was written under a waiting order
          torn,          \* history: users hit by a failed commit
          paid           \* history: price range of the shares now held

tableVars == <<accounts, balance, position, cashReplay, sharesReplay>>
historyVars == <<failedCommits, restarts, overlapped, torn, paid>>
vars == <<limitVars, tableVars, status, order, seen, historyVars>>

Side == {"buy", "sell"}
Order == [user : User, side : Side, symbol : Symbol, quantity : Quantity]
NoOrder == [user |-> "none"]

\* The attribute is expired by a commit and is read again when it is used.
Expired == -1

NoPosition == [quantity |-> 0, average_price |-> 0]
NoRange == [low |-> 0, high |-> 0]

TypeOK ==
    /\ LimitTypeOK
    /\ accounts \subseteq User
    /\ balance \in [User -> Int]
    /\ position \in [User -> [Symbol -> [quantity : Nat, average_price : Nat]]]
    /\ cashReplay \in [User -> Int]
    /\ sharesReplay \in [User -> [Symbol -> Nat]]
    /\ status \in [Request -> {"new", "waiting", "done", "refused"}]
    /\ order \in [Request -> Order \cup {NoOrder}]
    /\ seen \in [Request -> Int]
    /\ failedCommits \in Nat
    /\ restarts \in Nat
    /\ overlapped \subseteq User
    /\ torn \subseteq User
    /\ paid \in [User -> [Symbol -> [low : Nat, high : Nat]]]

Init ==
    /\ LimitInit
    /\ accounts = {}
    /\ balance = [u \in User |-> 0]
    /\ position = [u \in User |-> [s \in Symbol |-> NoPosition]]
    /\ cashReplay = [u \in User |-> 0]
    /\ sharesReplay = [u \in User |-> [s \in Symbol |-> 0]]
    /\ status = [r \in Request |-> "new"]
    /\ order = [r \in Request |-> NoOrder]
    /\ seen = [r \in Request |-> Expired]
    /\ failedCommits = 0
    /\ restarts = 0
    /\ overlapped = {}
    /\ torn = {}
    /\ paid = [u \in User |-> [s \in Symbol |-> NoRange]]

Waiting == {r \in Request : status[r] = "waiting"}

HasSlot(u) == Cardinality({x \in Waiting : order[x].user = u}) < MaxInFlight

\* The orders of u, other than r, that hold a balance read before the quote.
Holding(u, r) ==
    {x \in Waiting \ {r} : order[x].user = u /\ seen[x] # Expired}

\* account.balance as the session of r sees it after the quote.
Loaded(r) == IF seen[r] = Expired THEN balance[order[r].user] ELSE seen[r]

Finish(r) ==
    /\ status' = [status EXCEPT ![r] = "done"]
    /\ order' = [order EXCEPT ![r] = NoOrder]
    /\ seen' = [seen EXCEPT ![r] = Expired]

\* Mutant of WriteBalance: the row is changed by the difference.
WriteDifference(u, r, loaded, new) ==
    /\ balance' = [balance EXCEPT ![u] = @ + (new - loaded)]
    /\ UNCHANGED overlapped

(***************************************************************************)
(* crud_account_balance.update: an attribute set to the value it was       *)
(* loaded with is not part of the UPDATE, so the row keeps what it holds.  *)
(***************************************************************************)
WriteBalance(u, r, loaded, new) ==
    /\ balance' = [balance EXCEPT ![u] = IF new = loaded THEN @ ELSE new]
    /\ overlapped' = IF new = loaded \/ Holding(u, r) = {}
                       THEN overlapped
                       ELSE overlapped \cup {u}

\* n of the writes of a request were meant to commit, k did.
Commits(u, k, n) ==
    /\ k \in 1 .. n
    /\ k < n => failedCommits < MaxFailedCommits
    /\ failedCommits' = IF k < n THEN failedCommits + 1 ELSE failedCommits
    /\ torn' = IF k < n THEN torn \cup {u} ELSE torn

-----------------------------------------------------------------------------
(* place_order up to the quote. *)

\* Mutant of PlaceOrder: the check of the quantity is gone.
PlaceUnchecked(r, o) ==
    /\ status[r] = "new"
    /\ HasSlot(o.user)
    /\ AdmitOrder(o.user, r)
    /\ accounts' = accounts \cup {o.user}
    /\ status' = [status EXCEPT ![r] = "waiting"]
    /\ order' = [order EXCEPT ![r] = o]
    /\ UNCHANGED <<balance, position, cashReplay, sharesReplay, seen, historyVars>>

(***************************************************************************)
(* The request passes the limiter, finds or creates the account and        *)
(* suspends on the quote.  Creating the account commits, which expires     *)
(* the object; an account that existed keeps the balance it was read with. *)
(***************************************************************************)
PlaceOrder(r, o) ==
    /\ status[r] = "new"
    /\ HasSlot(o.user)
    /\ o.quantity > 0
    /\ AdmitOrder(o.user, r)
    /\ accounts' = accounts \cup {o.user}
    /\ status' = [status EXCEPT ![r] = "waiting"]
    /\ order' = [order EXCEPT ![r] = o]
    /\ seen' = [seen EXCEPT
                  ![r] = IF o.user \in accounts THEN balance[o.user] ELSE Expired]
    /\ UNCHANGED <<balance, position, cashReplay, sharesReplay, historyVars>>

\* "Quantity must be greater than 0": admitted and given an account first.
PlaceInvalidOrder(r, o) ==
    /\ status[r] = "new"
    /\ HasSlot(o.user)
    /\ o.quantity <= 0
    /\ AdmitOrder(o.user, r)
    /\ accounts' = accounts \cup {o.user}
    /\ Finish(r)
    /\ UNCHANGED <<balance, position, cashReplay, sharesReplay, historyVars>>

\* "Too many orders."
PlaceTooManyOrders(r, o) ==
    /\ status[r] = "new"
    /\ RefuseOrder(o.user)
    /\ status' = [status EXCEPT ![r] = "refused"]
    /\ order' = [order EXCEPT ![r] = o]
    /\ UNCHANGED <<tableVars, seen, historyVars>>
-----------------------------------------------------------------------------
(* place_order after the quote. *)

(***************************************************************************)
(* No quote, an API error, a price that is not positive, or a first commit *)
(* that fails: the request ends and has written nothing after the quote.   *)
(***************************************************************************)
QuoteUnusable(r) ==
    /\ status[r] = "waiting"
    /\ Finish(r)
    /\ UNCHANGED <<limitVars, tableVars, historyVars>>

InsufficientFunds(r) ==
    /\ status[r] = "waiting"
    /\ order[r].side = "buy"
    /\ \E price \in Price : Loaded(r) < TotalAmount(order[r].quantity, price)
    /\ Finish(r)
    /\ UNCHANGED <<limitVars, tableVars, historyVars>>

InsufficientShares(r) ==
    LET o == order[r] IN
    /\ status[r] = "waiting"
    /\ o.side = "sell"
    /\ position[o.user][o.symbol].quantity < o.quantity
    /\ Finish(r)
    /\ UNCHANGED <<limitVars, tableVars, historyVars>>

\* Mutant of Bought: the row is written with the quantity of the order alone.
BoughtAnew(held, quantity, price, total) ==
    [quantity |-> quantity, average_price |-> price]

\* The position after buying: the existing row with its new average, or a new row.
Bought(held, quantity, price, total) ==
    IF held.quantity > 0
      THEN [quantity |-> held.quantity + quantity,
            average_price |->
              NewAveragePrice(held.quantity, held.average_price, quantity, total)]
      ELSE [quantity |-> quantity, average_price |-> price]

\* Mutant of Sold: the row is deleted whatever is left.
SoldOut(held, quantity) == NoPosition

\* The position after selling; the row is deleted when no share is left.
Sold(held, quantity) ==
    IF held.quantity = quantity
      THEN NoPosition
      ELSE [held EXCEPT !.quantity = @ - quantity]

\* The price range of the shares held, after one more purchase at price.
PaidAfter(held, range, price) ==
    IF held.quantity = 0
      THEN [low |-> price, high |-> price]
      ELSE [low |-> IF price < range.low THEN price ELSE range.low,
            high |-> IF price > range.high THEN price ELSE range.high]

(***************************************************************************)
(* _process_buy_order and the trade_orders insert: the balance, the        *)
(* position and the order are committed in this order.                     *)
(***************************************************************************)
FillBuy(r, price, k) ==
    LET o == order[r]
        held == position[o.user][o.symbol]
        total == TotalAmount(o.quantity, price)
    IN  /\ status[r] = "waiting"
        /\ o.side = "buy"
        /\ Loaded(r) >= total
        /\ Commits(o.user, k, 3)
        /\ WriteBalance(o.user, r, Loaded(r), Loaded(r) - total)
        /\ IF k >= 2
             THEN /\ position' = [position EXCEPT ![o.user][o.symbol] =
                                    Bought(held, o.quantity, price, total)]
                  /\ paid' = [paid EXCEPT ![o.user][o.symbol] = PaidAfter(held, @, price)]
             ELSE UNCHANGED <<position, paid>>
        /\ IF k = 3
             THEN /\ cashReplay' = [cashReplay EXCEPT ![o.user] = @ - total]
                  /\ sharesReplay' = [sharesReplay EXCEPT
                                        ![o.user][o.symbol] = @ + o.quantity]
             ELSE UNCHANGED <<cashReplay, sharesReplay>>
        /\ Finish(r)
        /\ UNCHANGED <<limitVars, accounts, restarts>>

(***************************************************************************)
(* _process_sell_order and the trade_orders insert.  The replay of the     *)
(* holdings drops a symbol whose count is not positive.                    *)
(***************************************************************************)
FillSell(r, price, k) ==
    LET o == order[r]
        held == position[o.user][o.symbol]
        total == TotalAmount(o.quantity, price)
    IN  /\ status[r] = "waiting"
        /\ o.side = "sell"
        /\ held.quantity >= o.quantity
        /\ Commits(o.user, k, 3)
        /\ WriteBalance(o.user, r, Loaded(r), Loaded(r) + total)
        /\ position' = IF k >= 2
                         THEN [position EXCEPT ![o.user][o.symbol] =
                                 Sold(held, o.quantity)]
                         ELSE position
        /\ IF k = 3
             THEN /\ cashReplay' = [cashReplay EXCEPT ![o.user] = @ + total]
                  /\ sharesReplay' = [sharesReplay EXCEPT ![o.user][o.symbol] =
                                        IF @ > o.quantity THEN @ - o.quantity ELSE 0]
             ELSE UNCHANGED <<cashReplay, sharesReplay>>
        /\ Finish(r)
        /\ UNCHANGED <<limitVars, accounts, restarts, paid>>
-----------------------------------------------------------------------------
\* Mutant of AddFunds: the balance is set to the amount.
AddFundsAnew(r, u, amount, k) ==
    /\ status[r] = "new"
    /\ HasSlot(u)
    /\ Commits(u, k, 2)
    /\ accounts' = accounts \cup {u}
    /\ WriteBalance(u, r, balance[u], amount)
    /\ cashReplay' = IF k = 2 THEN [cashReplay EXCEPT ![u] = @ + amount] ELSE cashReplay
    /\ Finish(r)
    /\ UNCHANGED <<limitVars, position, sharesReplay, restarts, paid>>

(***************************************************************************)
(* add_funds_to_student_account, from its first read to its second commit  *)
(* without a suspension: the balance and then the transaction row.         *)
(***************************************************************************)
AddFunds(r, u, amount, k) ==
    /\ status[r] = "new"
    /\ HasSlot(u)
    /\ Commits(u, k, 2)
    /\ accounts' = accounts \cup {u}
    /\ WriteBalance(u, r, balance[u], balance[u] + amount)
    /\ cashReplay' = IF k = 2 THEN [cashReplay EXCEPT ![u] = @ + amount] ELSE cashReplay
    /\ Finish(r)
    /\ UNCHANGED <<limitVars, position, sharesReplay, restarts, paid>>

\* The worker dies and is started again: what waited for a quote is gone.
Restart ==
    /\ restarts < MaxRestarts
    /\ restarts' = restarts + 1
    /\ ForgetOrders
    /\ status' = [r \in Request |-> IF r \in Waiting THEN "done" ELSE status[r]]
    /\ order' = [r \in Request |-> IF r \in Waiting THEN NoOrder ELSE order[r]]
    /\ seen' = [r \in Request |-> Expired]
    /\ UNCHANGED <<tableVars, failedCommits, overlapped, torn, paid>>

PassTime == Tick /\ UNCHANGED <<tableVars, status, order, seen, historyVars>>

Next ==
    \/ \E r \in Request, o \in Order :
         PlaceOrder(r, o) \/ PlaceInvalidOrder(r, o) \/ PlaceTooManyOrders(r, o)
    \/ \E r \in Request :
         QuoteUnusable(r) \/ InsufficientFunds(r) \/ InsufficientShares(r)
    \/ \E r \in Request, price \in Price \ {0}, k \in 1 .. 3 :
         FillBuy(r, price, k) \/ FillSell(r, price, k)
    \/ \E r \in Request, u \in User, amount \in Amount, k \in 1 .. 2 :
         AddFunds(r, u, amount, k)
    \/ Restart
    \/ PassTime

Spec == Init /\ [][Next]_vars
-----------------------------------------------------------------------------
(* Properties. *)

(***************************************************************************)
(* Whatever orders overlap and whatever commit fails, no account goes      *)
(* below zero: the funds check may use a stale balance, but the value it   *)
(* checked is the value it subtracts from.                                 *)
(***************************************************************************)
BalanceNeverNegative == \A u \in User : balance[u] >= 0

(***************************************************************************)
(* The balance of an account is what _calculate_cash_balance_at_date       *)
(* obtains by replaying the fund additions and the filled orders, for      *)
(* every user whose balance was never written under a waiting order and    *)
(* who was spared failed commits: those are the only ways to drift.        *)
(***************************************************************************)
UndisturbedCashMatchesReplay ==
    \A u \in User \ (overlapped \cup torn) : balance[u] = cashReplay[u]

(***************************************************************************)
(* Overlapping orders never lose or invent shares: the position row is     *)
(* read after the quote.  So the positions are the holdings that           *)
(* _calculate_holdings_at_date replays, unless a commit failed.            *)
(***************************************************************************)
SharesMatchReplay ==
    \A u \in User \ torn, s \in Symbol :
        position[u][s].quantity = sharesReplay[u][s]

(***************************************************************************)
(* The average price of a position stays within the prices that were paid  *)
(* since it was opened, give or take the rounding to whole cents, however  *)
(* many partial sales and further purchases there were.                    *)
(***************************************************************************)
AveragePriceWithinPaid ==
    \A u \in User, s \in Symbol :
        position[u][s].quantity > 0 =>
            /\ FloorCent(paid[u][s].low) <= position[u][s].average_price
            /\ position[u][s].average_price <= CeilCent(paid[u][s].high)

(***************************************************************************)
(* Replaying fund additions and trades gives the balance of the account,   *)
(* as the docstring of _calculate_cash_balance_at_date has it.             *)
(***************************************************************************)
CashMatchesReplay == \A u \in User : balance[u] = cashReplay[u]

(***************************************************************************)
(* An order is refused with 429 only if the user had MaxOrders orders      *)
(* executed within the last window: older ones never count against him.    *)
(***************************************************************************)
RefusedOnlyWhenFull ==
    [][\A r \in Request :
         status[r] = "new" /\ status'[r] = "refused" =>
           Cardinality(Young(admitted[order'[r].user])) >= MaxOrders]_vars
=============================================================================
