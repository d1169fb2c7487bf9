----------------------------- MODULE Portfolio -----------------------------
(***************************************************************************)
(* What is derived from the trades and the deposits of a user              *)
(* (services/trading.py, services/report.py): the rows of                  *)
(* portfolio_snapshots, written by a daily job and by requests for the     *)
(* history, the balance that is shown, and the entry of the trading        *)
(* leaderboard that the subscriber of "trade_executed" updates.            *)
(*                                                                         *)
(* There is one stock and its price is 1, so that whatever a replay gets   *)
(* wrong shows in the figures.  Orders do not overlap here: the balance of *)
(* the account is then what TradingOrders shows it to be.                  *)
(*                                                                         *)
(* Nothing suspends while no stock is held.  Where some is, a snapshot     *)
(* cannot be written: _calculate_unrealized_pnl reads an average_price     *)
(* that the rows of trade_orders do not have.                              *)
(***************************************************************************)
EXTENDS Integers, Sequences, FiniteSets, SequencesExt

CONSTANTS User,
          Amount,       \* of a deposit
          ReadLimit,    \* crud_trade_order.get_multi_by_user: 100 rows, in no order
          RowLimit,     \* get_multi_by_user_in_range: 100 rows, the earliest
          MaxDay,       \* bound: days
          MaxTrades,    \* bound: trades of a user
          MaxDeposits,  \* bound: deposits of a user
          MaxWaiting,   \* bound: requests and updates of a user that wait
          MaxCrashes    \* bound: crashes of the worker

ASSUME PortfolioAssumption ==
    /\ Amount \in Nat \ {0} /\ MaxDay \in Nat \ {0}
    /\ ReadLimit \in Nat \ {0} /\ RowLimit \in Nat \ {0}
    /\ MaxTrades \in Nat /\ MaxDeposits \in Nat /\ MaxWaiting \in Nat
    /\ MaxCrashes \in Nat

VARIABLES today,
          trades,     \* user -> trade_orders: the day and the side
          deposits,   \* user -> the days of the fund additions
          snapshots,  \* user -> day -> rows of portfolio_snapshots
          reading,    \* user -> requests for the history that await prices
          updating,   \* user -> leaderboard updates under way
          board,      \* user -> entry of the trading leaderboard
          clean,      \* history: the entry is the last trade's, of no frozen balance
          crashes

records == <<trades, deposits>>
boardVars == <<updating, board, clean>>
portfolioVars == <<today, records, snapshots, reading, boardVars, crashes>>

Day == 1 .. MaxDay

\* known and funds: how many trades and deposits there were when it was written.
SnapshotRow == [cash : Int, known : Nat, funds : Nat]

Request == [from : Day, to : Day, seen : SUBSET (1 .. MaxTrades), known : Nat]

\* The figures of a summary; shown: the balance came from a row of today.
Update == [trade : Nat, stage : {"queued", "funded", "valued"},
           balance : Int, invested : Nat, stocks : Nat, funds : Nat, shown : BOOLEAN]

NoEntry == [trade |-> 0, balance |-> 0, profit |-> 0, funds |-> 0]

PortfolioTypeOK ==
    /\ today \in Day
    /\ trades \in [User -> Seq([day : Day, side : {"buy", "sell"}])]
    /\ deposits \in [User -> Seq(Day)]
    /\ snapshots \in [User -> [Day -> Seq(SnapshotRow)]]
    /\ reading \in [User -> Seq(Request)]
    /\ updating \in [User -> Seq(Update)]
    /\ board \in [User -> [trade : Nat, balance : Int, profit : Nat, funds : Nat]]
    /\ clean \in [User -> BOOLEAN]
    /\ crashes \in 0 .. MaxCrashes

PortfolioInit ==
    /\ today = 1
    /\ trades = [u \in User |-> <<>>]
    /\ deposits = [u \in User |-> <<>>]
    /\ snapshots = [u \in User |-> [d \in Day |-> <<>>]]
    /\ reading = [u \in User |-> <<>>]
    /\ updating = [u \in User |-> <<>>]
    /\ board = [u \in User |-> NoEntry]
    /\ clean = [u \in User |-> TRUE]
    /\ crashes = 0
-----------------------------------------------------------------------------
(* Replays. *)

\* get_multi_by_user: as many trades as the limit allows.
Reads(u) ==
    {S \in SUBSET DOMAIN trades[u] :
        Cardinality(S) = Min({Len(trades[u]), ReadLimit})}

Bought(u, S) == {i \in S : trades[u][i].side = "buy"}

Until(u, S, d) == {i \in S : trades[u][i].day <= d}

\* Shares after the trades of S, in their order; a sale leaves at least none.
Held(u, S) ==
    LET h[i \in 0 .. Len(trades[u])] ==
          IF i = 0 THEN 0
          ELSE IF i \notin S THEN h[i - 1]
          ELSE IF trades[u][i].side = "buy" THEN h[i - 1] + 1
          ELSE Max({0, h[i - 1] - 1})
    IN  h[Len(trades[u])]

\* Mutant of FundedBefore: the day of the date counts.
FundedThrough(u, d) ==
    Amount * Cardinality({i \in DOMAIN deposits[u] : deposits[u][i] <= d})

\* get_multi_by_user_and_type_up_to_date: the date is the midnight it starts at.
FundedBefore(u, d) ==
    Amount * Cardinality({i \in DOMAIN deposits[u] : deposits[u][i] < d})

\* _calculate_cash_balance_at_date.
CashAt(u, S, d) ==
    LET done == Until(u, S, d)
    IN  FundedBefore(u, d) - Cardinality(Bought(u, done)) + Cardinality(done \ Bought(u, done))

Invested(u) == Amount * Len(deposits[u])

\* account.balance, see TradingOrders.
AccountBalance(u) ==
    LET all == DOMAIN trades[u]
    IN  Invested(u) - Cardinality(Bought(u, all)) + Cardinality(all \ Bought(u, all))

\* portfolio_positions.
Position(u) == Held(u, DOMAIN trades[u])

\* get_account_balance: a row of today comes first, any one where there are two.
ShownBalances(u) ==
    LET rows == snapshots[u][today]
    IN  IF rows = <<>> THEN {AccountBalance(u)} ELSE {rows[k].cash : k \in DOMAIN rows}

\* Mutant of CashFlow: what is paid in on the last day counts.
CashFlowThrough(u, from, to) ==
    Amount * Cardinality({i \in DOMAIN deposits[u] : deposits[u][i] \in from .. to})

\* get_multi_by_user_in_date_range, between two midnights.
CashFlow(u, from, to) ==
    Amount * Cardinality({i \in DOMAIN deposits[u] : deposits[u][i] \in from .. to - 1})

\* _calculate_period_portfolio_pnl.
PeriodPnl(u, S, from, to) ==
    LET Value(d) == Held(u, Until(u, S, d)) + CashAt(u, S, d)
    IN  Value(to) - Value(from) - CashFlow(u, from, to)
-----------------------------------------------------------------------------
(* Snapshots. *)

\* create: rows of the given days.
WithRows(u, days, S, known) ==
    [d \in Day |->
       IF d \in days
         THEN Append(snapshots[u][d],
                [cash |-> CashAt(u, S, d), known |-> known, funds |-> Len(deposits[u])])
         ELSE snapshots[u][d]]

\* The day after the latest row, or today where there is none; no day to come.
DueDays(u) ==
    LET days == {d \in Day : snapshots[u][d] # <<>>}
    IN  {d \in 1 .. today : IF days = {} THEN d = today
                            ELSE d - 1 \in days /\ \A e \in days : e < d}

JobRaises(u, S) == \E d \in DueDays(u) : Held(u, Until(u, S, d)) > 0

Waiting(u) == Len(reading[u]) + Len(updating[u])

\* The requests and the updates under way are gone.
Restarts ==
    /\ crashes < MaxCrashes
    /\ crashes' = crashes + 1
    /\ reading' = [u \in User |-> <<>>]
    /\ updating' = [u \in User |-> <<>>]
    /\ clean' = [u \in User |-> clean[u] /\ updating[u] = <<>>]
    /\ UNCHANGED board

(***************************************************************************)
(* create_daily_portfolio_snapshots, which the scheduler runs once a day   *)
(* and an administrator when he likes: the users in no given order, a      *)
(* commit each; an exception ends the job, and so does a crash.            *)
(***************************************************************************)
CreateSnapshots ==
    /\ \E seen \in [User -> SUBSET (1 .. MaxTrades)], done \in SUBSET User :
         /\ \A u \in User : seen[u] \in Reads(u)
         /\ \A u \in done : ~ JobRaises(u, seen[u])
         /\ \/ /\ done = User \/ \E u \in User \ done : JobRaises(u, seen[u])
               /\ UNCHANGED <<reading, boardVars, crashes>>
            \/ done # User /\ Restarts
         /\ snapshots' = [u \in User |->
              IF u \in done /\ trades[u] # <<>>
                THEN WithRows(u, DueDays(u), seen[u], Len(trades[u]))
                ELSE snapshots[u]]
    /\ UNCHANGED <<today, records>>

\* Mutant of Missing: every day of the range is taken for missing.
MissingAll(u, from, to) == from .. to

\* The rows of the days of the range.
Rows(u, from, to) == UNION {{d} \X DOMAIN snapshots[u][d] : d \in from .. to}

\* The days of the range that the query returns no row of.
Missing(u, from, to) ==
    {d \in from .. to :
        snapshots[u][d] = <<>> \/ Cardinality(Rows(u, from, d - 1)) >= RowLimit}

(***************************************************************************)
(* _save_snapshots_from_history.  The trades of a day that has a row are   *)
(* passed over; the first missing day with stocks ends it.                 *)
(***************************************************************************)
Saved(u, from, to, S, known) ==
    LET missing == Missing(u, from, to)
        Counted(d) == {i \in S : LET day == trades[u][i].day
                                 IN  day < from \/ (day <= d /\ day \in missing)}
        written == {d \in missing :
                      \A e \in missing : e <= d => Held(u, Counted(e)) = 0}
    IN  WithRows(u, written, S, known)

(***************************************************************************)
(* get_portfolio_historical_data.  Days to come are not refused.  A row    *)
(* that is found is the answer; one of the first day is of its midnight,   *)
(* which the range, given in instants, may not contain.  With stocks       *)
(* anywhere in the range _calculate_portfolio_history awaits their prices; *)
(* without, the rows are written at once.                                  *)
(***************************************************************************)
RequestHistory(u, from, to) ==
    /\ from <= to
    /\ \A d \in from + 1 .. to : snapshots[u][d] = <<>>
    /\ trades[u] # <<>>
    /\ \E S \in Reads(u) :
         IF \E d \in from .. to : Held(u, Until(u, S, d)) > 0
           THEN /\ Waiting(u) < MaxWaiting
                /\ reading' = [reading EXCEPT ![u] = Append(@,
                      [from |-> from, to |-> to, seen |-> S, known |-> Len(trades[u])])]
                /\ UNCHANGED snapshots
           ELSE /\ snapshots' = [snapshots EXCEPT ![u] = Saved(u, from, to, S, Len(trades[u]))]
                /\ UNCHANGED reading
    /\ UNCHANGED <<today, records, boardVars, crashes>>

\* The prices are there, or one is missing, which ends the request.
FinishHistory(u, k) ==
    LET r == reading[u][k]
    IN  /\ reading' = [reading EXCEPT ![u] = RemoveAt(@, k)]
        /\ \/ snapshots' = [snapshots EXCEPT ![u] = Saved(u, r.from, r.to, r.seen, r.known)]
           \/ UNCHANGED snapshots
        /\ UNCHANGED <<today, records, boardVars, crashes>>
-----------------------------------------------------------------------------
(* Trades, deposits and the leaderboard. *)

AddFunds(u) ==
    /\ Len(deposits[u]) < MaxDeposits
    /\ deposits' = [deposits EXCEPT ![u] = Append(@, today)]
    /\ UNCHANGED <<today, trades, snapshots, reading, boardVars, crashes>>

\* The trade is committed, then "trade_executed" is published.
Trade(u, side) ==
    /\ Len(trades[u]) < MaxTrades
    /\ IF side = "buy" THEN AccountBalance(u) > 0 ELSE Position(u) > 0
    /\ Waiting(u) < MaxWaiting
    /\ trades' = [trades EXCEPT ![u] = Append(@, [day |-> today, side |-> side])]
    /\ updating' = [updating EXCEPT ![u] = Append(@,
          [trade |-> Len(trades[u]) + 1, stage |-> "queued",
           balance |-> 0, invested |-> 0, stocks |-> 0, funds |-> 0, shown |-> FALSE])]
    /\ UNCHANGED <<today, deposits, snapshots, reading, board, clean, crashes>>

\* get_trading_account_summary, first half: the deposits and the balance,
Funded(u, h, balance) ==
    [h EXCEPT !.stage = "funded", !.balance = balance, !.invested = Invested(u),
              !.funds = Len(deposits[u]), !.shown = snapshots[u][today] # <<>>]

\* ... second half: the positions.
Valued(u, h) == [h EXCEPT !.stage = "valued", !.stocks = Position(u)]

\* Mutant of Entry: a loss is stored as it is.
EntrySigned(h) ==
    [trade |-> h.trade, balance |-> h.balance, funds |-> h.funds,
     profit |-> h.balance + h.stocks - h.invested]

\* update_or_create_snapshot.
Entry(h) ==
    [trade |-> h.trade, balance |-> h.balance, funds |-> h.funds,
     profit |-> Max({0, h.balance + h.stocks - h.invested})]

\* Mutant of Enter: an entry of a later trade is kept.
EnterOnce(u, k, h) ==
    /\ updating' = [updating EXCEPT ![u] = RemoveAt(@, k)]
    /\ board' = IF board[u].trade = 0 THEN [board EXCEPT ![u] = Entry(h)] ELSE board
    /\ clean' = [clean EXCEPT ![u] = h.trade = Len(trades[u]) /\ ~ h.shown]

Enter(u, k, h) ==
    /\ updating' = [updating EXCEPT ![u] = RemoveAt(@, k)]
    /\ board' = [board EXCEPT ![u] = Entry(h)]
    /\ clean' = [clean EXCEPT ![u] = h.trade = Len(trades[u]) /\ ~ h.shown]

(***************************************************************************)
(* update_student_trading_leaderboard, to its next await: quotes are       *)
(* awaited after each half if there are stocks, but not after the first    *)
(* where the balance comes from a row of today.                            *)
(***************************************************************************)
StepUpdate(u, k) ==
    LET waits == Position(u) > 0
    IN  /\ \E balance \in ShownBalances(u) :
             LET h == updating[u][k]
                 funded == IF h.stage = "queued" THEN Funded(u, h, balance) ELSE h
             IN  CASE h.stage = "valued" -> Enter(u, k, h)
                   [] h.stage = "queued" /\ waits /\ ~ funded.shown ->
                        updating' = [updating EXCEPT ![u][k] = funded] /\ UNCHANGED <<board, clean>>
                   [] OTHER ->
                        IF waits
                          THEN /\ updating' = [updating EXCEPT ![u][k] = Valued(u, funded)]
                               /\ UNCHANGED <<board, clean>>
                          ELSE Enter(u, k, Valued(u, funded))
        /\ UNCHANGED <<today, records, snapshots, reading, crashes>>

\* Midnight; the job of the day that ends may have been missed.
NextDay ==
    /\ today < MaxDay
    /\ today' = today + 1
    /\ UNCHANGED <<records, snapshots, reading, boardVars, crashes>>

RestartWorker ==
    /\ Restarts
    /\ UNCHANGED <<today, records, snapshots>>

PortfolioNext ==
    \/ \E u \in User :
         \/ AddFunds(u)
         \/ \E side \in {"buy", "sell"} : Trade(u, side)
         \/ \E from, to \in Day : RequestHistory(u, from, to)
         \/ \E k \in DOMAIN reading[u] : FinishHistory(u, k)
         \/ \E k \in DOMAIN updating[u] : StepUpdate(u, k)
    \/ CreateSnapshots
    \/ NextDay
    \/ RestartWorker

PortfolioSpec == PortfolioInit /\ [][PortfolioNext]_portfolioVars
-----------------------------------------------------------------------------
(* Properties. *)

(***************************************************************************)
(* The job and any number of requests write rows, some of them long after  *)
(* the request found none, and no key keeps a day from having two: only a  *)
(* day with as many rows before it as the query returns gets a second one. *)
(***************************************************************************)
OneSnapshotPerDay ==
    \A u \in User, d \in Day :
        Len(snapshots[u][d]) > 1 => Cardinality(Rows(u, 1, d - 1)) >= RowLimit

(***************************************************************************)
(* A row that was written when all trades of its day, and all deposits     *)
(* before it, were known shows the cash they leave - whoever wrote it, in  *)
(* whatever order the days were written, and whatever happened since.  A   *)
(* user whose only row of today is such a row and who has deposited        *)
(* nothing today is shown the balance of the account.  (For users with     *)
(* more trades than one query returns nothing is promised.)                *)
(***************************************************************************)
HistoryIsRight ==
    \A u \in User, d \in Day : \A k \in DOMAIN snapshots[u][d] :
        LET row == snapshots[u][d][k]
            due == {i \in DOMAIN trades[u] : trades[u][i].day <= d}
            sold == {i \in due : trades[u][i].side = "sell"}
            paid == {i \in DOMAIN deposits[u] : deposits[u][i] < d}
        IN  row.known <= ReadLimit /\ due \subseteq 1 .. row.known /\ paid \subseteq 1 .. row.funds
              => /\ row.cash = Amount * Cardinality(paid) + 2 * Cardinality(sold) - Cardinality(due)
                 /\ d = today /\ paid = DOMAIN deposits[u] /\ Len(snapshots[u][d]) = 1
                      => ShownBalances(u) = {AccountBalance(u)}

(***************************************************************************)
(* "Calculate portfolio P&L between two dates, adjusted for cash flows     *)
(* during the period": with a constant price there is no profit and no     *)
(* loss between any two midnights, whatever is paid in, bought and sold    *)
(* between them.                                                           *)
(***************************************************************************)
PeriodPnlIsGain ==
    \A u \in User :
        Len(trades[u]) <= ReadLimit =>
            \A from, to \in Day :
                from < to => PeriodPnl(u, DOMAIN trades[u], from, to) = 0

(***************************************************************************)
(* When all updates are through, the leaderboard shows the balance and the *)
(* profit after the last trade, deposits apart, although the two are read  *)
(* on both sides of an await - unless an earlier trade's update ended      *)
(* after a later one's, died, or found a row of its day, whose cash is     *)
(* then shown instead of the account's.                                    *)
(***************************************************************************)
BoardShowsLastTrade ==
    \A u \in User :
        updating[u] = <<>> /\ clean[u] /\ trades[u] # <<>> =>
            /\ board[u].balance + Amount * (Len(deposits[u]) - board[u].funds) = AccountBalance(u)
            /\ board[u].profit = 0

=============================================================================
