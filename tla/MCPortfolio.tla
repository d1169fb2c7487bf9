---------------------------- MODULE MCPortfolio ----------------------------
(***************************************************************************)
(* Portfolio and Watchlists for TLC.  They share no table: one behaviour   *)
(* follows either the one or the other.  Of the portfolio it follows       *)
(* either what happens to several trades and deposits in two days, or the  *)
(* rows of more days than one query returns.                               *)
(***************************************************************************)
EXTENDS Portfolio, Watchlists

VARIABLE focus   \* what the behaviour follows

MCInit == PortfolioInit /\ ListInit /\ focus \in {"portfolio", "rows", "watchlists"}

FewDays ==
    /\ today' <= 2
    /\ \A u \in User :
         /\ Len(trades'[u]) + Len(deposits'[u]) <= 4
         /\ \A d \in Day : d > 2 => snapshots'[u][d] = <<>>
         /\ \A k \in DOMAIN reading'[u] : reading'[u][k].to <= 2

\* The leaderboard is left to the other behaviours: its update comes at once.
OneTrade ==
    /\ crashes' = 0
    /\ \A u \in User :
         /\ Len(trades'[u]) <= 1 /\ Len(deposits'[u]) <= 1
         /\ updating[u] # <<>> => updating'[u] # updating[u]

MCNext ==
    \/ /\ focus \in {"portfolio", "rows"} /\ PortfolioNext
       /\ IF focus = "portfolio" THEN FewDays ELSE OneTrade
       /\ UNCHANGED <<listVars, focus>>
    \/ focus = "watchlists" /\ ListNext /\ UNCHANGED <<portfolioVars, focus>>

MCSpec == MCInit /\ [][MCNext]_<<portfolioVars, listVars, focus>>

\* The rows of both are well typed.
MCTypeOK == PortfolioTypeOK /\ ListTypeOK
=============================================================================
