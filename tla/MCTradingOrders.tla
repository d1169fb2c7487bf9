-------------------------- MODULE MCTradingOrders --------------------------
(***************************************************************************)
(* TradingOrders for TLC.  Cent = 4: quotes of a quarter cent and of one   *)
(* and a half cents, so that totals round down to nothing and up.          *)
(***************************************************************************)
EXTENDS TradingOrders, TLC

MCPrice == {1, 6}
MCQuantity == {-1, 1, 2}
MCAmount == {12}

RequestSymmetry == Permutations(Request)
=============================================================================
