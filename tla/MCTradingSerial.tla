-------------------------- MODULE MCTradingSerial --------------------------
(***************************************************************************)
(* TradingOrders for TLC with the requests of each user one at a time.     *)
(***************************************************************************)
EXTENDS TradingRefinement, TLC

MCPrice == {1, 6}
MCQuantity == {-1, 1, 2}
MCAmount == {12}

RequestSymmetry == Permutations(Request)
=============================================================================
