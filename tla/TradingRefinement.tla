------------------------- MODULE TradingRefinement -------------------------
(***************************************************************************)
(* The order desk as an implementation of Brokerage: the balance column is *)
(* the cash, the quantity of the position rows the shares.                 *)
(***************************************************************************)
EXTENDS TradingOrders

sharesHeld == [u \in User |-> [s \in Symbol |-> position[u][s].quantity]]

Book == INSTANCE Brokerage WITH cash <- balance, shares <- sharesHeld

(***************************************************************************)
(* With at most one request of a user at a time and no failing commit,     *)
(* place_order and add_funds_to_student_account are atomic: every step is  *)
(* a deposit, a whole order, or invisible.                                 *)
(***************************************************************************)
ImplementsBrokerage == Book!BookSpec
=============================================================================
