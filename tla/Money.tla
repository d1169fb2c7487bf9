------------------------------- MODULE Money -------------------------------
(***************************************************************************)
(* The money arithmetic of app/services/trading.py.  Every amount is a     *)
(* natural number of sub-cent units: Cent of them make one cent, so that   *)
(* a quote may have more than two decimals while the Decimal totals the    *)
(* service stores are quantized to Decimal('0.01'), ROUND_HALF_UP.         *)
(***************************************************************************)
EXTENDS Integers

CONSTANT Cent   \* units per cent: the precision of the quotes

ASSUME CentAssumption == Cent \in Nat \ {0}

\* The quotient num / den, rounded to a whole number of cents, halves up.
QuantizeRatio(num, den) == ((2 * num + Cent * den) \div (2 * Cent * den)) * Cent

\* The total_amount of an order: (quantity * executed_price).quantize('0.01').
TotalAmount(quantity, price) == QuantizeRatio(quantity * price, 1)

\* Mutant of NewAveragePrice: divides by the shares held before the order.
AverageOverHeld(held, average, quantity, total) ==
    QuantizeRatio(held * average + total, held)

(***************************************************************************)
(* new_avg_price of _process_buy_order: the cost of the shares held plus   *)
(* the (already rounded) total of the order, over the new quantity.        *)
(***************************************************************************)
NewAveragePrice(held, average, quantity, total) ==
    QuantizeRatio(held * average + total, held + quantity)

FloorCent(x) == (x \div Cent) * Cent

CeilCent(x) == ((x + Cent - 1) \div Cent) * Cent
=============================================================================
