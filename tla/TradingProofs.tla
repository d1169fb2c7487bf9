---------------------------- MODULE TradingProofs ----------------------------
(***************************************************************************)
(* Theorems about the order desk, for every set of users, stocks, requests *)
(* and prices and every bound of TradingOrders: the rounding of            *)
(* app/services/trading.py that the proofs rest on, the order rate limit,  *)
(* the orders themselves, and the brokerage they implement.                *)
(***************************************************************************)
EXTENDS TradingRefinement, FiniteSetTheorems, TLAPS

(* Rounding. *)

\* Integer division of naturals: the quotient and its two bounds.
LEMMA DivisionBounds ==
    ASSUME NEW a \in Nat, NEW b \in Nat \ {0}
    PROVE  /\ a \div b \in Nat
           /\ b * (a \div b) <= a
           /\ a < b * (a \div b) + b
BY SMT

\* A factor bounds a product.
LEMMA ProductMonotone ==
    ASSUME NEW a \in Nat, NEW b \in Nat, NEW c \in Nat, a <= b
    PROVE  /\ c * a \in Nat
           /\ c * a <= c * b
BY SMT

\* A whole number that is above (below) the quotient bounds the quotient.
LEMMA QuotientBounds ==
    ASSUME NEW a \in Nat, NEW b \in Nat \ {0}, NEW m \in Nat
    PROVE  /\ a < b * m + b => a \div b <= m
           /\ b * m <= a => m <= a \div b
<1> DEFINE q == a \div b
<1>1. q \in Nat /\ b * q <= a /\ a < b * q + b
  BY DivisionBounds
<1>2. ASSUME a < b * m + b, ~(q <= m)  PROVE FALSE
  <2>1. m + 1 <= q
    BY <1>1, <1>2
  <2>2. b * (m + 1) <= b * q
    BY <1>1, <2>1, ProductMonotone
  <2>3. b * (m + 1) = b * m + b
    OBVIOUS
  <2> QED
    BY <1>1, <1>2, <2>2, <2>3
<1>3. ASSUME b * m <= a, ~(m <= q)  PROVE FALSE
  <2>1. q + 1 <= m
    BY <1>1, <1>3
  <2>2. b * (q + 1) <= b * m
    BY <1>1, <2>1, ProductMonotone
  <2>3. b * (q + 1) = b * q + b
    BY <1>1
  <2> QED
    BY <1>1, <1>3, <2>2, <2>3
<1> QED
  BY <1>2, <1>3
-----------------------------------------------------------------------------
(* The denominators of QuantizeRatio are positive. *)
LEMMA QuantizeParts ==
    ASSUME NEW num \in Nat, NEW den \in Nat \ {0}
    PROVE  /\ 2 * num + Cent * den \in Nat
           /\ 2 * Cent * den \in Nat \ {0}
           /\ 2 * Cent * den = 2 * (Cent * den)
           /\ Cent * den \in Nat \ {0}
<1>1. Cent * den \in Nat \ {0}
  BY CentAssumption, SMT
<1>2. 2 * Cent * den = 2 * (Cent * den)
  BY CentAssumption, SMT
<1> QED
  BY <1>1, <1>2

(***************************************************************************)
(* A quantized amount is a natural number, and a whole number of cents     *)
(* that is not below (not above) the exact quotient is not below (not      *)
(* above) the quantized one: rounding never crosses a cent.                *)
(***************************************************************************)
LEMMA QuantizeBounds ==
    ASSUME NEW num \in Nat, NEW den \in Nat \ {0}, NEW m \in Nat
    PROVE  /\ QuantizeRatio(num, den) \in Nat
           /\ num <= den * (m * Cent) => QuantizeRatio(num, den) <= m * Cent
           /\ den * (m * Cent) <= num => m * Cent <= QuantizeRatio(num, den)
<1> DEFINE a == 2 * num + Cent * den
           c == Cent * den
           b == 2 * Cent * den
           q == a \div b
<1>1. a \in Nat /\ b \in Nat \ {0} /\ b = 2 * c /\ c \in Nat \ {0}
  BY QuantizeParts
<1>2. q \in Nat
  <2> HIDE DEF a, b
  <2> QED
    BY <1>1, DivisionBounds
<1>3. QuantizeRatio(num, den) = q * Cent
  BY DEF QuantizeRatio
<1>4. den * (m * Cent) = c * m
  BY CentAssumption, SMT
<1>5. b * m = 2 * (c * m) /\ c * m \in Nat
  <2> HIDE DEF b, c
  <2> QED
    BY <1>1
<1>6. a = 2 * num + c
  OBVIOUS
<1>7. /\ a < b * m + b => q <= m
      /\ b * m <= a => m <= q
  <2> HIDE DEF a, b
  <2> QED
    BY <1>1, QuotientBounds
<1>8. num <= c * m => q <= m
  <2> HIDE DEF a, b, c, q
  <2> QED
    BY <1>1, <1>5, <1>6, <1>7
<1>9. c * m <= num => m <= q
  <2> HIDE DEF a, b, c, q
  <2> QED
    BY <1>1, <1>5, <1>6, <1>7
<1>10. /\ q * Cent \in Nat
       /\ q <= m => q * Cent <= m * Cent
       /\ m <= q => m * Cent <= q * Cent
  <2> HIDE DEF q
  <2>1. /\ Cent * q \in Nat
        /\ q <= m => Cent * q <= Cent * m
        /\ m <= q => Cent * m <= Cent * q
    BY <1>2, CentAssumption, ProductMonotone
  <2>2. q * Cent = Cent * q /\ m * Cent = Cent * m
    BY <1>2, CentAssumption, SMT
  <2> QED
    BY <2>1, <2>2
<1> QED
  <2> HIDE DEF q, c
  <2> QED
    BY <1>3, <1>4, <1>8, <1>9, <1>10

\* The total of an order is a natural number.
LEMMA TotalAmountType ==
    ASSUME NEW quantity \in Nat, NEW price \in Nat
    PROVE  TotalAmount(quantity, price) \in Nat
<1>1. quantity * price \in Nat
  BY SMT
<1> QED
  BY <1>1, QuantizeBounds DEF TotalAmount

\* Rounding up and down to whole cents, and how the two are ordered.
LEMMA CentBounds ==
    ASSUME NEW x \in Nat
    PROVE  /\ \E m \in Nat : CeilCent(x) = m * Cent /\ x <= m * Cent
           /\ \E m \in Nat : FloorCent(x) = m * Cent /\ m * Cent <= x
<1> DEFINE y == x + Cent - 1
<1>1. y \in Nat /\ Cent \in Nat \ {0}
  BY CentAssumption
<1>2. /\ y \div Cent \in Nat
      /\ y < Cent * (y \div Cent) + Cent
  <2> HIDE DEF y
  <2> QED
    BY <1>1, DivisionBounds
<1>3. x <= (y \div Cent) * Cent
  <2> DEFINE m == y \div Cent
  <2>1. m * Cent = Cent * m /\ Cent * m \in Nat
    <3> HIDE DEF m
    <3> QED
      BY <1>1, <1>2, SMT DEF m
  <2>2. y < Cent * m + Cent
    BY <1>2
  <2> HIDE DEF m
  <2>3. x <= m * Cent
    BY <1>1, <2>1, <2>2
  <2> QED
    BY <2>3 DEF m
<1>4. x \div Cent \in Nat /\ Cent * (x \div Cent) <= x
  BY <1>1, DivisionBounds
<1>5. (x \div Cent) * Cent <= x
  <2> DEFINE m == x \div Cent
  <2>1. m \in Nat /\ Cent * m <= x
    BY <1>4
  <2> HIDE DEF m
  <2>2. m * Cent <= x
    BY <1>1, <2>1, SMT
  <2> QED
    BY <2>2 DEF m
<1> QED
  BY <1>2, <1>3, <1>4, <1>5 DEF CeilCent, FloorCent

\* Whole cents of a natural number are natural numbers.
LEMMA CentType ==
    ASSUME NEW x \in Nat
    PROVE  FloorCent(x) \in Nat /\ CeilCent(x) \in Nat
<1>1. \A m \in Nat : m * Cent \in Nat
  BY CentAssumption, SMT
<1>2. PICK h \in Nat : CeilCent(x) = h * Cent
  BY CentBounds
<1>3. PICK l \in Nat : FloorCent(x) = l * Cent
  BY CentBounds
<1>4. CeilCent(x) \in Nat
  BY <1>1, <1>2, Zenon
<1>5. FloorCent(x) \in Nat
  BY <1>1, <1>3, Zenon
<1> QED
  BY <1>4, <1>5

\* Rounding keeps the order of amounts.
LEMMA CentMonotone ==
    ASSUME NEW x \in Nat, NEW y \in Nat, x <= y
    PROVE  /\ CeilCent(x) <= CeilCent(y)
           /\ FloorCent(x) <= FloorCent(y)
<1>1. Cent \in Nat \ {0}
  BY CentAssumption
<1>2. ASSUME NEW a \in Nat, NEW b \in Nat, a <= b
      PROVE  (a \div Cent) * Cent <= (b \div Cent) * Cent
  <2>1. a \div Cent \in Nat /\ Cent * (a \div Cent) <= a /\ b \div Cent \in Nat
    BY <1>1, DivisionBounds
  <2>2. a \div Cent <= b \div Cent
    <3> DEFINE m == a \div Cent
    <3>1. m \in Nat /\ Cent * m <= b
      <4>1. Cent * m \in Int
        BY <1>1, <2>1
      <4> QED
        BY <1>2, <2>1, <4>1
    <3> HIDE DEF m
    <3>2. m <= b \div Cent
      BY <1>1, <3>1, QuotientBounds
    <3> QED
      BY <3>2 DEF m
  <2> DEFINE m == a \div Cent
             n == b \div Cent
  <2>3. m \in Nat /\ n \in Nat /\ m <= n
    BY <2>1, <2>2
  <2> HIDE DEF m, n
  <2>4. Cent * m <= Cent * n
    BY <1>1, <2>3, ProductMonotone
  <2>5. m * Cent = Cent * m /\ n * Cent = Cent * n
    BY <1>1, <2>3, SMT
  <2>6. m * Cent <= n * Cent
    BY <2>4, <2>5
  <2> QED
    BY <2>6 DEF m, n
<1>3. FloorCent(x) <= FloorCent(y)
  BY <1>2 DEF FloorCent
<1>4. x + Cent - 1 \in Nat /\ y + Cent - 1 \in Nat /\ x + Cent - 1 <= y + Cent - 1
  BY <1>1
<1>5. CeilCent(x) <= CeilCent(y)
  BY <1>2, <1>4 DEF CeilCent
<1> QED
  BY <1>3, <1>5

(***************************************************************************)
(* Buying more shares keeps the average price within the rounded bounds of *)
(* the prices paid: what _process_buy_order computes from the old average  *)
(* and a total that is already rounded cannot drift out of them.           *)
(***************************************************************************)
LEMMA AverageStaysWithin ==
    ASSUME NEW held \in Nat, NEW average \in Nat, NEW quantity \in Nat \ {0},
           NEW price \in Nat, NEW low \in Nat, NEW high \in Nat,
           FloorCent(low) <= average, average <= CeilCent(high),
           low <= price, price <= high
    PROVE  LET new == NewAveragePrice(held, average, quantity, TotalAmount(quantity, price))
           IN  /\ new \in Nat
               /\ FloorCent(low) <= new
               /\ new <= CeilCent(high)
<1> DEFINE total == TotalAmount(quantity, price)
           n == held + quantity
           cost == held * average + total
<1>1. PICK h \in Nat : CeilCent(high) = h * Cent /\ high <= h * Cent
  BY CentBounds
<1>2. PICK l \in Nat : FloorCent(low) = l * Cent /\ l * Cent <= low
  BY CentBounds
<1>3. h * Cent \in Nat /\ l * Cent \in Nat
  BY CentAssumption, SMT
<1> DEFINE H == h * Cent
           L == l * Cent
<1>4. /\ H \in Nat /\ L \in Nat
      /\ L <= average /\ average <= H
      /\ L <= price /\ price <= H
  BY <1>1, <1>2, <1>3
<1>5. /\ quantity * price \in Nat
      /\ quantity * price <= quantity * H
      /\ quantity * L <= quantity * price
      /\ held * average \in Nat
      /\ held * average <= held * H
      /\ held * L <= held * average
  <2> HIDE DEF H, L
  <2> QED
    BY <1>4, ProductMonotone
<1>6. /\ total \in Nat
      /\ total <= quantity * H
      /\ quantity * L <= total
  <2>1. /\ (quantity * h) * Cent = quantity * H
        /\ (quantity * l) * Cent = quantity * L
        /\ quantity * h \in Nat /\ quantity * l \in Nat
    BY CentAssumption, SMT
  <2>2. /\ 1 * ((quantity * h) * Cent) = quantity * H
        /\ 1 * ((quantity * l) * Cent) = quantity * L
    BY <2>1, <1>4, SMT
  <2> HIDE DEF H, L
  <2>3. /\ QuantizeRatio(quantity * price, 1) \in Nat
        /\ QuantizeRatio(quantity * price, 1) <= quantity * H
    BY <1>5, <2>1, <2>2, QuantizeBounds
  <2>4. quantity * L <= QuantizeRatio(quantity * price, 1)
    BY <1>5, <2>1, <2>2, QuantizeBounds
  <2> QED
    BY <2>3, <2>4 DEF TotalAmount
<1>7. n * H = held * H + quantity * H /\ n * L = held * L + quantity * L
  <2> HIDE DEF H, L
  <2> QED
    BY <1>4, SMT
<1>8. cost \in Nat /\ cost <= n * H /\ n * L <= cost
  <2>1. /\ held * H \in Nat /\ quantity * H \in Nat
        /\ held * L \in Nat /\ quantity * L \in Nat
    <3> HIDE DEF H, L
    <3> QED
      BY <1>4, SMT
  <2> HIDE DEF H, L, total, n
  <2> QED
    BY <1>5, <1>6, <1>7, <2>1
<1>9. n \in Nat \ {0}
  OBVIOUS
<1>10. /\ QuantizeRatio(cost, n) \in Nat
       /\ QuantizeRatio(cost, n) <= H
       /\ L <= QuantizeRatio(cost, n)
  <2> HIDE DEF cost, n
  <2> QED
    BY <1>8, <1>9, QuantizeBounds
<1> QED
  BY <1>1, <1>2, <1>10 DEF NewAveragePrice
-----------------------------------------------------------------------------
(* The order rate limit. *)

(***************************************************************************)
(* The inductive invariant.  The bound needs that the pruned dictionary    *)
(* still remembers every admission that is young enough to share a window  *)
(* with the next one.                                                      *)
(***************************************************************************)
LimitInv ==
    /\ LimitTypeOK
    /\ \A u \in User : IsFiniteSet(admitted[u])
    /\ \A u \in User : \A e \in admitted[u] : e.at <= now
    /\ \A u \in User : Young(admitted[u]) \subseteq order_limits[u]
    /\ \A u \in User : order_limits[u] \subseteq admitted[u]
    /\ WindowNeverExceeded

\* A process that has just started remembers every admission: there is none.
LEMMA LimitInitially == LimitInit => LimitInv
<1> SUFFICES ASSUME LimitInit PROVE LimitInv
  OBVIOUS
<1>1. LimitTypeOK
  BY DEF LimitInit, LimitTypeOK
<1>2. \A u \in User : admitted[u] = {} /\ order_limits[u] = {}
  BY DEF LimitInit
<1>3. IsFiniteSet({})
  BY FS_EmptySet
<1>4. \A u \in User : IsFiniteSet(admitted[u])
  BY <1>2, <1>3
<1> QED
  BY <1>1, <1>2, <1>4 DEF LimitInv, Young, WindowNeverExceeded

(***************************************************************************)
(* An admission keeps the bound: whatever shares a window with it is       *)
(* young, so the dictionary remembered it when it was measured.            *)
(***************************************************************************)
LEMMA AdmitKeepsLimit ==
    ASSUME LimitInv, NEW u \in User, NEW r \in Request, AdmitOrder(u, r)
    PROVE  LimitInv'
<1> DEFINE recent == Young(order_limits[u])
           entry == [request |-> r, at |-> now]
<1>1. /\ now \in Nat /\ now' = now
      /\ order_limits \in [User -> SUBSET Admission]
      /\ admitted \in [User -> SUBSET Admission]
      /\ entry \in Admission
  BY DEF LimitInv, LimitTypeOK, AdmitOrder, Admission
<1>2. /\ order_limits' = [order_limits EXCEPT ![u] = recent \cup {entry}]
      /\ admitted' = [admitted EXCEPT ![u] = admitted[u] \cup {entry}]
      /\ Cardinality(recent) < MaxOrders
  BY DEF AdmitOrder
<1>3. recent \subseteq order_limits[u] /\ recent \subseteq Admission
  BY <1>1 DEF Young
<1>4. LimitTypeOK'
  BY <1>1, <1>2, <1>3 DEF LimitTypeOK
<1>5. \A v \in User : v # u => admitted'[v] = admitted[v] /\ order_limits'[v] = order_limits[v]
  BY <1>1, <1>2
<1>6. admitted'[u] = admitted[u] \cup {entry} /\ order_limits'[u] = recent \cup {entry}
  BY <1>1, <1>2
<1> HIDE DEF recent, entry
<1>7. IsFiniteSet(admitted[u]) /\ IsFiniteSet(admitted'[u])
  <2>1. IsFiniteSet(admitted[u])
    BY DEF LimitInv
  <2>2. IsFiniteSet(admitted[u] \cup {entry})
    BY <2>1, FS_AddElement
  <2> QED
    BY <1>6, <2>1, <2>2
<1>8. \A v \in User : IsFiniteSet(admitted'[v])
  BY <1>5, <1>7 DEF LimitInv
<1>9. \A v \in User : \A e \in admitted'[v] : e.at <= now'
  <2>1. entry.at = now
    BY DEF entry
  <2> QED
    BY <1>1, <1>5, <1>6, <2>1 DEF LimitInv
<1>10. Young(admitted[u]) \subseteq recent
  BY DEF LimitInv, Young, recent
<1>11. \A v \in User : Young(admitted[v])' \subseteq order_limits'[v]
  <2>1. ASSUME NEW v \in User, v # u
        PROVE  Young(admitted[v])' = Young(admitted[v])
    BY <1>1, <1>5, <2>1 DEF Young
  <2>2. Young(admitted[u])' \subseteq Young(admitted[u]) \cup {entry}
    BY <1>1, <1>6 DEF Young
  <2> QED
    BY <1>5, <1>6, <1>10, <2>1, <2>2 DEF LimitInv
<1>12. \A v \in User : order_limits'[v] \subseteq admitted'[v]
  BY <1>3, <1>5, <1>6 DEF LimitInv
<1>13. ASSUME NEW first \in admitted'[u]
       PROVE  Cardinality({e \in admitted'[u] :
                 first.at <= e.at /\ e.at < first.at + Window}) <= MaxOrders
  <2> DEFINE W == {e \in admitted[u] : first.at <= e.at /\ e.at < first.at + Window}
             V == {e \in admitted'[u] : first.at <= e.at /\ e.at < first.at + Window}
  <2>1. first.at \in Nat /\ \A e \in admitted'[u] : e.at \in Nat
    BY <1>1, <1>6 DEF Admission, entry
  <2>2. CASE entry \notin V
    <3>1. V = W
      BY <1>6, <2>2
    <3>2. CASE first \in admitted[u]
      BY <3>1, <3>2 DEF LimitInv, WindowNeverExceeded
    <3>3. CASE first = entry
      <4>1. entry \in admitted'[u] /\ first.at <= entry.at
        BY <1>6, <2>1, <3>3
      <4>2. Window = 0
        BY <2>1, <2>2, <3>3, <4>1, LimitAssumption
      <4>3. V = {}
        BY <2>1, <4>2
      <4>4. Cardinality(V) = 0
        BY <4>3, FS_EmptySet
      <4> QED
        BY <4>4, LimitAssumption
    <3> QED
      BY <1>6, <3>2, <3>3
  <2>3. CASE entry \in V
    <3>1. V \subseteq recent \cup {entry}
      <4> SUFFICES ASSUME NEW e \in V, e # entry PROVE e \in recent
        OBVIOUS
      <4>1. e \in admitted[u] /\ first.at <= e.at /\ e.at \in Nat
        BY <1>6, <2>1
      <4>2. now < first.at + Window
        BY <2>3 DEF entry
      <4>3. now - e.at < Window
        BY <1>1, <2>1, <4>1, <4>2, LimitAssumption
      <4> QED
        BY <1>10, <4>1, <4>3 DEF Young
    <3>2. IsFiniteSet(recent)
      <4>1. recent \subseteq admitted[u]
        BY <1>3 DEF LimitInv
      <4> QED
        BY <1>7, <4>1, FS_Subset
    <3>3. /\ IsFiniteSet(recent \cup {entry})
          /\ Cardinality(recent \cup {entry}) <= Cardinality(recent) + 1
          /\ Cardinality(recent) \in Nat
      <4>1. Cardinality(recent) \in Nat
        BY <3>2, FS_CardinalityType
      <4>2. IsFiniteSet(recent \cup {entry})
        BY <3>2, FS_AddElement
      <4>3. \/ Cardinality(recent \cup {entry}) = Cardinality(recent)
            \/ Cardinality(recent \cup {entry}) = Cardinality(recent) + 1
        BY <3>2, FS_AddElement
      <4> QED
        BY <4>1, <4>2, <4>3
    <3>4. Cardinality(V) <= Cardinality(recent \cup {entry}) /\ Cardinality(V) \in Nat
      BY <3>1, <3>3, FS_Subset, FS_CardinalityType
    <3>5. Cardinality(recent \cup {entry}) \in Nat
      BY <3>3, FS_CardinalityType
    <3> QED
      BY <1>2, <3>3, <3>4, <3>5, LimitAssumption DEF recent
  <2> QED
    BY <2>2, <2>3
<1>14. WindowNeverExceeded'
  <2>1. ASSUME NEW v \in User, v # u, NEW first \in admitted'[v]
        PROVE  Cardinality({e \in admitted'[v] :
                 first.at <= e.at /\ e.at < first.at + Window}) <= MaxOrders
    BY <1>5, <2>1 DEF LimitInv, WindowNeverExceeded
  <2> QED
    BY <1>13, <2>1 DEF WindowNeverExceeded
<1> QED
  BY <1>4, <1>8, <1>9, <1>11, <1>12, <1>14 DEF LimitInv

\* A refusal only prunes.
LEMMA RefuseKeepsLimit ==
    ASSUME LimitInv, NEW u \in User, RefuseOrder(u)
    PROVE  LimitInv'
<1> DEFINE recent == Young(order_limits[u])
<1>1. /\ now' = now /\ admitted' = admitted
      /\ order_limits' = [order_limits EXCEPT ![u] = recent]
  BY DEF RefuseOrder
<1>2. /\ order_limits \in [User -> SUBSET Admission]
      /\ recent \subseteq order_limits[u]
  BY DEF LimitInv, LimitTypeOK, Young
<1>3. LimitTypeOK'
  BY <1>1, <1>2 DEF LimitInv, LimitTypeOK
<1>4. \A v \in User : order_limits'[v] = IF v = u THEN recent ELSE order_limits[v]
  BY <1>1, <1>2
<1>5. \A v \in User : Young(admitted[v])' = Young(admitted[v])
  BY <1>1 DEF Young
<1>6. Young(admitted[u]) \subseteq recent
  BY DEF LimitInv, Young
<1>7. WindowNeverExceeded'
  BY <1>1 DEF LimitInv, WindowNeverExceeded
<1> HIDE DEF recent
<1> QED
  BY <1>1, <1>2, <1>3, <1>4, <1>5, <1>6, <1>7 DEF LimitInv

\* As the clock advances admissions only grow older.
LEMMA TickKeepsLimit ==
    ASSUME LimitInv, Tick
    PROVE  LimitInv'
<1>1. now \in Nat /\ now' = now + 1 /\ UNCHANGED <<order_limits, admitted>>
  BY DEF LimitInv, LimitTypeOK, Tick
<1>2. \A u \in User : \A e \in admitted[u] : e.at \in Nat
  BY DEF LimitInv, LimitTypeOK, Admission
<1>3. LimitTypeOK'
  BY <1>1 DEF LimitInv, LimitTypeOK
<1>4. \A u \in User : Young(admitted[u])' \subseteq Young(admitted[u])
  BY <1>1, <1>2, LimitAssumption DEF Young
<1>5. WindowNeverExceeded'
  BY <1>1 DEF LimitInv, WindowNeverExceeded
<1>6. \A u \in User : \A e \in admitted'[u] : e.at <= now'
  BY <1>1, <1>2 DEF LimitInv
<1> QED
  BY <1>1, <1>3, <1>4, <1>5, <1>6 DEF LimitInv

\* A restarted process has admitted nothing.
LEMMA ForgetKeepsLimit ==
    ASSUME LimitInv, ForgetOrders
    PROVE  LimitInv'
<1>1. \A u \in User : admitted'[u] = {} /\ order_limits'[u] = {}
  BY DEF ForgetOrders
<1>2. LimitTypeOK'
  BY DEF ForgetOrders, LimitInv, LimitTypeOK
<1>3. \A u \in User : IsFiniteSet(admitted'[u])
  BY <1>1, FS_EmptySet
<1> QED
  BY <1>1, <1>2, <1>3 DEF LimitInv, Young, WindowNeverExceeded

\* The limiter keeps its invariant, whatever it does.
LEMMA LimitPreserved == LimitInv /\ [LimitNext]_limitVars => LimitInv'
<1> SUFFICES ASSUME LimitInv, [LimitNext]_limitVars PROVE LimitInv'
  OBVIOUS
<1>1. CASE LimitNext
  BY <1>1, AdmitKeepsLimit, RefuseKeepsLimit, TickKeepsLimit, ForgetKeepsLimit
     DEF LimitNext
<1>2. CASE UNCHANGED limitVars
  BY <1>2 DEF limitVars, LimitInv, LimitTypeOK, WindowNeverExceeded, Young
<1> QED
  BY <1>1, <1>2
-----------------------------------------------------------------------------
(* The order desk. *)

Position == [quantity : Nat, average_price : Nat]
PriceRange == [low : Nat, high : Nat]

\* A waiting request carries an order for at least one share.
WaitingHasOrder ==
    \A r \in Request :
        status[r] = "waiting" => order[r] \in Order /\ order[r].quantity > 0

-----------------------------------------------------------------------------
(* What the helpers of the order desk return. *)

\* What _process_buy_order writes is a position row with shares.
LEMMA BoughtType ==
    ASSUME NEW held \in Position, NEW quantity \in Nat \ {0}, NEW price \in Nat,
           NEW total \in Nat
    PROVE  Bought(held, quantity, price, total) \in Position
<1>1. CASE held.quantity > 0
  <2> DEFINE num == held.quantity * held.average_price + total
             den == held.quantity + quantity
  <2>1. held.quantity \in Nat /\ held.average_price \in Nat
    BY DEF Position
  <2>2. num \in Nat /\ den \in Nat \ {0}
    <3>1. held.quantity * held.average_price \in Nat
      BY <2>1, SMT
    <3> QED
      BY <2>1, <3>1
  <2>3. QuantizeRatio(num, den) \in Nat
    <3> HIDE DEF num, den
    <3> QED
      BY <2>2, QuantizeBounds
  <2>4. den \in Nat
    BY <2>2
  <2> QED
    BY <1>1, <2>3, <2>4 DEF Bought, NewAveragePrice, Position
<1>2. CASE ~(held.quantity > 0)
  BY <1>2 DEF Bought, Position
<1> QED
  BY <1>1, <1>2

\* What _process_sell_order writes is a position row, or none.
LEMMA SoldType ==
    ASSUME NEW held \in Position, NEW quantity \in Nat, quantity <= held.quantity
    PROVE  /\ Sold(held, quantity) \in Position
           /\ Sold(held, quantity).quantity = held.quantity - quantity
           /\ Sold(held, quantity).quantity > 0 =>
                Sold(held, quantity).average_price = held.average_price
BY DEF Sold, NoPosition, Position

\* The range of prices paid stays a pair of naturals.
LEMMA PaidAfterType ==
    ASSUME NEW held \in Position, NEW range \in PriceRange, NEW price \in Nat
    PROVE  /\ PaidAfter(held, range, price) \in PriceRange
           /\ PaidAfter(held, range, price).low <= price
           /\ price <= PaidAfter(held, range, price).high
           /\ held.quantity > 0 =>
                /\ PaidAfter(held, range, price).low <= range.low
                /\ range.high <= PaidAfter(held, range, price).high
BY DEF PaidAfter, Position, PriceRange

\* The fields of an order are a user, a side, a symbol and a quantity.
LEMMA OrderType ==
    ASSUME NEW o \in Order
    PROVE  /\ o.user \in User /\ o.side \in Side /\ o.symbol \in Symbol
           /\ o.quantity \in Int
BY TradingAssumption DEF Order

-----------------------------------------------------------------------------
(* Types. *)

\* The empty database is well typed, and no order is waiting.
LEMMA InitTyped == Init => TypeOK /\ WaitingHasOrder
<1> SUFFICES ASSUME Init PROVE TypeOK /\ WaitingHasOrder
  OBVIOUS
<1>1. LimitTypeOK
  BY DEF Init, LimitInit, LimitTypeOK
<1> QED
  BY <1>1 DEF Init, TypeOK, WaitingHasOrder, NoPosition, NoRange, Expired, NoOrder

\* A request that ends leaves the request columns well typed.
LEMMA FinishTyped ==
    ASSUME TypeOK, WaitingHasOrder, NEW r \in Request, Finish(r)
    PROVE  /\ status' \in [Request -> {"new", "waiting", "done", "refused"}]
           /\ order' \in [Request -> Order \cup {NoOrder}]
           /\ seen' \in [Request -> Int]
           /\ WaitingHasOrder'
           /\ \A x \in Request : status'[x] = "waiting" =>
                /\ x # r
                /\ status[x] = "waiting"
                /\ order'[x] = order[x]
                /\ seen'[x] = seen[x]
BY DEF TypeOK, WaitingHasOrder, Finish, Expired

\* The balance column and its history stay well typed.
LEMMA WriteBalanceTyped ==
    ASSUME TypeOK, NEW u \in User, NEW r, NEW loaded \in Int, NEW new \in Int,
           WriteBalance(u, r, loaded, new)
    PROVE  /\ balance' \in [User -> Int]
           /\ overlapped' \subseteq User
           /\ overlapped \subseteq overlapped'
           /\ \A v \in User : v # u => balance'[v] = balance[v]
           /\ balance'[u] = IF new = loaded THEN balance[u] ELSE new
           /\ new # loaded /\ u \notin overlapped' => Holding(u, r) = {}
BY DEF TypeOK, WriteBalance

\* The histories of failed commits stay well typed.
LEMMA CommitsTyped ==
    ASSUME TypeOK, NEW u \in User, NEW k, NEW n \in Nat, Commits(u, k, n)
    PROVE  /\ failedCommits' \in Nat
           /\ torn' \subseteq User
           /\ torn \subseteq torn'
           /\ u \notin torn' => k = n
           /\ k \in 1 .. n
BY DEF TypeOK, Commits

\* The balance a session sees is an integer.
LEMMA LoadedType ==
    ASSUME TypeOK, WaitingHasOrder, NEW r \in Request, status[r] = "waiting"
    PROVE  Loaded(r) \in Int
BY OrderType DEF TypeOK, WaitingHasOrder, Loaded, Expired

\* The columns and the histories a request that only ends leaves alone.
LEMMA EndTyped ==
    ASSUME TypeOK, WaitingHasOrder, NEW r \in Request, Finish(r),
           UNCHANGED <<limitVars, tableVars, historyVars>>
    PROVE  TypeOK' /\ WaitingHasOrder'
BY FinishTyped DEF TypeOK, LimitTypeOK, limitVars, tableVars, historyVars

\* What place_order does before the quote keeps the types.
LEMMA PlaceTyped ==
    ASSUME TypeOK, WaitingHasOrder, LimitTypeOK', NEW r \in Request, NEW o \in Order,
           \/ PlaceOrder(r, o) \/ PlaceInvalidOrder(r, o) \/ PlaceTooManyOrders(r, o)
    PROVE  TypeOK' /\ WaitingHasOrder'
<1>1. CASE PlaceOrder(r, o)
  <2>1. seen' \in [Request -> Int]
    BY <1>1, OrderType DEF PlaceOrder, TypeOK, Expired
  <2>2. /\ status' \in [Request -> {"new", "waiting", "done", "refused"}]
        /\ order' \in [Request -> Order \cup {NoOrder}]
        /\ accounts' \subseteq User
    BY <1>1, OrderType DEF PlaceOrder, TypeOK
  <2>3. WaitingHasOrder'
    BY <1>1 DEF PlaceOrder, TypeOK, WaitingHasOrder
  <2> QED
    BY <1>1, <2>1, <2>2, <2>3 DEF PlaceOrder, TypeOK, historyVars
<1>2. CASE PlaceInvalidOrder(r, o)
  <2>1. Finish(r) /\ accounts' \subseteq User
    BY <1>2, OrderType DEF PlaceInvalidOrder, TypeOK
  <2> QED
    BY <1>2, <2>1, FinishTyped DEF PlaceInvalidOrder, TypeOK, historyVars
<1>3. CASE PlaceTooManyOrders(r, o)
  <2>1. WaitingHasOrder'
    BY <1>3 DEF PlaceTooManyOrders, TypeOK, WaitingHasOrder
  <2> QED
    BY <1>3, <2>1 DEF PlaceTooManyOrders, TypeOK, historyVars, tableVars
<1> QED
  BY <1>1, <1>2, <1>3

\* A filled buy order keeps the types.
LEMMA FillBuyTyped ==
    ASSUME TypeOK, WaitingHasOrder, NEW r \in Request, NEW price \in Price,
           NEW k \in 1 .. 3, FillBuy(r, price, k)
    PROVE  TypeOK' /\ WaitingHasOrder'
<1> DEFINE o == order[r]
           u == order[r].user
           held == position[o.user][o.symbol]
           total == TotalAmount(o.quantity, price)
<1>1. /\ o \in Order /\ o.quantity > 0 /\ o.user \in User /\ o.symbol \in Symbol
      /\ o.quantity \in Nat \ {0} /\ price \in Nat
  BY OrderType, TradingAssumption DEF FillBuy, WaitingHasOrder
<1>2. total \in Nat
  BY <1>1, TotalAmountType
<1>3. held \in Position
  BY <1>1 DEF TypeOK, Position
<1>4. Loaded(r) \in Int
  BY LoadedType DEF FillBuy
<1>5. /\ Finish(r)
      /\ Commits(u, k, 3)
      /\ WriteBalance(u, r, Loaded(r), Loaded(r) - total)
      /\ UNCHANGED <<limitVars, accounts, restarts>>
  BY DEF FillBuy
<1>6. /\ balance' \in [User -> Int] /\ overlapped' \subseteq User
      /\ failedCommits' \in Nat /\ torn' \subseteq User
  <2> HIDE DEF total
  <2>1. Loaded(r) - total \in Int
    BY <1>2, <1>4
  <2> QED
    BY <1>1, <1>4, <1>5, <2>1, WriteBalanceTyped, CommitsTyped
<1>7. Bought(held, o.quantity, price, total) \in Position
  <2> HIDE DEF total, held, o
  <2> QED
    BY <1>1, <1>2, <1>3, BoughtType
<1>8. position' \in [User -> [Symbol -> Position]]
  <2>1. position \in [User -> [Symbol -> Position]]
    BY DEF TypeOK, Position
  <2>2. \/ position' = position
        \/ position' = [position EXCEPT ![o.user][o.symbol] =
                           Bought(held, o.quantity, price, total)]
    BY DEF FillBuy
  <2> HIDE DEF total, held, o
  <2> QED
    BY <1>1, <1>7, <2>1, <2>2
<1>9. paid' \in [User -> [Symbol -> PriceRange]]
  <2>1. paid \in [User -> [Symbol -> PriceRange]]
    BY DEF TypeOK, PriceRange
  <2>2. \/ paid' = paid
        \/ paid' = [paid EXCEPT ![o.user][o.symbol] =
                       PaidAfter(held, paid[o.user][o.symbol], price)]
    BY DEF FillBuy
  <2>3. PaidAfter(held, paid[o.user][o.symbol], price) \in PriceRange
    <3>1. paid[o.user][o.symbol] \in PriceRange
      BY <1>1, <2>1
    <3> HIDE DEF held, o
    <3> QED
      BY <1>1, <1>3, <3>1, PaidAfterType
  <2> HIDE DEF held, o
  <2> QED
    BY <1>1, <2>1, <2>2, <2>3
<1>10. cashReplay' \in [User -> Int]
  <2>1. cashReplay' = cashReplay \/ cashReplay' = [cashReplay EXCEPT ![o.user] = @ - total]
    BY DEF FillBuy
  <2> HIDE DEF total, o
  <2> QED
    BY <1>1, <1>2, <2>1 DEF TypeOK
<1>11. sharesReplay' \in [User -> [Symbol -> Nat]]
  <2>1. \/ sharesReplay' = sharesReplay
        \/ sharesReplay' = [sharesReplay EXCEPT ![o.user][o.symbol] =
                               sharesReplay[o.user][o.symbol] + o.quantity]
    BY DEF FillBuy
  <2>2. sharesReplay \in [User -> [Symbol -> Nat]]
    BY DEF TypeOK
  <2>3. sharesReplay[o.user][o.symbol] + o.quantity \in Nat
    BY <1>1, <2>2
  <2> HIDE DEF o
  <2> QED
    BY <1>1, <2>1, <2>2, <2>3
<1> QED
  BY <1>5, <1>6, <1>8, <1>9, <1>10, <1>11, FinishTyped
     DEF TypeOK, LimitTypeOK, limitVars, Position, PriceRange

\* A filled sell order keeps the types: no position goes below zero.
LEMMA FillSellTyped ==
    ASSUME TypeOK, WaitingHasOrder, NEW r \in Request, NEW price \in Price,
           NEW k \in 1 .. 3, FillSell(r, price, k)
    PROVE  TypeOK' /\ WaitingHasOrder'
<1> DEFINE o == order[r]
           u == order[r].user
           held == position[o.user][o.symbol]
           total == TotalAmount(o.quantity, price)
<1>1. /\ o \in Order /\ o.quantity > 0 /\ o.user \in User /\ o.symbol \in Symbol
      /\ o.quantity \in Nat \ {0} /\ price \in Nat
  BY OrderType, TradingAssumption DEF FillSell, WaitingHasOrder
<1>2. total \in Nat
  BY <1>1, TotalAmountType
<1>3. held \in Position /\ o.quantity <= held.quantity
  BY <1>1 DEF TypeOK, Position, FillSell
<1>4. Loaded(r) \in Int
  BY LoadedType DEF FillSell
<1>5. /\ Finish(r)
      /\ Commits(u, k, 3)
      /\ WriteBalance(u, r, Loaded(r), Loaded(r) + total)
      /\ UNCHANGED <<limitVars, accounts, restarts, paid>>
  BY DEF FillSell
<1>6. /\ balance' \in [User -> Int] /\ overlapped' \subseteq User
      /\ failedCommits' \in Nat /\ torn' \subseteq User
  <2> HIDE DEF total
  <2>1. Loaded(r) + total \in Int
    BY <1>2, <1>4
  <2> QED
    BY <1>1, <1>4, <1>5, <2>1, WriteBalanceTyped, CommitsTyped
<1>7. Sold(held, o.quantity) \in Position
  <2> HIDE DEF held, o
  <2> QED
    BY <1>1, <1>3, SoldType
<1>8. position' \in [User -> [Symbol -> Position]]
  <2>1. position \in [User -> [Symbol -> Position]]
    BY DEF TypeOK, Position
  <2>2. \/ position' = position
        \/ position' = [position EXCEPT ![o.user][o.symbol] = Sold(held, o.quantity)]
    BY DEF FillSell
  <2> HIDE DEF held, o
  <2> QED
    BY <1>1, <1>7, <2>1, <2>2
<1>9. cashReplay' \in [User -> Int]
  <2>1. cashReplay' = cashReplay \/ cashReplay' = [cashReplay EXCEPT ![o.user] = @ + total]
    BY DEF FillSell
  <2> HIDE DEF total, o
  <2> QED
    BY <1>1, <1>2, <2>1 DEF TypeOK
<1>10. sharesReplay' \in [User -> [Symbol -> Nat]]
  <2>1. \/ sharesReplay' = sharesReplay
        \/ sharesReplay' = [sharesReplay EXCEPT ![o.user][o.symbol] =
                               IF sharesReplay[o.user][o.symbol] > o.quantity
                                 THEN sharesReplay[o.user][o.symbol] - o.quantity
                                 ELSE 0]
    BY DEF FillSell
  <2>2. sharesReplay \in [User -> [Symbol -> Nat]]
    BY DEF TypeOK
  <2>3. (IF sharesReplay[o.user][o.symbol] > o.quantity
           THEN sharesReplay[o.user][o.symbol] - o.quantity
           ELSE 0) \in Nat
    BY <1>1, <2>2
  <2> HIDE DEF o
  <2> QED
    BY <1>1, <2>1, <2>2, <2>3, SMTT(60)
<1> QED
  BY <1>5, <1>6, <1>8, <1>9, <1>10, FinishTyped
     DEF TypeOK, LimitTypeOK, limitVars, Position

\* A deposit keeps the types.
LEMMA AddFundsTyped ==
    ASSUME TypeOK, WaitingHasOrder, NEW r \in Request, NEW u \in User,
           NEW amount \in Amount, NEW k \in 1 .. 2, AddFunds(r, u, amount, k)
    PROVE  TypeOK' /\ WaitingHasOrder'
<1>1. /\ Finish(r)
      /\ Commits(u, k, 2)
      /\ WriteBalance(u, r, balance[u], balance[u] + amount)
      /\ accounts' = accounts \cup {u}
      /\ cashReplay' = cashReplay \/ cashReplay' = [cashReplay EXCEPT ![u] = @ + amount]
      /\ UNCHANGED <<limitVars, position, sharesReplay, restarts, paid>>
  BY DEF AddFunds
<1>2. amount \in Nat /\ balance[u] \in Int /\ balance[u] + amount \in Int
  BY TradingAssumption DEF TypeOK
<1>3. /\ balance' \in [User -> Int] /\ overlapped' \subseteq User
      /\ failedCommits' \in Nat /\ torn' \subseteq User
  BY <1>1, <1>2, WriteBalanceTyped, CommitsTyped
<1>4. cashReplay' \in [User -> Int]
  BY <1>1, <1>2 DEF TypeOK
<1> QED
  BY <1>1, <1>3, <1>4, FinishTyped DEF TypeOK, LimitTypeOK, limitVars

\* A restart keeps the types.
LEMMA RestartTyped ==
    ASSUME TypeOK, WaitingHasOrder, LimitTypeOK', Restart
    PROVE  TypeOK' /\ WaitingHasOrder'
<1>1. /\ status' \in [Request -> {"new", "waiting", "done", "refused"}]
      /\ order' \in [Request -> Order \cup {NoOrder}]
      /\ seen' \in [Request -> Int]
      /\ restarts' \in Nat
  BY DEF TypeOK, Restart, Waiting, Expired
<1>2. WaitingHasOrder'
  BY DEF Restart, Waiting, WaitingHasOrder
<1> QED
  BY <1>1, <1>2 DEF TypeOK, Restart, tableVars

\* Every step of the desk is a step of the limiter, or leaves it alone.
LEMMA NextIsLimitNext == TypeOK /\ [Next]_vars => [LimitNext]_limitVars
<1> SUFFICES ASSUME TypeOK, [Next]_vars PROVE [LimitNext]_limitVars
  OBVIOUS
<1>1. ASSUME NEW r \in Request, NEW o \in Order,
             \/ PlaceOrder(r, o) \/ PlaceInvalidOrder(r, o) \/ PlaceTooManyOrders(r, o)
      PROVE  LimitNext
  BY <1>1, OrderType
     DEF LimitNext, PlaceOrder, PlaceInvalidOrder, PlaceTooManyOrders
<1>2. ASSUME NEW r \in Request,
             QuoteUnusable(r) \/ InsufficientFunds(r) \/ InsufficientShares(r)
      PROVE  UNCHANGED limitVars
  BY <1>2 DEF QuoteUnusable, InsufficientFunds, InsufficientShares
<1>3. ASSUME NEW r \in Request, NEW price \in Price, NEW k \in 1 .. 3,
             FillBuy(r, price, k) \/ FillSell(r, price, k)
      PROVE  UNCHANGED limitVars
  BY <1>3 DEF FillBuy, FillSell
<1>4. ASSUME NEW r \in Request, NEW u \in User, NEW amount \in Amount,
             NEW k \in 1 .. 2, AddFunds(r, u, amount, k)
      PROVE  UNCHANGED limitVars
  BY <1>4 DEF AddFunds
<1>5. CASE Restart
  BY <1>5 DEF Restart, LimitNext
<1>6. CASE PassTime
  BY <1>6 DEF PassTime, LimitNext
<1>7. CASE UNCHANGED vars
  BY <1>7 DEF vars
<1> QED
  BY <1>1, <1>2, <1>3, <1>4, <1>5, <1>6, <1>7 DEF Next

\* Every step keeps the types, and a waiting request has an order.
LEMMA NextTyped ==
    ASSUME TypeOK, WaitingHasOrder, LimitTypeOK', [Next]_vars
    PROVE  TypeOK' /\ WaitingHasOrder'
<1>1. ASSUME NEW r \in Request,
             QuoteUnusable(r) \/ InsufficientFunds(r) \/ InsufficientShares(r)
      PROVE  TypeOK' /\ WaitingHasOrder'
  BY <1>1, EndTyped DEF QuoteUnusable, InsufficientFunds, InsufficientShares
<1>2. CASE PassTime
  BY <1>2 DEF PassTime, TypeOK, WaitingHasOrder, tableVars, historyVars
<1>3. CASE UNCHANGED vars
  BY <1>3 DEF vars, TypeOK, WaitingHasOrder, tableVars, historyVars
<1> QED
  BY <1>1, <1>2, <1>3, PlaceTyped, FillBuyTyped, FillSellTyped, AddFundsTyped,
     RestartTyped DEF Next

(***************************************************************************)
(* Every variable of the order desk keeps its type: quantities and average *)
(* prices never leave the naturals, an order that waits is a valid order.  *)
(***************************************************************************)
THEOREM TypeCorrect == Spec => []TypeOK
<1> DEFINE Inv == TypeOK /\ WaitingHasOrder /\ LimitInv
<1>1. Init => Inv
  BY InitTyped, LimitInitially DEF Init
<1>2. Inv /\ [Next]_vars => Inv'
  <2>1. Inv /\ [Next]_vars => LimitInv'
    BY NextIsLimitNext, LimitPreserved
  <2>2. LimitInv' => LimitTypeOK'
    BY DEF LimitInv
  <2> QED
    BY <2>1, <2>2, NextTyped
<1> QED
  BY <1>1, <1>2, PTL DEF Spec

(***************************************************************************)
(* No window of the limiter ever holds more than MaxOrders orders that the *)
(* service executed for a user.                                            *)
(***************************************************************************)
THEOREM RateLimitHolds == Spec => []WindowNeverExceeded
<1>1. Init => LimitInv
  BY LimitInitially DEF Init
<1>2. LimitInv /\ TypeOK /\ [Next]_vars => LimitInv'
  BY NextIsLimitNext, LimitPreserved
<1>3. LimitInv => WindowNeverExceeded
  BY DEF LimitInv
<1> QED
  BY <1>1, <1>2, <1>3, TypeCorrect, PTL DEF Spec

\* Who is refused has had MaxOrders orders executed within the last window.
LEMMA RefusedWhenFull ==
    ASSUME LimitInv, NEW u \in User, RefuseOrder(u)
    PROVE  Cardinality(Young(admitted[u])) >= MaxOrders
<1> DEFINE recent == Young(order_limits[u])
           young == Young(admitted[u])
<1>1. Cardinality(recent) >= MaxOrders
  BY DEF RefuseOrder
<1>2. recent \subseteq young /\ young \subseteq admitted[u]
  BY DEF LimitInv, Young
<1>3. IsFiniteSet(young)
  BY <1>2, FS_Subset DEF LimitInv
<1>4. Cardinality(recent) <= Cardinality(young)
  BY <1>2, <1>3, FS_Subset
<1>5. Cardinality(recent) \in Nat /\ Cardinality(young) \in Nat
  BY <1>2, <1>3, FS_Subset, FS_CardinalityType
<1> HIDE DEF recent, young
<1> QED
  BY <1>1, <1>4, <1>5, LimitAssumption, SMT DEF young

\* Only PlaceTooManyOrders takes a request from "new" to "refused".
LEMMA OnlyOneRefusal ==
    ASSUME TypeOK, [Next]_vars, NEW r \in Request,
           status[r] = "new", status'[r] = "refused"
    PROVE  \E o \in Order : RefuseOrder(o.user) /\ order'[r] = o
<1>1. /\ status \in [Request -> {"new", "waiting", "done", "refused"}]
      /\ order \in [Request -> Order \cup {NoOrder}]
  BY DEF TypeOK
<1>2. ASSUME NEW x \in Request, Finish(x)
      PROVE  FALSE
  BY <1>1, <1>2 DEF Finish
<1>3. CASE \E x \in Request, o \in Order : PlaceOrder(x, o)
  BY <1>1, <1>3 DEF PlaceOrder
<1>4. CASE \E x \in Request, o \in Order : PlaceInvalidOrder(x, o)
  BY <1>2, <1>4 DEF PlaceInvalidOrder
<1>5. CASE \E x \in Request, o \in Order : PlaceTooManyOrders(x, o)
  BY <1>1, <1>5 DEF PlaceTooManyOrders
<1>6. CASE \E x \in Request :
             QuoteUnusable(x) \/ InsufficientFunds(x) \/ InsufficientShares(x)
  BY <1>2, <1>6 DEF QuoteUnusable, InsufficientFunds, InsufficientShares
<1>7. CASE \E x \in Request, price \in Price \ {0}, k \in 1 .. 3 :
             FillBuy(x, price, k) \/ FillSell(x, price, k)
  BY <1>2, <1>7 DEF FillBuy, FillSell
<1>8. CASE \E x \in Request, u \in User, amount \in Amount, k \in 1 .. 2 :
             AddFunds(x, u, amount, k)
  BY <1>2, <1>8 DEF AddFunds
<1>9. CASE Restart
  BY <1>1, <1>9 DEF Restart, Waiting
<1>10. CASE PassTime \/ UNCHANGED vars
  BY <1>10 DEF PassTime, vars
<1> QED
  BY <1>3, <1>4, <1>5, <1>6, <1>7, <1>8, <1>9, <1>10 DEF Next

(***************************************************************************)
(* An order is refused with 429 only when MaxOrders orders of the user     *)
(* were executed within the last window: refusals, deposits and orders     *)
(* that have grown old never count against him.                            *)
(***************************************************************************)
THEOREM RefusalsAreJustified == Spec => RefusedOnlyWhenFull
<1> DEFINE Justified ==
      \A r \in Request :
        status[r] = "new" /\ status'[r] = "refused" =>
          Cardinality(Young(admitted[order'[r].user])) >= MaxOrders
<1>1. Init => LimitInv
  BY LimitInitially DEF Init
<1>2. LimitInv /\ TypeOK /\ [Next]_vars => LimitInv'
  BY NextIsLimitNext, LimitPreserved
<1>3. LimitInv /\ TypeOK /\ [Next]_vars => Justified
  <2> SUFFICES ASSUME LimitInv, TypeOK, [Next]_vars, NEW r \in Request,
                      status[r] = "new", status'[r] = "refused"
               PROVE  Cardinality(Young(admitted[order'[r].user])) >= MaxOrders
    OBVIOUS
  <2>1. PICK o \in Order : RefuseOrder(o.user) /\ order'[r] = o
    BY OnlyOneRefusal
  <2>2. o.user \in User
    BY DEF Order
  <2> QED
    BY <2>1, <2>2, RefusedWhenFull
<1>4. LimitInv /\ TypeOK /\ [Next]_vars => [Justified]_vars
  BY <1>3
<1> HIDE DEF Justified
<1>5. Spec => [][Justified]_vars
  BY <1>1, <1>2, <1>4, TypeCorrect, PTL DEF Spec
<1> QED
  BY <1>5 DEF RefusedOnlyWhenFull, Justified

-----------------------------------------------------------------------------
(* Cash. *)

(***************************************************************************)
(* The inductive invariant about money.  A waiting order still holds the   *)
(* balance of the row it will write, unless that row was written under it: *)
(* without this part nothing relates what the order subtracts from to what *)
(* it overwrites.                                                          *)
(***************************************************************************)
FreshReads ==
    \A r \in Request :
        status[r] = "waiting" /\ order[r].user \notin overlapped =>
            seen[r] = Expired \/ seen[r] = balance[order[r].user]

SeenNeverNegative == \A r \in Request : seen[r] = Expired \/ seen[r] >= 0

CashInv ==
    /\ BalanceNeverNegative
    /\ UndisturbedCashMatchesReplay
    /\ FreshReads
    /\ SeenNeverNegative

\* The empty database agrees with the empty replay.
LEMMA InitCash == Init => CashInv
BY DEF Init, CashInv, BalanceNeverNegative, UndisturbedCashMatchesReplay, FreshReads,
       SeenNeverNegative, Expired

\* What a waiting order subtracts from, or adds to.
LEMMA LoadedFresh ==
    ASSUME TypeOK, WaitingHasOrder, CashInv, NEW r \in Request, status[r] = "waiting"
    PROVE  /\ Loaded(r) \in Nat
           /\ order[r].user \notin overlapped => Loaded(r) = balance[order[r].user]
<1>1. /\ order[r].user \in User
      /\ balance[order[r].user] \in Int /\ balance[order[r].user] >= 0
      /\ seen[r] \in Int
  BY OrderType DEF TypeOK, WaitingHasOrder, CashInv, BalanceNeverNegative
<1>2. seen[r] = Expired \/ seen[r] >= 0
  BY DEF CashInv, SeenNeverNegative
<1> QED
  BY <1>1, <1>2 DEF Loaded, CashInv, FreshReads

(***************************************************************************)
(* A request that writes a balance keeps the invariant when it adds to the *)
(* balance it loaded what it adds to the records, or leaves the user torn. *)
(***************************************************************************)
LEMMA WriteKeepsCash ==
    ASSUME TypeOK, WaitingHasOrder, CashInv, NEW r \in Request, NEW u \in User,
           NEW loaded \in Nat, NEW delta \in Int, loaded + delta >= 0,
           Finish(r), WriteBalance(u, r, loaded, loaded + delta),
           torn \subseteq torn',
           u \notin overlapped => loaded = balance[u],
           \/ cashReplay' = [cashReplay EXCEPT ![u] = cashReplay[u] + delta]
           \/ u \in torn' /\ cashReplay' = cashReplay
    PROVE  CashInv'
<1> DEFINE new == loaded + delta
<1>1. new \in Int /\ loaded \in Int
  OBVIOUS
<1>2. /\ balance' \in [User -> Int]
      /\ overlapped \subseteq overlapped'
      /\ \A v \in User : v # u => balance'[v] = balance[v]
      /\ balance'[u] = IF new = loaded THEN balance[u] ELSE new
      /\ new # loaded /\ u \notin overlapped' => Holding(u, r) = {}
  BY <1>1, WriteBalanceTyped
<1>3. BalanceNeverNegative'
  BY <1>2 DEF CashInv, BalanceNeverNegative
<1>4. UndisturbedCashMatchesReplay'
  <2> SUFFICES ASSUME NEW v \in User, v \notin overlapped', v \notin torn'
               PROVE  balance'[v] = cashReplay'[v]
    BY DEF UndisturbedCashMatchesReplay
  <2>1. balance[v] = cashReplay[v] /\ v \notin overlapped
    BY <1>2 DEF CashInv, UndisturbedCashMatchesReplay
  <2>2. CASE v # u
    BY <1>2, <2>1, <2>2 DEF TypeOK
  <2>3. CASE v = u
    <3>1. balance[u] \in Int /\ cashReplay'[u] = cashReplay[u] + delta
      BY <2>3 DEF TypeOK
    <3>2. loaded = balance[u]
      BY <2>1, <2>3
    <3> QED
      BY <1>2, <2>1, <2>3, <3>1, <3>2
  <2> QED
    BY <2>2, <2>3
<1>5. FreshReads'
  <2> SUFFICES ASSUME NEW x \in Request, status'[x] = "waiting",
                      order'[x].user \notin overlapped'
               PROVE  seen'[x] = Expired \/ seen'[x] = balance'[order'[x].user]
    BY DEF FreshReads
  <2>1. x # r /\ status[x] = "waiting" /\ order'[x] = order[x] /\ seen'[x] = seen[x]
    BY FinishTyped
  <2>2. order[x].user \in User
    BY <2>1, OrderType DEF WaitingHasOrder
  <2>3. seen[x] = Expired \/ seen[x] = balance[order[x].user]
    BY <1>2, <2>1 DEF CashInv, FreshReads
  <2>4. CASE order[x].user = u /\ new # loaded
    <3>1. x \notin Holding(u, r)
      BY <1>2, <2>1, <2>4
    <3> QED
      BY <2>1, <2>4, <3>1 DEF Holding, Waiting
  <2>5. CASE ~(order[x].user = u /\ new # loaded)
    BY <1>2, <2>1, <2>2, <2>3, <2>5
  <2> QED
    BY <2>4, <2>5
<1>6. SeenNeverNegative'
  BY DEF Finish, CashInv, SeenNeverNegative, TypeOK
<1> QED
  BY <1>3, <1>4, <1>5, <1>6 DEF CashInv

\* A request that ends without a write, or a step that only reads the tables.
LEMMA EndKeepsCash ==
    ASSUME TypeOK, CashInv, UNCHANGED <<balance, cashReplay, overlapped, torn>>,
           \A x \in Request :
              \/ /\ status'[x] = "waiting" => status[x] = "waiting" /\ order'[x] = order[x]
                 /\ seen'[x] = seen[x]
              \/ seen'[x] = Expired
    PROVE  CashInv'
<1>1. BalanceNeverNegative' /\ UndisturbedCashMatchesReplay'
  BY DEF CashInv, BalanceNeverNegative, UndisturbedCashMatchesReplay
<1>2. FreshReads' /\ SeenNeverNegative'
  BY DEF CashInv, FreshReads, SeenNeverNegative
<1> QED
  BY <1>1, <1>2 DEF CashInv

\* An order that starts to wait, or is turned away, keeps the cash invariant.
LEMMA PlaceKeepsCash ==
    ASSUME TypeOK, CashInv, NEW r \in Request, NEW o \in Order, PlaceOrder(r, o)
    PROVE  CashInv'
<1>1. /\ UNCHANGED <<balance, cashReplay, overlapped, torn>>
      /\ \A x \in Request \ {r} : /\ status'[x] = status[x]
                                  /\ order'[x] = order[x]
                                  /\ seen'[x] = seen[x]
      /\ order'[r] = o
      /\ seen'[r] = Expired \/ seen'[r] = balance[o.user]
  BY DEF PlaceOrder, historyVars, TypeOK
<1>2. o.user \in User
  BY OrderType
<1>3. BalanceNeverNegative' /\ UndisturbedCashMatchesReplay'
  BY <1>1 DEF CashInv, BalanceNeverNegative, UndisturbedCashMatchesReplay
<1>4. FreshReads'
  BY <1>1 DEF CashInv, FreshReads
<1>5. SeenNeverNegative'
  BY <1>1, <1>2 DEF CashInv, SeenNeverNegative, BalanceNeverNegative
<1> QED
  BY <1>3, <1>4, <1>5 DEF CashInv

\* A filled buy order keeps the cash invariant: it pays what it checked.
LEMMA FillBuyKeepsCash ==
    ASSUME TypeOK, WaitingHasOrder, CashInv, NEW r \in Request, NEW price \in Price,
           NEW k \in 1 .. 3, FillBuy(r, price, k)
    PROVE  CashInv'
<1> DEFINE u == order[r].user
           total == TotalAmount(order[r].quantity, price)
<1>1. /\ u \in User /\ order[r].quantity \in Nat /\ price \in Nat
  BY OrderType, TradingAssumption DEF FillBuy, WaitingHasOrder
<1>2. total \in Nat
  BY <1>1, TotalAmountType
<1>3. /\ Loaded(r) \in Nat
      /\ u \notin overlapped => Loaded(r) = balance[u]
      /\ Loaded(r) >= total
  BY LoadedFresh DEF FillBuy
<1>4. /\ Finish(r) /\ Commits(u, k, 3)
      /\ WriteBalance(u, r, Loaded(r), Loaded(r) - total)
      /\ \/ k = 3 /\ cashReplay' = [cashReplay EXCEPT ![u] = cashReplay[u] - total]
         \/ k # 3 /\ cashReplay' = cashReplay
  BY DEF FillBuy
<1>5. torn \subseteq torn' /\ (u \notin torn' => k = 3)
  BY <1>1, <1>4, CommitsTyped
<1> HIDE DEF total
<1>6. /\ Loaded(r) - total = Loaded(r) + (-total)
      /\ cashReplay[u] - total = cashReplay[u] + (-total)
      /\ -total \in Int /\ Loaded(r) + (-total) >= 0
  BY <1>1, <1>2, <1>3 DEF TypeOK
<1> QED
  BY <1>1, <1>3, <1>4, <1>5, <1>6, WriteKeepsCash

\* A filled sell order keeps the cash invariant.
LEMMA FillSellKeepsCash ==
    ASSUME TypeOK, WaitingHasOrder, CashInv, NEW r \in Request, NEW price \in Price,
           NEW k \in 1 .. 3, FillSell(r, price, k)
    PROVE  CashInv'
<1> DEFINE u == order[r].user
           total == TotalAmount(order[r].quantity, price)
<1>1. /\ u \in User /\ order[r].quantity \in Nat /\ price \in Nat
  BY OrderType, TradingAssumption DEF FillSell, WaitingHasOrder
<1>2. total \in Nat
  BY <1>1, TotalAmountType
<1>3. u \notin overlapped => Loaded(r) = balance[u]
  BY LoadedFresh DEF FillSell
<1>4. Loaded(r) \in Nat
  BY LoadedFresh DEF FillSell
<1>5. /\ Finish(r) /\ Commits(u, k, 3)
      /\ WriteBalance(u, r, Loaded(r), Loaded(r) + total)
      /\ \/ k = 3 /\ cashReplay' = [cashReplay EXCEPT ![u] = cashReplay[u] + total]
         \/ k # 3 /\ cashReplay' = cashReplay
  BY DEF FillSell
<1>6. torn \subseteq torn' /\ (u \notin torn' => k = 3)
  BY <1>1, <1>5, CommitsTyped
<1> HIDE DEF total
<1> QED
  BY <1>1, <1>2, <1>3, <1>4, <1>5, <1>6, WriteKeepsCash

\* A deposit keeps the cash invariant.
LEMMA AddFundsKeepsCash ==
    ASSUME TypeOK, WaitingHasOrder, CashInv, NEW r \in Request, NEW u \in User,
           NEW amount \in Amount, NEW k \in 1 .. 2, AddFunds(r, u, amount, k)
    PROVE  CashInv'
<1>1. amount \in Nat /\ balance[u] \in Nat
  BY TradingAssumption DEF TypeOK, CashInv, BalanceNeverNegative
<1>2. /\ Finish(r) /\ Commits(u, k, 2)
      /\ WriteBalance(u, r, balance[u], balance[u] + amount)
      /\ \/ k = 2 /\ cashReplay' = [cashReplay EXCEPT ![u] = cashReplay[u] + amount]
         \/ k # 2 /\ cashReplay' = cashReplay
  BY DEF AddFunds
<1>3. torn \subseteq torn' /\ (u \notin torn' => k = 2)
  BY <1>2, CommitsTyped
<1> QED
  BY <1>1, <1>2, <1>3, WriteKeepsCash

\* Every step keeps the cash invariant.
LEMMA NextKeepsCash ==
    ASSUME TypeOK, WaitingHasOrder, CashInv, [Next]_vars
    PROVE  CashInv'
<1>1. ASSUME NEW r \in Request, Finish(r),
             UNCHANGED <<balance, cashReplay, overlapped, torn>>
      PROVE  CashInv'
  BY <1>1, EndKeepsCash DEF Finish, TypeOK
<1>2. ASSUME NEW r \in Request, NEW o \in Order, PlaceInvalidOrder(r, o)
      PROVE  CashInv'
  BY <1>1, <1>2 DEF PlaceInvalidOrder, historyVars
<1>3. ASSUME NEW r \in Request, NEW o \in Order, PlaceTooManyOrders(r, o)
      PROVE  CashInv'
  <2>1. \A x \in Request : /\ status'[x] = "waiting" => status[x] = "waiting" /\ x # r
                           /\ x # r => order'[x] = order[x]
                           /\ seen'[x] = seen[x]
    BY <1>3 DEF PlaceTooManyOrders, TypeOK
  <2> QED
    BY <1>3, <2>1, EndKeepsCash DEF PlaceTooManyOrders, historyVars, tableVars
<1>4. ASSUME NEW r \in Request,
             QuoteUnusable(r) \/ InsufficientFunds(r) \/ InsufficientShares(r)
      PROVE  CashInv'
  BY <1>1, <1>4
     DEF QuoteUnusable, InsufficientFunds, InsufficientShares, tableVars, historyVars
<1>5. CASE Restart
  BY <1>5, EndKeepsCash DEF Restart, tableVars
<1>6. CASE PassTime \/ UNCHANGED vars
  <2>1. UNCHANGED <<balance, cashReplay, overlapped, torn, status, order, seen>>
    BY <1>6 DEF PassTime, vars, tableVars, historyVars
  <2> QED
    BY <2>1, EndKeepsCash
<1> QED
  BY <1>2, <1>3, <1>4, <1>5, <1>6, PlaceKeepsCash, FillBuyKeepsCash,
     FillSellKeepsCash, AddFundsKeepsCash DEF Next

\* The cash invariant holds in every reachable state.
LEMMA CashInvariant == Spec => [](TypeOK /\ WaitingHasOrder /\ LimitInv /\ CashInv)
<1> DEFINE Inv == TypeOK /\ WaitingHasOrder /\ LimitInv /\ CashInv
<1>1. Init => Inv
  BY InitTyped, InitCash, LimitInitially DEF Init
<1>2. Inv /\ [Next]_vars => Inv'
  <2>1. Inv /\ [Next]_vars => LimitInv'
    BY NextIsLimitNext, LimitPreserved
  <2>2. LimitInv' => LimitTypeOK'
    BY DEF LimitInv
  <2> QED
    BY <2>1, <2>2, NextTyped, NextKeepsCash
<1> QED
  BY <1>1, <1>2, PTL DEF Spec

(***************************************************************************)
(* No account is ever overdrawn, whichever orders and deposits overlap and *)
(* whichever commit fails.                                                 *)
(***************************************************************************)
THEOREM NeverOverdrawn == Spec => []BalanceNeverNegative
<1>1. CashInv => BalanceNeverNegative
  BY DEF CashInv
<1> QED
  BY <1>1, CashInvariant, PTL

(***************************************************************************)
(* A balance can differ from the replay of the records only after it was   *)
(* written under a waiting order, or a commit of its owner failed.         *)
(***************************************************************************)
THEOREM CashIsReplayed == Spec => []UndisturbedCashMatchesReplay
<1>1. CashInv => UndisturbedCashMatchesReplay
  BY DEF CashInv
<1> QED
  BY <1>1, CashInvariant, PTL

-----------------------------------------------------------------------------
(* Shares and their average price. *)

SharesInv == SharesMatchReplay /\ AveragePriceWithinPaid

\* The empty portfolio agrees with the empty replay.
LEMMA InitShares == Init => SharesInv
BY DEF Init, SharesInv, SharesMatchReplay, AveragePriceWithinPaid, NoPosition

\* A step that leaves the positions alone may only make users torn.
LEMMA UntouchedShares ==
    ASSUME SharesInv, UNCHANGED <<position, sharesReplay, paid>>, torn \subseteq torn'
    PROVE  SharesInv'
BY DEF SharesInv, SharesMatchReplay, AveragePriceWithinPaid

\* A step that changes one position keeps the invariant if it does so there.
LEMMA OnePositionKeepsShares ==
    ASSUME TypeOK, SharesInv, NEW u \in User, NEW s \in Symbol, torn \subseteq torn',
           \A v \in User, t \in Symbol : v # u \/ t # s =>
              /\ position'[v][t] = position[v][t]
              /\ sharesReplay'[v][t] = sharesReplay[v][t]
              /\ paid'[v][t] = paid[v][t],
           u \notin torn' => position'[u][s].quantity = sharesReplay'[u][s],
           position'[u][s].quantity > 0 =>
              /\ FloorCent(paid'[u][s].low) <= position'[u][s].average_price
              /\ position'[u][s].average_price <= CeilCent(paid'[u][s].high)
    PROVE  SharesInv'
<1>1. SharesMatchReplay'
  BY DEF SharesInv, SharesMatchReplay
<1>2. AveragePriceWithinPaid'
  <2> SUFFICES ASSUME NEW v \in User, NEW t \in Symbol, position'[v][t].quantity > 0
               PROVE  /\ FloorCent(paid'[v][t].low) <= position'[v][t].average_price
                      /\ position'[v][t].average_price <= CeilCent(paid'[v][t].high)
    BY DEF AveragePriceWithinPaid, FloorCent, CeilCent
  <2>1. CASE v # u \/ t # s
    <3>1. position'[v][t] = position[v][t] /\ paid'[v][t] = paid[v][t]
      BY <2>1
    <3> QED
      BY <3>1 DEF SharesInv, AveragePriceWithinPaid
  <2>2. CASE v = u /\ t = s
    BY <2>2
  <2> QED
    BY <2>1, <2>2
<1> QED
  BY <1>1, <1>2 DEF SharesInv

\* The new row, or the old one with its new average, is within the prices paid.
LEMMA BoughtWithinPaid ==
    ASSUME NEW held \in Position, NEW range \in PriceRange, NEW quantity \in Nat \ {0},
           NEW price \in Nat,
           held.quantity > 0 =>
              /\ FloorCent(range.low) <= held.average_price
              /\ held.average_price <= CeilCent(range.high)
    PROVE  LET new == Bought(held, quantity, price, TotalAmount(quantity, price))
               after == PaidAfter(held, range, price)
           IN  /\ new.quantity = held.quantity + quantity
               /\ FloorCent(after.low) <= new.average_price
               /\ new.average_price <= CeilCent(after.high)
<1> DEFINE total == TotalAmount(quantity, price)
           after == PaidAfter(held, range, price)
<1>1. /\ held.quantity \in Nat /\ held.average_price \in Nat
      /\ range.low \in Nat /\ range.high \in Nat
  BY DEF Position, PriceRange
<1>2. /\ after.low \in Nat /\ after.high \in Nat
      /\ after.low <= price /\ price <= after.high
      /\ held.quantity > 0 => after.low <= range.low /\ range.high <= after.high
  BY PaidAfterType DEF PriceRange
<1> HIDE DEF after
<1>3. CASE held.quantity > 0
  <2>1. /\ FloorCent(after.low) <= FloorCent(range.low)
        /\ CeilCent(range.high) <= CeilCent(after.high)
    BY <1>1, <1>2, <1>3, CentMonotone
  <2>2. /\ FloorCent(after.low) \in Nat /\ FloorCent(range.low) \in Nat
        /\ CeilCent(range.high) \in Nat /\ CeilCent(after.high) \in Nat
    BY <1>1, <1>2, CentType
  <2>3. /\ FloorCent(after.low) <= held.average_price
        /\ held.average_price <= CeilCent(after.high)
    BY <1>1, <1>3, <2>1, <2>2
  <2> DEFINE average == NewAveragePrice(held.quantity, held.average_price, quantity, total)
  <2>4. FloorCent(after.low) <= average /\ average <= CeilCent(after.high)
    BY <1>1, <1>2, <2>3, AverageStaysWithin
  <2>5. Bought(held, quantity, price, total) =
          [quantity |-> held.quantity + quantity, average_price |-> average]
    BY <1>3 DEF Bought
  <2> QED
    BY <2>4, <2>5 DEF after
<1>4. CASE ~(held.quantity > 0)
  <2>1. Bought(held, quantity, price, total) = [quantity |-> quantity, average_price |-> price]
    BY <1>4 DEF Bought
  <2>2. held.quantity = 0 /\ after = [low |-> price, high |-> price]
    BY <1>1, <1>4 DEF after, PaidAfter
  <2>3. FloorCent(price) <= price /\ price <= CeilCent(price)
    BY CentBounds
  <2> QED
    BY <2>1, <2>2, <2>3 DEF after
<1> QED
  BY <1>3, <1>4

\* A filled buy order keeps the shares invariant.
LEMMA FillBuyKeepsShares ==
    ASSUME TypeOK, WaitingHasOrder, SharesInv, NEW r \in Request, NEW price \in Price,
           NEW k \in 1 .. 3, FillBuy(r, price, k)
    PROVE  SharesInv'
<1> DEFINE u == order[r].user
           s == order[r].symbol
           q == order[r].quantity
           held == position[u][s]
           total == TotalAmount(q, price)
<1>1. /\ u \in User /\ s \in Symbol /\ q \in Nat \ {0} /\ price \in Nat
      /\ held \in Position /\ paid[u][s] \in PriceRange
  BY OrderType, TradingAssumption DEF FillBuy, WaitingHasOrder, TypeOK, Position, PriceRange
<1>2. Commits(u, k, 3)
  BY DEF FillBuy
<1>3. torn \subseteq torn' /\ (u \notin torn' => k = 3) /\ k \in 1 .. 3
  BY <1>1, <1>2, CommitsTyped
<1>4. held.quantity > 0 =>
        /\ FloorCent(paid[u][s].low) <= held.average_price
        /\ held.average_price <= CeilCent(paid[u][s].high)
  BY <1>1 DEF SharesInv, AveragePriceWithinPaid
<1>5. CASE k = 1
  <2>1. UNCHANGED <<position, sharesReplay, paid>>
    BY <1>5 DEF FillBuy
  <2> QED
    BY <1>3, <2>1, UntouchedShares
<1>6. CASE k # 1
  <2>1. /\ position' = [position EXCEPT ![u][s] = Bought(held, q, price, total)]
        /\ paid' = [paid EXCEPT ![u][s] = PaidAfter(held, paid[u][s], price)]
    BY <1>3, <1>6 DEF FillBuy
  <2>2. \/ k = 3 /\ sharesReplay' = [sharesReplay EXCEPT ![u][s] = sharesReplay[u][s] + q]
        \/ k # 3 /\ sharesReplay' = sharesReplay
    BY <1>3, <1>6 DEF FillBuy
  <2>3. /\ position'[u][s] = Bought(held, q, price, total)
        /\ paid'[u][s] = PaidAfter(held, paid[u][s], price)
        /\ k = 3 => sharesReplay'[u][s] = sharesReplay[u][s] + q
    BY <1>1, <2>1, <2>2 DEF TypeOK
  <2>4. \A v \in User, t \in Symbol : v # u \/ t # s =>
           /\ position'[v][t] = position[v][t]
           /\ sharesReplay'[v][t] = sharesReplay[v][t]
           /\ paid'[v][t] = paid[v][t]
    BY <1>1, <2>1, <2>2 DEF TypeOK
  <2>5. /\ position'[u][s].quantity = held.quantity + q
        /\ FloorCent(paid'[u][s].low) <= position'[u][s].average_price
        /\ position'[u][s].average_price <= CeilCent(paid'[u][s].high)
    <3> HIDE DEF held, q
    <3> QED
      BY <1>1, <1>4, <2>3, BoughtWithinPaid
  <2>6. u \notin torn' => held.quantity = sharesReplay[u][s]
    BY <1>1, <1>3 DEF SharesInv, SharesMatchReplay
  <2>7. u \notin torn' => position'[u][s].quantity = sharesReplay'[u][s]
    BY <1>3, <2>3, <2>5, <2>6
  <2> HIDE DEF u, s, held, q, total
  <2> QED
    BY <1>1, <1>3, <2>4, <2>5, <2>7, OnePositionKeepsShares
<1> QED
  BY <1>5, <1>6

\* A filled sell order keeps the shares invariant.
LEMMA FillSellKeepsShares ==
    ASSUME TypeOK, WaitingHasOrder, SharesInv, NEW r \in Request, NEW price \in Price,
           NEW k \in 1 .. 3, FillSell(r, price, k)
    PROVE  SharesInv'
<1> DEFINE u == order[r].user
           s == order[r].symbol
           q == order[r].quantity
           held == position[u][s]
<1>1. /\ u \in User /\ s \in Symbol /\ q \in Nat \ {0}
      /\ held \in Position /\ q <= held.quantity
  BY OrderType, TradingAssumption DEF FillSell, WaitingHasOrder, TypeOK, Position
<1>2. Commits(u, k, 3) /\ paid' = paid
  BY DEF FillSell
<1>3. torn \subseteq torn' /\ (u \notin torn' => k = 3) /\ k \in 1 .. 3
  BY <1>1, <1>2, CommitsTyped
<1>4. held.quantity > 0 =>
        /\ FloorCent(paid[u][s].low) <= held.average_price
        /\ held.average_price <= CeilCent(paid[u][s].high)
  BY <1>1 DEF SharesInv, AveragePriceWithinPaid
<1>5. CASE k = 1
  <2>1. UNCHANGED <<position, sharesReplay, paid>>
    BY <1>5 DEF FillSell
  <2> QED
    BY <1>3, <2>1, UntouchedShares
<1>6. CASE k # 1
  <2>1. position' = [position EXCEPT ![u][s] = Sold(held, q)]
    BY <1>3, <1>6 DEF FillSell
  <2> DEFINE rest == IF sharesReplay[u][s] > q THEN sharesReplay[u][s] - q ELSE 0
  <2>2. \/ k = 3 /\ sharesReplay' = [sharesReplay EXCEPT ![u][s] = rest]
        \/ k # 3 /\ sharesReplay' = sharesReplay
    BY <1>3, <1>6 DEF FillSell
  <2>3. /\ position'[u][s] = Sold(held, q)
        /\ k = 3 => sharesReplay'[u][s] = rest
    BY <1>1, <2>1, <2>2 DEF TypeOK
  <2>4. \A v \in User, t \in Symbol : v # u \/ t # s =>
           /\ position'[v][t] = position[v][t]
           /\ sharesReplay'[v][t] = sharesReplay[v][t]
           /\ paid'[v][t] = paid[v][t]
    BY <1>1, <1>2, <2>1, <2>2 DEF TypeOK
  <2>5. /\ position'[u][s].quantity = held.quantity - q
        /\ position'[u][s].quantity > 0 => position'[u][s].average_price = held.average_price
    <3> HIDE DEF held, q
    <3> QED
      BY <1>1, <2>3, SoldType
  <2>6. held.quantity \in Nat /\ sharesReplay[u][s] \in Nat
    BY <1>1 DEF Position, TypeOK
  <2>7. u \notin torn' => held.quantity = sharesReplay[u][s]
    BY <1>1, <1>3 DEF SharesInv, SharesMatchReplay
  <2>8. u \notin torn' => position'[u][s].quantity = sharesReplay'[u][s]
    BY <1>1, <1>3, <2>3, <2>5, <2>6, <2>7
  <2>9. position'[u][s].quantity > 0 =>
           /\ FloorCent(paid'[u][s].low) <= position'[u][s].average_price
           /\ position'[u][s].average_price <= CeilCent(paid'[u][s].high)
    BY <1>1, <1>2, <1>4, <2>5, <2>6
  <2> HIDE DEF u, s, held, q
  <2> QED
    BY <1>1, <1>3, <2>4, <2>8, <2>9, OnePositionKeepsShares
<1> QED
  BY <1>5, <1>6

\* Every step keeps the shares invariant.
LEMMA NextKeepsShares ==
    ASSUME TypeOK, WaitingHasOrder, SharesInv, [Next]_vars
    PROVE  SharesInv'
<1>1. ASSUME NEW r \in Request, NEW o \in Order,
             \/ PlaceOrder(r, o) \/ PlaceInvalidOrder(r, o) \/ PlaceTooManyOrders(r, o)
      PROVE  SharesInv'
  BY <1>1, UntouchedShares
     DEF PlaceOrder, PlaceInvalidOrder, PlaceTooManyOrders, tableVars, historyVars
<1>2. ASSUME NEW r \in Request,
             QuoteUnusable(r) \/ InsufficientFunds(r) \/ InsufficientShares(r)
      PROVE  SharesInv'
  BY <1>2, UntouchedShares
     DEF QuoteUnusable, InsufficientFunds, InsufficientShares, tableVars, historyVars
<1>3. ASSUME NEW r \in Request, NEW u \in User, NEW amount \in Amount,
             NEW k \in 1 .. 2, AddFunds(r, u, amount, k)
      PROVE  SharesInv'
  <2>1. torn \subseteq torn'
    BY <1>3, CommitsTyped DEF AddFunds
  <2> QED
    BY <1>3, <2>1, UntouchedShares DEF AddFunds
<1>4. CASE Restart \/ PassTime \/ UNCHANGED vars
  BY <1>4, UntouchedShares DEF Restart, PassTime, vars, tableVars, historyVars
<1> QED
  BY <1>1, <1>2, <1>3, <1>4, FillBuyKeepsShares, FillSellKeepsShares DEF Next

\* The shares invariant holds in every reachable state.
LEMMA SharesInvariant ==
    Spec => [](TypeOK /\ WaitingHasOrder /\ LimitInv /\ CashInv /\ SharesInv)
<1>1. Init => SharesInv
  BY InitShares
<1>2. TypeOK /\ WaitingHasOrder /\ SharesInv /\ [Next]_vars => SharesInv'
  BY NextKeepsShares
<1> QED
  BY <1>1, <1>2, CashInvariant, PTL DEF Spec

(***************************************************************************)
(* Overlapping orders never lose or invent a share: the position rows are  *)
(* what replaying the filled orders gives, for every user spared a failed  *)
(* commit.                                                                 *)
(***************************************************************************)
THEOREM SharesAreReplayed == Spec => []SharesMatchReplay
<1>1. SharesInv => SharesMatchReplay
  BY DEF SharesInv
<1> QED
  BY <1>1, SharesInvariant, PTL

(***************************************************************************)
(* The average price never drifts out of the prices paid, for any quotes,  *)
(* any precision of the quotes and any sequence of purchases and sales.    *)
(***************************************************************************)
THEOREM AverageWithinPaid == Spec => []AveragePriceWithinPaid
<1>1. SharesInv => AveragePriceWithinPaid
  BY DEF SharesInv
<1> QED
  BY <1>1, SharesInvariant, PTL
-----------------------------------------------------------------------------
(* The refinement of Brokerage: one request of a user at a time. *)

\* What TradingProofs shows of the desk.
DeskInv == TypeOK /\ WaitingHasOrder /\ CashInv

\* The requests of a user take turns, so that no balance is ever written under
\* a waiting order, and every order writes what it read (FreshReads).
TakingTurns ==
    /\ \A r, x \in Waiting : order[r].user = order[x].user => r = x
    /\ overlapped = {}

Serial == MaxInFlight = 1 /\ MaxFailedCommits = 0
-----------------------------------------------------------------------------
\* With one slot, a request that is let in is the only one of its user.
LEMMA OneSlot ==
    ASSUME Serial, TakingTurns, NEW u \in User, HasSlot(u)
    PROVE  \A x \in Waiting : order[x].user # u
<1> SUFFICES ASSUME NEW x \in Waiting, order[x].user = u PROVE FALSE
  OBVIOUS
<1>1. {y \in Waiting : order[y].user = u} = {x}
  BY DEF TakingTurns
<1>2. Cardinality({x}) = 1
  BY FS_Singleton
<1> QED
  BY <1>1, <1>2, SMTT(60) DEF HasSlot, Serial

\* A balance is written under no waiting order.
LEMMA NoneOverlapped ==
    ASSUME TypeOK, TakingTurns, NEW r \in Request, NEW u \in User,
           NEW loaded \in Int, NEW new \in Int,
           WriteBalance(u, r, loaded, new), loaded = balance[u],
           \A x \in Waiting : order[x].user = u => x = r
    PROVE  /\ overlapped' = {}
           /\ balance' = [balance EXCEPT ![u] = new]
<1>1. Holding(u, r) = {}
  BY DEF Holding
<1> QED
  BY <1>1 DEF WriteBalance, TakingTurns, TypeOK

\* Where a request ends, the others go on taking turns.
LEMMA TurnsEnd ==
    ASSUME TypeOK, TakingTurns, NEW r \in Request, Finish(r), overlapped' = {}
    PROVE  TakingTurns'
BY DEF TypeOK, TakingTurns, Finish, Waiting

\* The brokerage computes the total of an order as the desk does.
LEMMA SameTotal ==
    \A quantity, price : Book!TotalAmount(quantity, price) = TotalAmount(quantity, price)
BY DEF Book!TotalAmount, TotalAmount, Book!QuantizeRatio, QuantizeRatio
-----------------------------------------------------------------------------
\* A filled buy order is a purchase.
LEMMA FillBuyIsBuy ==
    ASSUME Serial, DeskInv, TakingTurns, NEW r \in Request, NEW price \in Price,
           NEW k \in 1 .. 3, FillBuy(r, price, k)
    PROVE  TakingTurns' /\ Book!BookNext
<1> DEFINE u == order[r].user
           s == order[r].symbol
           q == order[r].quantity
           held == position[u][s]
           total == TotalAmount(q, price)
<1> USE DEF DeskInv
<1>1. /\ r \in Waiting /\ u \in User /\ s \in Symbol
      /\ q \in Nat \ {0} /\ q \in Quantity /\ price \in Nat
  BY OrderType, TradingAssumption DEF FillBuy, WaitingHasOrder, Waiting, Order
<1>2. total \in Nat /\ held \in Position
  <2>1. held \in Position
    BY <1>1 DEF TypeOK, Position
  <2> QED
    BY <1>1, <2>1, TotalAmountType
<1>3. k = 3 /\ WriteBalance(u, r, Loaded(r), Loaded(r) - total) /\ Finish(r)
  BY DEF FillBuy, Commits, Serial, TypeOK
<1>4. Loaded(r) = balance[u] /\ Loaded(r) \in Nat
  BY <1>1, LoadedFresh DEF TakingTurns, Waiting
<1>5. overlapped' = {} /\ balance' = [balance EXCEPT ![u] = balance[u] - total]
  <2>1. \A x \in Waiting : order[x].user = u => x = r
    BY <1>1 DEF TakingTurns
  <2>2. Loaded(r) - total \in Int
    BY <1>2, <1>4
  <2> HIDE DEF total, u
  <2> QED
    BY <1>1, <1>3, <1>4, <2>1, <2>2, NoneOverlapped
<1>6. sharesHeld' = [sharesHeld EXCEPT ![u][s] = held.quantity + q]
  <2>1. position' = [position EXCEPT ![u][s] = Bought(held, q, price, total)]
    BY <1>3 DEF FillBuy
  <2>2. Bought(held, q, price, total).quantity = held.quantity + q
    BY <1>1, <1>2 DEF Bought, Position
  <2>3. TypeOK
    OBVIOUS
  <2> HIDE DEF total, held, u, s, q, DeskInv
  <2> DEFINE row == Bought(held, q, price, total)
             n == held.quantity + q
  <2>4. position' = [position EXCEPT ![u][s] = row] /\ row.quantity = n
    BY <2>1, <2>2
  <2> HIDE DEF row, n
  <2>5. sharesHeld' = [sharesHeld EXCEPT ![u][s] = n]
    BY <1>1, <2>3, <2>4 DEF TypeOK, sharesHeld
  <2> QED
    BY <2>5 DEF n
<1>7. sharesHeld[u][s] = held.quantity
  BY <1>1 DEF sharesHeld
<1>8. Book!Buy(u, s, q, price)
  <2>1. balance[u] >= total
    BY <1>4 DEF FillBuy
  <2> HIDE DEF total, held, u, s, q
  <2>2. total = Book!TotalAmount(q, price)
    BY SameTotal DEF total
  <2>3. sharesHeld' = [sharesHeld EXCEPT ![u][s] = @ + q]
    BY <1>1, <1>6, <1>7
  <2> QED
    BY <1>5, <2>1, <2>2, <2>3 DEF Book!Buy
<1>9. q > 0
  BY <1>1
<1> HIDE DEF u, s, q, held, total
<1>10. TakingTurns'
  BY <1>3, <1>5, TurnsEnd
<1> QED
  BY <1>1, <1>8, <1>9, <1>10 DEF Book!BookNext

\* A filled sell order is a sale.
LEMMA FillSellIsSell ==
    ASSUME Serial, DeskInv, TakingTurns, NEW r \in Request, NEW price \in Price,
           NEW k \in 1 .. 3, FillSell(r, price, k)
    PROVE  TakingTurns' /\ Book!BookNext
<1> DEFINE u == order[r].user
           s == order[r].symbol
           q == order[r].quantity
           held == position[u][s]
           total == TotalAmount(q, price)
<1> USE DEF DeskInv
<1>1. /\ r \in Waiting /\ u \in User /\ s \in Symbol
      /\ q \in Nat \ {0} /\ q \in Quantity /\ price \in Nat
  BY OrderType, TradingAssumption DEF FillSell, WaitingHasOrder, Waiting, Order
<1>2. total \in Nat /\ held \in Position /\ q <= held.quantity
  BY <1>1, TotalAmountType DEF TypeOK, Position, FillSell
<1>3. k = 3 /\ WriteBalance(u, r, Loaded(r), Loaded(r) + total) /\ Finish(r)
  BY DEF FillSell, Commits, Serial, TypeOK
<1>4. Loaded(r) = balance[u] /\ Loaded(r) \in Nat
  BY <1>1, LoadedFresh DEF TakingTurns, Waiting
<1>5. overlapped' = {} /\ balance' = [balance EXCEPT ![u] = balance[u] + total]
  <2>1. \A x \in Waiting : order[x].user = u => x = r
    BY <1>1 DEF TakingTurns
  <2>2. Loaded(r) + total \in Int
    BY <1>2, <1>4
  <2> HIDE DEF total, u
  <2> QED
    BY <1>1, <1>3, <1>4, <2>1, <2>2, NoneOverlapped
<1>6. sharesHeld' = [sharesHeld EXCEPT ![u][s] = held.quantity - q]
  <2>1. position' = [position EXCEPT ![u][s] = Sold(held, q)]
    BY <1>3 DEF FillSell
  <2>2. Sold(held, q).quantity = held.quantity - q
    <3> HIDE DEF held, q
    <3> QED
      BY <1>1, <1>2, SoldType
  <2>3. TypeOK
    OBVIOUS
  <2> HIDE DEF held, u, s, q, DeskInv
  <2> DEFINE row == Sold(held, q)
             n == held.quantity - q
  <2>4. position' = [position EXCEPT ![u][s] = row] /\ row.quantity = n
    BY <2>1, <2>2
  <2> HIDE DEF row, n
  <2>5. sharesHeld' = [sharesHeld EXCEPT ![u][s] = n]
    BY <1>1, <2>3, <2>4 DEF TypeOK, sharesHeld
  <2> QED
    BY <2>5 DEF n
<1>7. sharesHeld[u][s] = held.quantity
  BY <1>1 DEF sharesHeld
<1>8. Book!Sell(u, s, q, price)
  <2> HIDE DEF total, held, u, s, q
  <2>1. sharesHeld[u][s] >= q
    BY <1>1, <1>2, <1>7 DEF Position
  <2>2. total = Book!TotalAmount(q, price)
    BY SameTotal DEF total
  <2>3. sharesHeld' = [sharesHeld EXCEPT ![u][s] = @ - q]
    BY <1>1, <1>6, <1>7
  <2> QED
    BY <1>5, <2>1, <2>2, <2>3 DEF Book!Sell
<1>9. q > 0
  BY <1>1
<1> HIDE DEF u, s, q, held, total
<1>10. TakingTurns'
  BY <1>3, <1>5, TurnsEnd
<1> QED
  BY <1>1, <1>8, <1>9, <1>10 DEF Book!BookNext

\* A deposit is a deposit: nobody of its user is waiting.
LEMMA AddFundsIsDeposit ==
    ASSUME Serial, DeskInv, TakingTurns, NEW r \in Request, NEW u \in User,
           NEW amount \in Amount, NEW k \in 1 .. 2, AddFunds(r, u, amount, k)
    PROVE  TakingTurns' /\ Book!BookNext
<1> USE DEF DeskInv
<1>1. /\ WriteBalance(u, r, balance[u], balance[u] + amount)
      /\ HasSlot(u) /\ Finish(r) /\ position' = position
  BY DEF AddFunds
<1>2. balance[u] \in Int /\ balance[u] + amount \in Int
  BY TradingAssumption DEF TypeOK
<1>3. \A x \in Waiting : order[x].user = u => x = r
  BY <1>1, OneSlot
<1>4. overlapped' = {} /\ balance' = [balance EXCEPT ![u] = balance[u] + amount]
  BY <1>1, <1>2, <1>3, NoneOverlapped
<1>5. sharesHeld' = sharesHeld
  BY <1>1 DEF sharesHeld
<1>6. Book!Deposit(u, amount)
  BY <1>4, <1>5 DEF Book!Deposit
<1>7. TakingTurns'
  BY <1>1, <1>4, TurnsEnd
<1> QED
  BY <1>6, <1>7 DEF Book!BookNext

\* Before the quote nothing moves, and the request gets the turn of its user.
LEMMA PlacingIsInvisible ==
    ASSUME Serial, DeskInv, TakingTurns, NEW r \in Request, NEW o \in Order,
           \/ PlaceOrder(r, o) \/ PlaceInvalidOrder(r, o) \/ PlaceTooManyOrders(r, o)
    PROVE  TakingTurns' /\ UNCHANGED <<balance, position>>
<1> USE DEF DeskInv
<1>1. UNCHANGED <<balance, position>> /\ overlapped' = {}
  BY DEF PlaceOrder, PlaceInvalidOrder, PlaceTooManyOrders, tableVars, historyVars, TakingTurns
<1>2. CASE PlaceOrder(r, o)
  <2>1. \A x \in Waiting : order[x].user # o.user
    BY <1>2, OneSlot, OrderType DEF PlaceOrder
  <2>2. Waiting' = Waiting \cup {r} /\ r \notin Waiting
    BY <1>2 DEF PlaceOrder, Waiting, TypeOK
  <2>3. order'[r] = o /\ \A x \in Waiting : order'[x] = order[x]
    BY <1>2, <2>2 DEF PlaceOrder, TypeOK, Waiting
  <2> QED
    BY <1>1, <2>1, <2>2, <2>3 DEF TakingTurns
<1>3. CASE PlaceInvalidOrder(r, o)
  BY <1>1, <1>3, TurnsEnd DEF PlaceInvalidOrder
<1>4. CASE PlaceTooManyOrders(r, o)
  BY <1>1, <1>4 DEF PlaceTooManyOrders, TakingTurns, Waiting, TypeOK
<1> QED
  BY <1>1, <1>2, <1>3, <1>4

\* Every step of the desk is one of the brokerage, or none.
LEMMA StepIsBookStep ==
    ASSUME Serial, DeskInv, TakingTurns, [Next]_vars
    PROVE  TakingTurns' /\ [Book!BookNext]_(Book!bookVars)
<1> USE DEF DeskInv
<1>1. ASSUME UNCHANGED <<balance, position>> PROVE UNCHANGED Book!bookVars
  BY <1>1 DEF Book!bookVars, sharesHeld
<1>2. ASSUME NEW r \in Request,
             QuoteUnusable(r) \/ InsufficientFunds(r) \/ InsufficientShares(r)
      PROVE  TakingTurns' /\ UNCHANGED <<balance, position>>
  <2>1. Finish(r) /\ UNCHANGED <<tableVars, historyVars>>
    BY <1>2 DEF QuoteUnusable, InsufficientFunds, InsufficientShares
  <2> QED
    BY <2>1, TurnsEnd DEF tableVars, historyVars, TakingTurns
<1>3. CASE Restart
  <2>1. Waiting' = {} /\ overlapped' = {}
    BY <1>3 DEF Restart, Waiting, TakingTurns
  <2> QED
    BY <1>1, <1>3, <2>1 DEF Restart, tableVars, TakingTurns
<1>4. CASE PassTime
  BY <1>1, <1>4 DEF PassTime, tableVars, historyVars, TakingTurns, Waiting
<1>5. CASE UNCHANGED vars
  BY <1>1, <1>5 DEF vars, tableVars, historyVars, TakingTurns, Waiting
<1> QED
  BY <1>1, <1>2, <1>3, <1>4, <1>5, PlacingIsInvisible, FillBuyIsBuy, FillSellIsSell,
     AddFundsIsDeposit DEF Next

(***************************************************************************)
(* With one request of a user at a time and no failing commit, place_order *)
(* and add_funds_to_student_account are atomic: cash and shares move by    *)
(* whole deposits and whole orders, and never below zero.                  *)
(***************************************************************************)
THEOREM DeskImplementsBrokerage ==
    ASSUME MaxInFlight = 1, MaxFailedCommits = 0
    PROVE  Spec => ImplementsBrokerage
<1>1. Serial
  BY DEF Serial
<1>2. Init => TakingTurns /\ Book!BookInit
  BY DEF Init, TakingTurns, Waiting, Book!BookInit, sharesHeld, NoPosition
<1>3. Spec => []DeskInv
  <2>1. TypeOK /\ WaitingHasOrder /\ LimitInv /\ CashInv => DeskInv
    BY DEF DeskInv
  <2> QED
    BY <2>1, CashInvariant, PTL
<1>4. DeskInv /\ TakingTurns /\ [Next]_vars => TakingTurns'
  BY <1>1, StepIsBookStep
<1>5. DeskInv /\ TakingTurns /\ [Next]_vars => [Book!BookNext]_(Book!bookVars)
  BY <1>1, StepIsBookStep
<1> QED
  BY <1>2, <1>3, <1>4, <1>5, PTL DEF Spec, ImplementsBrokerage, Book!BookSpec
=============================================================================
