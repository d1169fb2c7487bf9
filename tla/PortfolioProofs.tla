--------------------------- MODULE PortfolioProofs ---------------------------
(***************************************************************************)
(* Theorems about what is derived from trades and deposits, and about the  *)
(* watchlists, for every number of users, days, trades, requests, updates, *)
(* lists and symbols: only beyond the limit of the query that looks for    *)
(* them a day gets two snapshots, and a snapshot shows the cash of its     *)
(* day; no period has a profit; the leaderboard shows the last trade; and  *)
(* the watchlists stay sets.                                               *)
(***************************************************************************)
EXTENDS MCPortfolio, InductionLemmas, SequenceTheorems

(* Trades, and the shares they leave. *)

\* What is bought and sold by the first n trades of t.
Buys(t, n) == {i \in 1 .. n : t[i].side = "buy"}
Sales(t, n) == {i \in 1 .. n : t[i].side # "buy"}

\* Nothing is sold that was not bought before.
Covered(t) ==
    \A n \in 0 .. Len(t) : Cardinality(Sales(t, n)) <= Cardinality(Buys(t, n))

\* They are finite.
LEMMA CountsAreNatural ==
    ASSUME NEW t, NEW n \in Nat
    PROVE  /\ IsFiniteSet(Buys(t, n)) /\ IsFiniteSet(Sales(t, n))
           /\ Cardinality(Buys(t, n)) \in Nat /\ Cardinality(Sales(t, n)) \in Nat
<1>1. IsFiniteSet(1 .. n)
  BY FS_Interval
<1>2. Buys(t, n) \in SUBSET (1 .. n) /\ Sales(t, n) \in SUBSET (1 .. n)
  BY DEF Buys, Sales
<1>3. IsFiniteSet(Buys(t, n)) /\ IsFiniteSet(Sales(t, n))
  BY <1>1, <1>2, FS_Subset
<1> QED
  BY <1>3, FS_CardinalityType

\* One more trade is one more purchase or one more sale.
LEMMA OneMoreTrade ==
    ASSUME NEW t, NEW n \in Nat
    PROVE  /\ t[n + 1].side = "buy" =>
                /\ Cardinality(Buys(t, n + 1)) = Cardinality(Buys(t, n)) + 1
                /\ Cardinality(Sales(t, n + 1)) = Cardinality(Sales(t, n))
           /\ t[n + 1].side # "buy" =>
                /\ Cardinality(Buys(t, n + 1)) = Cardinality(Buys(t, n))
                /\ Cardinality(Sales(t, n + 1)) = Cardinality(Sales(t, n)) + 1
<1>1. 1 .. n + 1 = (1 .. n) \cup {n + 1} /\ n + 1 \notin 1 .. n
  OBVIOUS
<1>2. n + 1 \notin Buys(t, n) /\ n + 1 \notin Sales(t, n)
  BY DEF Buys, Sales
<1>3. ASSUME t[n + 1].side = "buy"
      PROVE  Buys(t, n + 1) = Buys(t, n) \cup {n + 1} /\ Sales(t, n + 1) = Sales(t, n)
  BY <1>1, <1>3 DEF Buys, Sales
<1>4. ASSUME t[n + 1].side # "buy"
      PROVE  Buys(t, n + 1) = Buys(t, n) /\ Sales(t, n + 1) = Sales(t, n) \cup {n + 1}
  BY <1>1, <1>4 DEF Buys, Sales
<1>5. IsFiniteSet(Buys(t, n)) /\ IsFiniteSet(Sales(t, n))
  BY CountsAreNatural
<1> QED
  BY <1>2, <1>3, <1>4, <1>5, FS_AddElement

\* No trades, no purchases and no sales.
LEMMA NoTrades ==
    ASSUME NEW t PROVE Cardinality(Buys(t, 0)) = 0 /\ Cardinality(Sales(t, 0)) = 0
<1>1. Buys(t, 0) = {} /\ Sales(t, 0) = {}
  BY DEF Buys, Sales
<1> QED
  BY <1>1, FS_EmptySet

\* Trades that are appended change nothing before them.
LEMMA EarlierTrades ==
    ASSUME NEW R, NEW t \in Seq(R), NEW row \in R, NEW n \in 0 .. Len(t)
    PROVE  Buys(Append(t, row), n) = Buys(t, n) /\ Sales(Append(t, row), n) = Sales(t, n)
<1>1. \A i \in 1 .. n : Append(t, row)[i] = t[i]
  BY LenProperties, AppendProperties
<1> QED
  BY <1>1 DEF Buys, Sales

\* A sale of what is there leaves it so.
LEMMA CoveredStays ==
    ASSUME NEW R, NEW t \in Seq(R), NEW row \in R, Covered(t),
           row.side # "buy" => Cardinality(Sales(t, Len(t))) < Cardinality(Buys(t, Len(t)))
    PROVE  Covered(Append(t, row))
<1> DEFINE new == Append(t, row)
           n == Len(t)
<1>1. n \in Nat /\ Len(new) = n + 1 /\ new[n + 1] = row
  BY LenProperties, AppendProperties
<1>2. \A k \in 0 .. n : Buys(new, k) = Buys(t, k) /\ Sales(new, k) = Sales(t, k)
  BY EarlierTrades
<1>3. \A k \in 0 .. n : Cardinality(Sales(new, k)) <= Cardinality(Buys(new, k))
  BY <1>2 DEF Covered
<1>4. /\ Cardinality(Buys(t, n)) \in Nat /\ Cardinality(Sales(t, n)) \in Nat
      /\ Buys(new, n) = Buys(t, n) /\ Sales(new, n) = Sales(t, n)
  BY <1>1, <1>2, CountsAreNatural
<1>5. Cardinality(Sales(new, n)) <= Cardinality(Buys(new, n))
  BY <1>1, <1>3
<1> HIDE DEF new
<1>6. Cardinality(Sales(new, n + 1)) <= Cardinality(Buys(new, n + 1))
  <2>1. CASE row.side = "buy"
    BY <1>1, <1>4, <1>5, <2>1, OneMoreTrade
  <2>2. CASE row.side # "buy"
    BY <1>1, <1>4, <1>5, <2>2, OneMoreTrade
  <2> QED
    BY <2>1, <2>2
<1>7. \A k \in 0 .. n + 1 : k = n + 1 \/ k \in 0 .. n
  BY <1>1
<1>8. Covered(new)
  BY <1>1, <1>3, <1>6, <1>7 DEF Covered
<1> QED
  BY <1>8 DEF new

\* The greater of two numbers.
LEMMA GreaterOfTwo ==
    ASSUME NEW a \in Int, NEW b \in Int
    PROVE  Max({a, b}) = IF a >= b THEN a ELSE b
<1> DEFINE m == IF a >= b THEN a ELSE b
<1>1. /\ m \in {a, b} /\ \A y \in {a, b} : m >= y
      /\ \A x \in {a, b} : (\A y \in {a, b} : x >= y) => x = m
  OBVIOUS
<1> HIDE DEF m
<1>2. (CHOOSE x \in {a, b} : \A y \in {a, b} : x >= y) = m
  BY <1>1
<1> QED
  BY <1>2 DEF Max, m

\* The lesser of two numbers.
LEMMA LesserOfTwo ==
    ASSUME NEW a \in Int, NEW b \in Int
    PROVE  Min({a, b}) = IF a <= b THEN a ELSE b
<1> DEFINE m == IF a <= b THEN a ELSE b
<1>1. /\ m \in {a, b} /\ \A y \in {a, b} : m <= y
      /\ \A x \in {a, b} : (\A y \in {a, b} : x <= y) => x = m
  OBVIOUS
<1> HIDE DEF m
<1>2. (CHOOSE x \in {a, b} : \A y \in {a, b} : x =< y) = m
  BY <1>1
<1> QED
  BY <1>2 DEF Min, m

\* The shares after each of the first n trades, those of S being replayed.
HeldNext(u, S, h, i) ==
    IF i = 0 THEN 0
    ELSE IF i \notin S THEN h[i - 1]
    ELSE IF trades[u][i].side = "buy" THEN h[i - 1] + 1
    ELSE Max({0, h[i - 1] - 1})
Replay(u, S, h, n) == h = [i \in 0 .. n |-> HeldNext(u, S, h, i)]

\* The recursion has a solution: the one for n trades continues to n + 1.
LEMMA ReplayExists ==
    ASSUME NEW u, NEW S, NEW max \in Nat
    PROVE  \E h : Replay(u, S, h, max)
<1> DEFINE G == {n \in 0 .. max : \E h : Replay(u, S, h, n)}
<1>1. 0 \in G
  <2> DEFINE h == [i \in 0 .. 0 |-> 0]
  <2>1. Replay(u, S, h, 0)
    BY DEF Replay, HeldNext
  <2> HIDE DEF h
  <2> QED
    BY <2>1
<1>2. ASSUME NEW n \in 0 .. max - 1, n \in G PROVE n + 1 \in G
  <2>1. PICK f : Replay(u, S, f, n)
    BY <1>2
  <2> DEFINE h == [i \in 0 .. n + 1 |-> HeldNext(u, S, f, i)]
  <2>2. \A i \in 0 .. n : h[i] = f[i]
    <3>1. \A i \in 0 .. n : f[i] = HeldNext(u, S, f, i)
      BY <2>1 DEF Replay
    <3> QED
      BY <3>1
  <2>3. \A i \in 0 .. n + 1 : HeldNext(u, S, f, i) = HeldNext(u, S, h, i)
    <3> HIDE DEF h
    <3> QED
      BY <2>2 DEF HeldNext
  <2>4. Replay(u, S, h, n + 1)
    BY <2>3 DEF Replay
  <2> HIDE DEF h
  <2> QED
    BY <2>4
<1> HIDE DEF G
<1>3. 0 .. max \subseteq G
  BY <1>1, <1>2, UpwardInduction
<1>4. max \in G
  BY <1>3
<1> QED
  BY <1>4 DEF G

\* Held is the last entry of such a replay.
LEMMA HeldIsReplayed ==
    ASSUME NEW u, NEW S, Len(trades[u]) \in Nat
    PROVE  \E h : Replay(u, S, h, Len(trades[u])) /\ Held(u, S) = h[Len(trades[u])]
<1> DEFINE n == Len(trades[u])
           h == CHOOSE f : Replay(u, S, f, n)
<1>1. Replay(u, S, h, n)
  BY ReplayExists
<1>2. Held(u, S) = h[n]
  BY DEF Held, Replay, HeldNext
<1> QED
  BY <1>1, <1>2

\* Shares are never negative, whatever is left out of a replay.
LEMMA HeldIsNatural ==
    ASSUME NEW u, NEW S, Len(trades[u]) \in Nat
    PROVE  Held(u, S) \in Nat
<1> DEFINE max == Len(trades[u])
<1>1. PICK h : Replay(u, S, h, max) /\ Held(u, S) = h[max]
  BY HeldIsReplayed
<1> DEFINE G == {i \in 0 .. max : h[i] \in Nat}
<1>2. \A i \in 0 .. max : h[i] = HeldNext(u, S, h, i)
  BY <1>1 DEF Replay
<1>3. 0 \in G
  <2>1. 0 \in 0 .. max /\ HeldNext(u, S, h, 0) = 0
    BY DEF HeldNext
  <2>2. h[0] = 0
    BY <1>2, <2>1
  <2> QED
    BY <2>1, <2>2
<1>4. ASSUME NEW i \in 0 .. max - 1, i \in G PROVE i + 1 \in G
  <2>1. h[i] \in Nat /\ i + 1 \in 0 .. max /\ i + 1 # 0 /\ (i + 1) - 1 = i
    BY <1>4
  <2>2. Max({0, h[i] - 1}) \in Nat
    BY <2>1, GreaterOfTwo
  <2>3. h[i + 1] \in Nat
    BY <1>2, <2>1, <2>2 DEF HeldNext
  <2> QED
    BY <2>1, <2>3
<1> HIDE DEF G
<1>5. 0 .. max \subseteq G
  BY <1>3, <1>4, UpwardInduction
<1>6. max \in G
  BY <1>5
<1> QED
  BY <1>1, <1>6 DEF G

\* Where nothing is sold that is not there, the shares are what was bought and
\* not sold.
LEMMA HeldIsDifference ==
    ASSUME NEW u, Covered(trades[u]), Len(trades[u]) \in Nat,
           NEW n \in 0 .. Len(trades[u])
    PROVE  Held(u, 1 .. n) = Cardinality(Buys(trades[u], n)) - Cardinality(Sales(trades[u], n))
<1> DEFINE max == Len(trades[u])
           B(i) == Cardinality(Buys(trades[u], i))
           S(i) == Cardinality(Sales(trades[u], i))
           m(i) == IF i <= n THEN i ELSE n
<1>1. PICK h : Replay(u, 1 .. n, h, max) /\ Held(u, 1 .. n) = h[max]
  BY HeldIsReplayed
<1> DEFINE G == {i \in 0 .. max : h[i] = B(m(i)) - S(m(i))}
<1>2. \A i \in 0 .. max : h[i] = HeldNext(u, 1 .. n, h, i)
  BY <1>1 DEF Replay
<1>3. 0 \in G
  <2>1. 0 \in 0 .. max /\ HeldNext(u, 1 .. n, h, 0) = 0 /\ m(0) = 0
    BY DEF HeldNext
  <2>2. h[0] = 0
    BY <1>2, <2>1
  <2> QED
    BY <2>1, <2>2, NoTrades
<1>4. ASSUME NEW i \in 0 .. max - 1, i \in G PROVE i + 1 \in G
  <2>1. /\ i \in Nat /\ i + 1 \in 0 .. max /\ i + 1 # 0 /\ (i + 1) - 1 = i
        /\ h[i] = B(m(i)) - S(m(i))
    BY <1>4
  <2>2. CASE i + 1 <= n
    <3>1. i + 1 \in 1 .. n /\ m(i) = i /\ m(i + 1) = i + 1
      BY <2>1, <2>2
    <3>2. B(i) \in Nat /\ S(i) \in Nat /\ S(i + 1) <= B(i + 1)
      BY <2>1, CountsAreNatural DEF Covered
    <3>3. h[i] = B(i) - S(i)
      BY <2>1, <3>1
    <3>4. CASE trades[u][i + 1].side = "buy"
      <4>1. h[i + 1] = h[i] + 1
        BY <1>2, <2>1, <3>1, <3>4 DEF HeldNext
      <4>2. B(i + 1) = B(i) + 1 /\ S(i + 1) = S(i)
        BY <2>1, <3>4, OneMoreTrade
      <4>3. h[i + 1] = B(i + 1) - S(i + 1)
        BY <3>2, <3>3, <4>1, <4>2
      <4> QED
        BY <2>1, <3>1, <4>3
    <3>5. CASE trades[u][i + 1].side # "buy"
      <4>1. h[i + 1] = Max({0, h[i] - 1})
        BY <1>2, <2>1, <3>1, <3>5 DEF HeldNext
      <4>2. B(i + 1) = B(i) /\ S(i + 1) = S(i) + 1
        BY <2>1, <3>5, OneMoreTrade
      <4>3. h[i] \in Int /\ h[i] - 1 >= 0
        BY <3>2, <3>3, <4>2
      <4>4. h[i + 1] = h[i] - 1
        BY <4>1, <4>3, GreaterOfTwo
      <4>5. h[i + 1] = B(i + 1) - S(i + 1)
        BY <3>2, <3>3, <4>2, <4>4
      <4> QED
        BY <2>1, <3>1, <4>5
    <3> QED
      BY <3>4, <3>5
  <2>3. CASE ~ (i + 1 <= n)
    <3>1. i + 1 \notin 1 .. n /\ m(i) = n /\ m(i + 1) = n
      BY <2>1, <2>3
    <3>2. h[i + 1] = h[i]
      BY <1>2, <2>1, <3>1 DEF HeldNext
    <3> QED
      BY <2>1, <3>1, <3>2
  <2> QED
    BY <2>2, <2>3
<1>5. max \in 0 .. max /\ m(max) = n
  OBVIOUS
<1> HIDE DEF G
<1>6. 0 .. max \subseteq G
  BY <1>3, <1>4, UpwardInduction
<1>7. max \in G
  BY <1>5, <1>6
<1> QED
  BY <1>1, <1>5, <1>7 DEF G
-----------------------------------------------------------------------------
(* What is known of the trades and the deposits. *)

TradeRow == [day : Day, side : {"buy", "sell"}]

\* The trades of a user until some day: in order, and nobody sells short.
Sound(t, now) ==
    /\ t \in Seq(TradeRow) /\ Len(t) <= MaxTrades
    /\ \A i \in DOMAIN t : t[i].day <= now
    /\ \A i \in DOMAIN t : \A j \in 1 .. i : t[j].day <= t[i].day
    /\ Covered(t)

\* The trades and the deposits of all users.
RecordsFit ==
    /\ today \in Day
    /\ trades = [u \in User |-> trades[u]]
    /\ \A u \in User : Sound(trades[u], today)
    /\ deposits \in [User -> Seq(Day)]

\* Bought by the trades of a set, by its two names.
LEMMA BoughtAndSold ==
    ASSUME NEW u, NEW n \in Nat
    PROVE  Bought(u, 1 .. n) = Buys(trades[u], n)
           /\ (1 .. n) \ Bought(u, 1 .. n) = Sales(trades[u], n)
BY DEF Bought, Buys, Sales

\* A trade of today, covered if it is a sale, keeps them sound.
LEMMA TradesInOrder ==
    ASSUME NEW t, NEW now \in Day, Sound(t, now), Len(t) < MaxTrades,
           NEW side \in {"buy", "sell"},
           side # "buy" =>
             Cardinality(Sales(t, Len(t))) < Cardinality(Buys(t, Len(t)))
    PROVE  Sound(Append(t, [day |-> now, side |-> side]), now)
<1> DEFINE row == [day |-> now, side |-> side]
           new == Append(t, row)
<1>1. row \in TradeRow /\ row.day = now /\ row.side = side
  BY DEF TradeRow
<1> HIDE DEF row
<1>2. /\ t \in Seq(TradeRow) /\ Len(t) \in Nat /\ MaxTrades \in Nat
      /\ new \in Seq(TradeRow) /\ Len(new) = Len(t) + 1 /\ new[Len(t) + 1] = row
      /\ \A i \in 1 .. Len(t) : new[i] = t[i]
      /\ DOMAIN new = 1 .. Len(t) + 1 /\ DOMAIN t = 1 .. Len(t)
  BY <1>1, PortfolioAssumption, LenProperties, AppendProperties DEF Sound
<1>3. Covered(new)
  BY <1>1, <1>2, CoveredStays DEF Sound
<1> HIDE DEF new
<1>4. \A i \in 1 .. Len(t) + 1 : i \in 1 .. Len(t) \/ i = Len(t) + 1
  BY <1>2
<1>5. now \in Int /\ \A i \in DOMAIN new : new[i].day <= now
  BY <1>1, <1>2, <1>4, PortfolioAssumption DEF Sound, Day
<1>6. ASSUME NEW i \in DOMAIN new, NEW j \in 1 .. i PROVE new[j].day <= new[i].day
  <2>1. CASE i \in 1 .. Len(t)
    <3>1. j \in 1 .. Len(t)
      BY <2>1
    <3> QED
      BY <1>2, <2>1, <3>1 DEF Sound
  <2>2. CASE i = Len(t) + 1
    <3>1. j \in DOMAIN new /\ new[i].day = now
      BY <1>1, <1>2, <2>2
    <3> QED
      BY <1>5, <3>1
  <2> QED
    BY <1>2, <1>4, <2>1, <2>2
<1>7. Sound(new, now)
  BY <1>2, <1>3, <1>5, <1>6 DEF Sound
<1> QED
  BY <1>7 DEF new, row

\* Every step leaves the records alone, or appends a trade or a deposit of today.
LEMMA RecordsStep == RecordsFit /\ [PortfolioNext]_portfolioVars => RecordsFit'
<1> SUFFICES ASSUME RecordsFit, [PortfolioNext]_portfolioVars PROVE RecordsFit'
  OBVIOUS
<1> USE DEF RecordsFit
<1>1. ASSUME UNCHANGED <<today, records>> PROVE RecordsFit'
  <2>1. UNCHANGED <<today, trades, deposits>>
    BY <1>1 DEF records
  <2> QED
    BY <2>1 DEF Sound, Day, TradeRow, Covered
<1>2. ASSUME NEW u \in User, NEW side \in {"buy", "sell"}, Trade(u, side) PROVE RecordsFit'
  <2> DEFINE t == trades[u]
             row == [day |-> today, side |-> side]
  <2>1. /\ Len(t) < MaxTrades /\ UNCHANGED <<today, deposits>>
        /\ trades' = [trades EXCEPT ![u] = Append(@, row)]
        /\ side = "buy" \/ Position(u) > 0
    BY <1>2 DEF Trade
  <2>2. /\ Sound(t, today) /\ t \in Seq(TradeRow)
        /\ Len(t) \in Nat /\ Covered(t) /\ DOMAIN t = 1 .. Len(t)
    BY LenProperties DEF Sound
  <2>3. side # "buy" => Cardinality(Sales(t, Len(t))) < Cardinality(Buys(t, Len(t)))
    <3>1. Position(u) = Cardinality(Buys(t, Len(t))) - Cardinality(Sales(t, Len(t)))
      <4>1. Len(t) \in 0 .. Len(t)
        BY <2>2
      <4>2. Held(u, 1 .. Len(t)) = Cardinality(Buys(t, Len(t))) - Cardinality(Sales(t, Len(t)))
        BY <2>2, <4>1, HeldIsDifference
      <4> QED
        BY <2>2, <4>2 DEF Position
    <3>2. Cardinality(Buys(t, Len(t))) \in Nat /\ Cardinality(Sales(t, Len(t))) \in Nat
      BY <2>2, CountsAreNatural
    <3> QED
      BY <2>1, <3>1, <3>2
  <2>4. Sound(Append(t, row), today)
    BY <2>1, <2>2, <2>3, TradesInOrder
  <2>5. /\ trades' = [v \in User |-> trades'[v]]
        /\ \A v \in User : trades'[v] = IF v = u THEN Append(t, row) ELSE trades[v]
    BY <2>1
  <2>6. \A v \in User : Sound(trades'[v], today')
    <3> HIDE DEF row, t
    <3>1. \A v \in User : Sound(trades'[v], today)
      BY <2>4, <2>5
    <3> QED
      BY <2>1, <3>1
  <2>7. (\A v \in User : Sound(trades[v], today))'
    BY <2>6 DEF Sound, TradeRow, Covered, Day
  <2>8. today' \in Day
    BY <2>1
  <2> QED
    BY <2>1, <2>5, <2>7, <2>8 DEF Day
<1>3. ASSUME NEW u \in User, AddFunds(u) PROVE RecordsFit'
  <2>1. UNCHANGED <<today, trades>> /\ deposits' = [deposits EXCEPT ![u] = Append(@, today)]
    BY <1>3 DEF AddFunds
  <2>2. deposits[u] \in Seq(Day)
    OBVIOUS
  <2>3. Append(deposits[u], today) \in Seq(Day)
    BY <2>2, AppendProperties
  <2>4. deposits' \in [User -> Seq(Day)]
    BY <2>1, <2>3
  <2> QED
    BY <2>1, <2>4 DEF Sound, TradeRow, Covered, Day
<1>4. CASE NextDay
  <2>1. today' = today + 1 /\ today < MaxDay /\ UNCHANGED <<trades, deposits>>
    BY <1>4 DEF NextDay, records
  <2>2. today' \in Day /\ today \in Int
    BY <2>1, PortfolioAssumption DEF Day
  <2>3. ASSUME NEW u \in User PROVE Sound(trades[u], today')
    <3>1. \A i \in DOMAIN trades[u] : trades[u][i] \in TradeRow /\ trades[u][i].day \in Day
      <4>1. trades[u] \in Seq(TradeRow)
        BY DEF Sound
      <4>2. \A i \in DOMAIN trades[u] : trades[u][i] \in TradeRow
        BY <4>1, ElementOfSeq, LenProperties
      <4> QED
        BY <4>2 DEF TradeRow
    <3>2. \A i \in DOMAIN trades[u] : trades[u][i].day <= today'
      BY <2>1, <2>2, <3>1, PortfolioAssumption DEF Sound, Day
    <3> QED
      BY <3>2 DEF Sound
  <2> QED
    BY <2>1, <2>2, <2>3 DEF Sound, TradeRow, Covered, Day
<1>5. ASSUME NEW u \in User, NEW k, FinishHistory(u, k) \/ StepUpdate(u, k) PROVE RecordsFit'
  BY <1>1, <1>5 DEF FinishHistory, StepUpdate
<1>6. ASSUME NEW u \in User, NEW from, NEW to, RequestHistory(u, from, to) PROVE RecordsFit'
  BY <1>1, <1>6 DEF RequestHistory
<1>7. CASE CreateSnapshots \/ RestartWorker \/ UNCHANGED portfolioVars
  BY <1>1, <1>7 DEF CreateSnapshots, RestartWorker, portfolioVars
<1> QED
  BY <1>2, <1>3, <1>4, <1>5, <1>6, <1>7 DEF PortfolioNext

\* There are no records at first.
LEMMA RecordsStart == PortfolioInit => RecordsFit
<1> SUFFICES ASSUME PortfolioInit PROVE RecordsFit
  OBVIOUS
<1>1. today \in Day /\ deposits \in [User -> Seq(Day)] /\ trades = [u \in User |-> <<>>]
  BY PortfolioAssumption DEF PortfolioInit, Day
<1>2. Covered(<<>>)
  BY NoTrades DEF Covered
<1>3. Sound(<<>>, today)
  BY <1>2, PortfolioAssumption DEF Sound
<1> QED
  BY <1>1, <1>3 DEF RecordsFit

\* The trades until a day come before all others.
LEMMA UntilIsPrefix ==
    ASSUME NEW u, NEW now, Sound(trades[u], now), NEW d \in Day
    PROVE  \E n \in 0 .. Len(trades[u]) : Until(u, DOMAIN trades[u], d) = 1 .. n
<1> DEFINE T == Until(u, DOMAIN trades[u], d)
           max == Len(trades[u])
<1>1. /\ max \in Nat /\ DOMAIN trades[u] = 1 .. max
      /\ \A i \in 1 .. max : trades[u][i].day \in Int
      /\ d \in Int
  <2>1. trades[u] \in Seq(TradeRow)
    BY DEF Sound
  <2>2. \A i \in 1 .. Len(trades[u]) : trades[u][i] \in TradeRow
    BY <2>1, ElementOfSeq
  <2> QED
    BY <2>1, <2>2, LenProperties, PortfolioAssumption DEF TradeRow, Day
<1>2. CASE T = {}
  <2>1. T = 1 .. 0 /\ 0 \in 0 .. max
    BY <1>1, <1>2
  <2> QED
    BY <2>1
<1>3. CASE T # {}
  <2>1. T \in SUBSET (1 .. max) /\ T \in SUBSET Int
    BY <1>1 DEF Until
  <2>2. IsFiniteSet(T)
    <3>1. IsFiniteSet(1 .. max)
      BY <1>1, FS_Interval
    <3> QED
      BY <2>1, <3>1, FS_Subset
  <2>3. PICK n \in T : \A k \in T : n >= k
    BY <1>3, <2>1, <2>2, GreatestElement
  <2>4. n \in 1 .. max /\ trades[u][n].day <= d
    BY <1>1, <2>1, <2>3 DEF Until
  <2>5. ASSUME NEW i \in 1 .. n PROVE i \in T
    <3>1. i \in 1 .. max /\ trades[u][i].day <= trades[u][n].day
      BY <1>1, <2>4 DEF Sound
    <3>2. trades[u][i].day <= d
      BY <1>1, <2>4, <3>1
    <3> QED
      BY <1>1, <3>1, <3>2 DEF Until
  <2>6. T = 1 .. n
    <3> HIDE DEF T
    <3>1. \A k \in T : k \in 1 .. n
      BY <1>1, <2>1, <2>3, <2>4
    <3> QED
      BY <2>5, <3>1
  <2> QED
    BY <2>4, <2>6
<1> QED
  BY <1>2, <1>3

\* Bought and sold at the same price, shares and cash are what was paid in.
LEMMA ValueIsFunding ==
    ASSUME NEW u, NEW now, Sound(trades[u], now), NEW d \in Day,
           FundedBefore(u, d) \in Int
    PROVE  Held(u, Until(u, DOMAIN trades[u], d)) + CashAt(u, DOMAIN trades[u], d)
             = FundedBefore(u, d)
<1>1. PICK n \in 0 .. Len(trades[u]) : Until(u, DOMAIN trades[u], d) = 1 .. n
  BY UntilIsPrefix
<1> DEFINE b == Cardinality(Buys(trades[u], n))
           s == Cardinality(Sales(trades[u], n))
<1>2. Len(trades[u]) \in Nat /\ n \in Nat /\ Covered(trades[u])
  BY LenProperties DEF Sound
<1>3. b \in Nat /\ s \in Nat
  BY <1>2, CountsAreNatural
<1>4. Held(u, 1 .. n) = b - s
  BY <1>2, HeldIsDifference
<1>5. CashAt(u, DOMAIN trades[u], d) = FundedBefore(u, d) - b + s
  BY <1>1, <1>2, BoughtAndSold DEF CashAt
<1> HIDE DEF b, s
<1> QED
  BY <1>1, <1>3, <1>4, <1>5

\* A product of a sum.
LEMMA Times ==
    ASSUME NEW a \in Int, NEW b \in Int, NEW c \in Int
    PROVE  a * (b + c) = a * b + a * c /\ a * b \in Int
OBVIOUS

\* What is paid in before a day and from then to another is paid in before that.
LEMMA FundingAddsUp ==
    ASSUME NEW u \in User, deposits \in [User -> Seq(Day)],
           NEW from \in Day, NEW to \in Day, from < to
    PROVE  /\ FundedBefore(u, from) \in Int /\ CashFlow(u, from, to) \in Int
           /\ FundedBefore(u, to) = FundedBefore(u, from) + CashFlow(u, from, to)
<1> DEFINE n == Len(deposits[u])
           Early == {i \in DOMAIN deposits[u] : deposits[u][i] < from}
           Mid == {i \in DOMAIN deposits[u] : deposits[u][i] \in from .. to - 1}
           All == {i \in DOMAIN deposits[u] : deposits[u][i] < to}
<1>1. /\ n \in Nat /\ DOMAIN deposits[u] = 1 .. n /\ from \in Int /\ to \in Int
      /\ \A i \in 1 .. n : deposits[u][i] \in Int
  <2>1. deposits[u] \in Seq(Day)
    OBVIOUS
  <2>2. \A i \in 1 .. n : deposits[u][i] \in Day
    BY <2>1, ElementOfSeq
  <2> QED
    BY <2>1, <2>2, LenProperties, PortfolioAssumption DEF Day
<1>2. Early \cup Mid = All /\ Early \cap Mid = {}
  BY <1>1
<1>3. IsFiniteSet(1 .. n)
  BY <1>1, FS_Interval
<1>4. Early \in SUBSET (1 .. n) /\ Mid \in SUBSET (1 .. n)
  BY <1>1
<1>5. IsFiniteSet(Early) /\ IsFiniteSet(Mid)
  BY <1>3, <1>4, FS_Subset
<1>6. Cardinality(Early) \in Int /\ Cardinality(Mid) \in Int /\ Amount \in Int
  BY <1>5, FS_CardinalityType, PortfolioAssumption
<1>7. /\ FundedBefore(u, from) = Amount * Cardinality(Early)
      /\ CashFlow(u, from, to) = Amount * Cardinality(Mid)
      /\ FundedBefore(u, to) = Amount * Cardinality(All)
  BY DEF FundedBefore, CashFlow
<1> HIDE DEF Early, Mid, All
<1>8. Cardinality(All) = Cardinality(Early) + Cardinality(Mid)
  <2>1. Cardinality(Early \cup Mid) = Cardinality(Early) + Cardinality(Mid) - Cardinality({})
    BY <1>2, <1>5, FS_Union
  <2> QED
    <3>1. Cardinality({}) = 0
      BY FS_EmptySet
    <3>2. Cardinality(All) = Cardinality(Early \cup Mid)
      BY <1>2
    <3> QED
      BY <1>6, <2>1, <3>1, <3>2
<1> QED
  BY <1>6, <1>7, <1>8, Times

(***************************************************************************)
(* With a constant price no period has a profit or a loss: what is paid in, *)
(* bought and sold between two midnights moves value between cash and      *)
(* shares, however many trades there are and whichever days are compared   *)
(* (_calculate_period_portfolio_pnl).                                      *)
(***************************************************************************)
THEOREM PeriodsAreFlat == PortfolioSpec => []PeriodPnlIsGain
<1>1. RecordsFit => PeriodPnlIsGain
  <2> SUFFICES ASSUME RecordsFit, NEW u \in User, NEW from \in Day, NEW to \in Day, from < to
               PROVE  PeriodPnl(u, DOMAIN trades[u], from, to) = 0
    BY DEF PeriodPnlIsGain
  <2> DEFINE V(d) == Held(u, Until(u, DOMAIN trades[u], d)) + CashAt(u, DOMAIN trades[u], d)
  <2>1. /\ FundedBefore(u, from) \in Int /\ CashFlow(u, from, to) \in Int
        /\ FundedBefore(u, to) = FundedBefore(u, from) + CashFlow(u, from, to)
    BY FundingAddsUp DEF RecordsFit
  <2>2. FundedBefore(u, to) \in Int
    BY <2>1
  <2>3. V(from) = FundedBefore(u, from)
    BY <2>1, ValueIsFunding DEF RecordsFit
  <2>4. V(to) = FundedBefore(u, to)
    BY <2>2, ValueIsFunding DEF RecordsFit
  <2>5. PeriodPnl(u, DOMAIN trades[u], from, to) = V(to) - V(from) - CashFlow(u, from, to)
    BY DEF PeriodPnl
  <2> HIDE DEF V
  <2> QED
    BY <2>1, <2>3, <2>4, <2>5
<1> QED
  BY <1>1, RecordsStart, RecordsStep, PTL DEF PortfolioSpec
-----------------------------------------------------------------------------
(* What the rows of portfolio_snapshots show. *)

\* The cash at a day, by the first known trades and the first funds deposits.
Cash(t, p, d, known, funds) ==
    Amount * Cardinality({i \in 1 .. funds : p[i] < d})
      - Cardinality({i \in 1 .. known : t[i].day <= d /\ t[i].side = "buy"})
      + Cardinality({i \in 1 .. known : t[i].day <= d /\ t[i].side # "buy"})

\* A row that knew of no more trades than a query returns shows that cash.
RowFits(t, p, d, row) ==
    /\ row \in SnapshotRow
    /\ row.known <= Len(t) /\ row.funds <= Len(p)
    /\ row.known <= ReadLimit => row.cash = Cash(t, p, d, row.known, row.funds)

\* The trades a query has returned of the first known ones.
SeenFits(t, S, known) ==
    /\ known \in 0 .. Len(t) /\ S \in SUBSET (1 .. known)
    /\ known <= ReadLimit => S = 1 .. known

\* The rows of a day, and the requests of a user.
DayFits(t, p, d, rows) ==
    rows \in Seq(SnapshotRow) /\ \A k \in DOMAIN rows : RowFits(t, p, d, rows[k])

RequestsFit(t, requests) ==
    /\ requests \in Seq(Request)
    /\ \A k \in DOMAIN requests : SeenFits(t, requests[k].seen, requests[k].known)

\* The table of snapshots and the requests that wait.
HistoryInv ==
    /\ snapshots = [u \in User |-> [d \in Day |-> snapshots[u][d]]]
    /\ \A u \in User, d \in Day : DayFits(trades[u], deposits[u], d, snapshots[u][d])
    /\ reading = [u \in User |-> reading[u]]
    /\ \A u \in User : RequestsFit(trades[u], reading[u])

\* An element appended or taken out.
LEMMA AppendedElement ==
    ASSUME NEW R, NEW s \in Seq(R), NEW x \in R
    PROVE  /\ Append(s, x) \in Seq(R)
           /\ \A k \in DOMAIN Append(s, x) :
                 \/ k \in DOMAIN s /\ Append(s, x)[k] = s[k]
                 \/ Append(s, x)[k] = x
<1>1. /\ Append(s, x) \in Seq(R) /\ Len(Append(s, x)) = Len(s) + 1
      /\ Len(s) \in Nat
  BY AppendProperties, LenProperties
<1>2. DOMAIN Append(s, x) = 1 .. Len(s) + 1 /\ DOMAIN s = 1 .. Len(s)
  BY <1>1, LenProperties
<1>3. \A k \in 1 .. Len(s) + 1 : k \in 1 .. Len(s) \/ k = Len(s) + 1
  BY <1>1
<1>4. /\ \A k \in 1 .. Len(s) : Append(s, x)[k] = s[k]
      /\ Append(s, x)[Len(s) + 1] = x
  BY <1>1, AppendProperties
<1> QED
  BY <1>1, <1>2, <1>3, <1>4

LEMMA RemovedElement ==
    ASSUME NEW R, NEW s \in Seq(R), NEW n \in DOMAIN s
    PROVE  /\ RemoveAt(s, n) \in Seq(R)
           /\ \A k \in DOMAIN RemoveAt(s, n) : \E j \in DOMAIN s : RemoveAt(s, n)[k] = s[j]
           /\ \A j \in DOMAIN s \ {n} : \E k \in DOMAIN RemoveAt(s, n) : RemoveAt(s, n)[k] = s[j]
<1> DEFINE a == SubSeq(s, 1, n - 1)
           b == SubSeq(s, n + 1, Len(s))
           c == a \o b
<1>1. Len(s) \in Nat /\ DOMAIN s = 1 .. Len(s) /\ n \in 1 .. Len(s)
  BY LenProperties
<1>2. /\ a \in Seq(R) /\ Len(a) = n - 1
      /\ \A i \in 1 .. n - 1 : a[i] = s[i]
  BY <1>1, SubSeqProperties
<1>3. /\ b \in Seq(R) /\ Len(b) = Len(s) - n
      /\ \A i \in 1 .. Len(s) - n : b[i] = s[n + i]
  BY <1>1, SubSeqProperties
<1> HIDE DEF a, b
<1>4. /\ c \in Seq(R) /\ Len(c) = Len(s) - 1
      /\ \A i \in 1 .. Len(s) - 1 :
            c[i] = IF i <= n - 1 THEN a[i] ELSE b[i - (n - 1)]
  <2>1. Len(c) = Len(a) + Len(b) /\ c \in Seq(R)
    BY <1>2, <1>3, ConcatProperties
  <2>2. \A i \in 1 .. Len(a) + Len(b) :
           c[i] = IF i <= Len(a) THEN a[i] ELSE b[i - Len(a)]
    BY <1>2, <1>3, ConcatProperties
  <2>3. Len(a) + Len(b) = Len(s) - 1
    BY <1>1, <1>2, <1>3
  <2> HIDE DEF c
  <2> QED
    BY <1>2, <2>1, <2>2, <2>3
<1>5. \A i \in 1 .. Len(s) - 1 : c[i] = IF i <= n - 1 THEN s[i] ELSE s[i + 1]
  <2> SUFFICES ASSUME NEW i \in 1 .. Len(s) - 1
               PROVE  c[i] = IF i <= n - 1 THEN s[i] ELSE s[i + 1]
    OBVIOUS
  <2>1. CASE i <= n - 1
    BY <1>1, <1>2, <1>4, <2>1
  <2>2. CASE ~ (i <= n - 1)
    <3>1. i - (n - 1) \in 1 .. Len(s) - n /\ n + (i - (n - 1)) = i + 1
      BY <1>1, <2>2
    <3> QED
      BY <1>1, <1>3, <1>4, <2>2, <3>1
  <2> QED
    BY <2>1, <2>2
<1>6. DOMAIN c = 1 .. Len(s) - 1
  BY <1>4, LenProperties
<1> HIDE DEF c
<1>7. \A k \in DOMAIN c : \E j \in DOMAIN s : c[k] = s[j]
  BY <1>1, <1>5, <1>6
<1>8. \A j \in DOMAIN s \ {n} : \E k \in DOMAIN c : c[k] = s[j]
  <2> SUFFICES ASSUME NEW j \in DOMAIN s \ {n} PROVE \E k \in DOMAIN c : c[k] = s[j]
    OBVIOUS
  <2>1. CASE j < n
    <3>1. j \in DOMAIN c /\ c[j] = s[j]
      BY <1>1, <1>5, <1>6, <2>1
    <3> QED
      BY <3>1
  <2>2. CASE j > n
    <3>1. j - 1 \in DOMAIN c /\ c[j - 1] = s[j]
      BY <1>1, <1>5, <1>6, <2>2
    <3> QED
      BY <3>1
  <2> QED
    BY <1>1, <2>1, <2>2
<1> QED
  BY <1>4, <1>7, <1>8 DEF RemoveAt, c, a, b

\* Later trades and deposits change nothing of what was written before them.
LEMMA RowStaysAfterTrade ==
    ASSUME NEW R, NEW t \in Seq(R), NEW x \in R, NEW p, NEW d, NEW row,
           RowFits(t, p, d, row)
    PROVE  RowFits(Append(t, x), p, d, row)
<1>1. Len(t) \in Nat /\ Len(Append(t, x)) = Len(t) + 1 /\ row.known \in Nat
      /\ row.known <= Len(t)
  BY LenProperties, AppendProperties DEF RowFits, SnapshotRow
<1>2. \A i \in 1 .. row.known : Append(t, x)[i] = t[i]
  BY <1>1, AppendProperties
<1>3. row.known <= Len(Append(t, x))
  BY <1>1
<1> HIDE DEF RowFits
<1>4. Cash(Append(t, x), p, d, row.known, row.funds) = Cash(t, p, d, row.known, row.funds)
  BY <1>2 DEF Cash
<1> QED
  BY <1>3, <1>4 DEF RowFits

LEMMA RowStaysAfterDeposit ==
    ASSUME NEW R, NEW p \in Seq(R), NEW x \in R, NEW t, NEW d, NEW row,
           RowFits(t, p, d, row)
    PROVE  RowFits(t, Append(p, x), d, row)
<1>1. Len(p) \in Nat /\ Len(Append(p, x)) = Len(p) + 1 /\ row.funds \in Nat
      /\ row.funds <= Len(p)
  BY LenProperties, AppendProperties DEF RowFits, SnapshotRow
<1>2. \A i \in 1 .. row.funds : Append(p, x)[i] = p[i]
  BY <1>1, AppendProperties
<1>3. row.funds <= Len(Append(p, x))
  BY <1>1
<1> HIDE DEF RowFits
<1>4. Cash(t, Append(p, x), d, row.known, row.funds) = Cash(t, p, d, row.known, row.funds)
  BY <1>2 DEF Cash
<1> QED
  BY <1>3, <1>4 DEF RowFits

LEMMA SeenStays ==
    ASSUME NEW R, NEW t \in Seq(R), NEW x \in R, NEW S, NEW known, SeenFits(t, S, known)
    PROVE  SeenFits(Append(t, x), S, known)
<1>1. Len(t) \in Nat /\ Len(Append(t, x)) = Len(t) + 1
  BY LenProperties, AppendProperties
<1> QED
  BY <1>1 DEF SeenFits

\* A query sees all trades while the limit allows it.
LEMMA ReadsFit ==
    ASSUME NEW u, Len(trades[u]) \in Nat, DOMAIN trades[u] = 1 .. Len(trades[u]),
           NEW S \in Reads(u)
    PROVE  SeenFits(trades[u], S, Len(trades[u]))
<1> DEFINE n == Len(trades[u])
<1>1. S \in SUBSET (1 .. n) /\ Cardinality(S) = Min({n, ReadLimit})
  BY DEF Reads
<1>2. ASSUME n <= ReadLimit PROVE S = 1 .. n
  <2>1. Min({n, ReadLimit}) = n
    BY <1>2, LesserOfTwo, PortfolioAssumption
  <2>2. IsFiniteSet(1 .. n) /\ Cardinality(1 .. n) = n
    BY FS_Interval
  <2> QED
    BY <1>1, <2>1, <2>2, FS_Subset
<1> QED
  BY <1>1, <1>2 DEF SeenFits

\* Deposits before a day, counted.
LEMMA FundedIsInteger ==
    ASSUME NEW u \in User, deposits \in [User -> Seq(Day)], NEW d
    PROVE  /\ FundedBefore(u, d) \in Int
           /\ FundedBefore(u, d)
                = Amount * Cardinality({i \in 1 .. Len(deposits[u]) : deposits[u][i] < d})
<1> DEFINE S == {i \in 1 .. Len(deposits[u]) : deposits[u][i] < d}
<1>1. deposits[u] \in Seq(Day)
  OBVIOUS
<1>2. Len(deposits[u]) \in Nat /\ DOMAIN deposits[u] = 1 .. Len(deposits[u])
  BY <1>1, LenProperties
<1>3. IsFiniteSet(1 .. Len(deposits[u]))
  BY <1>2, FS_Interval
<1>4. IsFiniteSet(S)
  BY <1>3, FS_Subset
<1>5. Cardinality(S) \in Nat /\ FundedBefore(u, d) = Amount * Cardinality(S)
  BY <1>2, <1>4, FS_CardinalityType DEF FundedBefore
<1> HIDE DEF S
<1>6. FundedBefore(u, d) \in Int
  BY <1>5, Times, PortfolioAssumption
<1> QED
  BY <1>5, <1>6 DEF S

\* A row says what was known when it was written.
LEMMA NewRowFits ==
    ASSUME NEW u \in User, deposits \in [User -> Seq(Day)], NEW d, NEW S, NEW known,
           Len(trades[u]) \in Nat, SeenFits(trades[u], S, known)
    PROVE  RowFits(trades[u], deposits[u], d,
             [cash |-> CashAt(u, S, d), known |-> known, funds |-> Len(deposits[u])])
<1> DEFINE done == Until(u, S, d)
           row == [cash |-> CashAt(u, S, d), known |-> known, funds |-> Len(deposits[u])]
<1>1. known \in Nat /\ known <= Len(trades[u]) /\ S \in SUBSET (1 .. known)
  BY DEF SeenFits
<1>2. IsFiniteSet(1 .. known)
  BY <1>1, FS_Interval
<1>3. Bought(u, done) \in SUBSET (1 .. known) /\ done \ Bought(u, done) \in SUBSET (1 .. known)
  BY <1>1 DEF Bought, Until
<1>4. IsFiniteSet(Bought(u, done)) /\ IsFiniteSet(done \ Bought(u, done))
  BY <1>2, <1>3, FS_Subset
<1>5. Cardinality(Bought(u, done)) \in Nat /\ Cardinality(done \ Bought(u, done)) \in Nat
  BY <1>4, FS_CardinalityType
<1>6. CashAt(u, S, d) = FundedBefore(u, d) - Cardinality(Bought(u, done))
                          + Cardinality(done \ Bought(u, done))
  BY DEF CashAt
<1>7. CashAt(u, S, d) \in Int /\ Len(deposits[u]) \in Nat
  <2>1. deposits[u] \in Seq(Day)
    OBVIOUS
  <2>2. FundedBefore(u, d) \in Int
    BY FundedIsInteger
  <2> HIDE DEF done
  <2> QED
    BY <1>5, <1>6, <2>1, <2>2, LenProperties
<1>8. row \in SnapshotRow
  BY <1>1, <1>7 DEF SnapshotRow
<1>9. ASSUME known <= ReadLimit
      PROVE  CashAt(u, S, d) = Cash(trades[u], deposits[u], d, known, Len(deposits[u]))
  <2>1. S = 1 .. known
    BY <1>9 DEF SeenFits
  <2>2. Bought(u, done)
          = {i \in 1 .. known : trades[u][i].day <= d /\ trades[u][i].side = "buy"}
    BY <2>1 DEF Bought, Until
  <2>3. done \ Bought(u, done)
          = {i \in 1 .. known : trades[u][i].day <= d /\ trades[u][i].side # "buy"}
    BY <2>1 DEF Bought, Until
  <2>4. FundedBefore(u, d)
          = Amount * Cardinality({i \in 1 .. Len(deposits[u]) : deposits[u][i] < d})
    BY FundedIsInteger
  <2> HIDE DEF done
  <2> QED
    BY <1>6, <2>2, <2>3, <2>4 DEF Cash
<1>10. row.cash = CashAt(u, S, d) /\ row.known = known /\ row.funds = Len(deposits[u])
  OBVIOUS
<1> HIDE DEF row
<1>11. RowFits(trades[u], deposits[u], d, row)
  BY <1>1, <1>7, <1>8, <1>9, <1>10 DEF RowFits
<1> QED
  BY <1>11 DEF row

\* The rows of a user fit after some of his days were written.
LEMMA WrittenRowsFit ==
    ASSUME HistoryInv, RecordsFit, NEW u \in User, NEW days, NEW S, NEW known,
           SeenFits(trades[u], S, known)
    PROVE  /\ WithRows(u, days, S, known) = [d \in Day |-> WithRows(u, days, S, known)[d]]
           /\ \A d \in Day :
                 DayFits(trades[u], deposits[u], d, WithRows(u, days, S, known)[d])
<1> DEFINE row(d) == [cash |-> CashAt(u, S, d), known |-> known, funds |-> Len(deposits[u])]
<1>1. WithRows(u, days, S, known)
        = [d \in Day |-> IF d \in days THEN Append(snapshots[u][d], row(d)) ELSE snapshots[u][d]]
  BY DEF WithRows
<1>2. Len(trades[u]) \in Nat
  <2>1. trades[u] \in Seq(TradeRow)
    BY DEF RecordsFit, Sound
  <2> QED
    BY <2>1, LenProperties
<1>3. \A d \in Day : RowFits(trades[u], deposits[u], d, row(d))
  BY <1>2, NewRowFits DEF RecordsFit
<1> HIDE DEF row
<1>4. ASSUME NEW d \in Day
      PROVE  DayFits(trades[u], deposits[u], d, Append(snapshots[u][d], row(d)))
  <2>1. /\ snapshots[u][d] \in Seq(SnapshotRow)
        /\ \A k \in DOMAIN snapshots[u][d] :
              RowFits(trades[u], deposits[u], d, snapshots[u][d][k])
        /\ row(d) \in SnapshotRow /\ RowFits(trades[u], deposits[u], d, row(d))
    BY <1>3 DEF HistoryInv, DayFits, RowFits
  <2>2. /\ Append(snapshots[u][d], row(d)) \in Seq(SnapshotRow)
        /\ \A k \in DOMAIN Append(snapshots[u][d], row(d)) :
              \/ /\ k \in DOMAIN snapshots[u][d]
                 /\ Append(snapshots[u][d], row(d))[k] = snapshots[u][d][k]
              \/ Append(snapshots[u][d], row(d))[k] = row(d)
    BY <2>1, AppendedElement
  <2> QED
    BY <2>1, <2>2 DEF DayFits
<1>5. \A d \in Day : DayFits(trades[u], deposits[u], d, snapshots[u][d])
  BY DEF HistoryInv
<1> QED
  BY <1>1, <1>4, <1>5

\* The rows of all users, written or not, and the requests that wait.
LEMMA HistoryKept ==
    ASSUME UNCHANGED <<trades, deposits>>,
           snapshots' = [v \in User |-> [d \in Day |-> snapshots'[v][d]]],
           \A v \in User, d \in Day : DayFits(trades[v], deposits[v], d, snapshots'[v][d]),
           reading' = [v \in User |-> reading'[v]],
           \A v \in User : RequestsFit(trades[v], reading'[v])
    PROVE  HistoryInv'
<1>1. /\ \A v \in User, d \in Day : DayFits(trades'[v], deposits'[v], d, snapshots'[v][d])
      /\ \A v \in User : RequestsFit(trades'[v], reading'[v])
  <2> HIDE DEF DayFits, RequestsFit
  <2> QED
    OBVIOUS
<1>2. /\ (\A v \in User, d \in Day : DayFits(trades[v], deposits[v], d, snapshots[v][d]))'
      /\ (\A v \in User : RequestsFit(trades[v], reading[v]))'
  BY <1>1 DEF DayFits, RequestsFit, RowFits, SeenFits, SnapshotRow, Request, Day, Cash
<1> QED
  BY <1>2 DEF HistoryInv, Day

\* A request writes rows of one user,
LEMMA SavedRowsFit ==
    ASSUME HistoryInv, RecordsFit, UNCHANGED <<trades, deposits>>,
           NEW u \in User, NEW from, NEW to, NEW S, NEW known, SeenFits(trades[u], S, known),
           snapshots' = [snapshots EXCEPT ![u] = Saved(u, from, to, S, known)]
    PROVE  /\ snapshots' = [v \in User |-> [d \in Day |-> snapshots'[v][d]]]
           /\ \A v \in User, d \in Day : DayFits(trades[v], deposits[v], d, snapshots'[v][d])
<1> DEFINE new == Saved(u, from, to, S, known)
<1>1. \E days : new = WithRows(u, days, S, known)
  BY DEF Saved
<1>2. /\ new = [d \in Day |-> new[d]]
      /\ \A d \in Day : DayFits(trades[u], deposits[u], d, new[d])
  <2>1. PICK days : new = WithRows(u, days, S, known)
    BY <1>1
  <2> HIDE DEF new
  <2> QED
    BY <2>1, WrittenRowsFit
<1>3. \A v \in User : snapshots'[v] = IF v = u THEN new ELSE snapshots[v]
  BY DEF HistoryInv
<1>4. snapshots' = [v \in User |-> snapshots'[v]]
  BY DEF HistoryInv
<1> HIDE DEF new
<1>5. \A v \in User : snapshots'[v] = [d \in Day |-> snapshots'[v][d]]
  BY <1>2, <1>3 DEF HistoryInv
<1>6. \A v \in User, d \in Day : DayFits(trades[v], deposits[v], d, snapshots'[v][d])
  BY <1>2, <1>3 DEF HistoryInv
<1> QED
  BY <1>4, <1>5, <1>6

\* ... the job of many, each with what it has just read.
LEMMA JobRowsFit ==
    ASSUME HistoryInv, RecordsFit, CreateSnapshots
    PROVE  HistoryInv'
<1>1. PICK seen \in [User -> SUBSET (1 .. MaxTrades)], done \in SUBSET User :
         /\ \A u \in User : seen[u] \in Reads(u)
         /\ \/ UNCHANGED reading
            \/ reading' = [u \in User |-> <<>>]
         /\ snapshots' = [u \in User |->
              IF u \in done /\ trades[u] # <<>>
                THEN WithRows(u, DueDays(u), seen[u], Len(trades[u]))
                ELSE snapshots[u]]
  BY DEF CreateSnapshots, Restarts
<1>2. UNCHANGED <<trades, deposits>>
  BY DEF CreateSnapshots, records
<1>3. ASSUME NEW u \in User
      PROVE  /\ snapshots'[u] = [d \in Day |-> snapshots'[u][d]]
             /\ \A d \in Day : DayFits(trades[u], deposits[u], d, snapshots'[u][d])
  <2>1. trades[u] \in Seq(TradeRow)
    BY DEF RecordsFit, Sound
  <2>2. SeenFits(trades[u], seen[u], Len(trades[u]))
    BY <1>1, <2>1, ReadsFit, LenProperties
  <2> DEFINE new == WithRows(u, DueDays(u), seen[u], Len(trades[u]))
  <2>3. /\ new = [d \in Day |-> new[d]]
        /\ \A d \in Day : DayFits(trades[u], deposits[u], d, new[d])
    BY <2>2, WrittenRowsFit
  <2>4. snapshots'[u] = new \/ snapshots'[u] = snapshots[u]
    BY <1>1
  <2> HIDE DEF new
  <2>5. /\ snapshots[u] = [d \in Day |-> snapshots[u][d]]
        /\ \A d \in Day : DayFits(trades[u], deposits[u], d, snapshots[u][d])
    BY DEF HistoryInv
  <2> QED
    BY <2>3, <2>4, <2>5
<1>4. /\ reading' = [u \in User |-> reading'[u]]
      /\ \A u \in User : RequestsFit(trades[u], reading'[u])
  <2>1. CASE UNCHANGED reading
    BY <2>1 DEF HistoryInv
  <2>2. CASE reading' = [u \in User |-> <<>>]
    BY <2>2 DEF RequestsFit
  <2> QED
    BY <1>1, <2>1, <2>2
<1>5. snapshots' = [u \in User |-> snapshots'[u]]
  BY <1>1
<1> QED
  BY <1>2, <1>3, <1>4, <1>5, HistoryKept

\* A request for the history remembers what it has read,
LEMMA RequestedRowsFit ==
    ASSUME HistoryInv, RecordsFit, NEW u \in User, NEW from \in Day, NEW to \in Day,
           RequestHistory(u, from, to)
    PROVE  HistoryInv'
<1>1. trades[u] \in Seq(TradeRow) /\ Len(trades[u]) \in Nat /\ Len(trades[u]) <= MaxTrades
      /\ DOMAIN trades[u] = 1 .. Len(trades[u])
  BY LenProperties DEF RecordsFit, Sound
<1> DEFINE r(S) == [from |-> from, to |-> to, seen |-> S, known |-> Len(trades[u])]
<1>2. PICK S \in Reads(u) :
         \/ /\ reading' = [reading EXCEPT ![u] = Append(@, r(S))]
            /\ UNCHANGED snapshots
         \/ /\ snapshots' = [snapshots EXCEPT ![u] = Saved(u, from, to, S, Len(trades[u]))]
            /\ UNCHANGED reading
  BY DEF RequestHistory
<1>3. UNCHANGED <<trades, deposits>>
  BY DEF RequestHistory, records
<1>4. SeenFits(trades[u], S, Len(trades[u]))
  BY <1>1, ReadsFit
<1>5. CASE UNCHANGED snapshots /\ reading' = [reading EXCEPT ![u] = Append(@, r(S))]
  <2>1. /\ r(S) \in Request /\ r(S).seen = S /\ r(S).known = Len(trades[u])
    <3>1. S \in SUBSET (1 .. MaxTrades)
      BY <1>1, PortfolioAssumption DEF Reads
    <3> QED
      BY <1>1, <3>1 DEF Request
  <2> HIDE DEF r
  <2>2. /\ reading' = [v \in User |-> reading'[v]]
        /\ \A v \in User :
              reading'[v] = IF v = u THEN Append(reading[u], r(S)) ELSE reading[v]
    BY <1>5 DEF HistoryInv
  <2>3. RequestsFit(trades[u], Append(reading[u], r(S)))
    <3>1. /\ reading[u] \in Seq(Request)
          /\ \A k \in DOMAIN reading[u] :
                SeenFits(trades[u], reading[u][k].seen, reading[u][k].known)
      BY DEF HistoryInv, RequestsFit
    <3>2. /\ Append(reading[u], r(S)) \in Seq(Request)
          /\ \A k \in DOMAIN Append(reading[u], r(S)) :
                \/ k \in DOMAIN reading[u] /\ Append(reading[u], r(S))[k] = reading[u][k]
                \/ Append(reading[u], r(S))[k] = r(S)
      BY <2>1, <3>1, AppendedElement
    <3>3. SeenFits(trades[u], r(S).seen, r(S).known)
      BY <1>4, <2>1
    <3> HIDE DEF SeenFits
    <3> QED
      BY <3>1, <3>2, <3>3 DEF RequestsFit
  <2>4. \A v \in User : RequestsFit(trades[v], reading'[v])
    BY <2>2, <2>3 DEF HistoryInv
  <2> QED
    BY <1>3, <1>5, <2>2, <2>4, HistoryKept DEF HistoryInv
<1>6. CASE UNCHANGED reading
           /\ snapshots' = [snapshots EXCEPT ![u] = Saved(u, from, to, S, Len(trades[u]))]
  <2>1. /\ snapshots' = [v \in User |-> [d \in Day |-> snapshots'[v][d]]]
        /\ \A v \in User, d \in Day : DayFits(trades[v], deposits[v], d, snapshots'[v][d])
    BY <1>3, <1>4, <1>6, SavedRowsFit
  <2> QED
    BY <1>3, <1>6, <2>1, HistoryKept DEF HistoryInv
<1> QED
  BY <1>2, <1>5, <1>6

\* ... and writes by that when the prices are there.
LEMMA FinishedRowsFit ==
    ASSUME HistoryInv, RecordsFit, NEW u \in User, NEW k \in DOMAIN reading[u],
           FinishHistory(u, k)
    PROVE  HistoryInv'
<1>1. PICK r : r = reading[u][k]
  OBVIOUS
<1>2. /\ reading' = [reading EXCEPT ![u] = RemoveAt(@, k)]
      /\ \/ snapshots' = [snapshots EXCEPT ![u] = Saved(u, r.from, r.to, r.seen, r.known)]
         \/ UNCHANGED snapshots
      /\ UNCHANGED <<trades, deposits>>
  BY <1>1 DEF FinishHistory, records
<1>3. /\ reading[u] \in Seq(Request)
      /\ \A j \in DOMAIN reading[u] :
            SeenFits(trades[u], reading[u][j].seen, reading[u][j].known)
  BY DEF HistoryInv, RequestsFit
<1>4. SeenFits(trades[u], r.seen, r.known)
  BY <1>1, <1>3
<1>5. /\ snapshots' = [v \in User |-> [d \in Day |-> snapshots'[v][d]]]
      /\ \A v \in User, d \in Day : DayFits(trades[v], deposits[v], d, snapshots'[v][d])
  <2>1. CASE UNCHANGED snapshots
    BY <2>1 DEF HistoryInv
  <2>2. CASE snapshots' = [snapshots EXCEPT ![u] = Saved(u, r.from, r.to, r.seen, r.known)]
    BY <1>2, <1>4, <2>2, SavedRowsFit
  <2> QED
    BY <1>2, <2>1, <2>2
<1>6. RequestsFit(trades[u], RemoveAt(reading[u], k))
  <2>1. /\ RemoveAt(reading[u], k) \in Seq(Request)
        /\ \A i \in DOMAIN RemoveAt(reading[u], k) :
              \E j \in DOMAIN reading[u] : RemoveAt(reading[u], k)[i] = reading[u][j]
    BY <1>3, RemovedElement
  <2> HIDE DEF SeenFits
  <2> QED
    BY <1>3, <2>1 DEF RequestsFit
<1>7. /\ reading' = [v \in User |-> reading'[v]]
      /\ \A v \in User : RequestsFit(trades[v], reading'[v])
  BY <1>2, <1>6 DEF HistoryInv
<1> QED
  BY <1>2, <1>5, <1>7, HistoryKept

\* Trades and deposits leave all rows as they are.
LEMMA TradeKeepsHistory ==
    ASSUME HistoryInv, RecordsFit, NEW u \in User, NEW side \in {"buy", "sell"},
           Trade(u, side)
    PROVE  HistoryInv'
<1>1. PICK row : row = [day |-> today, side |-> side]
  OBVIOUS
<1>2. /\ trades' = [trades EXCEPT ![u] = Append(@, row)]
      /\ UNCHANGED <<deposits, snapshots, reading>>
  BY <1>1 DEF Trade
<1>3. trades[u] \in Seq(TradeRow) /\ row \in TradeRow
  BY <1>1 DEF RecordsFit, Sound, TradeRow
<1>4. \A v \in User : trades'[v] = IF v = u THEN Append(trades[u], row) ELSE trades[v]
  BY <1>2 DEF RecordsFit
<1>5. ASSUME NEW v \in User, NEW d \in Day
      PROVE  DayFits(trades'[v], deposits[v], d, snapshots[v][d])
  <2>1. DayFits(trades[v], deposits[v], d, snapshots[v][d])
    BY DEF HistoryInv
  <2>2. CASE v = u
    <3>1. \A k \in DOMAIN snapshots[u][d] :
             RowFits(Append(trades[u], row), deposits[u], d, snapshots[u][d][k])
      BY <1>3, <2>1, <2>2, RowStaysAfterTrade DEF DayFits
    <3> QED
      BY <1>4, <2>1, <2>2, <3>1 DEF DayFits
  <2>3. CASE v # u
    BY <1>4, <2>1, <2>3
  <2> QED
    BY <2>2, <2>3
<1>6. ASSUME NEW v \in User PROVE RequestsFit(trades'[v], reading[v])
  <2>1. RequestsFit(trades[v], reading[v])
    BY DEF HistoryInv
  <2>2. CASE v = u
    <3>1. \A k \in DOMAIN reading[u] :
             SeenFits(Append(trades[u], row), reading[u][k].seen, reading[u][k].known)
      BY <1>3, <2>1, <2>2, SeenStays DEF RequestsFit
    <3> QED
      BY <1>4, <2>1, <2>2, <3>1 DEF RequestsFit
  <2>3. CASE v # u
    BY <1>4, <2>1, <2>3
  <2> QED
    BY <2>2, <2>3
<1>7. /\ (\A v \in User, d \in Day : DayFits(trades[v], deposits[v], d, snapshots[v][d]))'
      /\ (\A v \in User : RequestsFit(trades[v], reading[v]))'
  <2>1. /\ \A v \in User, d \in Day : DayFits(trades'[v], deposits'[v], d, snapshots'[v][d])
        /\ \A v \in User : RequestsFit(trades'[v], reading'[v])
    BY <1>2, <1>5, <1>6
  <2> QED
    BY <2>1 DEF DayFits, RequestsFit, RowFits, SeenFits, SnapshotRow, Request, Day, Cash
<1> QED
  BY <1>2, <1>7 DEF HistoryInv, Day

LEMMA DepositKeepsHistory ==
    ASSUME HistoryInv, RecordsFit, NEW u \in User, AddFunds(u)
    PROVE  HistoryInv'
<1>1. /\ deposits' = [deposits EXCEPT ![u] = Append(@, today)]
      /\ UNCHANGED <<trades, snapshots, reading>>
  BY DEF AddFunds
<1>2. deposits[u] \in Seq(Day) /\ today \in Day
  BY DEF RecordsFit
<1>3. \A v \in User : deposits'[v] = IF v = u THEN Append(deposits[u], today) ELSE deposits[v]
  BY <1>1 DEF RecordsFit
<1>4. ASSUME NEW v \in User, NEW d \in Day
      PROVE  DayFits(trades[v], deposits'[v], d, snapshots[v][d])
  <2>1. DayFits(trades[v], deposits[v], d, snapshots[v][d])
    BY DEF HistoryInv
  <2>2. CASE v = u
    <3>1. \A k \in DOMAIN snapshots[u][d] :
             RowFits(trades[u], Append(deposits[u], today), d, snapshots[u][d][k])
      BY <1>2, <2>1, <2>2, RowStaysAfterDeposit DEF DayFits
    <3> QED
      BY <1>3, <2>1, <2>2, <3>1 DEF DayFits
  <2>3. CASE v # u
    BY <1>3, <2>1, <2>3
  <2> QED
    BY <2>2, <2>3
<1>5. (\A v \in User, d \in Day : DayFits(trades[v], deposits[v], d, snapshots[v][d]))'
  <2>1. \A v \in User, d \in Day : DayFits(trades'[v], deposits'[v], d, snapshots'[v][d])
    BY <1>1, <1>4
  <2> QED
    BY <2>1 DEF DayFits, RowFits, SnapshotRow, Day, Cash
<1>6. (\A v \in User : RequestsFit(trades[v], reading[v]))'
  BY <1>1 DEF HistoryInv, RequestsFit, SeenFits, Request, Day
<1> QED
  BY <1>1, <1>5, <1>6 DEF HistoryInv, Day

\* Every step keeps the rows and the requests.
LEMMA HistoryStep ==
    HistoryInv /\ RecordsFit /\ [PortfolioNext]_portfolioVars => HistoryInv'
<1> SUFFICES ASSUME HistoryInv, RecordsFit, [PortfolioNext]_portfolioVars PROVE HistoryInv'
  OBVIOUS
<1>1. ASSUME UNCHANGED <<trades, deposits, snapshots>>,
             UNCHANGED reading \/ reading' = [u \in User |-> <<>>]
      PROVE  HistoryInv'
  <2>1. /\ reading' = [u \in User |-> reading'[u]]
        /\ \A u \in User : RequestsFit(trades[u], reading'[u])
    <3>1. CASE UNCHANGED reading
      BY <3>1 DEF HistoryInv
    <3>2. CASE reading' = [u \in User |-> <<>>]
      BY <3>2 DEF RequestsFit
    <3> QED
      BY <1>1, <3>1, <3>2
  <2> QED
    BY <1>1, <2>1, HistoryKept DEF HistoryInv
<1>2. ASSUME NEW u \in User, NEW k \in DOMAIN updating[u], StepUpdate(u, k) PROVE HistoryInv'
  BY <1>1, <1>2 DEF StepUpdate, records
<1>3. CASE NextDay
  BY <1>1, <1>3 DEF NextDay, records
<1>4. CASE RestartWorker
  BY <1>1, <1>4 DEF RestartWorker, Restarts, records
<1>5. CASE UNCHANGED portfolioVars
  BY <1>1, <1>5 DEF portfolioVars, records
<1> QED
  BY <1>2, <1>3, <1>4, <1>5, JobRowsFit, RequestedRowsFit, FinishedRowsFit,
     TradeKeepsHistory, DepositKeepsHistory DEF PortfolioNext

LEMMA HistoryStarts == PortfolioInit => HistoryInv
<1> SUFFICES ASSUME PortfolioInit PROVE HistoryInv
  OBVIOUS
<1> QED
  BY DEF PortfolioInit, HistoryInv, DayFits, RequestsFit

-----------------------------------------------------------------------------
(* How many rows a day has. *)

\* Rows, in a table t of days.
RowsOf(t, from, to) == UNION {{d} \X DOMAIN t[d] : d \in from .. to}

RowTable(t) == \A d \in Day : t[d] \in Seq(SnapshotRow)

\* OneSnapshotPerDay, for one user.
Single(t) == \A d \in Day : Len(t[d]) > 1 => Cardinality(RowsOf(t, 1, d - 1)) >= RowLimit

\* The rows of finitely many days are finitely many.
LEMMA RowsAreFinite ==
    ASSUME NEW t, RowTable(t), NEW from \in Day, NEW d \in Day
    PROVE  IsFiniteSet(RowsOf(t, from, d - 1)) /\ Cardinality(RowsOf(t, from, d - 1)) \in Nat
<1> DEFINE G == {n \in 0 .. MaxDay : IsFiniteSet(RowsOf(t, from, n))}
<1>1. MaxDay \in Nat /\ from \in 1 .. MaxDay /\ d - 1 \in 0 .. MaxDay
  BY PortfolioAssumption DEF Day
<1>2. 0 \in G
  <2>1. RowsOf(t, from, 0) = {}
    BY <1>1 DEF RowsOf
  <2> QED
    BY <1>1, <2>1, FS_EmptySet
<1>3. ASSUME NEW n \in 0 .. MaxDay - 1, n \in G PROVE n + 1 \in G
  <2>1. n + 1 \in Day /\ n + 1 \in 0 .. MaxDay
    BY <1>1, <1>3 DEF Day
  <2>2. IsFiniteSet({n + 1} \X DOMAIN t[n + 1])
    <3>1. DOMAIN t[n + 1] = 1 .. Len(t[n + 1]) /\ Len(t[n + 1]) \in Nat
      BY <2>1, LenProperties DEF RowTable
    <3>2. PICK m \in Nat : DOMAIN t[n + 1] = 1 .. m
      BY <3>1
    <3>3. IsFiniteSet(1 .. m)
      BY FS_Interval
    <3>4. PICK e : e = n + 1
      OBVIOUS
    <3>5. IsFiniteSet({e})
      BY FS_Singleton
    <3> QED
      BY <3>2, <3>3, <3>4, <3>5, FS_Product
  <2>3. RowsOf(t, from, n + 1)
          \in SUBSET (RowsOf(t, from, n) \cup ({n + 1} \X DOMAIN t[n + 1]))
    <3>1. \A e \in from .. n + 1 : e = n + 1 \/ e \in from .. n
      BY <1>1, <1>3
    <3> QED
      BY <3>1 DEF RowsOf
  <2>4. IsFiniteSet(RowsOf(t, from, n) \cup ({n + 1} \X DOMAIN t[n + 1]))
    BY <1>3, <2>2, FS_Union
  <2> QED
    BY <2>1, <2>3, <2>4, FS_Subset
<1> HIDE DEF G
<1>4. 0 .. MaxDay \subseteq G
  BY <1>1, <1>2, <1>3, UpwardInduction
<1>5. d - 1 \in G
  BY <1>1, <1>4
<1> QED
  BY <1>5, FS_CardinalityType DEF G

\* Rows that stay are among those of a longer range.
LEMMA RowsGrow ==
    ASSUME NEW t, NEW new, RowTable(t), RowTable(new),
           \A e \in Day : DOMAIN t[e] \subseteq DOMAIN new[e],
           NEW from \in Day, NEW d \in Day,
           Cardinality(RowsOf(t, from, d - 1)) >= RowLimit
    PROVE  Cardinality(RowsOf(new, 1, d - 1)) >= RowLimit
<1>1. 1 \in Day /\ from .. d - 1 \subseteq 1 .. d - 1 /\ 1 .. d - 1 \subseteq Day
  BY PortfolioAssumption DEF Day
<1>2. RowsOf(t, from, d - 1) \in SUBSET RowsOf(new, 1, d - 1)
  BY <1>1 DEF RowsOf
<1>3. /\ IsFiniteSet(RowsOf(new, 1, d - 1)) /\ Cardinality(RowsOf(new, 1, d - 1)) \in Nat
      /\ Cardinality(RowsOf(t, from, d - 1)) \in Nat
  BY <1>1, RowsAreFinite
<1>4. Cardinality(RowsOf(t, from, d - 1)) <= Cardinality(RowsOf(new, 1, d - 1))
  BY <1>2, <1>3, FS_Subset
<1> QED
  BY <1>3, <1>4, PortfolioAssumption

\* Rows are written to days that have none, or that the query did not reach.
LEMMA WrittenOnce ==
    ASSUME NEW u \in User, RowTable(snapshots[u]), Single(snapshots[u]),
           NEW days, NEW S, NEW known,
           \A d \in days \cap Day :
              \/ snapshots[u][d] = <<>>
              \/ \E from \in Day : Cardinality(RowsOf(snapshots[u], from, d - 1)) >= RowLimit,
           RowTable(WithRows(u, days, S, known))
    PROVE  Single(WithRows(u, days, S, known))
<1> DEFINE t == snapshots[u]
           new == WithRows(u, days, S, known)
           row(d) == [cash |-> CashAt(u, S, d), known |-> known, funds |-> Len(deposits[u])]
<1>1. \A d \in Day : new[d] = IF d \in days THEN Append(t[d], row(d)) ELSE t[d]
  BY DEF WithRows
<1> HIDE DEF new, row
<1>2. ASSUME NEW d \in Day PROVE DOMAIN t[d] \subseteq DOMAIN new[d]
  <2>1. /\ t[d] \in Seq(SnapshotRow) /\ new[d] \in Seq(SnapshotRow)
        /\ DOMAIN t[d] = 1 .. Len(t[d]) /\ DOMAIN new[d] = 1 .. Len(new[d])
        /\ Len(t[d]) \in Nat
    BY LenProperties DEF RowTable, new
  <2>2. CASE d \in days
    <3>1. PICK x : new[d] = Append(t[d], x)
      BY <1>1, <2>2
    <3>2. Len(Append(t[d], x)) = Len(t[d]) + 1
      BY <2>1
    <3> QED
      BY <2>1, <3>1, <3>2
  <2>3. CASE d \notin days
    BY <1>1, <2>3
  <2> QED
    BY <2>2, <2>3
<1>3. ASSUME NEW d \in Day, Len(new[d]) > 1
      PROVE  \E from \in Day : Cardinality(RowsOf(t, from, d - 1)) >= RowLimit
  <2>1. 1 \in Day
    BY PortfolioAssumption DEF Day
  <2>2. CASE d \notin days
    BY <1>1, <1>3, <2>1, <2>2 DEF Single
  <2>3. CASE d \in days
    <3>1. t[d] # <<>>
      <4>1. SUFFICES ASSUME t[d] = <<>> PROVE FALSE
        OBVIOUS
      <4>2. PICK x : new[d] = Append(<<>>, x)
        BY <1>1, <2>3, <4>1
      <4>3. Append(<<>>, x) = <<x>>
        OBVIOUS
      <4> QED
        BY <1>3, <4>2, <4>3
    <3> QED
      BY <2>3, <3>1
  <2> QED
    BY <2>2, <2>3
<1>4. Single(new)
  BY <1>2, <1>3, RowsGrow DEF Single, new
<1> QED
  BY <1>4 DEF new

\* The job writes the day after the latest row, or the first one.
LEMMA DueDaysAreEmpty ==
    ASSUME NEW u \in User, NEW d \in DueDays(u) \cap Day, today \in Day
    PROVE  snapshots[u][d] = <<>>
<1> DEFINE days == {e \in Day : snapshots[u][e] # <<>>}
<1>1. d \in Int
  BY PortfolioAssumption DEF Day
<1>2. days # {} => \A e \in days : e < d
  BY DEF DueDays
<1>3. d \notin days
  <2>1. ~ (d < d)
    BY <1>1
  <2> QED
    BY <1>2, <2>1
<1> QED
  BY <1>3

\* The rows of all users, before and after a step.
LEMMA RowTables ==
    ASSUME HistoryInv, HistoryInv'
    PROVE  \A u \in User : RowTable(snapshots[u]) /\ RowTable(snapshots'[u])
BY DEF HistoryInv, DayFits, RowTable, SnapshotRow, Day

LEMMA UserByUser ==
    /\ OneSnapshotPerDay <=> \A u \in User : Single(snapshots[u])
    /\ OneSnapshotPerDay' <=> \A u \in User : Single(snapshots'[u])
BY DEF OneSnapshotPerDay, Single, Rows, RowsOf, Day

\* A request writes to days it has just not found a row of.
LEMMA SavingKeepsOne ==
    ASSUME OneSnapshotPerDay, HistoryInv, HistoryInv',
           NEW u \in User, NEW from \in Day, NEW to, NEW S, NEW known,
           snapshots' = [snapshots EXCEPT ![u] = Saved(u, from, to, S, known)]
    PROVE  OneSnapshotPerDay'
<1> DEFINE missing == Missing(u, from, to)
           Counted(d) == {i \in S : LET day == trades[u][i].day
                                    IN  day < from \/ (day <= d /\ day \in missing)}
           written == {d \in missing :
                         \A e \in missing : e <= d => Held(u, Counted(e)) = 0}
<1>1. Saved(u, from, to, S, known) = WithRows(u, written, S, known)
  BY DEF Saved
<1>2. \A d \in written :
         \/ snapshots[u][d] = <<>>
         \/ Cardinality(RowsOf(snapshots[u], from, d - 1)) >= RowLimit
  BY DEF Missing, Rows, RowsOf
<1> HIDE DEF written
<1>3. \A v \in User :
         snapshots'[v] = IF v = u THEN WithRows(u, written, S, known) ELSE snapshots[v]
  BY <1>1 DEF HistoryInv
<1>4. Single(WithRows(u, written, S, known))
  <2>1. /\ RowTable(snapshots[u]) /\ RowTable(WithRows(u, written, S, known))
        /\ Single(snapshots[u])
    BY <1>3, RowTables, UserByUser
  <2> QED
    BY <1>2, <2>1, WrittenOnce
<1> QED
  BY <1>3, <1>4, UserByUser

\* The job: one row for the day that is due, of the users it reaches.
LEMMA JobKeepsOne ==
    ASSUME OneSnapshotPerDay, RecordsFit, HistoryInv, HistoryInv', CreateSnapshots
    PROVE  OneSnapshotPerDay'
<1>1. PICK seen \in [User -> SUBSET (1 .. MaxTrades)], done \in SUBSET User :
         snapshots' = [u \in User |->
              IF u \in done /\ trades[u] # <<>>
                THEN WithRows(u, DueDays(u), seen[u], Len(trades[u]))
                ELSE snapshots[u]]
  BY DEF CreateSnapshots
<1>2. ASSUME NEW u \in User PROVE Single(snapshots'[u])
  <2>1. RowTable(snapshots[u]) /\ RowTable(snapshots'[u]) /\ Single(snapshots[u])
    BY RowTables, UserByUser
  <2>2. CASE snapshots'[u] = WithRows(u, DueDays(u), seen[u], Len(trades[u]))
    <3>1. \A d \in DueDays(u) \cap Day : snapshots[u][d] = <<>>
      BY DueDaysAreEmpty DEF RecordsFit
    <3> QED
      BY <2>1, <2>2, <3>1, WrittenOnce
  <2> QED
    BY <1>1, <2>1, <2>2
<1> QED
  BY <1>2, UserByUser

LEMMA SnapshotStep ==
    /\ OneSnapshotPerDay /\ RecordsFit /\ HistoryInv /\ HistoryInv'
    /\ [PortfolioNext]_portfolioVars
    => OneSnapshotPerDay'
<1> SUFFICES ASSUME OneSnapshotPerDay, RecordsFit, HistoryInv, HistoryInv',
                    [PortfolioNext]_portfolioVars
             PROVE  OneSnapshotPerDay'
  OBVIOUS
<1>1. ASSUME UNCHANGED snapshots PROVE OneSnapshotPerDay'
  BY <1>1, UserByUser
<1>2. ASSUME NEW u \in User, NEW from \in Day, NEW to \in Day, RequestHistory(u, from, to)
      PROVE  OneSnapshotPerDay'
  <2>1. \/ UNCHANGED snapshots
        \/ \E S : snapshots' = [snapshots EXCEPT ![u] = Saved(u, from, to, S, Len(trades[u]))]
    BY <1>2 DEF RequestHistory
  <2> QED
    BY <1>1, <2>1, SavingKeepsOne
<1>3. ASSUME NEW u \in User, NEW k \in DOMAIN reading[u], FinishHistory(u, k)
      PROVE  OneSnapshotPerDay'
  <2>1. PICK r : r = reading[u][k]
    OBVIOUS
  <2>2. \/ UNCHANGED snapshots
        \/ snapshots' = [snapshots EXCEPT ![u] = Saved(u, r.from, r.to, r.seen, r.known)]
    BY <1>3, <2>1 DEF FinishHistory
  <2>3. r.from \in Day
    <3>1. reading[u] \in Seq(Request)
      BY DEF HistoryInv, RequestsFit
    <3>2. r \in Request
      BY <2>1, <3>1, ElementOfSeq, LenProperties
    <3> QED
      BY <3>2 DEF Request
  <2> QED
    BY <1>1, <2>2, <2>3, SavingKeepsOne
<1>4. ASSUME NEW u \in User, NEW k, StepUpdate(u, k) PROVE OneSnapshotPerDay'
  BY <1>1, <1>4 DEF StepUpdate
<1>5. CASE NextDay \/ RestartWorker \/ UNCHANGED portfolioVars
  BY <1>1, <1>5 DEF NextDay, RestartWorker, portfolioVars
<1>6. ASSUME NEW u \in User, AddFunds(u) \/ \E side \in {"buy", "sell"} : Trade(u, side)
      PROVE  OneSnapshotPerDay'
  BY <1>1, <1>6 DEF AddFunds, Trade
<1> QED
  BY <1>2, <1>3, <1>4, <1>5, <1>6, JobKeepsOne DEF PortfolioNext

LEMMA SnapshotStarts == PortfolioInit => OneSnapshotPerDay
<1> SUFFICES ASSUME PortfolioInit PROVE \A u \in User : Single(snapshots[u])
  BY UserByUser
<1> QED
  BY DEF PortfolioInit, Single

(***************************************************************************)
(* Whoever writes rows (create_daily_portfolio_snapshots,                  *)
(* get_portfolio_historical_data) and however long ago he looked, a day    *)
(* gets a second row only if at least as many rows precede it as the query  *)
(* that looks for them returns (get_multi_by_user_in_range).               *)
(***************************************************************************)
THEOREM DaysHaveOneSnapshot == PortfolioSpec => []OneSnapshotPerDay
<1> DEFINE Inv == RecordsFit /\ HistoryInv /\ OneSnapshotPerDay
<1>1. PortfolioInit => Inv
  BY RecordsStart, HistoryStarts, SnapshotStarts
<1>2. Inv /\ [PortfolioNext]_portfolioVars => Inv'
  BY RecordsStep, HistoryStep, SnapshotStep
<1> QED
  BY <1>1, <1>2, PTL DEF PortfolioSpec
-----------------------------------------------------------------------------
\* A figure of so many trades is that of the purchases and the sales.
LEMMA BuysAndSales ==
    ASSUME NEW n \in Nat, NEW B \in SUBSET (1 .. n), NEW S \in SUBSET (1 .. n), B \cap S = {}
    PROVE  /\ Cardinality(B) \in Nat /\ Cardinality(S) \in Nat
           /\ Cardinality(B \cup S) = Cardinality(B) + Cardinality(S)
<1>1. IsFiniteSet(1 .. n)
  BY FS_Interval
<1>2. IsFiniteSet(B) /\ IsFiniteSet(S)
  BY <1>1, FS_Subset
<1>3. Cardinality(B) \in Nat /\ Cardinality(S) \in Nat
  BY <1>2, FS_CardinalityType
<1>4. Cardinality(B \cup S) = Cardinality(B) + Cardinality(S) - Cardinality({})
  BY <1>2, FS_Union
<1>5. Cardinality({}) = 0
  BY FS_EmptySet
<1> QED
  BY <1>3, <1>4, <1>5

\* The balance of an account in terms of all trades and deposits.
LEMMA BalanceOfTrades ==
    ASSUME NEW u, trades[u] \in Seq(TradeRow)
    PROVE  AccountBalance(u) = Amount * Len(deposits[u])
                                 - Cardinality(Buys(trades[u], Len(trades[u])))
                                 + Cardinality(Sales(trades[u], Len(trades[u])))
<1>1. Len(trades[u]) \in Nat /\ DOMAIN trades[u] = 1 .. Len(trades[u])
  BY LenProperties
<1>2. /\ Bought(u, DOMAIN trades[u]) = Buys(trades[u], Len(trades[u]))
      /\ DOMAIN trades[u] \ Bought(u, DOMAIN trades[u]) = Sales(trades[u], Len(trades[u]))
  BY <1>1, BoughtAndSold
<1> QED
  BY <1>2 DEF AccountBalance, Invested

(***************************************************************************)
(* A row that was written when all trades of its day and all deposits      *)
(* before it were known shows the cash they leave, whoever wrote it and    *)
(* whatever happened since, and is the balance that is shown all day       *)
(* (create_daily_portfolio_snapshots, _calculate_cash_balance_at_date).    *)
(***************************************************************************)
THEOREM SnapshotsAreRight == PortfolioSpec => []HistoryIsRight
<1> DEFINE Inv == RecordsFit /\ HistoryInv
<1>1. ASSUME Inv PROVE HistoryIsRight
  <2> SUFFICES ASSUME NEW u \in User, NEW d \in Day, NEW k \in DOMAIN snapshots[u][d]
               PROVE
        LET row == snapshots[u][d][k]
            due == {i \in DOMAIN trades[u] : trades[u][i].day <= d}
            sold == {i \in due : trades[u][i].side = "sell"}
            paid == {i \in DOMAIN deposits[u] : deposits[u][i] < d}
        IN  row.known <= ReadLimit /\ due \subseteq 1 .. row.known /\ paid \subseteq 1 .. row.funds
              => /\ row.cash = Amount * Cardinality(paid) + 2 * Cardinality(sold) - Cardinality(due)
                 /\ d = today /\ paid = DOMAIN deposits[u] /\ Len(snapshots[u][d]) = 1
                      => ShownBalances(u) = {AccountBalance(u)}
    BY DEF HistoryIsRight
  <2> DEFINE row == snapshots[u][d][k]
             due == {i \in DOMAIN trades[u] : trades[u][i].day <= d}
             sold == {i \in due : trades[u][i].side = "sell"}
             bought == {i \in due : trades[u][i].side = "buy"}
             paid == {i \in DOMAIN deposits[u] : deposits[u][i] < d}
  <2>1. ASSUME row.known <= ReadLimit, due \subseteq 1 .. row.known,
               paid \subseteq 1 .. row.funds
        PROVE  /\ row.cash = Amount * Cardinality(paid) + 2 * Cardinality(sold)
                                - Cardinality(due)
               /\ d = today /\ paid = DOMAIN deposits[u] /\ Len(snapshots[u][d]) = 1 =>
                    ShownBalances(u) = {AccountBalance(u)}
    <3>1. RowFits(trades[u], deposits[u], d, row)
      BY <1>1 DEF HistoryInv, DayFits
    <3>2. /\ trades[u] \in Seq(TradeRow) /\ deposits[u] \in Seq(Day)
          /\ \A i \in DOMAIN trades[u] : trades[u][i].day <= today
      BY <1>1 DEF RecordsFit, Sound
    <3>3. /\ Len(trades[u]) \in Nat /\ DOMAIN trades[u] = 1 .. Len(trades[u])
          /\ Len(deposits[u]) \in Nat /\ DOMAIN deposits[u] = 1 .. Len(deposits[u])
          /\ \A i \in DOMAIN trades[u] : trades[u][i].side \in {"buy", "sell"}
      <4>1. \A i \in DOMAIN trades[u] : trades[u][i] \in TradeRow
        BY <3>2, ElementOfSeq, LenProperties
      <4> QED
        BY <3>2, <4>1, LenProperties DEF TradeRow
    <3>4. /\ row.known \in Nat /\ row.known <= Len(trades[u])
          /\ row.funds \in Nat /\ row.funds <= Len(deposits[u])
          /\ row.cash = Cash(trades[u], deposits[u], d, row.known, row.funds)
      BY <2>1, <3>1 DEF RowFits, SnapshotRow
    <3> HIDE DEF row
    <3>5. /\ {i \in 1 .. row.funds : deposits[u][i] < d} = paid
          /\ {i \in 1 .. row.known : trades[u][i].day <= d /\ trades[u][i].side = "buy"} = bought
          /\ {i \in 1 .. row.known : trades[u][i].day <= d /\ trades[u][i].side # "buy"} = sold
      BY <2>1, <3>3, <3>4
    <3>6. row.cash = Amount * Cardinality(paid) - Cardinality(bought) + Cardinality(sold)
      BY <3>4, <3>5 DEF Cash
    <3>7. /\ bought \in SUBSET (1 .. Len(trades[u])) /\ sold \in SUBSET (1 .. Len(trades[u]))
          /\ bought \cap sold = {} /\ bought \cup sold = due
      BY <3>3
    <3>8. paid \in SUBSET (1 .. Len(deposits[u]))
      BY <3>3
    <3> HIDE DEF due, sold, bought, paid
    <3>9. /\ Cardinality(bought) \in Nat /\ Cardinality(sold) \in Nat
          /\ Cardinality(due) = Cardinality(bought) + Cardinality(sold)
      <4>1. PICK B, S, n : B = bought /\ S = sold /\ n = Len(trades[u])
        OBVIOUS
      <4>2. /\ n \in Nat /\ B \in SUBSET (1 .. n) /\ S \in SUBSET (1 .. n)
            /\ B \cap S = {} /\ B \cup S = due
        BY <3>3, <3>7, <4>1
      <4>3. /\ Cardinality(B) \in Nat /\ Cardinality(S) \in Nat
            /\ Cardinality(B \cup S) = Cardinality(B) + Cardinality(S)
        BY <4>2, BuysAndSales
      <4>4. /\ Cardinality(due) = Cardinality(B \cup S)
            /\ Cardinality(B) = Cardinality(bought) /\ Cardinality(S) = Cardinality(sold)
        BY <4>1, <4>2, Zenon
      <4> QED
        BY <4>3, <4>4, Zenon
    <3>10. Cardinality(paid) \in Nat
      <4>1. IsFiniteSet(1 .. Len(deposits[u]))
        BY <3>3, FS_Interval
      <4>2. IsFiniteSet(paid)
        BY <3>8, <4>1, FS_Subset
      <4> QED
        BY <4>2, FS_CardinalityType
    <3>11. Amount * Cardinality(paid) \in Int
      BY <3>10, Times, PortfolioAssumption
    <3>12. row.cash = Amount * Cardinality(paid) + 2 * Cardinality(sold) - Cardinality(due)
      BY <3>6, <3>9, <3>11
    <3>13. ASSUME d = today, paid = DOMAIN deposits[u], Len(snapshots[u][d]) = 1
           PROVE  ShownBalances(u) = {AccountBalance(u)}
      <4>1. /\ snapshots[u][d] \in Seq(SnapshotRow)
            /\ DOMAIN snapshots[u][d] = 1 .. Len(snapshots[u][d])
        BY <1>1, LenProperties DEF HistoryInv, DayFits
      <4>2. ShownBalances(u) = {row.cash}
        <5>1. DOMAIN snapshots[u][d] = {1}
          BY <3>13, <4>1
        <5>2. k = 1 /\ snapshots[u][d] # <<>>
          BY <5>1
        <5> QED
          BY <3>13, <5>1, <5>2 DEF ShownBalances, row
      <4>3. /\ bought = Buys(trades[u], Len(trades[u]))
            /\ sold = Sales(trades[u], Len(trades[u]))
        <5>1. due = 1 .. Len(trades[u])
          BY <3>2, <3>3, <3>13 DEF due
        <5>2. bought = Buys(trades[u], Len(trades[u]))
          BY <5>1 DEF Buys, bought
        <5>3. sold = Sales(trades[u], Len(trades[u]))
          BY <3>3, <5>1 DEF Sales, sold
        <5> QED
          BY <5>2, <5>3
      <4>4. Cardinality(paid) = Len(deposits[u])
        <5>1. PICK n : n = Len(deposits[u])
          OBVIOUS
        <5>2. Cardinality(1 .. n) = n
          BY <3>3, <5>1, FS_Interval
        <5>3. paid = 1 .. n
          BY <3>3, <3>13, <5>1
        <5> QED
          BY <5>1, <5>2, <5>3, Zenon
      <4> QED
        BY <3>2, <3>6, <4>2, <4>3, <4>4, BalanceOfTrades
    <3> QED
      BY <3>12, <3>13
  <2> QED
    BY <2>1
<1>2. PortfolioInit => Inv
  BY RecordsStart, HistoryStarts
<1>3. Inv /\ [PortfolioNext]_portfolioVars => Inv'
  BY RecordsStep, HistoryStep
<1> QED
  BY <1>1, <1>2, <1>3, PTL DEF PortfolioSpec
-----------------------------------------------------------------------------
(* The leaderboard. *)

\* The balance after all trades of t with so many deposits.
Balanced(t, balance, funds) ==
    balance = Amount * funds - Cardinality(Buys(t, Len(t))) + Cardinality(Sales(t, Len(t)))

\* The figures of an update, as far as it is the last trade's.
UpdateFits(t, h) ==
    /\ h \in Update /\ h.trade <= Len(t)
    /\ h.trade = Len(t) /\ h.stage # "queued" /\ ~ h.shown =>
         Balanced(t, h.balance, h.funds) /\ h.invested = Amount * h.funds
    /\ h.trade = Len(t) /\ h.stage = "valued" =>
         h.stocks = Cardinality(Buys(t, Len(t))) - Cardinality(Sales(t, Len(t)))

\* The updates of a user that are under way.
QueueFits(t, q) == q \in Seq(Update) /\ \A k \in DOMAIN q : UpdateFits(t, q[k])

\* An entry of the leaderboard.
BoardEntry == [trade : Nat, balance : Int, profit : Nat, funds : Nat]

\* An entry is the last trade's where it is clean and no update of that waits.
EntryFits(t, q, entry, cleared) ==
    /\ entry \in BoardEntry
    /\ cleared /\ t # <<>> /\ (\A k \in DOMAIN q : q[k].trade # Len(t)) =>
         Balanced(t, entry.balance, entry.funds) /\ entry.profit = 0

\* The leaderboard and the updates under way.
BoardInv ==
    /\ updating = [u \in User |-> updating[u]]
    /\ board = [u \in User |-> board[u]]
    /\ clean \in [User -> BOOLEAN]
    /\ \A u \in User : QueueFits(trades[u], updating[u])
    /\ \A u \in User : EntryFits(trades[u], updating[u], board[u], clean[u])

\* What the invariant says of the next state, user by user.
LEMMA BoardKept ==
    ASSUME updating' = [u \in User |-> updating'[u]],
           board' = [u \in User |-> board'[u]],
           clean' \in [User -> BOOLEAN],
           \A u \in User : QueueFits(trades'[u], updating'[u]),
           \A u \in User : EntryFits(trades'[u], updating'[u], board'[u], clean'[u])
    PROVE  BoardInv'
<1>1. /\ (\A u \in User : QueueFits(trades[u], updating[u]))'
      /\ (\A u \in User : EntryFits(trades[u], updating[u], board[u], clean[u]))'
  BY DEF QueueFits, EntryFits, UpdateFits, Balanced, Update, BoardEntry, Buys, Sales
<1> QED
  BY <1>1 DEF BoardInv

\* The fields of an update.
LEMMA UpdateFields ==
    ASSUME NEW h \in Update
    PROVE  /\ h.trade \in Nat /\ h.stage \in {"queued", "funded", "valued"}
           /\ h.balance \in Int /\ h.invested \in Nat /\ h.stocks \in Nat
           /\ h.funds \in Nat /\ h.shown \in BOOLEAN
BY DEF Update

\* What a summary reads.
LEMMA BalanceIsInteger ==
    ASSUME RecordsFit, HistoryInv, NEW u \in User
    PROVE  /\ Invested(u) \in Nat /\ Len(deposits[u]) \in Nat
           /\ \A balance \in ShownBalances(u) :
                /\ balance \in Int
                /\ snapshots[u][today] = <<>> =>
                     Balanced(trades[u], balance, Len(deposits[u]))
           /\ Invested(u) = Amount * Len(deposits[u])
<1> DEFINE t == trades[u]
           b == Cardinality(Buys(t, Len(t)))
           s == Cardinality(Sales(t, Len(t)))
           paid == Amount * Len(deposits[u])
<1>1. /\ t \in Seq(TradeRow) /\ Len(t) \in Nat /\ deposits[u] \in Seq(Day)
      /\ Len(deposits[u]) \in Nat /\ today \in Day
  BY LenProperties DEF RecordsFit, Sound
<1>2. b \in Nat /\ s \in Nat
  BY <1>1, CountsAreNatural
<1>3. paid \in Nat
  <2>1. \A x, y \in Nat : x * y \in Nat
    OBVIOUS
  <2> QED
    BY <1>1, <2>1, PortfolioAssumption
<1>4. AccountBalance(u) = paid - b + s
  BY <1>1, BalanceOfTrades
<1> HIDE DEF b, s, paid
<1>5. AccountBalance(u) \in Int
  BY <1>2, <1>3, <1>4
<1>6. \A k \in DOMAIN snapshots[u][today] : snapshots[u][today][k].cash \in Int
  <2>1. snapshots[u][today] \in Seq(SnapshotRow)
    BY <1>1 DEF HistoryInv, DayFits
  <2>2. \A k \in DOMAIN snapshots[u][today] : snapshots[u][today][k] \in SnapshotRow
    BY <2>1, ElementOfSeq, LenProperties
  <2> QED
    BY <2>2 DEF SnapshotRow
<1>7. \A balance \in ShownBalances(u) :
         snapshots[u][today] = <<>> => balance = AccountBalance(u)
  BY DEF ShownBalances
<1>8. \A balance \in ShownBalances(u) : balance \in Int
  BY <1>5, <1>6 DEF ShownBalances
<1>9. Invested(u) = paid
  BY DEF Invested, paid
<1> QED
  BY <1>1, <1>3, <1>4, <1>7, <1>8, <1>9 DEF Balanced, b, s, paid

\* The position of a user is what he bought and did not sell.
LEMMA PositionIsDifference ==
    ASSUME RecordsFit, NEW u \in User
    PROVE  /\ Position(u) = Cardinality(Buys(trades[u], Len(trades[u])))
                              - Cardinality(Sales(trades[u], Len(trades[u])))
           /\ Position(u) \in Nat
<1>1. trades[u] \in Seq(TradeRow) /\ Covered(trades[u])
  BY DEF RecordsFit, Sound
<1>2. /\ Len(trades[u]) \in 0 .. Len(trades[u]) /\ Len(trades[u]) \in Nat
      /\ DOMAIN trades[u] = 1 .. Len(trades[u])
  BY <1>1, LenProperties
<1>3. Position(u) = Held(u, 1 .. Len(trades[u]))
  BY <1>2 DEF Position
<1> QED
  BY <1>1, <1>2, <1>3, HeldIsDifference, HeldIsNatural

\* The first half of a summary reads a balance that fits,
LEMMA FundedFits ==
    ASSUME RecordsFit, HistoryInv, NEW u \in User, NEW h, UpdateFits(trades[u], h),
           h.stage = "queued", NEW balance \in ShownBalances(u)
    PROVE  /\ UpdateFits(trades[u], Funded(u, h, balance))
           /\ Funded(u, h, balance).trade = h.trade
           /\ Funded(u, h, balance).stage = "funded"
<1>1. /\ balance \in Int /\ Invested(u) \in Nat /\ Len(deposits[u]) \in Nat
      /\ snapshots[u][today] = <<>> => Balanced(trades[u], balance, Len(deposits[u]))
      /\ Invested(u) = Amount * Len(deposits[u])
  BY BalanceIsInteger
<1> DEFINE f == Funded(u, h, balance)
<1>2. h \in Update
  BY DEF UpdateFits
<1>3. /\ f \in Update /\ f.trade = h.trade /\ f.stage = "funded"
      /\ f.balance = balance /\ f.invested = Invested(u)
      /\ f.funds = Len(deposits[u]) /\ f.shown = (snapshots[u][today] # <<>>)
  BY <1>1, <1>2 DEF Funded, Update
<1> HIDE DEF f
<1>4. ~ f.shown => Balanced(trades[u], f.balance, f.funds) /\ f.invested = Amount * f.funds
  BY <1>1, <1>3
<1>5. UpdateFits(trades[u], f)
  BY <1>3, <1>4 DEF UpdateFits
<1> QED
  BY <1>3, <1>5 DEF f

\* ... the second the shares that fit it.
LEMMA ValuedFits ==
    ASSUME RecordsFit, NEW u \in User, NEW h, UpdateFits(trades[u], h), h.stage # "queued"
    PROVE  /\ UpdateFits(trades[u], Valued(u, h)) /\ Valued(u, h).trade = h.trade
           /\ Valued(u, h).stage = "valued"
<1> DEFINE f == Valued(u, h)
<1>1. h \in Update /\ Position(u) \in Nat
  BY PositionIsDifference DEF UpdateFits
<1>2. /\ f \in Update /\ f.trade = h.trade /\ f.stage = "valued" /\ f.stocks = Position(u)
      /\ f.balance = h.balance /\ f.invested = h.invested
      /\ f.funds = h.funds /\ f.shown = h.shown
  BY <1>1 DEF Valued, Update
<1> HIDE DEF f
<1>3. UpdateFits(trades[u], f)
  BY <1>2, PositionIsDifference DEF UpdateFits
<1> QED
  BY <1>2, <1>3 DEF f

\* An update that goes on to wait is of the same trade.
LEMMA UpdateReplaced ==
    ASSUME BoardInv, UNCHANGED <<trades, board, clean>>,
           NEW u \in User, NEW k \in DOMAIN updating[u], NEW f,
           UpdateFits(trades[u], f), f.trade = updating[u][k].trade,
           updating' = [updating EXCEPT ![u][k] = f]
    PROVE  BoardInv'
<1>1. PICK q : q = [updating[u] EXCEPT ![k] = f]
  OBVIOUS
<1>2. /\ updating' = [v \in User |-> updating'[v]]
      /\ \A v \in User : updating'[v] = IF v = u THEN q ELSE updating[v]
  BY <1>1 DEF BoardInv
<1>3. updating[u] \in Seq(Update) /\ f \in Update
  BY DEF BoardInv, QueueFits, UpdateFits
<1>4. /\ q \in Seq(Update) /\ DOMAIN q = DOMAIN updating[u]
      /\ \A j \in DOMAIN q : q[j] = IF j = k THEN f ELSE updating[u][j]
  BY <1>1, <1>3, ExceptSeq
<1>5. QueueFits(trades[u], q)
  BY <1>4 DEF QueueFits, BoardInv
<1>6. EntryFits(trades[u], q, board[u], clean[u])
  <2>1. EntryFits(trades[u], updating[u], board[u], clean[u])
    BY DEF BoardInv
  <2> QED
    BY <1>4, <2>1 DEF EntryFits
<1>7. \A v \in User : QueueFits(trades'[v], updating'[v])
  BY <1>2, <1>5 DEF BoardInv
<1>8. \A v \in User : EntryFits(trades'[v], updating'[v], board'[v], clean'[v])
  BY <1>2, <1>6 DEF BoardInv
<1> QED
  BY <1>2, <1>7, <1>8, BoardKept DEF BoardInv

\* An update is entered: balance and shares of the last trade give no profit.
LEMMA UpdateEntered ==
    ASSUME BoardInv, RecordsFit, UNCHANGED trades,
           NEW u \in User, NEW k \in DOMAIN updating[u], NEW h,
           UpdateFits(trades[u], h), h.stage = "valued", Enter(u, k, h)
    PROVE  BoardInv'
<1> DEFINE t == trades[u]
           b == Cardinality(Buys(t, Len(t)))
           s == Cardinality(Sales(t, Len(t)))
           q == RemoveAt(updating[u], k)
           gain == h.balance + h.stocks - h.invested
<1>1. /\ updating' = [updating EXCEPT ![u] = q]
      /\ board' = [board EXCEPT ![u] = Entry(h)]
      /\ clean' = [clean EXCEPT ![u] = h.trade = Len(t) /\ ~ h.shown]
  BY DEF Enter
<1>2. /\ h \in Update /\ h.trade \in Nat /\ h.balance \in Int /\ h.invested \in Nat
      /\ h.stocks \in Nat /\ h.funds \in Nat /\ h.shown \in BOOLEAN
  BY UpdateFields DEF UpdateFits
<1>3. b \in Nat /\ s \in Nat /\ Len(t) \in Nat
  <2>1. t \in Seq(TradeRow)
    BY DEF RecordsFit, Sound
  <2> QED
    BY <2>1, LenProperties, CountsAreNatural
<1>4. QueueFits(t, q)
  <2>1. /\ updating[u] \in Seq(Update)
        /\ \A j \in DOMAIN updating[u] : UpdateFits(t, updating[u][j])
    BY DEF BoardInv, QueueFits
  <2>2. /\ q \in Seq(Update)
        /\ \A i \in DOMAIN q : \E j \in DOMAIN updating[u] : q[i] = updating[u][j]
    BY <2>1, RemovedElement
  <2> HIDE DEF q
  <2> QED
    BY <2>1, <2>2 DEF QueueFits
<1>5. gain \in Int /\ Max({0, gain}) = IF gain <= 0 THEN 0 ELSE gain
  <2>1. gain \in Int
    BY <1>2
  <2> HIDE DEF gain
  <2> QED
    BY <2>1, GreaterOfTwo
<1>6. /\ Entry(h) \in BoardEntry /\ Entry(h).balance = h.balance
      /\ Entry(h).funds = h.funds /\ Entry(h).profit = Max({0, gain})
  <2>1. Max({0, gain}) \in Nat
    <3> HIDE DEF gain
    <3> QED
      BY <1>5
  <2> QED
    BY <1>2, <2>1 DEF Entry, BoardEntry
<1>7. ASSUME h.trade = Len(t), ~ h.shown
      PROVE  Balanced(t, h.balance, h.funds) /\ gain = 0
  <2>1. /\ Balanced(t, h.balance, h.funds) /\ h.invested = Amount * h.funds
        /\ h.stocks = b - s
    BY <1>7 DEF UpdateFits
  <2>2. h.balance = h.invested - b + s
    BY <2>1 DEF Balanced
  <2> HIDE DEF b, s
  <2> QED
    BY <1>2, <1>3, <2>1, <2>2
<1> HIDE DEF q, gain, b, s
<1>8. EntryFits(t, q, Entry(h), h.trade = Len(t) /\ ~ h.shown)
  <2>1. h.trade = Len(t) /\ ~ h.shown =>
          Balanced(t, Entry(h).balance, Entry(h).funds) /\ Entry(h).profit = 0
    BY <1>5, <1>6, <1>7
  <2> QED
    BY <1>6, <2>1 DEF EntryFits
<1>9. /\ updating' = [v \in User |-> updating'[v]]
      /\ \A v \in User : updating'[v] = IF v = u THEN q ELSE updating[v]
  BY <1>1 DEF BoardInv
<1>10. /\ board' = [v \in User |-> board'[v]]
       /\ \A v \in User : board'[v] = IF v = u THEN Entry(h) ELSE board[v]
  BY <1>1 DEF BoardInv
<1>11. /\ clean' \in [User -> BOOLEAN]
       /\ \A v \in User : v # u => clean'[v] = clean[v]
       /\ clean'[u] = (h.trade = Len(t) /\ ~ h.shown)
  <2> DEFINE c == (h.trade = Len(t) /\ ~ h.shown)
  <2>1. c \in BOOLEAN /\ clean \in [User -> BOOLEAN]
    BY DEF BoardInv
  <2>2. clean' = [clean EXCEPT ![u] = c]
    BY <1>1
  <2> HIDE DEF c
  <2>3. /\ clean' \in [User -> BOOLEAN] /\ clean'[u] = c
        /\ \A v \in User : v # u => clean'[v] = clean[v]
    BY <2>1, <2>2
  <2> QED
    BY <2>3 DEF c
<1>12. \A v \in User : QueueFits(trades'[v], updating'[v])
  BY <1>4, <1>9 DEF BoardInv
<1>13. \A v \in User : EntryFits(trades'[v], updating'[v], board'[v], clean'[v])
  <2> SUFFICES ASSUME NEW v \in User
               PROVE  EntryFits(trades'[v], updating'[v], board'[v], clean'[v])
    OBVIOUS
  <2>1. CASE v = u
    BY <1>8, <1>9, <1>10, <1>11, <2>1
  <2>2. CASE v # u
    BY <1>9, <1>10, <1>11, <2>2 DEF BoardInv
  <2> QED
    BY <2>1, <2>2
<1> QED
  BY <1>9, <1>10, <1>11, <1>12, <1>13, BoardKept

\* Every way an update goes on.
LEMMA StepKeepsBoard ==
    ASSUME BoardInv, RecordsFit, HistoryInv,
           NEW u \in User, NEW k \in DOMAIN updating[u], StepUpdate(u, k)
    PROVE  BoardInv'
<1>1. PICK h : h = updating[u][k]
  OBVIOUS
<1>0. PICK balance \in ShownBalances(u) :
        LET funded == IF h.stage = "queued" THEN Funded(u, h, balance) ELSE h
            waits == Position(u) > 0
        IN  CASE h.stage = "valued" -> Enter(u, k, h)
              [] h.stage = "queued" /\ waits /\ ~ funded.shown ->
                   updating' = [updating EXCEPT ![u][k] = funded] /\ UNCHANGED <<board, clean>>
              [] OTHER ->
                   IF waits
                     THEN /\ updating' = [updating EXCEPT ![u][k] = Valued(u, funded)]
                          /\ UNCHANGED <<board, clean>>
                     ELSE Enter(u, k, Valued(u, funded))
  BY <1>1 DEF StepUpdate
<1> DEFINE funded == IF h.stage = "queued" THEN Funded(u, h, balance) ELSE h
           waits == Position(u) > 0
<1>2. UpdateFits(trades[u], h) /\ h.stage \in {"queued", "funded", "valued"}
  BY <1>1, UpdateFields DEF BoardInv, QueueFits, UpdateFits
<1>3. UNCHANGED trades
  BY DEF StepUpdate, records
<1>4. \/ h.stage = "valued" /\ Enter(u, k, h)
      \/ /\ h.stage = "queued"
         /\ updating' = [updating EXCEPT ![u][k] = funded] /\ UNCHANGED <<board, clean>>
      \/ /\ h.stage # "valued"
         /\ updating' = [updating EXCEPT ![u][k] = Valued(u, funded)]
         /\ UNCHANGED <<board, clean>>
      \/ h.stage # "valued" /\ Enter(u, k, Valued(u, funded))
  BY <1>0
<1>5. ASSUME h.stage # "valued"
      PROVE  UpdateFits(trades[u], funded) /\ funded.trade = h.trade /\ funded.stage # "queued"
  BY <1>2, <1>5, FundedFits
<1> HIDE DEF funded
<1>6. ASSUME h.stage # "valued"
      PROVE  /\ UpdateFits(trades[u], Valued(u, funded)) /\ Valued(u, funded).trade = h.trade
             /\ Valued(u, funded).stage = "valued"
  BY <1>5, <1>6, ValuedFits
<1>7. CASE h.stage = "valued" /\ Enter(u, k, h)
  BY <1>2, <1>3, <1>7, UpdateEntered
<1>8. CASE h.stage = "queued"
           /\ updating' = [updating EXCEPT ![u][k] = funded] /\ UNCHANGED <<board, clean>>
  BY <1>1, <1>3, <1>5, <1>8, UpdateReplaced
<1>9. CASE /\ h.stage # "valued"
           /\ updating' = [updating EXCEPT ![u][k] = Valued(u, funded)]
           /\ UNCHANGED <<board, clean>>
  BY <1>1, <1>3, <1>6, <1>9, UpdateReplaced
<1>10. CASE h.stage # "valued" /\ Enter(u, k, Valued(u, funded))
  BY <1>3, <1>6, <1>10, UpdateEntered
<1> QED
  BY <1>4, <1>7, <1>8, <1>9, <1>10

\* A trade makes every update that waits an earlier trade's.
LEMMA TradeKeepsBoard ==
    ASSUME BoardInv, RecordsFit, NEW u \in User, NEW side \in {"buy", "sell"}, Trade(u, side)
    PROVE  BoardInv'
<1>1. PICK row, h : /\ row = [day |-> today, side |-> side]
                    /\ h = [trade |-> Len(trades[u]) + 1, stage |-> "queued", balance |-> 0,
                            invested |-> 0, stocks |-> 0, funds |-> 0, shown |-> FALSE]
  OBVIOUS
<1>2. /\ trades' = [trades EXCEPT ![u] = Append(@, row)]
      /\ updating' = [updating EXCEPT ![u] = Append(@, h)]
      /\ UNCHANGED <<board, clean>>
  BY <1>1 DEF Trade
<1>3. PICK t, q : t = Append(trades[u], row) /\ q = Append(updating[u], h)
  OBVIOUS
<1>4. /\ trades[u] \in Seq(TradeRow) /\ row \in TradeRow /\ Len(trades[u]) \in Nat
      /\ updating[u] \in Seq(Update)
      /\ \A k \in DOMAIN updating[u] : UpdateFits(trades[u], updating[u][k])
  BY <1>1, LenProperties DEF RecordsFit, Sound, TradeRow, BoardInv, QueueFits
<1>5. Len(t) = Len(trades[u]) + 1
  BY <1>3, <1>4, AppendProperties
<1>6. h \in Update /\ h.trade = Len(t) /\ h.stage = "queued"
  BY <1>1, <1>4, <1>5 DEF Update
<1>7. UpdateFits(t, h)
  BY <1>4, <1>5, <1>6, UpdateFields DEF UpdateFits
<1>8. \A k \in DOMAIN updating[u] : UpdateFits(t, updating[u][k])
  BY <1>4, <1>5, UpdateFields DEF UpdateFits
<1>9. /\ q \in Seq(Update)
      /\ \A k \in DOMAIN q :
            \/ k \in DOMAIN updating[u] /\ q[k] = updating[u][k]
            \/ q[k] = h
      /\ \E k \in DOMAIN q : q[k] = h
  <2>1. /\ q \in Seq(Update)
        /\ \A k \in DOMAIN q :
              \/ k \in DOMAIN updating[u] /\ q[k] = updating[u][k]
              \/ q[k] = h
    BY <1>3, <1>4, <1>6, AppendedElement
  <2>2. /\ Len(q) = Len(updating[u]) + 1 /\ Len(updating[u]) \in Nat
        /\ q[Len(updating[u]) + 1] = h
    BY <1>3, <1>4, <1>6, AppendProperties, LenProperties
  <2>3. Len(q) \in DOMAIN q
    BY <2>1, <2>2, LenProperties
  <2> QED
    BY <2>1, <2>2, <2>3
<1>10. QueueFits(t, q)
  BY <1>7, <1>8, <1>9 DEF QueueFits
<1>11. EntryFits(t, q, board[u], clean[u])
  BY <1>6, <1>9 DEF EntryFits, BoardInv
<1>12. \A v \in User : /\ trades'[v] = IF v = u THEN t ELSE trades[v]
                       /\ updating'[v] = IF v = u THEN q ELSE updating[v]
  BY <1>2, <1>3 DEF RecordsFit, BoardInv
<1>13. \A v \in User : QueueFits(trades'[v], updating'[v])
  BY <1>10, <1>12 DEF BoardInv
<1>14. \A v \in User : EntryFits(trades'[v], updating'[v], board'[v], clean'[v])
  BY <1>2, <1>11, <1>12 DEF BoardInv
<1>15. updating' = [v \in User |-> updating'[v]]
  BY <1>2 DEF BoardInv
<1> QED
  BY <1>2, <1>13, <1>14, <1>15, BoardKept DEF BoardInv

\* An entry stays clean over a restart only if no update was under way.
LEMMA RestartKeepsBoard ==
    ASSUME BoardInv, UNCHANGED trades, Restarts
    PROVE  BoardInv'
<1>1. /\ updating' = [u \in User |-> <<>>] /\ UNCHANGED board
      /\ clean' = [u \in User |-> clean[u] /\ updating[u] = <<>>]
  BY DEF Restarts
<1>2. ASSUME NEW u \in User PROVE QueueFits(trades'[u], updating'[u])
  BY <1>1 DEF QueueFits
<1>3. ASSUME NEW u \in User
      PROVE  EntryFits(trades'[u], updating'[u], board'[u], clean'[u])
  <2>1. EntryFits(trades[u], updating[u], board[u], clean[u])
    BY DEF BoardInv
  <2>2. clean'[u] => clean[u] /\ updating[u] = <<>>
    BY <1>1
  <2>3. updating[u] = <<>> => \A k \in DOMAIN updating[u] : updating[u][k].trade # Len(trades[u])
    OBVIOUS
  <2>4. board'[u] = board[u] /\ trades'[u] = trades[u]
    BY <1>1
  <2> QED
    BY <2>1, <2>2, <2>3, <2>4 DEF EntryFits
<1>4. clean' \in [User -> BOOLEAN]
  BY <1>1
<1> QED
  BY <1>1, <1>2, <1>3, <1>4, BoardKept DEF BoardInv

\* Every step keeps the leaderboard.
LEMMA BoardStep ==
    BoardInv /\ RecordsFit /\ HistoryInv /\ [PortfolioNext]_portfolioVars => BoardInv'
<1> SUFFICES ASSUME BoardInv, RecordsFit, HistoryInv, [PortfolioNext]_portfolioVars
             PROVE  BoardInv'
  OBVIOUS
<1>1. ASSUME UNCHANGED <<trades, boardVars>> PROVE BoardInv'
  <2>1. UNCHANGED <<trades, updating, board, clean>>
    BY <1>1 DEF boardVars
  <2> QED
    BY <2>1, BoardKept DEF BoardInv
<1>2. CASE CreateSnapshots
  BY <1>1, <1>2, RestartKeepsBoard DEF CreateSnapshots, records
<1>3. ASSUME NEW u \in User, AddFunds(u) PROVE BoardInv'
  BY <1>1, <1>3 DEF AddFunds
<1>4. ASSUME NEW u \in User, NEW from \in Day, NEW to \in Day, RequestHistory(u, from, to)
      PROVE  BoardInv'
  BY <1>1, <1>4 DEF RequestHistory, records
<1>5. ASSUME NEW u \in User, NEW k \in DOMAIN reading[u], FinishHistory(u, k) PROVE BoardInv'
  BY <1>1, <1>5 DEF FinishHistory, records
<1>6. CASE NextDay
  BY <1>1, <1>6 DEF NextDay, records
<1>7. CASE RestartWorker
  BY <1>7, RestartKeepsBoard DEF RestartWorker, records
<1>8. CASE UNCHANGED portfolioVars
  BY <1>1, <1>8 DEF portfolioVars, records
<1> QED
  BY <1>2, <1>3, <1>4, <1>5, <1>6, <1>7, <1>8, StepKeepsBoard, TradeKeepsBoard
     DEF PortfolioNext

LEMMA BoardStarts == PortfolioInit => BoardInv
<1> SUFFICES ASSUME PortfolioInit PROVE BoardInv
  OBVIOUS
<1>1. NoEntry \in BoardEntry
  BY DEF NoEntry, BoardEntry
<1>2. QueueFits(<<>>, <<>>)
  BY DEF QueueFits
<1>3. EntryFits(<<>>, <<>>, NoEntry, TRUE)
  BY <1>1 DEF EntryFits
<1> QED
  BY <1>2, <1>3 DEF PortfolioInit, BoardInv

\* All that is known of the portfolio.
PortfolioInv == RecordsFit /\ HistoryInv /\ BoardInv

LEMMA PortfolioInvStays == PortfolioSpec => []PortfolioInv
BY RecordsStart, RecordsStep, HistoryStarts, HistoryStep, BoardStarts, BoardStep, PTL
   DEF PortfolioSpec, PortfolioInv

(***************************************************************************)
(* When all updates are through, the leaderboard shows the balance and the *)
(* profit after the last trade, deposits apart, unless an earlier trade's  *)
(* update came last, died, or was shown a row of its day: however many     *)
(* updates wait between their awaits (update_student_trading_leaderboard). *)
(***************************************************************************)
THEOREM LeaderboardIsRight == PortfolioSpec => []BoardShowsLastTrade
<1>1. PortfolioInv => BoardShowsLastTrade
  <2> SUFFICES ASSUME PortfolioInv, NEW u \in User,
                      updating[u] = <<>>, clean[u], trades[u] # <<>>
               PROVE
        /\ board[u].balance + Amount * (Len(deposits[u]) - board[u].funds) = AccountBalance(u)
        /\ board[u].profit = 0
    BY DEF BoardShowsLastTrade
  <2> DEFINE b == Cardinality(Buys(trades[u], Len(trades[u])))
             s == Cardinality(Sales(trades[u], Len(trades[u])))
  <2>1. EntryFits(trades[u], updating[u], board[u], clean[u])
    BY DEF PortfolioInv, BoardInv
  <2>2. \A k \in DOMAIN updating[u] : updating[u][k].trade # Len(trades[u])
    OBVIOUS
  <2>3. Balanced(trades[u], board[u].balance, board[u].funds) /\ board[u].profit = 0
    BY <2>1, <2>2 DEF EntryFits
  <2>4. board[u].funds \in Nat
    BY <2>1 DEF EntryFits, BoardEntry
  <2>5. trades[u] \in Seq(TradeRow) /\ Len(deposits[u]) \in Nat /\ Len(trades[u]) \in Nat
    BY LenProperties DEF PortfolioInv, RecordsFit, Sound
  <2>6. b \in Nat /\ s \in Nat
    BY <2>5, CountsAreNatural
  <2>7. board[u].balance = Amount * board[u].funds - b + s
    BY <2>3 DEF Balanced
  <2>8. AccountBalance(u) = Amount * Len(deposits[u]) - b + s
    BY <2>5, BalanceOfTrades
  <2> HIDE DEF b, s
  <2>9. Amount * Len(deposits[u])
          = Amount * board[u].funds + Amount * (Len(deposits[u]) - board[u].funds)
    BY <2>4, <2>5, Times, PortfolioAssumption
  <2>10. /\ Amount * board[u].funds \in Int
         /\ Amount * (Len(deposits[u]) - board[u].funds) \in Int
    BY <2>4, <2>5, Times, PortfolioAssumption
  <2> QED
    BY <2>3, <2>6, <2>7, <2>8, <2>9, <2>10
<1> QED
  BY <1>1, PortfolioInvStays, PTL

(***************************************************************************)
(* Every row, request, update and entry keeps its type: balances are       *)
(* integers, shares and profits naturals, and no trade exceeds the bound.  *)
(***************************************************************************)
THEOREM PortfolioTyped == PortfolioSpec => []PortfolioTypeOK
<1> DEFINE Crashes == crashes \in 0 .. MaxCrashes
<1>1. PortfolioInit => Crashes
  <2> SUFFICES ASSUME PortfolioInit PROVE Crashes
    OBVIOUS
  <2> QED
    BY PortfolioAssumption DEF PortfolioInit
<1>2. Crashes /\ [PortfolioNext]_portfolioVars => Crashes'
  <2> SUFFICES ASSUME Crashes, [PortfolioNext]_portfolioVars PROVE Crashes'
    OBVIOUS
  <2>1. ASSUME Restarts PROVE crashes' \in 0 .. MaxCrashes
    BY <2>1, PortfolioAssumption DEF Restarts
  <2>2. CASE CreateSnapshots
    BY <2>1, <2>2 DEF CreateSnapshots
  <2>3. CASE RestartWorker
    BY <2>1, <2>3 DEF RestartWorker
  <2>4. CASE UNCHANGED portfolioVars
    BY <2>4 DEF portfolioVars
  <2>5. CASE NextDay
    BY <2>5 DEF NextDay
  <2>6. ASSUME NEW u \in User, AddFunds(u) \/ \E side \in {"buy", "sell"} : Trade(u, side)
        PROVE  Crashes'
    BY <2>6 DEF AddFunds, Trade
  <2>7. ASSUME NEW u \in User, NEW from, NEW to, RequestHistory(u, from, to) PROVE Crashes'
    BY <2>7 DEF RequestHistory
  <2>8. ASSUME NEW u \in User, NEW k, FinishHistory(u, k) \/ StepUpdate(u, k) PROVE Crashes'
    BY <2>8 DEF FinishHistory, StepUpdate
  <2> HIDE DEF Crashes
  <2> QED
    BY <2>2, <2>3, <2>4, <2>5, <2>6, <2>7, <2>8 DEF PortfolioNext
<1>3. PortfolioInv /\ Crashes => PortfolioTypeOK
  <2> SUFFICES ASSUME PortfolioInv, Crashes PROVE PortfolioTypeOK
    OBVIOUS
  <2>1. today \in Day /\ deposits \in [User -> Seq(Day)] /\ clean \in [User -> BOOLEAN]
    BY DEF PortfolioInv, RecordsFit, BoardInv
  <2>2. trades \in [User -> Seq([day : Day, side : {"buy", "sell"}])]
    BY DEF PortfolioInv, RecordsFit, Sound, TradeRow
  <2>3. snapshots \in [User -> [Day -> Seq(SnapshotRow)]]
    <3>1. \A u \in User : [d \in Day |-> snapshots[u][d]] \in [Day -> Seq(SnapshotRow)]
      BY DEF PortfolioInv, HistoryInv, DayFits
    <3> QED
      BY <3>1 DEF PortfolioInv, HistoryInv
  <2>4. reading \in [User -> Seq(Request)]
    BY DEF PortfolioInv, HistoryInv, RequestsFit
  <2>5. updating \in [User -> Seq(Update)]
    BY DEF PortfolioInv, BoardInv, QueueFits
  <2>6. board \in [User -> BoardEntry]
    BY DEF PortfolioInv, BoardInv, EntryFits
  <2> QED
    BY <2>1, <2>2, <2>3, <2>4, <2>5, <2>6 DEF PortfolioTypeOK, BoardEntry
<1> QED
  BY <1>1, <1>2, <1>3, PortfolioInvStays, PTL DEF PortfolioSpec
-----------------------------------------------------------------------------
(* Watchlists. *)

\* Unless two of them waited together, an addition waits only while the stock
\* is not there.
OneComing ==
    \A w \in Watchlist, s \in Symbol :
        <<w, s>> \in contested \/ stocks[w][s] + adding[w][s] <= 1

\* That a row has at most one copy does not follow from the step before it: the
\* insert of FinishAdd has no guard.  OneComing is what the guard of RequestAdd
\* leaves behind.
ListIInv == ListTypeOK /\ OneComing /\ WatchlistsAreSets
-----------------------------------------------------------------------------
LEMMA ListsBegin == ListInit => ListIInv
<1> SUFFICES ASSUME ListInit PROVE ListIInv
  OBVIOUS
<1>1. ListTypeOK
  BY WatchlistAssumption DEF ListInit, ListTypeOK
<1>2. OneComing
  BY DEF ListInit, OneComing
<1>3. WatchlistsAreSets
  BY DEF ListInit, WatchlistsAreSets
<1> QED
  BY <1>1, <1>2, <1>3 DEF ListIInv

\* A list that is created or renamed takes no name that is taken.
LEMMA NamesDiffer ==
    ASSUME ListIInv, NEW w \in Watchlist, NEW n \in Name,
           CreateList(w, n) \/ RenameList(w, n)
    PROVE  ListIInv'
<1> USE DEF ListIInv
<1>1. /\ named' = [named EXCEPT ![w] = n]
      /\ UNCHANGED <<stocks, adding, contested>>
      /\ n = Blank \/ n = named[w] \/ ~ Taken(n)
  BY DEF CreateList, RenameList
<1>2. ListTypeOK'
  BY <1>1 DEF ListTypeOK
<1>3. OneComing'
  BY <1>1 DEF OneComing
<1>4. ASSUME NEW v \in Watchlist, NEW x \in Watchlist, v # x, named'[v] = named'[x]
      PROVE  named'[v] \in {Blank, NoRow, Deleted}
  <2>1. CASE v = w
    BY <2>1, <1>1, <1>4 DEF ListTypeOK, WatchlistsAreSets, Taken
  <2>2. CASE x = w
    BY <2>2, <1>1, <1>4 DEF ListTypeOK, WatchlistsAreSets, Taken
  <2>3. CASE v # w /\ x # w
    BY <2>3, <1>1, <1>4 DEF ListTypeOK, WatchlistsAreSets
  <2> QED
    BY <2>1, <2>2, <2>3
<1>5. ASSUME NEW v \in Watchlist, Exists(v) PROVE Exists(v)'
  BY <1>1, <1>5 DEF Exists, ListTypeOK
<1>6. WatchlistsAreSets'
  BY <1>1, <1>4, <1>5 DEF WatchlistsAreSets
<1> QED
  BY <1>2, <1>3, <1>6

\* A list takes its stocks along.
LEMMA StocksFollowList ==
    ASSUME ListIInv, NEW w \in Watchlist, DeleteList(w)
    PROVE  ListIInv'
<1> USE DEF ListIInv
<1>1. /\ named' = [named EXCEPT ![w] = Deleted]
      /\ stocks' = [stocks EXCEPT ![w] = [s \in Symbol |-> 0]]
      /\ UNCHANGED <<adding, contested>>
  BY DEF DeleteList
<1>2. ListTypeOK'
  BY <1>1 DEF ListTypeOK
<1>3. \A v \in Watchlist, s \in Symbol :
         /\ v = w => stocks'[v][s] = 0
         /\ v # w => stocks'[v][s] = stocks[v][s] /\ named'[v] = named[v]
  BY <1>1 DEF ListTypeOK
<1>4. OneComing'
  <2> SUFFICES ASSUME NEW v \in Watchlist, NEW s \in Symbol, <<v, s>> \notin contested'
               PROVE  stocks'[v][s] + adding'[v][s] <= 1
    BY DEF OneComing
  <2>1. stocks[v][s] + adding[v][s] <= 1
    BY <1>1 DEF OneComing
  <2>2. stocks[v][s] \in Nat /\ adding[v][s] \in Nat
    BY WatchlistAssumption DEF ListTypeOK
  <2> QED
    BY <1>1, <1>3, <2>1, <2>2
<1>5. WatchlistsAreSets'
  BY <1>1, <1>3 DEF WatchlistsAreSets, ListTypeOK, Exists
<1> QED
  BY <1>2, <1>4, <1>5

\* The requests for one stock of one list move its two counters.
LEMMA StockMoves ==
    ASSUME ListIInv, NEW w \in Watchlist, NEW s \in Symbol,
           RequestAdd(w, s) \/ FinishAdd(w, s) \/ RemoveStock(w, s)
    PROVE  ListIInv'
<1> USE DEF ListIInv
<1>1. /\ stocks[w][s] \in Nat /\ adding[w][s] \in Nat
      /\ adding[w][s] <= MaxAdding /\ MaxAdding \in Nat
  BY WatchlistAssumption DEF ListTypeOK
<1>2. named' = named /\ contested \subseteq contested'
  BY DEF RequestAdd, FinishAdd, RemoveStock
<1>3. /\ ListTypeOK'
      /\ \A v \in Watchlist, x \in Symbol : <<v, x>> # <<w, s>> =>
            stocks'[v][x] = stocks[v][x] /\ adding'[v][x] = adding[v][x]
      /\ <<w, s>> \in contested' \/ stocks'[w][s] + adding'[w][s] <= 1
      /\ stocks'[w][s] > 0 => Exists(w)
  <2>1. CASE RequestAdd(w, s)
    BY <2>1, <1>1 DEF RequestAdd, ListTypeOK, OneComing, WatchlistsAreSets
  <2>2. CASE FinishAdd(w, s)
    <3>1. /\ adding[w][s] > 0 /\ UNCHANGED <<named, contested>>
          /\ adding' = [adding EXCEPT ![w][s] = @ - 1]
      BY <2>2 DEF FinishAdd
    <3>2. CASE Exists(w) /\ stocks' = [stocks EXCEPT ![w][s] = @ + 1]
      BY <3>1, <3>2, <1>1 DEF ListTypeOK, OneComing
    <3>3. CASE UNCHANGED stocks
      BY <3>1, <3>3, <1>1 DEF ListTypeOK, OneComing, WatchlistsAreSets
    <3> QED
      BY <2>2, <3>2, <3>3 DEF FinishAdd
  <2>3. CASE RemoveStock(w, s)
    BY <2>3, <1>1 DEF RemoveStock, ListTypeOK, OneComing, WatchlistsAreSets
  <2> QED
    BY <2>1, <2>2, <2>3
<1>4. OneComing'
  BY <1>2, <1>3 DEF OneComing
<1>5. ASSUME NEW v \in Watchlist, NEW x \in Symbol
      PROVE  /\ stocks'[v][x] <= 1 \/ <<v, x>> \in contested'
             /\ stocks'[v][x] > 0 => Exists(v)'
  <2>1. stocks'[v][x] \in Nat /\ adding'[v][x] \in Nat
    BY <1>3, WatchlistAssumption DEF ListTypeOK
  <2>2. stocks'[v][x] <= 1 \/ <<v, x>> \in contested'
    BY <1>4, <2>1 DEF OneComing
  <2>3. stocks'[v][x] > 0 => Exists(v)
    BY <1>3 DEF WatchlistsAreSets
  <2> QED
    BY <1>2, <2>2, <2>3 DEF Exists
<1>6. WatchlistsAreSets'
  BY <1>2, <1>5 DEF WatchlistsAreSets
<1> QED
  BY <1>3, <1>4, <1>6

LEMMA ListStep == ListIInv /\ [ListNext]_listVars => ListIInv'
<1> SUFFICES ASSUME ListIInv, [ListNext]_listVars PROVE ListIInv'
  OBVIOUS
<1>1. CASE UNCHANGED listVars
  BY <1>1 DEF listVars, ListIInv, ListTypeOK, OneComing, WatchlistsAreSets, Exists
<1>2. CASE ListNext
  BY <1>2, NamesDiffer, StocksFollowList, StockMoves DEF ListNext
<1> QED
  BY <1>1, <1>2

\* The names of the lists differ, a stock is in a list once unless two
\* additions of it waited together, and no row survives its list
\* (create_watchlist, add_stock_to_watchlist, delete_watchlist).
THEOREM WatchlistsStaySets == ListSpec => []WatchlistsAreSets
<1>1. ListIInv => WatchlistsAreSets
  BY DEF ListIInv
<1> QED
  BY <1>1, ListsBegin, ListStep, PTL DEF ListSpec

\* Every row and every counter keeps its type.
THEOREM WatchlistsTyped == ListSpec => []ListTypeOK
<1>1. ListIInv => ListTypeOK
  BY DEF ListIInv
<1> QED
  BY <1>1, ListsBegin, ListStep, PTL DEF ListSpec
-----------------------------------------------------------------------------
(***************************************************************************)
(* Portfolio and watchlists side by side.                                  *)
(***************************************************************************)
LEMMA PortfolioFollowsBoth == MCSpec => PortfolioSpec /\ ListSpec
<1>1. MCInit => PortfolioInit /\ ListInit
  BY DEF MCInit
<1>2. [MCNext]_<<portfolioVars, listVars, focus>> =>
         [PortfolioNext]_portfolioVars /\ [ListNext]_listVars
  BY DEF MCNext
<1> QED
  BY <1>1, <1>2, PTL DEF MCSpec, PortfolioSpec, ListSpec

\* MCTypeOK: the rows of both keep their types.
THEOREM PortfolioTypeCorrect == MCSpec => []MCTypeOK
  BY PortfolioFollowsBoth, PortfolioTyped, WatchlistsTyped, PTL DEF MCTypeOK
=============================================================================
