----------------------------- MODULE Watchlists -----------------------------
(***************************************************************************)
(* The watchlists of one user (services/trading.py): rows of               *)
(* user_watchlists with their watchlist_stocks.  Neither table has a       *)
(* unique key: names and symbols are looked up before they are written.    *)
(* Adding a stock awaits a quote between the two; nothing else suspends.   *)
(***************************************************************************)
EXTENDS Naturals, FiniteSets

CONSTANTS Watchlist, Name, Symbol,
          Blank,        \* the empty name
          MaxAdding     \* bound: additions that wait, of one symbol to one list

ASSUME WatchlistAssumption == Blank \in Name /\ MaxAdding \in Nat

VARIABLES named,      \* list -> its name, or the state of its row
          stocks,     \* list -> symbol -> rows of watchlist_stocks
          adding,     \* list -> symbol -> additions awaiting the quote
          contested   \* history: pairs whose additions overlapped

listVars == <<named, stocks, adding, contested>>

NoRow == "no row"
Deleted == "deleted"

ListTypeOK ==
    /\ named \in [Watchlist -> Name \cup {NoRow, Deleted}]
    /\ stocks \in [Watchlist -> [Symbol -> Nat]]
    /\ adding \in [Watchlist -> [Symbol -> 0 .. MaxAdding]]
    /\ contested \subseteq Watchlist \X Symbol

ListInit ==
    /\ named = [w \in Watchlist |-> NoRow]
    /\ stocks = [w \in Watchlist |-> [s \in Symbol |-> 0]]
    /\ adding = [w \in Watchlist |-> [s \in Symbol |-> 0]]
    /\ contested = {}

Exists(w) == named[w] \in Name

\* get_by_user_and_name.
Taken(n) == \E w \in Watchlist : named[w] = n

CreateList(w, n) ==
    /\ named[w] = NoRow
    /\ ~ Taken(n)
    /\ named' = [named EXCEPT ![w] = n]
    /\ UNCHANGED <<stocks, adding, contested>>

\* The empty name is not looked up.
RenameList(w, n) ==
    /\ Exists(w)
    /\ n # Blank /\ n # named[w] => ~ Taken(n)
    /\ named' = [named EXCEPT ![w] = n]
    /\ UNCHANGED <<stocks, adding, contested>>

\* Mutant of DeleteList: the stocks are not deleted with it.
DeleteListOnly(w) ==
    /\ Exists(w)
    /\ named' = [named EXCEPT ![w] = Deleted]
    /\ UNCHANGED <<stocks, adding, contested>>

\* cascade="all, delete-orphan".
DeleteList(w) ==
    /\ Exists(w)
    /\ named' = [named EXCEPT ![w] = Deleted]
    /\ stocks' = [stocks EXCEPT ![w] = [s \in Symbol |-> 0]]
    /\ UNCHANGED <<adding, contested>>

\* add_stock_to_watchlist up to the quote.
RequestAdd(w, s) ==
    /\ Exists(w)
    /\ stocks[w][s] = 0
    /\ adding[w][s] < MaxAdding
    /\ adding' = [adding EXCEPT ![w][s] = @ + 1]
    /\ contested' = IF adding[w][s] > 0 THEN contested \cup {<<w, s>>} ELSE contested
    /\ UNCHANGED <<named, stocks>>

\* ... and after it; without a quote, or if the list is gone, nothing is written.
FinishAdd(w, s) ==
    /\ adding[w][s] > 0
    /\ adding' = [adding EXCEPT ![w][s] = @ - 1]
    /\ \/ Exists(w) /\ stocks' = [stocks EXCEPT ![w][s] = @ + 1]
       \/ UNCHANGED stocks
    /\ UNCHANGED <<named, contested>>

\* One row, whichever the query finds first.
RemoveStock(w, s) ==
    /\ Exists(w)
    /\ stocks[w][s] > 0
    /\ stocks' = [stocks EXCEPT ![w][s] = @ - 1]
    /\ UNCHANGED <<named, adding, contested>>

ListNext ==
    \/ \E w \in Watchlist, n \in Name : CreateList(w, n) \/ RenameList(w, n)
    \/ \E w \in Watchlist : DeleteList(w)
    \/ \E w \in Watchlist, s \in Symbol : RequestAdd(w, s) \/ FinishAdd(w, s) \/ RemoveStock(w, s)

ListSpec == ListInit /\ [][ListNext]_listVars
-----------------------------------------------------------------------------
(* Properties. *)

(***************************************************************************)
(* Although no key of the tables says so: the names of the lists differ,   *)
(* the empty one apart; a list has a stock once, unless two additions of   *)
(* it waited at the same time; and no row survives its list.               *)
(***************************************************************************)
WatchlistsAreSets ==
    /\ \A v, w \in Watchlist :
         v # w /\ named[v] = named[w] => named[v] \in {Blank, NoRow, Deleted}
    /\ \A w \in Watchlist, s \in Symbol :
         /\ stocks[w][s] <= 1 \/ <<w, s>> \in contested
         /\ stocks[w][s] > 0 => Exists(w)
=============================================================================
