---------------------------- MODULE PriceStream ----------------------------
(***************************************************************************)
(* The price feed of app/realtime/websockets.py: the Socket.IO handlers    *)
(* and the polling task stream_prices_socketio share the process-wide      *)
(* dictionaries user_sessions, subscribe_limits, active_subscriptions and  *)
(* symbol_error_backoff, and the rooms of the Socket.IO server.            *)
(*                                                                         *)
(* All of them run on one event loop.  A handler changes the shared state  *)
(* without a suspension; subscribe then awaits the initial quote before it *)
(* answers, and the polling task awaits the quotes of a whole round before *)
(* it emits them one by one.  Time is counted in ages: the age of a        *)
(* timestamp grows with each tick up to the first value no test of the     *)
(* code tells from a larger one.                                           *)
(***************************************************************************)
EXTENDS Integers, Sequences, SequencesExt

CONSTANTS Sid,            \* socket ids
          User,           \* authenticated users
          Symbol,         \* stocks
          MaxSubscribes,  \* 20 subscriptions ...
          Window,         \* ... per minute, in ticks
          BackoffTicks,   \* BACKOFF_SECONDS, in ticks
          MaxAwaiting     \* bound: subscribe handlers of a client at the quote

ASSUME StreamAssumption ==
    /\ MaxSubscribes \in Nat \ {0}
    /\ Window \in Nat \ {0}
    /\ BackoffTicks \in Nat
    /\ MaxAwaiting \in Nat

VARIABLES user_sessions,         \* sid -> NoSession or its user and symbols
          rooms,                 \* sid -> the symbol rooms it is in
          active_subscriptions,  \* symbols the polling task fetches
          subscribe_limits,      \* user -> ages of the remembered subscribes
          symbol_error_backoff,  \* symbol -> age of its last failed fetch
          symbols_to_fetch,      \* what is left of the current polling round
          roundAge,              \* age of the round's "now", 0 between rounds
          awaiting,              \* sid -> symbol -> subscribes at the quote
          stopped,               \* sid -> symbols last answered "unsubscribed"
          abandoned              \* history: polled symbols a disconnect left subscribed

clientVars == <<user_sessions, rooms, subscribe_limits, awaiting, stopped, abandoned>>
roundVars == <<symbol_error_backoff, symbols_to_fetch, roundAge>>
vars == <<clientVars, active_subscriptions, roundVars>>

NoSession == [user |-> "none", subscriptions |-> {}]

\* datetime.min of the defaultdict, and any age beyond the backoff.
LongAgo == BackoffTicks + 1

Older(age, limit) == IF age < limit THEN age + 1 ELSE limit

Connected == {c \in Sid : user_sessions[c] # NoSession}

Subscribes(c, s) == s \in user_sessions[c].subscriptions

\* Subscribes are remembered as they come.
OldestFirst(ages) == \A i, j \in DOMAIN ages : i <= j => ages[i] >= ages[j]

TypeOK ==
    /\ user_sessions \in [Sid -> [user : User, subscriptions : SUBSET Symbol] \cup {NoSession}]
    /\ rooms \in [Sid -> SUBSET Symbol]
    /\ active_subscriptions \subseteq Symbol
    /\ subscribe_limits \in [User -> Seq(0 .. Window)]
    /\ \A u \in User : /\ Len(subscribe_limits[u]) <= MaxSubscribes
                       /\ OldestFirst(subscribe_limits[u])
    /\ symbol_error_backoff \in [Symbol -> 0 .. LongAgo]
    /\ symbols_to_fetch \subseteq Symbol
    /\ roundAge \in 0 .. LongAgo
    /\ awaiting \in [Sid -> [Symbol -> Nat]]
    /\ stopped \in [Sid -> SUBSET Symbol]
    /\ abandoned \subseteq Symbol

Init ==
    /\ user_sessions = [c \in Sid |-> NoSession]
    /\ rooms = [c \in Sid |-> {}]
    /\ active_subscriptions = {}
    /\ subscribe_limits = [u \in User |-> <<>>]
    /\ symbol_error_backoff = [s \in Symbol |-> LongAgo]
    /\ symbols_to_fetch = {}
    /\ roundAge = 0
    /\ awaiting = [c \in Sid |-> [s \in Symbol |-> 0]]
    /\ stopped = [c \in Sid |-> {}]
    /\ abandoned = {}
-----------------------------------------------------------------------------
(* The handlers. *)

\* A token that is valid, not revoked, and of an active user.
Connect(c, u) ==
    /\ c \notin Connected
    /\ user_sessions' = [user_sessions EXCEPT ![c] = [user |-> u, subscriptions |-> {}]]
    /\ UNCHANGED <<rooms, subscribe_limits, awaiting, stopped, abandoned,
                   active_subscriptions, roundVars>>

(***************************************************************************)
(* The rooms are left and the session is deleted; active_subscriptions is  *)
(* not touched.  What its handlers still answer reaches nobody.            *)
(***************************************************************************)
Disconnect(c) ==
    /\ c \in Connected
    /\ abandoned' = abandoned \cup user_sessions[c].subscriptions
    /\ user_sessions' = [user_sessions EXCEPT ![c] = NoSession]
    /\ rooms' = [rooms EXCEPT ![c] = {}]
    /\ awaiting' = [awaiting EXCEPT ![c] = [s \in Symbol |-> 0]]
    /\ stopped' = [stopped EXCEPT ![c] = {}]
    /\ UNCHANGED <<subscribe_limits, active_subscriptions, roundVars>>

\* The list pruned of what is a window old, which comes first.
Recent(u) ==
    LET ages == subscribe_limits[u]
        old == {k \in DOMAIN ages : ages[k] >= Window}
    IN  SubSeq(ages, Max({0} \cup old) + 1, Len(ages))

\* Mutant of Subscribe: the limit is not looked at.
SubscribeUnlimited(c, s) ==
    LET u == user_sessions[c].user IN
    /\ c \in Connected
    /\ awaiting[c][s] < MaxAwaiting
    /\ subscribe_limits' = [subscribe_limits EXCEPT ![u] = Append(Recent(u), 0)]
    /\ rooms' = [rooms EXCEPT ![c] = @ \cup {s}]
    /\ user_sessions' = [user_sessions EXCEPT ![c].subscriptions = @ \cup {s}]
    /\ active_subscriptions' = active_subscriptions \cup {s}
    /\ awaiting' = [awaiting EXCEPT ![c][s] = @ + 1]
    /\ UNCHANGED <<stopped, abandoned, roundVars>>

\* handle_subscribe up to the quote.
Subscribe(c, s) ==
    LET u == user_sessions[c].user IN
    /\ c \in Connected
    /\ awaiting[c][s] < MaxAwaiting
    /\ Len(Recent(u)) < MaxSubscribes
    /\ subscribe_limits' = [subscribe_limits EXCEPT ![u] = Append(Recent(u), 0)]
    /\ rooms' = [rooms EXCEPT ![c] = @ \cup {s}]
    /\ user_sessions' = [user_sessions EXCEPT ![c].subscriptions = @ \cup {s}]
    /\ active_subscriptions' = active_subscriptions \cup {s}
    /\ awaiting' = [awaiting EXCEPT ![c][s] = @ + 1]
    /\ UNCHANGED <<stopped, abandoned, roundVars>>

\* "Rate limit exceeded.": the pruned list stays.
SubscribeRefused(c) ==
    LET u == user_sessions[c].user IN
    /\ c \in Connected
    /\ Len(Recent(u)) >= MaxSubscribes
    /\ subscribe_limits' = [subscribe_limits EXCEPT ![u] = Recent(u)]
    /\ UNCHANGED <<user_sessions, rooms, awaiting, stopped, abandoned,
                   active_subscriptions, roundVars>>

(***************************************************************************)
(* The initial quote arrived, or there is none: "subscribed".  Or its      *)
(* request failed: "Failed to subscribe", and the subscription stays all   *)
(* the same.  Either way this is now the last answer for the symbol.       *)
(***************************************************************************)
AnswerSubscribe(c, s) ==
    /\ awaiting[c][s] > 0
    /\ awaiting' = [awaiting EXCEPT ![c][s] = @ - 1]
    /\ stopped' = [stopped EXCEPT ![c] = @ \ {s}]
    /\ UNCHANGED <<user_sessions, rooms, subscribe_limits, abandoned,
                   active_subscriptions, roundVars>>

\* Mutant of Unsubscribe: polling ends with the first client to leave.
UnsubscribeAll(c, s) ==
    /\ user_sessions' = [user_sessions EXCEPT ![c].subscriptions = @ \ {s}]
    /\ active_subscriptions' = active_subscriptions \ {s}
    /\ stopped' = IF c \in Connected THEN [stopped EXCEPT ![c] = @ \cup {s}] ELSE stopped
    /\ UNCHANGED <<rooms, subscribe_limits, awaiting, abandoned, roundVars>>

\* Mutant of Unsubscribe: the symbol stays in the session.
UnsubscribeKept(c, s) ==
    /\ stopped' = IF c \in Connected THEN [stopped EXCEPT ![c] = @ \cup {s}] ELSE stopped
    /\ UNCHANGED <<user_sessions, rooms, subscribe_limits, awaiting, abandoned,
                   active_subscriptions, roundVars>>

(***************************************************************************)
(* handle_unsubscribe.  sio_server.leave_room is a coroutine that nobody   *)
(* awaits: the client stays in the room.  The handler is a task of its own *)
(* and may still run after the disconnect of its client.                   *)
(***************************************************************************)
Unsubscribe(c, s) ==
    /\ user_sessions' = [user_sessions EXCEPT ![c].subscriptions = @ \ {s}]
    /\ active_subscriptions' =
         IF \E d \in Sid : s \in user_sessions'[d].subscriptions
           THEN active_subscriptions
           ELSE active_subscriptions \ {s}
    /\ stopped' = IF c \in Connected THEN [stopped EXCEPT ![c] = @ \cup {s}] ELSE stopped
    /\ abandoned' = abandoned \cap active_subscriptions'
    /\ UNCHANGED <<rooms, subscribe_limits, awaiting, roundVars>>
-----------------------------------------------------------------------------
(* The polling task. *)

\* Symbols whose last error is more than BACKOFF_SECONDS ago.
Ready == {s \in active_subscriptions : symbol_error_backoff[s] > BackoffTicks}

\* A round starts with a copy of the set; with none ready the task sleeps.
StartRound ==
    /\ symbols_to_fetch = {}
    /\ Ready # {}
    /\ symbols_to_fetch' = Ready
    /\ UNCHANGED <<clientVars, active_subscriptions, symbol_error_backoff, roundAge>>

Fetched(s) ==
    /\ s \in symbols_to_fetch
    /\ symbols_to_fetch' = symbols_to_fetch \ {s}
    /\ roundAge' = IF symbols_to_fetch = {s} THEN 0 ELSE roundAge
    /\ UNCHANGED <<clientVars, active_subscriptions>>

\* The price goes to the room and the symbol's entry is deleted.
EmitPrice(s) ==
    /\ Fetched(s)
    /\ symbol_error_backoff' = [symbol_error_backoff EXCEPT ![s] = LongAgo]

\* Mutant of EmitError: a symbol that fails is no longer polled.
EmitErrorDropped(s) ==
    /\ s \in symbols_to_fetch
    /\ symbols_to_fetch' = symbols_to_fetch \ {s}
    /\ active_subscriptions' = active_subscriptions \ {s}
    /\ UNCHANGED <<clientVars, roundAge, symbol_error_backoff>>

\* The request failed: the backoff starts at the "now" of the round.
EmitError(s) ==
    /\ Fetched(s)
    /\ symbol_error_backoff' = [symbol_error_backoff EXCEPT ![s] = roundAge]

\* There is no quote for the symbol: nothing is emitted.
NoQuote(s) == Fetched(s) /\ UNCHANGED symbol_error_backoff

Emit(s) == EmitPrice(s) \/ EmitError(s) \/ NoQuote(s)

Tick ==
    /\ symbol_error_backoff' = [s \in Symbol |-> Older(symbol_error_backoff[s], LongAgo)]
    /\ roundAge' = IF symbols_to_fetch = {} THEN 0 ELSE Older(roundAge, LongAgo)
    /\ subscribe_limits' =
         [u \in User |-> [i \in DOMAIN subscribe_limits[u] |->
                            Older(subscribe_limits[u][i], Window)]]
    /\ UNCHANGED <<user_sessions, rooms, awaiting, stopped, abandoned,
                   active_subscriptions, symbols_to_fetch>>

\* A new process: everything was in memory.
Restart ==
    /\ user_sessions' = [c \in Sid |-> NoSession]
    /\ rooms' = [c \in Sid |-> {}]
    /\ active_subscriptions' = {}
    /\ subscribe_limits' = [u \in User |-> <<>>]
    /\ symbol_error_backoff' = [s \in Symbol |-> LongAgo]
    /\ symbols_to_fetch' = {}
    /\ roundAge' = 0
    /\ awaiting' = [c \in Sid |-> [s \in Symbol |-> 0]]
    /\ stopped' = [c \in Sid |-> {}]
    /\ abandoned' = {}

Next ==
    \/ \E c \in Sid, u \in User : Connect(c, u)
    \/ \E c \in Sid : Disconnect(c) \/ SubscribeRefused(c)
    \/ \E c \in Sid, s \in Symbol :
         Subscribe(c, s) \/ AnswerSubscribe(c, s) \/ Unsubscribe(c, s)
    \/ StartRound
    \/ \E s \in Symbol : Emit(s)
    \/ Tick
    \/ Restart

Spec == Init /\ [][Next]_vars

(***************************************************************************)
(* The event loop keeps running the polling task, every request for a      *)
(* quote ends (httpx gives up after 10 seconds) and time passes.  Nothing  *)
(* is assumed of the clients, nor of what a request returns.               *)
(***************************************************************************)
FairSpec ==
    /\ Spec
    /\ WF_vars(StartRound)
    /\ \A s \in Symbol : WF_vars(Emit(s))
    /\ WF_vars(Tick)
-----------------------------------------------------------------------------
(* Properties. *)

(***************************************************************************)
(* A connected client that subscribed is in the room of the symbol, and    *)
(* the symbol is polled: no other client, by unsubscribing, disconnecting  *)
(* or reconnecting, takes the feed from it.  And a symbol is polled for a  *)
(* reason: some client is subscribed to it, or one disconnected while it   *)
(* was (disconnect cleans up the rooms and the session, not the polled     *)
(* set).                                                                   *)
(***************************************************************************)
PolledIffWanted ==
    /\ \A c \in Connected, s \in Symbol :
         Subscribes(c, s) => s \in rooms[c] /\ s \in active_subscriptions
    /\ \A s \in active_subscriptions :
         s \in abandoned \/ \E c \in Connected : Subscribes(c, s)

(***************************************************************************)
(* A client whose last answer for a symbol is "unsubscribed" and that has  *)
(* no subscribe in the works is not subscribed: the answers of handlers    *)
(* that overlap on the initial quote never leave it unaware of a           *)
(* subscription it holds.                                                  *)
(***************************************************************************)
StoppedMeansUnsubscribed ==
    \A c \in Connected, s \in Symbol :
        s \in stopped[c] /\ awaiting[c][s] = 0 => ~ Subscribes(c, s)

(***************************************************************************)
(* A symbol somebody stays subscribed to is fetched again and again,       *)
(* whatever other symbols fail and however often it fails itself: the      *)
(* backoff delays it, and never for good.                                  *)
(***************************************************************************)
SubscribedIsFetched ==
    \A c \in Sid, s \in Symbol :
        []<>(Subscribes(c, s) => s \in symbols_to_fetch)

=============================================================================
