---------------------------- MODULE StreamProofs ----------------------------
(***************************************************************************)
(* That the price feed reaches who asked for it and that nobody holds a    *)
(* subscription unawares: for any number of clients, users and stocks, and *)
(* for any bound on the handlers that wait.                                *)
(***************************************************************************)
EXTENDS PriceStream, InductionLemmas, SequenceTheorems, TLAPS

\* What the handlers rely on of the session, of the rooms and of the counts of
\* handlers at the quote.  The times do not matter to who is subscribed.
Session == [user : User \cup {"none"}, subscriptions : SUBSET Symbol]

SessionsTyped ==
    /\ user_sessions \in [Sid -> Session]
    /\ rooms \in [Sid -> SUBSET Symbol]
    /\ active_subscriptions \subseteq Symbol
    /\ awaiting \in [Sid -> [Symbol -> Nat]]
    /\ stopped \in [Sid -> SUBSET Symbol]

\* PolledIffWanted and StoppedMeansUnsubscribed, of every sid: one that is not
\* connected has no subscription.
Fed(c) ==
    \A s \in Symbol : Subscribes(c, s) => s \in rooms[c] /\ s \in active_subscriptions

Reason(s) == s \in abandoned \/ \E c \in Sid : Subscribes(c, s)

Aware(c) ==
    \A s \in Symbol : s \in stopped[c] /\ awaiting[c][s] = 0 => ~ Subscribes(c, s)

StreamIInv ==
    /\ SessionsTyped
    /\ \A c \in Sid : Fed(c) /\ Aware(c)
    /\ \A s \in active_subscriptions : Reason(s)
-----------------------------------------------------------------------------
LEMMA SubscriptionTyped ==
    ASSUME NEW r \in Session, NEW T \in SUBSET Symbol
    PROVE  [r EXCEPT !.subscriptions = T] \in Session
  BY DEF Session

LEMMA StreamBegins == Init => StreamIInv
  BY DEF Init, StreamIInv, SessionsTyped, Session, Fed, Aware, Reason, Subscribes, NoSession

\* Who comes has no subscription yet.
LEMMA ConnectKeeps ==
    ASSUME StreamIInv, NEW c \in Sid, NEW u \in User, Connect(c, u)
    PROVE  StreamIInv'
<1> USE DEF StreamIInv
<1>1. /\ user_sessions' = [user_sessions EXCEPT ![c] = [user |-> u, subscriptions |-> {}]]
      /\ user_sessions[c].subscriptions = {}
      /\ UNCHANGED <<rooms, active_subscriptions, awaiting, stopped, abandoned>>
  BY DEF Connect, Connected, NoSession
<1>2. \A d \in Sid : user_sessions'[d].subscriptions = user_sessions[d].subscriptions
  BY <1>1 DEF SessionsTyped
<1>3. SessionsTyped'
  BY <1>1 DEF SessionsTyped, Session
<1> QED
  BY <1>1, <1>2, <1>3 DEF Fed, Aware, Reason, Subscribes

\* Who leaves takes the rooms along, and what it was subscribed to is recorded.
LEMMA DisconnectKeeps ==
    ASSUME StreamIInv, NEW c \in Sid, Disconnect(c)
    PROVE  StreamIInv'
<1> USE DEF StreamIInv
<1>1. /\ user_sessions' = [user_sessions EXCEPT ![c] = NoSession]
      /\ abandoned' = abandoned \cup user_sessions[c].subscriptions
      /\ rooms' = [rooms EXCEPT ![c] = {}]
      /\ awaiting' = [awaiting EXCEPT ![c] = [s \in Symbol |-> 0]]
      /\ stopped' = [stopped EXCEPT ![c] = {}]
      /\ UNCHANGED active_subscriptions
  BY DEF Disconnect
<1>2. SessionsTyped'
  BY <1>1 DEF SessionsTyped, Session, NoSession
<1>3. /\ user_sessions'[c].subscriptions = {}
      /\ \A d \in Sid \ {c} :
            /\ user_sessions'[d] = user_sessions[d] /\ rooms'[d] = rooms[d]
            /\ awaiting'[d] = awaiting[d] /\ stopped'[d] = stopped[d]
  BY <1>1 DEF SessionsTyped, Session, NoSession
<1>4. \A d \in Sid : Fed(d)' /\ Aware(d)'
  BY <1>1, <1>3 DEF Fed, Aware, Subscribes
<1>5. ASSUME NEW s \in active_subscriptions' PROVE Reason(s)'
  BY <1>1, <1>3 DEF Reason, Subscribes
<1> QED
  BY <1>2, <1>4, <1>5

\* A subscribe enters the symbol everywhere, and waits.
LEMMA SubscribeKeeps ==
    ASSUME StreamIInv, NEW c \in Sid, NEW s \in Symbol, Subscribe(c, s)
    PROVE  StreamIInv'
<1> USE DEF StreamIInv
<1>1. /\ rooms' = [rooms EXCEPT ![c] = @ \cup {s}]
      /\ user_sessions' = [user_sessions EXCEPT ![c].subscriptions = @ \cup {s}]
      /\ active_subscriptions' = active_subscriptions \cup {s}
      /\ awaiting' = [awaiting EXCEPT ![c][s] = @ + 1]
      /\ UNCHANGED <<stopped, abandoned>>
  BY DEF Subscribe
<1>2. SessionsTyped'
  <2>1. user_sessions[c] \in Session /\ user_sessions[c].subscriptions \subseteq Symbol
    BY DEF SessionsTyped, Session
  <2>2. [user_sessions[c] EXCEPT !.subscriptions = @ \cup {s}] \in Session
    BY <2>1, SubscriptionTyped
  <2> QED
    BY <1>1, <2>2 DEF SessionsTyped
<1>3. /\ user_sessions'[c].subscriptions = user_sessions[c].subscriptions \cup {s}
      /\ rooms'[c] = rooms[c] \cup {s}
      /\ awaiting'[c][s] # 0
      /\ \A x \in Symbol \ {s} : awaiting'[c][x] = awaiting[c][x]
      /\ \A d \in Sid \ {c} :
            /\ user_sessions'[d] = user_sessions[d] /\ rooms'[d] = rooms[d]
            /\ awaiting'[d] = awaiting[d]
  BY <1>1 DEF SessionsTyped
<1>4. \A d \in Sid : Fed(d)' /\ Aware(d)'
  BY <1>1, <1>3 DEF Fed, Aware, Subscribes
<1>5. ASSUME NEW x \in active_subscriptions' PROVE Reason(x)'
  <2>1. \A d \in Sid, y \in Symbol : Subscribes(d, y) => Subscribes(d, y)'
    BY <1>3 DEF Subscribes
  <2>2. Subscribes(c, s)'
    BY <1>3 DEF Subscribes
  <2>3. active_subscriptions \subseteq Symbol
    BY DEF SessionsTyped
  <2> QED
    BY <1>1, <2>1, <2>2, <2>3 DEF Reason
<1> QED
  BY <1>2, <1>4, <1>5

\* The answer to a subscribe takes back what an overlapping unsubscribe said.
LEMMA AnswerKeeps ==
    ASSUME StreamIInv, NEW c \in Sid, NEW s \in Symbol, AnswerSubscribe(c, s)
    PROVE  StreamIInv'
<1> USE DEF StreamIInv
<1>1. /\ awaiting[c][s] > 0
      /\ awaiting' = [awaiting EXCEPT ![c][s] = @ - 1]
      /\ stopped' = [stopped EXCEPT ![c] = @ \ {s}]
      /\ UNCHANGED <<user_sessions, rooms, active_subscriptions, abandoned>>
  BY DEF AnswerSubscribe
<1>2. SessionsTyped'
  BY <1>1 DEF SessionsTyped
<1>3. /\ s \notin stopped'[c] /\ stopped'[c] \subseteq stopped[c]
      /\ \A x \in Symbol \ {s} : awaiting'[c][x] = awaiting[c][x]
      /\ \A d \in Sid \ {c} : awaiting'[d] = awaiting[d] /\ stopped'[d] = stopped[d]
  BY <1>1 DEF SessionsTyped
<1> QED
  BY <1>1, <1>2, <1>3 DEF Fed, Aware, Reason, Subscribes

\* An unsubscribe looks at every session before the polling of a symbol ends.
LEMMA UnsubscribeKeeps ==
    ASSUME StreamIInv, NEW c \in Sid, NEW s \in Symbol, Unsubscribe(c, s)
    PROVE  StreamIInv'
<1> USE DEF StreamIInv
<1>1. /\ user_sessions' = [user_sessions EXCEPT ![c].subscriptions = @ \ {s}]
      /\ active_subscriptions' =
           IF \E d \in Sid : s \in user_sessions'[d].subscriptions
             THEN active_subscriptions
             ELSE active_subscriptions \ {s}
      /\ stopped' = stopped \/ stopped' = [stopped EXCEPT ![c] = @ \cup {s}]
      /\ abandoned' = abandoned \cap active_subscriptions'
      /\ UNCHANGED <<rooms, awaiting>>
  BY DEF Unsubscribe
<1>2. SessionsTyped'
  <2>1. user_sessions[c] \in Session /\ user_sessions[c].subscriptions \subseteq Symbol
    BY DEF SessionsTyped, Session
  <2>2. [user_sessions[c] EXCEPT !.subscriptions = @ \ {s}] \in Session
    BY <2>1, SubscriptionTyped
  <2> QED
    BY <1>1, <2>2 DEF SessionsTyped
<1>3. /\ user_sessions'[c].subscriptions = user_sessions[c].subscriptions \ {s}
      /\ stopped'[c] \subseteq stopped[c] \cup {s}
      /\ \A d \in Sid \ {c} : user_sessions'[d] = user_sessions[d] /\ stopped'[d] = stopped[d]
  BY <1>1 DEF SessionsTyped
<1>4. /\ \A d \in Sid, x \in Symbol : Subscribes(d, x)' => Subscribes(d, x)
      /\ \A d \in Sid, x \in Symbol \ {s} : Subscribes(d, x) => Subscribes(d, x)'
      /\ ~ Subscribes(c, s)'
  BY <1>3 DEF Subscribes
<1>5. /\ active_subscriptions' \subseteq active_subscriptions
      /\ active_subscriptions \ {s} \subseteq active_subscriptions'
      /\ s \in active_subscriptions' => \E d \in Sid : Subscribes(d, s)'
      /\ s \notin active_subscriptions' =>
            s \notin active_subscriptions \/ ~ \E d \in Sid : Subscribes(d, s)'
  BY <1>1 DEF Subscribes
<1>6. \A d \in Sid : Fed(d)'
  BY <1>1, <1>4, <1>5 DEF Fed
<1>7. \A d \in Sid : Aware(d)'
  BY <1>1, <1>3, <1>4 DEF Aware
<1>8. ASSUME NEW x \in active_subscriptions' PROVE Reason(x)'
  <2>1. x \in Symbol /\ x \in active_subscriptions
    BY <1>5 DEF SessionsTyped
  <2>2. CASE x = s
    BY <2>2, <1>5 DEF Reason
  <2>3. CASE x # s
    BY <2>1, <2>3, <1>1, <1>4 DEF Reason
  <2> QED
    BY <2>2, <2>3
<1> QED
  BY <1>2, <1>6, <1>7, <1>8

\* A refused subscribe, the polling task and the clock change nothing of it.
LEMMA OthersKeep ==
    ASSUME StreamIInv,
           UNCHANGED <<user_sessions, rooms, active_subscriptions, awaiting, stopped, abandoned>>
    PROVE  StreamIInv'
  BY DEF StreamIInv, SessionsTyped, Fed, Aware, Reason, Subscribes

LEMMA StreamStep == StreamIInv /\ [Next]_vars => StreamIInv'
<1> SUFFICES ASSUME StreamIInv, [Next]_vars PROVE StreamIInv'
  OBVIOUS
<1>1. CASE UNCHANGED vars
  BY <1>1, OthersKeep DEF vars, clientVars
<1>2. CASE \E c \in Sid, u \in User : Connect(c, u)
  BY <1>2, ConnectKeeps
<1>3. CASE \E c \in Sid : Disconnect(c)
  BY <1>3, DisconnectKeeps
<1>4. CASE \E c \in Sid : SubscribeRefused(c)
  BY <1>4, OthersKeep DEF SubscribeRefused
<1>5. CASE \E c \in Sid, s \in Symbol :
             Subscribe(c, s) \/ AnswerSubscribe(c, s) \/ Unsubscribe(c, s)
  BY <1>5, SubscribeKeeps, AnswerKeeps, UnsubscribeKeeps
<1>6. CASE StartRound \/ Tick \/ \E s \in Symbol : Emit(s)
  BY <1>6, OthersKeep
     DEF StartRound, Tick, Emit, EmitPrice, EmitError, NoQuote, Fetched, clientVars
<1>7. CASE Restart
  <2>1. Init'
    BY <1>7 DEF Restart, Init
  <2>2. Init' => StreamIInv'
    BY StreamBegins, PTL
  <2> QED
    BY <2>1, <2>2
<1> QED
  BY <1>1, <1>2, <1>3, <1>4, <1>5, <1>6, <1>7 DEF Next

LEMMA SubscriberIsConnected ==
    ASSUME NEW c \in Sid, NEW s \in Symbol, Subscribes(c, s)
    PROVE  c \in Connected
  BY DEF Subscribes, Connected, NoSession

\* A client that subscribed is in the room of the symbol and the symbol is
\* polled, and a symbol is polled only if some client is subscribed to it or
\* left while it was (handle_subscribe, handle_unsubscribe, disconnect).
THEOREM SubscribersAreFed == Spec => []PolledIffWanted
<1>1. StreamIInv => PolledIffWanted
  BY SubscriberIsConnected
     DEF StreamIInv, SessionsTyped, Fed, Reason, PolledIffWanted, Connected
<1> QED
  BY <1>1, StreamBegins, StreamStep, PTL DEF Spec

\* Whoever was last told "unsubscribed" and waits for nothing is not subscribed,
\* however its handlers overlap at the initial quote.
THEOREM StoppedStayStopped == Spec => []StoppedMeansUnsubscribed
<1>1. StreamIInv => StoppedMeansUnsubscribed
  BY DEF StreamIInv, Aware, StoppedMeansUnsubscribed, Connected
<1> QED
  BY <1>1, StreamBegins, StreamStep, PTL DEF Spec
-----------------------------------------------------------------------------
(* The subscribes that are remembered, and the times of the polling task. *)

\* No more than the limit are remembered, the oldest first.
Remembered(ages) ==
    ages \in Seq(0 .. Window) /\ Len(ages) <= MaxSubscribes /\ OldestFirst(ages)

LEMMA RecentAreRemembered ==
    ASSUME NEW u, Remembered(subscribe_limits[u])
    PROVE  /\ Remembered(Recent(u))
           /\ \A k \in DOMAIN Recent(u) : Recent(u)[k] < Window
<1> DEFINE ages == subscribe_limits[u]
           n == Len(ages)
           old == {k \in 1 .. n : ages[k] >= Window}
           last == Max({0} \cup old)
<1>1. /\ ages \in Seq(0 .. Window) /\ n \in Nat /\ n <= MaxSubscribes /\ DOMAIN ages = 1 .. n
      /\ \A k \in 1 .. n : ages[k] \in 0 .. Window
  <2>1. ages \in Seq(0 .. Window) /\ n <= MaxSubscribes
    BY DEF Remembered
  <2> HIDE DEF ages
  <2> QED
    BY <2>1, LenProperties, ElementOfSeq
<1>2. /\ last \in {0} \cup old
      /\ \A k \in old : last >= k
  <2>1. IsFiniteSet(1 .. n)
    BY <1>1, FS_Interval
  <2>2. IsFiniteSet({0} \cup old)
    BY <2>1, FS_Subset, FS_Singleton, FS_Union
  <2>3. {0} \cup old \in SUBSET Int
    BY <1>1
  <2>4. PICK m \in {0} \cup old : \A k \in {0} \cup old : m >= k
    BY <2>2, <2>3, GreatestElement
  <2> HIDE DEF old
  <2> QED
    BY <2>4 DEF Max
<1>3. Recent(u) = SubSeq(ages, last + 1, n)
  BY <1>1 DEF Recent
<1> HIDE DEF last
<1>4. last \in 0 .. n /\ \A k \in 1 .. n : k > last => ages[k] < Window
  BY <1>1, <1>2, StreamAssumption
<1> DEFINE r == SubSeq(ages, last + 1, n)
<1>5. /\ r \in Seq(0 .. Window) /\ Len(r) = n - last
      /\ \A k \in 1 .. n - last : r[k] = ages[k + last]
  <2>1. /\ last + 1 \in 1 .. n + 1 /\ n \in last .. n
        /\ \A k \in 1 .. n - last : (last + 1) + k - 1 = k + last
    BY <1>1, <1>4
  <2> HIDE DEF n
  <2> QED
    BY <1>1, <1>4, <2>1, SubSeqProperties
<1>6. OldestFirst(r)
  <2>1. \A i, j \in 1 .. n : i <= j => ages[i] >= ages[j]
    BY <1>1 DEF Remembered, OldestFirst
  <2>2. \A k \in 1 .. n - last : k + last \in 1 .. n
    BY <1>1, <1>4
  <2> SUFFICES ASSUME NEW i \in DOMAIN r, NEW j \in DOMAIN r, i <= j PROVE r[i] >= r[j]
    BY DEF OldestFirst
  <2>3. i \in 1 .. n - last /\ j \in 1 .. n - last
    BY <1>5
  <2> HIDE DEF r, ages, n
  <2> QED
    BY <1>4, <1>5, <2>1, <2>2, <2>3
<1>7. ASSUME NEW k \in DOMAIN r PROVE r[k] < Window
  <2>1. k \in 1 .. n - last
    BY <1>5
  <2> HIDE DEF r, ages
  <2> QED
    BY <1>1, <1>4, <1>5, <2>1
<1>8. Len(r) <= MaxSubscribes
  <2> HIDE DEF r, ages
  <2> QED
    BY <1>1, <1>4, <1>5, StreamAssumption
<1> QED
  BY <1>3, <1>5, <1>6, <1>7, <1>8 DEF Remembered

\* A new subscribe is the youngest.
LEMMA AppendedIsRemembered ==
    ASSUME NEW ages, Remembered(ages), Len(ages) < MaxSubscribes
    PROVE  Remembered(Append(ages, 0))
<1> DEFINE n == Len(ages)
           r == Append(ages, 0)
<1>1. /\ ages \in Seq(0 .. Window) /\ n \in Nat /\ 0 \in 0 .. Window
      /\ \A k \in 1 .. n : ages[k] \in 0 .. Window
  BY StreamAssumption DEF Remembered
<1>2. /\ r \in Seq(0 .. Window) /\ Len(r) = n + 1
      /\ \A k \in 1 .. n : r[k] = ages[k]
      /\ r[n + 1] = 0
  BY <1>1
<1>3. \A i, j \in 1 .. n : i <= j => ages[i] >= ages[j]
  BY <1>1 DEF Remembered, OldestFirst
<1>4. OldestFirst(r)
  <2> SUFFICES ASSUME NEW i \in DOMAIN r, NEW j \in DOMAIN r, i <= j PROVE r[i] >= r[j]
    BY DEF OldestFirst
  <2>1. i \in 1 .. n + 1 /\ j \in 1 .. n + 1
    BY <1>2
  <2> HIDE DEF r, n
  <2> QED
    BY <1>1, <1>2, <1>3, <2>1
<1> QED
  BY <1>1, <1>2, <1>4, StreamAssumption DEF Remembered

\* Time passes for all of them alike.
LEMMA OlderAreRemembered ==
    ASSUME NEW ages, Remembered(ages)
    PROVE  Remembered([i \in DOMAIN ages |-> Older(ages[i], Window)])
<1> DEFINE r == [i \in DOMAIN ages |-> Older(ages[i], Window)]
<1>1. /\ ages \in Seq(0 .. Window) /\ Len(ages) \in Nat /\ DOMAIN ages = 1 .. Len(ages)
      /\ \A k \in DOMAIN ages : ages[k] \in 0 .. Window
  BY LenProperties, ElementOfSeq DEF Remembered
<1>2. \A k \in DOMAIN ages : r[k] \in 0 .. Window
  BY <1>1, StreamAssumption DEF Older
<1>3. r \in Seq(0 .. Window) /\ Len(r) = Len(ages)
  BY <1>1, <1>2
<1>4. OldestFirst(r)
  <2>1. \A i, j \in DOMAIN ages : i <= j => ages[i] >= ages[j]
    BY DEF Remembered, OldestFirst
  <2> QED
    BY <1>1, <2>1, StreamAssumption DEF OldestFirst, Older
<1> QED
  BY <1>3, <1>4 DEF Remembered

\* What TypeOK says besides SessionsTyped.
TimesTyped ==
    /\ \A c \in Connected : user_sessions[c].user \in User
    /\ subscribe_limits = [u \in User |-> subscribe_limits[u]]
    /\ \A u \in User : Remembered(subscribe_limits[u])
    /\ symbol_error_backoff \in [Symbol -> 0 .. LongAgo]
    /\ symbols_to_fetch \subseteq Symbol
    /\ roundAge \in 0 .. LongAgo
    /\ abandoned \subseteq Symbol

LEMMA TypesTogether == SessionsTyped /\ TimesTyped => TypeOK
<1> SUFFICES ASSUME SessionsTyped, TimesTyped PROVE TypeOK
  OBVIOUS
<1>1. user_sessions \in [Sid -> [user : User, subscriptions : SUBSET Symbol] \cup {NoSession}]
  BY DEF SessionsTyped, TimesTyped, Session, Connected
<1>2. subscribe_limits \in [User -> Seq(0 .. Window)]
  BY DEF TimesTyped, Remembered
<1> QED
  BY <1>1, <1>2 DEF SessionsTyped, TimesTyped, Remembered, TypeOK

LEMMA TimesBegin == Init => TimesTyped
<1> SUFFICES ASSUME Init PROVE TimesTyped
  OBVIOUS
<1>1. <<>> \in Seq(0 .. Window) /\ Len(<<>>) = 0 /\ DOMAIN <<>> = {}
  OBVIOUS
<1>2. Remembered(<<>>)
  BY <1>1, StreamAssumption DEF Remembered, OldestFirst
<1>3. LongAgo \in 0 .. LongAgo /\ 0 \in 0 .. LongAgo
  BY StreamAssumption DEF LongAgo
<1> QED
  BY <1>2, <1>3 DEF Init, TimesTyped, Connected

\* A list of a user is replaced by one that is remembered.
LEMMA LimitsSet ==
    ASSUME TimesTyped, NEW u \in User, NEW ages, Remembered(ages),
           subscribe_limits' = [subscribe_limits EXCEPT ![u] = ages]
    PROVE  /\ subscribe_limits' = [v \in User |-> subscribe_limits'[v]]
           /\ \A v \in User : Remembered(subscribe_limits'[v])
  BY DEF TimesTyped

\* Who is connected, and as whom.
LEMMA UsersKeep ==
    ASSUME StreamIInv, TimesTyped, [Next]_vars
    PROVE  \A c \in Connected' : user_sessions'[c].user \in User
<1> SUFFICES ASSUME NEW d \in Connected' PROVE user_sessions'[d].user \in User
  OBVIOUS
<1>1. /\ user_sessions \in [Sid -> Session] /\ d \in Sid /\ user_sessions'[d] # NoSession
      /\ \A c \in Sid : user_sessions[c] # NoSession => user_sessions[c].user \in User
  BY DEF StreamIInv, SessionsTyped, TimesTyped, Connected
<1>2. CASE user_sessions' = user_sessions
  BY <1>1, <1>2
<1>3. ASSUME NEW c \in Sid, NEW u \in User, Connect(c, u) PROVE user_sessions'[d].user \in User
  BY <1>1, <1>3 DEF Connect
<1>4. ASSUME NEW c \in Sid, Disconnect(c) PROVE user_sessions'[d].user \in User
  BY <1>1, <1>4 DEF Disconnect
<1>5. ASSUME NEW c \in Sid, NEW T, user_sessions[c] # NoSession \/ T = {},
             user_sessions' = [user_sessions EXCEPT ![c].subscriptions = T]
      PROVE  user_sessions'[d].user \in User
  BY <1>1, <1>5 DEF Session, NoSession
<1>6. ASSUME NEW c \in Sid, NEW s \in Symbol, Subscribe(c, s)
      PROVE  user_sessions'[d].user \in User
  <2>1. user_sessions[c] # NoSession
    BY <1>6 DEF Subscribe, Connected
  <2>2. user_sessions' = [user_sessions EXCEPT ![c].subscriptions = @ \cup {s}]
    BY <1>6 DEF Subscribe
  <2> QED
    BY <2>1, <2>2, <1>1, <1>5
<1>7. ASSUME NEW c \in Sid, NEW s \in Symbol, Unsubscribe(c, s)
      PROVE  user_sessions'[d].user \in User
  <2>1. user_sessions' = [user_sessions EXCEPT ![c].subscriptions = @ \ {s}]
    BY <1>7 DEF Unsubscribe
  <2>2. user_sessions[c] # NoSession \/ user_sessions[c].subscriptions \ {s} = {}
    BY DEF NoSession
  <2> QED
    BY <2>1, <2>2, <1>1, <1>5
<1>8. CASE Restart
  BY <1>1, <1>8 DEF Restart
<1>9. CASE \/ \E c \in Sid : SubscribeRefused(c)
           \/ \E c \in Sid, s \in Symbol : AnswerSubscribe(c, s)
           \/ StartRound \/ Tick \/ UNCHANGED vars
           \/ \E s \in Symbol : Emit(s)
  <2>1. user_sessions' = user_sessions
    BY <1>9 DEF SubscribeRefused, AnswerSubscribe, StartRound, Tick, vars, clientVars,
                Emit, EmitPrice, EmitError, NoQuote, Fetched
  <2> QED
    BY <2>1, <1>2
<1> QED
  BY <1>3, <1>4, <1>6, <1>7, <1>8, <1>9 DEF Next

\* The lists of the limiter.
LEMMA LimitsKeep ==
    ASSUME TimesTyped, [Next]_vars
    PROVE  /\ subscribe_limits' = [v \in User |-> subscribe_limits'[v]]
           /\ \A v \in User : Remembered(subscribe_limits'[v])
<1>1. /\ subscribe_limits = [v \in User |-> subscribe_limits[v]]
      /\ \A v \in User : Remembered(subscribe_limits[v]) /\ Remembered(Recent(v))
      /\ \A c \in Connected : user_sessions[c].user \in User
  BY RecentAreRemembered DEF TimesTyped
<1>2. CASE subscribe_limits' = subscribe_limits
  BY <1>1, <1>2
<1>3. ASSUME NEW c \in Sid, NEW s \in Symbol, Subscribe(c, s)
      PROVE  \E u \in User : \E ages : /\ Remembered(ages)
                                        /\ subscribe_limits' = [subscribe_limits EXCEPT ![u] = ages]
  <2> DEFINE u == user_sessions[c].user
  <2>1. /\ c \in Connected /\ Len(Recent(u)) < MaxSubscribes
        /\ subscribe_limits' = [subscribe_limits EXCEPT ![u] = Append(Recent(u), 0)]
    BY <1>3 DEF Subscribe
  <2>2. u \in User
    BY <1>1, <2>1
  <2> HIDE DEF u
  <2>3. Remembered(Append(Recent(u), 0))
    BY <1>1, <2>1, <2>2, AppendedIsRemembered
  <2> QED
    BY <2>1, <2>2, <2>3
<1>4. ASSUME NEW c \in Sid, SubscribeRefused(c)
      PROVE  \E u \in User : \E ages : /\ Remembered(ages)
                                        /\ subscribe_limits' = [subscribe_limits EXCEPT ![u] = ages]
  <2> DEFINE u == user_sessions[c].user
  <2>1. /\ c \in Connected
        /\ subscribe_limits' = [subscribe_limits EXCEPT ![u] = Recent(u)]
    BY <1>4 DEF SubscribeRefused
  <2>2. u \in User
    BY <1>1, <2>1
  <2> HIDE DEF u
  <2> QED
    BY <1>1, <2>1, <2>2
<1>5. CASE Tick
  <2>1. subscribe_limits' =
          [u \in User |-> [i \in DOMAIN subscribe_limits[u] |->
                             Older(subscribe_limits[u][i], Window)]]
    BY <1>5 DEF Tick
  <2> QED
    BY <1>1, <2>1, OlderAreRemembered
<1>6. CASE Restart
  <2>1. Init'
    BY <1>6 DEF Restart, Init
  <2>2. Init' => TimesTyped'
    BY TimesBegin, PTL
  <2> QED
    BY <2>1, <2>2 DEF TimesTyped
<1>7. CASE \/ \E c \in Sid, u \in User : Connect(c, u)
           \/ \E c \in Sid : Disconnect(c)
           \/ \E c \in Sid, s \in Symbol : AnswerSubscribe(c, s) \/ Unsubscribe(c, s)
           \/ StartRound \/ UNCHANGED vars
           \/ \E s \in Symbol : Emit(s)
  <2>1. subscribe_limits' = subscribe_limits
    BY <1>7 DEF Connect, Disconnect, AnswerSubscribe, Unsubscribe, StartRound, vars,
                clientVars, Emit, EmitPrice, EmitError, NoQuote, Fetched
  <2> QED
    BY <2>1, <1>2
<1> QED
  BY <1>3, <1>4, <1>5, <1>6, <1>7, LimitsSet DEF Next

\* The ages of the polling task.
LEMMA AgesKeep ==
    ASSUME StreamIInv, TimesTyped, [Next]_vars
    PROVE  /\ symbol_error_backoff' \in [Symbol -> 0 .. LongAgo]
           /\ symbols_to_fetch' \subseteq Symbol
           /\ roundAge' \in 0 .. LongAgo
           /\ abandoned' \subseteq Symbol
<1>1. /\ symbol_error_backoff \in [Symbol -> 0 .. LongAgo]
      /\ symbols_to_fetch \subseteq Symbol
      /\ roundAge \in 0 .. LongAgo
      /\ abandoned \subseteq Symbol
      /\ active_subscriptions \subseteq Symbol
      /\ \A c \in Sid : user_sessions[c].subscriptions \subseteq Symbol
  BY DEF StreamIInv, SessionsTyped, TimesTyped, Session
<1>2. /\ LongAgo \in Nat /\ LongAgo \in 0 .. LongAgo /\ 0 \in 0 .. LongAgo
      /\ \A age \in 0 .. LongAgo : Older(age, LongAgo) \in 0 .. LongAgo
  BY StreamAssumption DEF LongAgo, Older
<1>3. CASE UNCHANGED vars
  BY <1>1, <1>3 DEF vars, clientVars, roundVars
<1>4. CASE \E c \in Sid, u \in User : Connect(c, u)
  BY <1>1, <1>4 DEF Connect, roundVars
<1>5. CASE \E c \in Sid : Disconnect(c) \/ SubscribeRefused(c)
  BY <1>1, <1>5 DEF Disconnect, SubscribeRefused, roundVars
<1>6. CASE \E c \in Sid, s \in Symbol :
             Subscribe(c, s) \/ AnswerSubscribe(c, s) \/ Unsubscribe(c, s)
  BY <1>1, <1>6 DEF Subscribe, AnswerSubscribe, Unsubscribe, roundVars
<1>7. CASE StartRound
  BY <1>1, <1>7 DEF StartRound, Ready, clientVars
<1>8. CASE \E s \in Symbol : Emit(s)
  BY <1>1, <1>2, <1>8 DEF Emit, EmitPrice, EmitError, NoQuote, Fetched, clientVars
<1>9. CASE Tick
  BY <1>1, <1>2, <1>9 DEF Tick
<1>10. CASE Restart
  BY <1>2, <1>10 DEF Restart
<1> QED
  BY <1>3, <1>4, <1>5, <1>6, <1>7, <1>8, <1>9, <1>10 DEF Next

LEMMA TimesStep == StreamIInv /\ TimesTyped /\ [Next]_vars => TimesTyped'
<1> SUFFICES ASSUME StreamIInv, TimesTyped, [Next]_vars PROVE TimesTyped'
  OBVIOUS
<1> QED
  BY UsersKeep, LimitsKeep, AgesKeep DEF TimesTyped

\* Sessions, rooms and times keep their types, and no list of the limiter grows
\* beyond the limit or out of order (subscribe_limits in handle_subscribe).
THEOREM StreamTypeCorrect == Spec => []TypeOK
<1>1. StreamIInv => SessionsTyped
  BY DEF StreamIInv
<1> QED
  BY <1>1, StreamBegins, StreamStep, TimesBegin, TimesStep, TypesTogether, PTL DEF Spec
=============================================================================
