----------------------------- MODULE ReadCache -----------------------------
(***************************************************************************)
(* The response cache between the endpoints and the database, as one user  *)
(* sees it: the decorator cache_endpoint (core/decorators.py), the         *)
(* in-memory backend and the CacheManager (core/cache.py), and the         *)
(* endpoints that write and then invalidate.                               *)
(*                                                                         *)
(* The backend holds its lock across no suspension, so a lookup, a fill    *)
(* and a sweep are each one step.  An endpoint that misses reads the       *)
(* database, may then await prices, and stores what it read; an endpoint   *)
(* that writes commits, may then await event handlers, and sweeps the keys *)
(* its patterns match.  Data is abstracted to the number of the commit     *)
(* that wrote it.  Time is counted in ages, up to the first value that     *)
(* nothing tells from a larger one.                                        *)
(***************************************************************************)
EXTENDS Integers, FiniteSets

CONSTANTS Key,        \* the cached endpoints of the user
          Operation,  \* the writing endpoints
          Touches,    \* operation -> keys whose data it changes
          Sweeps,     \* operation -> keys its invalidation patterns match
          TTL,        \* key -> ttl of its cache_endpoint, in ticks
          Reader,     \* reads at the same time
          Writer,     \* writes at the same time
          MaxCommits, \* bound: commits
          MaxFetch    \* bound: ticks between a read and its fill

ASSUME CacheAssumption ==
    /\ Touches \in [Operation -> SUBSET Key]
    /\ Sweeps \in [Operation -> SUBSET Key]
    /\ TTL \in [Key -> Nat \ {0}]
    /\ MaxCommits \in Nat /\ MaxFetch \in Nat

VARIABLES commits,   \* commits so far
          current,   \* key -> the commit its data in the database comes from
          _cache,    \* key -> NoEntry or the stored data and its age
          reading,   \* reader -> NoRead or the data it will store
          writing,   \* writer -> NoWrite or the operation it committed
          outdated,  \* history: key -> commit -> ticks since it was superseded
          unswept    \* history: keys whose entry no sweep was going to remove

vars == <<commits, current, _cache, reading, writing, outdated, unswept>>

NoEntry == [data |-> -1, age |-> 0]
NoRead == [key |-> "none", data |-> -1, age |-> 0]
NoWrite == "none"

ASSUME OperationAssumption == NoWrite \notin Operation

Commit == 0 .. MaxCommits

\* The age beyond which nobody can be shown the data of key.
Horizon(key) == TTL[key] + MaxFetch

Older(age, limit) == IF age < limit THEN age + 1 ELSE limit

TypeOK ==
    /\ commits \in Commit
    /\ current \in [Key -> Commit]
    /\ _cache \in [Key -> [data : Commit, age : Nat] \cup {NoEntry}]
    /\ \A key \in Key : _cache[key].age <= TTL[key]
    /\ reading \in [Reader -> [key : Key, data : Commit, age : 0 .. MaxFetch] \cup {NoRead}]
    /\ writing \in [Writer -> Operation \cup {NoWrite}]
    /\ outdated \in [Key -> [Commit -> Nat]]
    /\ unswept \subseteq Key

Init ==
    /\ commits = 0
    /\ current = [key \in Key |-> 0]
    /\ _cache = [key \in Key |-> NoEntry]
    /\ reading = [r \in Reader |-> NoRead]
    /\ writing = [w \in Writer |-> NoWrite]
    /\ outdated = [key \in Key |-> [c \in Commit |-> 0]]
    /\ unswept = {}

\* Mutant of Live: the entry is served at its expiry and after.
LiveForever(key) == _cache[key] # NoEntry

\* time.time() < item["expiry"].
Live(key) == _cache[key] # NoEntry /\ _cache[key].age < TTL[key]

\* _cleanup_expired, at every lookup.
Cleaned == [key \in Key |-> IF Live(key) THEN _cache[key] ELSE NoEntry]
-----------------------------------------------------------------------------
(* Endpoints that read. *)

\* "HIT": the stored data is the answer.
Hit(key) ==
    /\ Live(key)
    /\ _cache' = Cleaned
    /\ UNCHANGED <<commits, current, reading, writing, outdated, unswept>>

\* A miss: the endpoint reads the database.
Miss(r, key) ==
    /\ reading[r] = NoRead
    /\ ~ Live(key)
    /\ _cache' = Cleaned
    /\ reading' = [reading EXCEPT ![r] = [key |-> key, data |-> current[key], age |-> 0]]
    /\ UNCHANGED <<commits, current, writing, outdated, unswept>>

\* Mutant of Fill: the entry outlives the ttl of its endpoint by a tick.
FillForLonger(r) ==
    LET key == reading[r].key IN
    /\ reading[r] # NoRead
    /\ _cache' = [_cache EXCEPT ![key] = [data |-> reading[r].data, age |-> -1]]
    /\ reading' = [reading EXCEPT ![r] = NoRead]
    /\ UNCHANGED <<commits, current, writing, outdated, unswept>>

\* "MISS": the result replaces whatever was stored meanwhile.
Fill(r) ==
    LET key == reading[r].key IN
    /\ reading[r] # NoRead
    /\ _cache' = [_cache EXCEPT ![key] = [data |-> reading[r].data, age |-> 0]]
    /\ reading' = [reading EXCEPT ![r] = NoRead]
    /\ unswept' = IF reading[r].data = current[key] THEN unswept \ {key}
                                                    ELSE unswept \cup {key}
    /\ UNCHANGED <<commits, current, writing, outdated>>

\* The endpoint raises: nothing is stored.
ReadFails(r) ==
    /\ reading[r] # NoRead
    /\ reading' = [reading EXCEPT ![r] = NoRead]
    /\ UNCHANGED <<commits, current, _cache, writing, outdated, unswept>>
-----------------------------------------------------------------------------
(* Endpoints that write. *)

Stored == {key \in Key : _cache[key] # NoEntry}

Stale == {key \in Stored : _cache[key].data # current[key]}

\* The service commits; the endpoint will sweep when the service returns.
Write(w, op) ==
    /\ writing[w] = NoWrite
    /\ commits < MaxCommits
    /\ commits' = commits + 1
    /\ current' = [key \in Key |-> IF key \in Touches[op] THEN commits' ELSE current[key]]
    /\ writing' = [writing EXCEPT ![w] = op]
    /\ unswept' = unswept \cup ((Touches[op] \ Sweeps[op]) \cap Stored)
    /\ UNCHANGED <<_cache, reading, outdated>>

\* Mutant of Invalidate: invalidate_user_cache without patterns.
InvalidateNothing(w) ==
    /\ writing[w] # NoWrite
    /\ writing' = [writing EXCEPT ![w] = NoWrite]
    /\ UNCHANGED <<commits, current, _cache, reading, outdated, unswept>>

\* delete_pattern for each pattern of the operation.
Invalidate(w) ==
    LET swept == IF writing[w] = NoWrite THEN {} ELSE Sweeps[writing[w]] IN
    /\ writing[w] # NoWrite
    /\ _cache' = [key \in Key |-> IF key \in swept THEN NoEntry ELSE _cache[key]]
    /\ writing' = [writing EXCEPT ![w] = NoWrite]
    /\ unswept' = unswept \ swept
    /\ UNCHANGED <<commits, current, reading, outdated>>

\* The service raises after a commit: the endpoint never gets to its sweep.
WriteFails(w) ==
    /\ writing[w] # NoWrite
    /\ unswept' = unswept \cup (Touches[writing[w]] \cap Stale)
    /\ writing' = [writing EXCEPT ![w] = NoWrite]
    /\ UNCHANGED <<commits, current, _cache, reading, outdated>>

\* cache.clear(), by any of the endpoints that take no chances.
Clear ==
    /\ _cache' = [key \in Key |-> NoEntry]
    /\ unswept' = {}
    /\ UNCHANGED <<commits, current, reading, writing, outdated>>

Tick ==
    /\ \A r \in Reader : reading[r].age < MaxFetch
    /\ _cache' = [key \in Key |->
                    IF _cache[key] = NoEntry THEN NoEntry
                    ELSE [_cache[key] EXCEPT !.age = Older(@, TTL[key])]]
    /\ reading' = [r \in Reader |->
                     IF reading[r] = NoRead THEN NoRead
                     ELSE [reading[r] EXCEPT !.age = @ + 1]]
    /\ outdated' = [key \in Key |-> [c \in Commit |->
                      IF c < current[key] THEN Older(outdated[key][c], Horizon(key))
                                          ELSE outdated[key][c]]]
    /\ UNCHANGED <<commits, current, writing, unswept>>

Next ==
    \/ \E key \in Key : Hit(key)
    \/ \E r \in Reader, key \in Key : Miss(r, key)
    \/ \E r \in Reader : Fill(r) \/ ReadFails(r)
    \/ \E w \in Writer, op \in Operation : Write(w, op)
    \/ \E w \in Writer : Invalidate(w) \/ WriteFails(w)
    \/ Clear
    \/ Tick

Spec == Init /\ [][Next]_vars
-----------------------------------------------------------------------------
(* Properties. *)

(***************************************************************************)
(* Whatever fills, sweeps and failures interleave, an answer from the      *)
(* cache was the database's less than the ttl of its endpoint, plus the    *)
(* time that endpoint spent awaiting prices, ago.                          *)
(***************************************************************************)
StalenessIsBounded ==
    \A key \in Key : Live(key) => outdated[key][_cache[key].data] < Horizon(key)

(***************************************************************************)
(* A cached answer that is older than the database has a cause: a writer   *)
(* still on its way to its sweep, or one of the three ways to miss it: the *)
(* patterns of the operation leave the key out, the operation failed after *)
(* its commit, or the fill was overtaken by a commit.                      *)
(***************************************************************************)
StaleHasCause ==
    \A key \in Key :
        Live(key) /\ _cache[key].data # current[key] =>
            \/ \E w \in Writer : writing[w] # NoWrite /\ key \in Touches[writing[w]]
            \/ key \in unswept

=============================================================================
