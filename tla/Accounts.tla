------------------------------ MODULE Accounts ------------------------------
(***************************************************************************)
(* Accounts and their one-time tokens (services/auth.py,                   *)
(* services/school.py, crud/one_time_token.py): signing up, the code that  *)
(* activates an account, sending another one, and the link that resets a   *)
(* password.                                                               *)
(*                                                                         *)
(* The async handlers run one at a time on the event loop.  verify_account *)
(* and reset_password are plain functions: the thread pool runs them       *)
(* beside the loop and beside each other, and each statement they send to  *)
(* the database is a step.  A token is found, and deleted, by its value;   *)
(* codes have four digits, so that two accounts may draw the same.         *)
(***************************************************************************)
EXTENDS Naturals, FiniteSets

CONSTANTS Person,      \* e-mail addresses
          Code, Link,  \* values of tokens: of verification, of reset
          Thread,      \* threads of the pool
          None,
          MaxCrashes   \* bound: restarts of the worker

ASSUME AccountAssumption ==
    /\ None \notin Person \cup Code \cup Link /\ Code \cap Link = {}
    /\ IsFiniteSet(Thread) /\ MaxCrashes \in Nat

VARIABLES accounts,   \* person -> "none", "inactive" or "active"
          tokens,     \* value -> None or its row: the column is unique
          signing,    \* person -> the code of his uncommitted sign-up, or None
          resending,  \* whom the loop is sending another code, or None
          hung,       \* the loop waits in PostgreSQL for one of its own handlers
          threads,    \* thread -> None or the token it has looked up
          crashes,
          uncoded,    \* history: persons without a code for a known cause
          settings,   \* history: link -> passwords set with it
          excused     \* history: links whose requests overlapped or were cut off

accountVars == <<accounts, tokens, signing, resending, hung, threads, crashes,
                 uncoded, settings, excused>>

TokenRow == [owner : Person, live : BOOLEAN]
Held == [value : Code \cup Link, owner : Person, written : BOOLEAN]

ASSUME TokenAssumption == None \notin TokenRow \cup Held

AccountTypeOK ==
    /\ accounts \in [Person -> {"none", "inactive", "active"}]
    /\ tokens \in [Code \cup Link -> TokenRow \cup {None}]
    /\ signing \in [Person -> Code \cup {None}]
    /\ \A p \in Person : signing[p] # None => accounts[p] = "none" /\ tokens[signing[p]] = None
    /\ resending \in Person \cup {None}
    /\ hung \in BOOLEAN
    /\ threads \in [Thread -> Held \cup {None}]
    /\ crashes \in 0 .. MaxCrashes
    /\ settings \in [Link -> 0 .. (MaxCrashes + 1) * Cardinality(Thread)]
    /\ uncoded \subseteq Person /\ excused \subseteq Link

AccountInit ==
    /\ accounts = [p \in Person |-> "none"]
    /\ tokens = [v \in Code \cup Link |-> None]
    /\ signing = [p \in Person |-> None]
    /\ resending = None
    /\ hung = FALSE
    /\ threads = [t \in Thread |-> None]
    /\ crashes = 0
    /\ uncoded = {}
    /\ settings = [l \in Link |-> 0]
    /\ excused = {}

\* The loop may start, or resume, a handler.
LoopFree == resending = None /\ ~ hung

\* Rows of open transactions, on which an insert of the same key waits.
Uncommitted(c) == \E q \in Person : signing[q] = c
-----------------------------------------------------------------------------
(* Accounts. *)

\* create_school_and_admin up to the e-mail; a code that is taken rolls back.
SignUpStarts(p, c) ==
    /\ LoopFree
    /\ accounts[p] = "none"
    /\ signing[p] # None \/ tokens[c] = None
    /\ IF signing[p] # None \/ Uncommitted(c)
         THEN hung' = TRUE /\ UNCHANGED signing
         ELSE signing' = [signing EXCEPT ![p] = c] /\ UNCHANGED hung
    /\ UNCHANGED <<accounts, tokens, resending, threads, crashes, uncoded, settings, excused>>

\* ... and after it: the notification commits everything.
SignUpEnds(p) ==
    /\ LoopFree
    /\ signing[p] # None
    /\ accounts' = [accounts EXCEPT ![p] = "inactive"]
    /\ tokens' = [tokens EXCEPT ![signing[p]] = [owner |-> p, live |-> TRUE]]
    /\ signing' = [signing EXCEPT ![p] = None]
    /\ UNCHANGED <<resending, hung, threads, crashes, uncoded, settings, excused>>

CreateSuperAdmin(p) ==
    /\ LoopFree
    /\ accounts[p] = "none"
    /\ IF signing[p] # None
         THEN hung' = TRUE /\ UNCHANGED accounts
         ELSE accounts' = [accounts EXCEPT ![p] = "active"] /\ UNCHANGED hung
    /\ UNCHANGED <<tokens, signing, resending, threads, crashes, uncoded, settings, excused>>

\* A school sets the status of a member; no code comes with it.
UpdateStatus(p, status) ==
    /\ LoopFree
    /\ accounts[p] # "none"
    /\ accounts' = [accounts EXCEPT ![p] = status]
    /\ uncoded' = IF status = "inactive" THEN uncoded \cup {p} ELSE uncoded
    /\ UNCHANGED <<tokens, signing, resending, hung, threads, crashes, settings, excused>>
-----------------------------------------------------------------------------
(* resend_verification_code: two commits, with the threads in between. *)

\* delete_by_user_id_and_type.
Without(p) ==
    [v \in Code \cup Link |->
       IF v \in Code /\ tokens[v] # None /\ tokens[v].owner = p THEN None ELSE tokens[v]]

\* Mutant of ResendDeletes: the deletion looks at the type alone.
ResendDeletesAll(p) ==
    /\ LoopFree
    /\ accounts[p] = "inactive"
    /\ tokens' = [v \in Code \cup Link |-> IF v \in Code THEN None ELSE tokens[v]]
    /\ resending' = p
    /\ UNCHANGED <<accounts, signing, hung, threads, crashes, uncoded, settings, excused>>

ResendDeletes(p) ==
    /\ LoopFree
    /\ accounts[p] = "inactive"
    /\ tokens' = Without(p)
    /\ resending' = p
    /\ UNCHANGED <<accounts, signing, hung, threads, crashes, uncoded, settings, excused>>

\* A code that another account holds raises, one not yet committed is waited for.
ResendInserts(c) ==
    /\ resending # None /\ ~ hung
    /\ \/ /\ tokens[c] = None /\ ~ Uncommitted(c)
          /\ tokens' = [tokens EXCEPT ![c] = [owner |-> resending, live |-> TRUE]]
          /\ resending' = None
          /\ uncoded' = uncoded \ {resending}
          /\ UNCHANGED hung
       \/ /\ tokens[c] # None
          /\ resending' = None
          /\ uncoded' = uncoded \cup {resending}
          /\ UNCHANGED <<tokens, hung>>
       \/ /\ Uncommitted(c)
          /\ hung' = TRUE
          /\ UNCHANGED <<tokens, resending, uncoded>>
    /\ UNCHANGED <<accounts, signing, threads, crashes, settings, excused>>
-----------------------------------------------------------------------------
(* verify_account and reset_password, on threads. *)

\* request_password_reset; a link is new: thirty-two letters and digits.
RequestReset(p, l) ==
    /\ LoopFree
    /\ accounts[p] # "none"
    /\ tokens[l] = None /\ settings[l] = 0
    /\ tokens' = [tokens EXCEPT ![l] = [owner |-> p, live |-> TRUE]]
    /\ UNCHANGED <<accounts, signing, resending, hung, threads, crashes,
                   uncoded, settings, excused>>

Holds(t, v) == threads[t] # None /\ threads[t].value = v

\* get_by_token_value; a code is asked for together with its owner.
LookUp(t, v) ==
    /\ threads[t] = None
    /\ tokens[v] # None /\ tokens[v].live
    /\ v \in Code => accounts[tokens[v].owner] = "inactive"
    /\ threads' = [threads EXCEPT ![t] = [value |-> v, owner |-> tokens[v].owner,
                                          written |-> FALSE]]
    /\ excused' = IF v \in Link /\ \E s \in Thread : Holds(s, v)
                    THEN excused \cup {v} ELSE excused
    /\ UNCHANGED <<accounts, tokens, signing, resending, hung, crashes, uncoded, settings>>

\* The account becomes active, or gets its new password; a commit.
Apply(t) ==
    /\ threads[t] # None /\ ~ threads[t].written
    /\ LET v == threads[t].value
       IN  IF v \in Code
             THEN /\ accounts' = [accounts EXCEPT ![threads[t].owner] = "active"]
                  /\ UNCHANGED settings
             ELSE /\ settings' = [settings EXCEPT ![v] = @ + 1]
                  /\ UNCHANGED accounts
    /\ threads' = [threads EXCEPT ![t].written = TRUE]
    /\ UNCHANGED <<tokens, signing, resending, hung, crashes, uncoded, excused>>

\* delete_by_token_value: the row of that value, whoever owns it by now.
Forget(t) ==
    /\ threads[t] # None /\ threads[t].written
    /\ LET v == threads[t].value
       IN  /\ tokens' = [tokens EXCEPT ![v] = None]
           /\ uncoded' = IF /\ v \in Code /\ tokens[v] # None
                            /\ accounts[tokens[v].owner] = "inactive"
                           THEN uncoded \cup {tokens[v].owner} ELSE uncoded
    /\ threads' = [threads EXCEPT ![t] = None]
    /\ UNCHANGED <<accounts, signing, resending, hung, crashes, settings, excused>>
-----------------------------------------------------------------------------
\* expires_at passes; nobody deletes the row.
Expire(v) ==
    /\ tokens[v] # None /\ tokens[v].live
    /\ tokens' = [tokens EXCEPT ![v].live = FALSE]
    /\ UNCHANGED <<accounts, signing, resending, hung, threads, crashes,
                   uncoded, settings, excused>>

\* The worker restarts: uncommitted sign-ups are rolled back, requests are gone.
Crash ==
    /\ crashes < MaxCrashes
    /\ crashes' = crashes + 1
    /\ signing' = [p \in Person |-> None]
    /\ resending' = None
    /\ hung' = FALSE
    /\ threads' = [t \in Thread |-> None]
    /\ uncoded' = uncoded \cup ({resending} \ {None})
    /\ excused' = excused \cup {l \in Link : \E t \in Thread : Holds(t, l) /\ threads[t].written}
    /\ UNCHANGED <<accounts, tokens, settings>>

AccountNext ==
    \/ \E p \in Person :
         \/ \E c \in Code : SignUpStarts(p, c)
         \/ SignUpEnds(p) \/ CreateSuperAdmin(p) \/ ResendDeletes(p)
         \/ \E status \in {"inactive", "active"} : UpdateStatus(p, status)
         \/ \E l \in Link : RequestReset(p, l)
    \/ \E c \in Code : ResendInserts(c)
    \/ \E t \in Thread, v \in Code \cup Link : LookUp(t, v)
    \/ \E t \in Thread : Apply(t) \/ Forget(t)
    \/ \E v \in Code \cup Link : Expire(v)
    \/ Crash

AccountSpec == AccountInit /\ [][AccountNext]_accountVars
-----------------------------------------------------------------------------
(* Properties. *)

(***************************************************************************)
(* Who waits to be activated holds a code, expired perhaps, unless another *)
(* one is being made, could not be stored or was cut off, a school took    *)
(* the activity away, or a late deletion by value hit a code that had      *)
(* passed to him meanwhile.  And a link sets one password, unless two      *)
(* requests with it overlapped or a crash kept it from being deleted.      *)
(***************************************************************************)
TokensServeOnce ==
    /\ \A p \in Person :
         accounts[p] = "inactive" /\ p # resending /\ p \notin uncoded
         => \E c \in Code : tokens[c] # None /\ tokens[c].owner = p
    /\ \A l \in Link \ excused : settings[l] <= 1
=============================================================================
