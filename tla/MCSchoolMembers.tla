--------------------------- MODULE MCSchoolMembers ---------------------------
(***************************************************************************)
(* SchoolMembers and Accounts for TLC.  A behaviour follows three requests *)
(* of the schools, up to two of them uploads of two rows; or three of one  *)
(* school and the platform; or four that administer two members of one     *)
(* school; or the codes of two accounts, or the link of a password: codes  *)
(* and links share no row, and the columns of an account they write have   *)
(* nothing in common.                                                      *)
(***************************************************************************)
EXTENDS SchoolMembers, Accounts

VARIABLE focus   \* what the behaviour follows

MCInit == Init /\ AccountInit /\ focus \in {"schools", "platform", "members", "codes", "links"}

\* Requests are interchangeable: they have their numbers from the order they are
\* sent in.
Number ==
    CHOOSE f \in [Request -> 1 .. Cardinality(Request)] :
        \A q, r \in Request : f[q] = f[r] => q = r

InOrder(r) ==
    requests[r].state = "new" =>
        \A q \in Request : Number[q] < Number[r] => requests[q].state # "new"

\* How many requests a behaviour sends, how many of them uploads, to which schools.
Sent == IF focus = "members" THEN 4 ELSE 3
Uploads == IF focus = "schools" THEN 2 ELSE 0
Followed ==
    CASE focus = "schools" -> School \ {Platform}
      [] focus = "platform" -> {FirstSchool, Platform}
      [] focus = "members" -> {FirstSchool}

Within ==
    /\ \A s \in School \ Followed :
         /\ schools'[s] = "absent"
         /\ \A r \in Request : transaction'[r] # NoTransaction => transaction'[r].school # s
    /\ Cardinality({r \in Request : IsBulk(r)'}) <= Uploads
    /\ focus = "members" => lastId' <= 2

\* A request is let in where it matters: next it goes on, or its school is deleted.
AdmittedLate ==
    LET Live(r) == requests[r].state = "admitted" /\ schools[requests[r].school] = "live" IN
    (\E r \in Request : Live(r)) =>
        \/ \E s \in School : schools'[s] = "deleted" /\ schools[s] = "live"
        \/ \E r \in Request : requests'[r].state # requests[r].state
                             /\ "admitted" \in {requests[r].state, requests'[r].state}

NoLinks == \A l \in Link : tokens'[l] = None
NoCodes == resending' = None /\ \A p \in Person : signing'[p] = None

MCNext ==
    \/ /\ focus \in {"schools", "platform", "members"}
       /\ \/ \E r \in Request : InOrder(r) /\ Number[r] <= Sent /\ RequestNext(r)
          \/ focus # "members" /\ Restart
       /\ Within /\ AdmittedLate
       /\ UNCHANGED <<accountVars, focus>>
    \/ /\ focus \in {"codes", "links"}
       /\ AccountNext
       /\ IF focus = "codes" THEN NoLinks ELSE NoCodes
       /\ UNCHANGED <<vars, focus>>

MCSpec == MCInit /\ [][MCNext]_<<vars, accountVars, focus>> /\ Fairness

\* The rows of both are well typed.
MCTypeOK == TypeOK /\ AccountTypeOK
=============================================================================
