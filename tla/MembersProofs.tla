---------------------------- MODULE MembersProofs ----------------------------
(***************************************************************************)
(* Proofs about SchoolMembers and Accounts, for every set of users,        *)
(* schools, requests and addresses: in which ways alone a school loses its *)
(* last administrator or gets members after it is deleted, that the report *)
(* of an upload is true, and that codes and links serve once.              *)
(***************************************************************************)
EXTENDS MCSchoolMembers, FiniteSetTheorems, SequenceTheorems,
        TLAPS

(* Schools and their members. *)

Transaction == [user : User, email : Email, role : Role, school : School]

State == {"new", "admitted", "running", "mailing", "blocked", "answered"}

RequestRow == [state : State, rows : Seq(Email), school : School]
ReportRow == [total : Nat, successful : Nat, failed : Nat]

\* TypeOK, with the fields of the requests and of the open transactions.
TablesTyped ==
    /\ users \in [User -> UserRow \cup {NoUser}]
    /\ schools \in [School -> {"absent", "live", "deleted"}]
    /\ associations \in [User -> [School -> Member \cup {NoMember}]]
    /\ lastId \in User
    /\ loop \in Request \cup {Idle}
    /\ requests \in [Request -> RequestRow]
    /\ transaction \in [Request -> Transaction \cup {NoTransaction}]
    /\ report \in [Request -> ReportRow]
    /\ deaths \in 0 .. MaxDeaths
    /\ invited \in [Request -> SUBSET User]
    /\ torn \subseteq User /\ unguarded \subseteq School /\ late \subseteq Request

\* An open transaction is of a request that awaits its e-mail, and has a user of
\* its own, who has no row yet where the school has none; a member's has no row
\* yet, and his school is there.  Who is a member has a row.
RowsFit ==
    /\ \A r \in Request : requests[r].state = "mailing" <=> r \in Open
    /\ \A u \in User : users[u] # NoUser => u <= lastId
    /\ \A u \in User, s \in School : associations[u][s] # NoMember => users[u] # NoUser
    /\ \A r \in Open :
         /\ transaction[r].user <= lastId
         /\ transaction[r].role = "member" =>
               users[transaction[r].user] = NoUser /\ schools[transaction[r].school] # "absent"
         /\ schools[transaction[r].school] = "absent" => users[transaction[r].user] = NoUser
         /\ requests[r].school = transaction[r].school
    /\ \A q, r \in Open : transaction[q].user = transaction[r].user => q = r

\* No two rows share an address, nor do a row and an insert that is not committed.
AddressesDiffer ==
    /\ \A u, v \in User : u # v /\ users[u] # NoUser => users[u].email # users[v].email
    /\ \A r \in Open : users[transaction[r].user] = NoUser => ~ Used(transaction[r].email)
    /\ \A q, r \in Open :
         /\ users[transaction[q].user] = NoUser /\ users[transaction[r].user] = NoUser
         /\ transaction[q].email = transaction[r].email
         => q = r

\* Every row of an upload is counted or still to come.
RowsBalance(r) ==
    report[r].successful + report[r].failed + Len(requests[r].rows) = report[r].total

\* An upload has the loop while it runs, and the counts of its report agree with
\* what is left of its rows and with whom it has invited.
UploadCounts(r) ==
    /\ requests[r].state \in {"new", "admitted"} =>
          report[r].total = 0 /\ report[r].successful = 0 /\ report[r].failed = 0
          /\ invited[r] = {}
    /\ requests[r].state \in {"admitted", "running"} => schools[requests[r].school] # "absent"
    /\ requests[r].state = "running" => loop = r
    /\ requests[r].state = "mailing" /\ IsBulk(r) =>
          transaction[r].role = "member" /\ requests[r].rows # <<>>
    /\ requests[r].state = "answered" /\ IsBulk(r) => requests[r].rows = <<>>
    /\ IsBulk(r) =>
          RowsBalance(r) /\ report[r].successful = Cardinality(invited[r])
    /\ \A u \in invited[r] : users[u] # NoUser

UploadsCount == \A r \in Request : UploadCounts(r)

\* Whoever works for a school that is deleted was at it when it was deleted.
LateKnown ==
    \A r \in Request :
        /\ requests[r].state \in {"admitted", "running", "mailing"}
        /\ requests[r].school # Platform /\ schools[requests[r].school] = "deleted"
        => r \in late

MembersIInv ==
    /\ TablesTyped
    /\ RowsFit
    /\ AddressesDiffer
    /\ UploadsCount
    /\ LateKnown /\ MembersFollowSchools
    /\ AdministratorsRemain

LEMMA RowsDiffer ==
    /\ NoUser \notin UserRow /\ NoMember \notin Member /\ NoTransaction \notin Transaction
    /\ \A r \in UserRow : r.email \in Email /\ r.deleted \in BOOLEAN
    /\ NoUser.email \notin Email
<1>1. NoUser \notin UserRow /\ NoUser.email \notin Email
  BY MembersAssumption DEF NoUser, UserRow
<1>2. NoMember \notin Member
  BY DEF NoMember, Member, Role
<1>3. NoTransaction \notin Transaction
  BY DEF NoTransaction, Transaction, User
<1> QED
  BY <1>1, <1>2, <1>3 DEF UserRow

\* The fields that the steps read.
LEMMA FieldsTyped ==
    ASSUME TablesTyped
    PROVE  /\ lastId \in Nat /\ lastId <= MaxUsers /\ MaxUsers \in Nat
           /\ \A r \in Open : /\ r \in Request /\ transaction[r] \in Transaction
                              /\ transaction[r].user \in User /\ transaction[r].email \in Email
                              /\ transaction[r].role \in Role /\ transaction[r].school \in School
           /\ \A u \in User : users[u] # NoUser => users[u] \in UserRow
           /\ \A r \in Request : /\ requests[r].state \in State
                                 /\ requests[r].rows \in Seq(Email)
                                 /\ requests[r].school \in School
                                 /\ report[r].total \in Nat /\ report[r].successful \in Nat
                                 /\ report[r].failed \in Nat
  BY MembersAssumption DEF TablesTyped, Open, User, Transaction, RequestRow, ReportRow

\* One field of a row is set.
StateSet(r, st) == requests' = [requests EXCEPT ![r].state = st]
TotalSet(r, n) == report' = [report EXCEPT ![r].total = n]
SuccessCounted(r) == report' = [report EXCEPT ![r].successful = @ + 1]
FailureCounted(r) == report' = [report EXCEPT ![r].failed = @ + 1]

LEMMA StateSetFacts ==
    ASSUME TablesTyped, NEW r \in Request, NEW st \in State, StateSet(r, st)
    PROVE  /\ requests' \in [Request -> RequestRow]
           /\ requests'[r].state = st /\ requests'[r].rows = requests[r].rows
           /\ requests'[r].school = requests[r].school
           /\ \A q \in Request \ {r} : requests'[q] = requests[q]
<1>1. /\ requests[r] \in RequestRow
      /\ requests'[r] = [requests[r] EXCEPT !.state = st]
      /\ requests' = [q \in Request |-> requests'[q]]
      /\ \A q \in Request \ {r} : requests'[q] = requests[q]
  BY DEF StateSet, TablesTyped
<1>2. /\ requests'[r] \in RequestRow
      /\ requests'[r].state = st /\ requests'[r].rows = requests[r].rows
      /\ requests'[r].school = requests[r].school
  BY <1>1 DEF RequestRow
<1>3. \A q \in Request : requests'[q] \in RequestRow
  BY <1>1, <1>2 DEF TablesTyped
<1> QED
  BY <1>1, <1>2, <1>3

LEMMA TotalSetFacts ==
    ASSUME TablesTyped, NEW r \in Request, NEW n \in Nat, TotalSet(r, n)
    PROVE  /\ report' \in [Request -> ReportRow]
           /\ report'[r].total = n
           /\ report'[r].successful = report[r].successful
           /\ report'[r].failed = report[r].failed
           /\ \A q \in Request \ {r} : report'[q] = report[q]
<1>1. /\ report[r] \in ReportRow
      /\ report'[r] = [report[r] EXCEPT !.total = n]
      /\ report' = [q \in Request |-> report'[q]]
      /\ \A q \in Request \ {r} : report'[q] = report[q]
  BY DEF TotalSet, TablesTyped
<1>2. /\ report'[r] \in ReportRow
      /\ report'[r].total = n
      /\ report'[r].successful = report[r].successful
      /\ report'[r].failed = report[r].failed
  BY <1>1 DEF ReportRow
<1>3. \A q \in Request : report'[q] \in ReportRow
  BY <1>1, <1>2 DEF TablesTyped
<1> QED
  BY <1>1, <1>2, <1>3

LEMMA SuccessFacts ==
    ASSUME TablesTyped, NEW r \in Request, SuccessCounted(r)
    PROVE  /\ report' \in [Request -> ReportRow]
           /\ report'[r].successful = report[r].successful + 1
           /\ report'[r].total = report[r].total
           /\ report'[r].failed = report[r].failed
           /\ \A q \in Request \ {r} : report'[q] = report[q]
<1>1. /\ report[r] \in ReportRow
      /\ report'[r] = [report[r] EXCEPT !.successful = report[r].successful + 1]
      /\ report' = [q \in Request |-> report'[q]]
      /\ \A q \in Request \ {r} : report'[q] = report[q]
  BY DEF SuccessCounted, TablesTyped
<1>2. /\ report'[r] \in ReportRow
      /\ report'[r].successful = report[r].successful + 1
      /\ report'[r].total = report[r].total
      /\ report'[r].failed = report[r].failed
  BY <1>1 DEF ReportRow
<1>3. \A q \in Request : report'[q] \in ReportRow
  BY <1>1, <1>2 DEF TablesTyped
<1> QED
  BY <1>1, <1>2, <1>3

LEMMA FailureFacts ==
    ASSUME TablesTyped, NEW r \in Request, FailureCounted(r)
    PROVE  /\ report' \in [Request -> ReportRow]
           /\ report'[r].failed = report[r].failed + 1
           /\ report'[r].total = report[r].total
           /\ report'[r].successful = report[r].successful
           /\ \A q \in Request \ {r} : report'[q] = report[q]
<1>1. /\ report[r] \in ReportRow
      /\ report'[r] = [report[r] EXCEPT !.failed = report[r].failed + 1]
      /\ report' = [q \in Request |-> report'[q]]
      /\ \A q \in Request \ {r} : report'[q] = report[q]
  BY DEF FailureCounted, TablesTyped
<1>2. /\ report'[r] \in ReportRow
      /\ report'[r].failed = report[r].failed + 1
      /\ report'[r].total = report[r].total
      /\ report'[r].successful = report[r].successful
  BY <1>1 DEF ReportRow
<1>3. \A q \in Request : report'[q] \in ReportRow
  BY <1>1, <1>2 DEF TablesTyped
<1> QED
  BY <1>1, <1>2, <1>3

\* A request that nothing touches keeps its counts, whatever else is inserted.
LEMMA CountsKept ==
    ASSUME NEW q \in Request, UploadCounts(q),
           requests'[q] = requests[q], report'[q] = report[q],
           invited'[q] = invited[q], transaction'[q] = transaction[q],
           requests[q].state = "running" => loop' = q,
           \A s \in School : schools[s] # "absent" => schools'[s] # "absent",
           requests[q].school \in School,
           \A u \in invited[q] : users[u] # NoUser => users'[u] # NoUser
    PROVE  UploadCounts(q)'
  BY DEF UploadCounts, IsBulk, RowsBalance

LEMMA MembersBegin == Init => MembersIInv
<1> SUFFICES ASSUME Init PROVE MembersIInv
  OBVIOUS
<1>1. TablesTyped
  <2>1. [email |-> First, deleted |-> FALSE] \in UserRow
    BY MembersAssumption DEF UserRow
  <2>2. [role |-> "school_admin", deleted |-> FALSE] \in Member
    BY DEF Member, Role
  <2>3. <<>> \in Seq(Email) /\ 1 \in User
    BY MembersAssumption DEF User
  <2>4. /\ [state |-> "new", rows |-> <<>>, school |-> FirstSchool] \in RequestRow
        /\ [total |-> 0, successful |-> 0, failed |-> 0] \in ReportRow
    BY <2>3, MembersAssumption DEF RequestRow, ReportRow, State
  <2>5. users \in [User -> UserRow \cup {NoUser}]
    BY <2>1 DEF Init
  <2>6. associations \in [User -> [School -> Member \cup {NoMember}]]
    BY <2>2 DEF Init
  <2>7. /\ requests \in [Request -> RequestRow] /\ report \in [Request -> ReportRow]
        /\ transaction \in [Request -> Transaction \cup {NoTransaction}]
        /\ invited \in [Request -> SUBSET User]
    BY <2>4 DEF Init
  <2>8. /\ schools \in [School -> {"absent", "live", "deleted"}]
        /\ lastId \in User /\ loop \in Request \cup {Idle} /\ deaths \in 0 .. MaxDeaths
        /\ torn = {} /\ unguarded = {} /\ late = {}
    BY <2>3, MembersAssumption DEF Init
  <2> QED
    BY <2>5, <2>6, <2>7, <2>8 DEF TablesTyped
<1>2. Open = {}
  BY DEF Init, Open
<1>3. RowsFit
  <2>1. /\ \A r \in Request : requests[r].state = "new"
        /\ \A u \in User : users[u] # NoUser => u = 1
        /\ lastId = 1
        /\ users[1] = [email |-> First, deleted |-> FALSE]
    BY MembersAssumption DEF Init, User
  <2>2. users[1] # NoUser
    BY <2>1, MembersAssumption DEF NoUser
  <2>3. \A u \in User, s \in School : associations[u][s] # NoMember => u = 1
    BY DEF Init
  <2> QED
    BY <1>2, <2>1, <2>2, <2>3 DEF RowsFit
<1>4. AddressesDiffer
  BY <1>2, MembersAssumption DEF Init, AddressesDiffer, NoUser
<1>5. UploadsCount
  BY DEF Init, UploadsCount, UploadCounts, IsBulk
<1>6. LateKnown /\ MembersFollowSchools
  BY <1>2, MembersAssumption, RowsDiffer, <1>1
     DEF Init, LateKnown, MembersFollowSchools, NoUser, NoMember, User, IsMember, UserRow,
         HasAccount
<1>7. AdministratorsRemain
  <2>1. 1 \in User /\ users[1] = [email |-> First, deleted |-> FALSE]
    BY MembersAssumption DEF Init, User
  <2>2. HasAccount(1)
    BY <2>1, MembersAssumption DEF HasAccount, NoUser
  <2>3. IsAdmin(1, FirstSchool)
    BY <2>1, MembersAssumption, RowsDiffer DEF Init, IsAdmin, IsMember, NoMember
  <2>4. 1 \in Administrators(FirstSchool)
    BY <2>1, <2>2, <2>3 DEF Administrators
  <2> QED
    BY <2>4 DEF Init, AdministratorsRemain
<1> QED
  BY <1>1, <1>3, <1>4, <1>5, <1>6, <1>7 DEF MembersIInv
-----------------------------------------------------------------------------
(* Who is left. *)

\* A school keeps an administrator if it gets one, or if all but some stay and it
\* had others than those.
LEMMA AdministratorsLeft ==
    ASSUME MembersIInv, NEW us,
           \A x \in School \ {Platform} :
               schools'[x] = "live" /\ x \notin unguarded' =>
                   \/ Administrators(x)' # {}
                   \/ /\ schools[x] = "live" /\ x \notin unguarded
                      /\ Administrators(x) \ us \subseteq Administrators(x)'
                      /\ x \notin LeftAlone(us)
    PROVE  AdministratorsRemain'
<1> SUFFICES ASSUME NEW x \in School \ {Platform}, schools'[x] = "live", x \notin unguarded',
                    Administrators(x)' = {}
             PROVE  FALSE
  BY DEF AdministratorsRemain
<1>1. /\ schools[x] = "live" /\ x \notin unguarded
      /\ Administrators(x) \ us = {} /\ x \notin LeftAlone(us)
  OBVIOUS
<1>2. Administrators(x) # {}
  BY <1>1 DEF MembersIInv, AdministratorsRemain
<1>3. Administrators(x) \subseteq us
  BY <1>1
<1> QED
  BY <1>1, <1>2, <1>3 DEF LeftAlone

\* Who administers a school, and neither loses his account, nor the membership or
\* the transaction that makes him administrator, still does.
LEMMA AdministratorStays ==
    ASSUME NEW x \in School, NEW u \in Administrators(x),
           IsAdmin(u, x) /\ HasAccount(u) => IsAdmin(u, x)' /\ HasAccount(u)',
           users[u] = NoUser \/ HasAccount(u) => users'[u] = NoUser \/ HasAccount(u)',
           \A q \in Open : transaction[q].user = u =>
               q \in Open' /\ transaction'[q] = transaction[q]
    PROVE  u \in Administrators(x)'
  BY DEF Administrators, Open

\* The school of the platform may be opened; the others do not change.
LEMMA PlatformOpened ==
    ASSUME TablesTyped, UNCHANGED schools \/ OpensPlatform
    PROVE  /\ schools' \in [School -> {"absent", "live", "deleted"}]
           /\ \A x \in School : x # Platform => schools'[x] = schools[x]
           /\ \A x \in School : schools[x] # "absent" => schools'[x] = schools[x]
           /\ \A x \in School : schools'[x] = "deleted" => schools[x] = "deleted"
           /\ OpensPlatform => schools'[Platform] # "absent"
  BY MembersAssumption DEF TablesTyped, OpensPlatform

-----------------------------------------------------------------------------
(* What leaves the members and the transactions alone. *)

\* A request is let in, refused, answered or waits; an upload begins, passes a row
\* over or ends.
Moves(r) ==
    /\ UNCHANGED <<users, associations, transaction, lastId, deaths, historyVars>>
    /\ UNCHANGED schools \/ OpensPlatform
    /\ r \notin Open /\ requests'[r].state # "mailing"
    /\ requests' \in [Request -> RequestRow]
    /\ report' \in [Request -> ReportRow]
    /\ loop' \in Request \cup {Idle}
    /\ \A q \in Request \ {r} : /\ requests'[q] = requests[q] /\ report'[q] = report[q]
                                /\ requests[q].state = "running" => loop' = q

LEMMA MovesKeep ==
    ASSUME MembersIInv, NEW r \in Request, Moves(r),
           UploadCounts(r)',
           (requests'[r].state \in {"admitted", "running"} /\ requests'[r].school # Platform
            /\ schools[requests'[r].school] = "deleted") => r \in late
    PROVE  MembersIInv'
<1> USE DEF MembersIInv
<1>1. /\ UNCHANGED <<users, associations, transaction, lastId, deaths,
                     invited, torn, unguarded, late>>
      /\ Open' = Open
  BY DEF Moves, historyVars, Open
<1>2. /\ schools' \in [School -> {"absent", "live", "deleted"}]
      /\ \A x \in School : x # Platform => schools'[x] = schools[x]
      /\ \A x \in School : schools[x] # "absent" => schools'[x] = schools[x]
      /\ \A x \in School : schools'[x] = "deleted" => schools[x] = "deleted"
  BY PlatformOpened DEF Moves
<1>3. TablesTyped'
  BY <1>1, <1>2 DEF TablesTyped, Moves
<1>4. RowsFit'
  <2>1. \A q \in Open :
          /\ transaction[q].role = "member" => schools'[transaction[q].school] # "absent"
          /\ schools'[transaction[q].school] = "absent" => schools[transaction[q].school] = "absent"
          /\ requests'[q] = requests[q]
    BY <1>2, FieldsTyped DEF RowsFit, Moves
  <2> QED
    BY <1>1, <2>1 DEF RowsFit, Moves
<1>5. AddressesDiffer'
  <2>1. \A e : Used(e)' = Used(e)
    BY <1>1 DEF Used
  <2> QED
    BY <1>1, <2>1 DEF AddressesDiffer
<1>6. LateKnown'
  <2> SUFFICES ASSUME NEW q \in Request, requests'[q].state \in {"admitted", "running", "mailing"},
                      requests'[q].school # Platform, schools'[requests'[q].school] = "deleted"
               PROVE  q \in late'
    BY DEF LateKnown
  <2>1. requests'[q].school \in School
    BY <1>3 DEF TablesTyped, RequestRow
  <2>2. schools[requests'[q].school] = "deleted"
    BY <2>1, <1>2
  <2> QED
    BY <2>2, <1>1 DEF LateKnown, Moves
<1>7. MembersFollowSchools'
  BY <1>1, <1>2 DEF MembersFollowSchools, IsMember, HasAccount
<1>8. AdministratorsRemain'
  <2>1. \A x \in School : Administrators(x)' = Administrators(x)
    BY <1>1 DEF Administrators, IsAdmin, IsMember, HasAccount
  <2> QED
    BY <1>1, <1>2, <2>1 DEF AdministratorsRemain
<1>9. \A q \in Request \ {r} : UploadCounts(q)'
  BY <1>1, <1>2, FieldsTyped, CountsKept DEF Moves, UploadsCount
<1> QED
  BY <1>3, <1>4, <1>5, <1>6, <1>7, <1>8, <1>9 DEF UploadsCount

\* The loop is free: no upload is running.
LEMMA NobodyRuns ==
    ASSUME MembersIInv, loop = Idle, NEW q \in Request
    PROVE  requests[q].state # "running"
  BY LoopAssumption DEF MembersIInv, UploadsCount, UploadCounts

LEMMA AdmitKeeps ==
    ASSUME MembersIInv, NEW r \in Request, NEW s \in School, Admit(r, s)
    PROVE  MembersIInv'
<1> USE DEF MembersIInv
<1>1. /\ UNCHANGED <<tableVars, loop, transaction, report, lastId, deaths, historyVars>>
      /\ requests[r].state = "new" /\ schools[s] = "live"
      /\ requests' = [requests EXCEPT ![r].state = "admitted", ![r].school = s]
  BY DEF Admit
<1>2. /\ requests' \in [Request -> RequestRow]
      /\ requests'[r].state = "admitted" /\ requests'[r].school = s
      /\ \A q \in Request \ {r} : requests'[q] = requests[q]
  <2>1. /\ requests[r] \in RequestRow
        /\ requests'[r] = [requests[r] EXCEPT !.state = "admitted", !.school = s]
        /\ requests' = [q \in Request |-> requests'[q]]
        /\ \A q \in Request \ {r} : requests'[q] = requests[q]
    BY <1>1 DEF TablesTyped
  <2>2. /\ requests'[r] \in RequestRow
        /\ requests'[r].state = "admitted" /\ requests'[r].school = s
    BY <2>1 DEF RequestRow, State
  <2>3. \A q \in Request : requests'[q] \in RequestRow
    BY <2>1, <2>2 DEF TablesTyped
  <2> QED
    BY <2>1, <2>2, <2>3
<1>3. r \notin Open
  BY <1>1 DEF RowsFit
<1>4. Moves(r)
  BY <1>1, <1>2, <1>3 DEF Moves, TablesTyped, UploadsCount, UploadCounts, tableVars
<1>5. UploadCounts(r)'
  <2>1. UploadCounts(r)
    BY DEF UploadsCount
  <2> QED
    BY <1>1, <1>2, <2>1 DEF UploadCounts, IsBulk, tableVars, historyVars
<1> QED
  BY <1>1, <1>2, <1>4, <1>5, MovesKeep

LEMMA AnsweredAtOnceKeeps ==
    ASSUME MembersIInv, NEW r \in Request,
           \/ \E e \in Email : AddressRefused(r, e) \/ AddressAwaited(r, e)
           \/ \E u \in User : UserAwaited(r, u)
           \/ PlatformAlone(r)
    PROVE  MembersIInv'
<1> USE DEF MembersIInv
<1>1. PICK st \in {"answered", "blocked"} :
        /\ UNCHANGED <<users, associations, transaction, report, lastId, deaths, historyVars>>
        /\ UNCHANGED schools \/ OpensPlatform
        /\ loop = Idle /\ requests[r].state \in {"new", "admitted"}
        /\ loop' \in Request \cup {Idle}
        /\ StateSet(r, st)
  BY DEF AddressRefused, AddressAwaited, UserAwaited, PlatformAlone, Waits, Begins, Admitted,
         TablesTyped, StateSet, tableVars
<1>2. /\ requests' \in [Request -> RequestRow]
      /\ requests'[r].state = st /\ st \in State
      /\ \A q \in Request \ {r} : requests'[q] = requests[q]
  BY <1>1, StateSetFacts DEF State
<1>3. r \notin Open /\ report' = report /\ invited' = invited /\ users' = users
  BY <1>1 DEF RowsFit, historyVars
<1>4. Moves(r)
  BY <1>1, <1>2, <1>3, NobodyRuns DEF Moves, TablesTyped
<1>5. report'[r].total = 0 /\ \A u \in invited'[r] : users'[u] # NoUser
  BY <1>1, <1>3 DEF UploadsCount, UploadCounts
<1>6. UploadCounts(r)'
  BY <1>2, <1>5 DEF UploadCounts, IsBulk, RowsBalance
<1> QED
  BY <1>1, <1>2, <1>4, <1>6, MovesKeep

\* The counts start with the rows of the file.
LEMMA StartBulkKeeps ==
    ASSUME MembersIInv, NEW r \in Request, NEW rows \in [1 .. MaxRows -> Email],
           StartBulkInvite(r, rows)
    PROVE  MembersIInv'
<1> USE DEF MembersIInv
<1>1. rows \in Seq(Email) /\ Len(rows) \in Nat
  BY MembersAssumption
<1>2. /\ UNCHANGED <<users, schools, associations, transaction, lastId, deaths,
                     invited, torn, unguarded, late>>
      /\ loop = Idle /\ requests[r].state = "admitted" /\ loop' = r
      /\ requests' = [requests EXCEPT ![r].state = "running", ![r].rows = rows]
      /\ TotalSet(r, Len(rows))
  BY DEF StartBulkInvite, Admitted, tableVars, historyVars, TotalSet
<1>3. /\ requests' \in [Request -> RequestRow]
      /\ requests'[r].state = "running" /\ requests'[r].rows = rows
      /\ requests'[r].school = requests[r].school
      /\ \A q \in Request \ {r} : requests'[q] = requests[q]
  <2>1. /\ requests[r] \in RequestRow
        /\ requests'[r] = [requests[r] EXCEPT !.state = "running", !.rows = rows]
        /\ requests' = [q \in Request |-> requests'[q]]
        /\ \A q \in Request \ {r} : requests'[q] = requests[q]
    BY <1>2 DEF TablesTyped
  <2>2. /\ requests'[r] \in RequestRow
        /\ requests'[r].state = "running" /\ requests'[r].rows = rows
        /\ requests'[r].school = requests[r].school
    BY <1>1, <2>1 DEF RequestRow, State
  <2>3. \A q \in Request : requests'[q] \in RequestRow
    BY <2>1, <2>2 DEF TablesTyped
  <2> QED
    BY <2>1, <2>2, <2>3
<1>4. /\ report' \in [Request -> ReportRow]
      /\ report'[r].total = Len(rows)
      /\ report'[r].successful = report[r].successful /\ report'[r].failed = report[r].failed
      /\ \A q \in Request \ {r} : report'[q] = report[q]
  BY <1>1, <1>2, TotalSetFacts
<1>5. Moves(r)
  BY <1>2, <1>3, <1>4, NobodyRuns DEF Moves, RowsFit, historyVars, TablesTyped
<1>6. UploadCounts(r)'
  <2>1. /\ report'[r].successful = 0 /\ report'[r].failed = 0 /\ invited'[r] = {}
        /\ schools'[requests'[r].school] # "absent"
    BY <1>2, <1>3, <1>4 DEF UploadsCount, UploadCounts
  <2>2. Cardinality({}) = 0
    BY FS_EmptySet
  <2>3. RowsBalance(r)'
    BY <1>1, <1>3, <1>4, <2>1 DEF RowsBalance
  <2> QED
    BY <1>2, <1>3, <2>1, <2>2, <2>3 DEF UploadCounts
<1> QED
  BY <1>2, <1>3, <1>5, <1>6, MovesKeep DEF LateKnown

\* What a step of the row loop leaves of the rows.
RowTaken(r) == requests[r].rows # <<>> /\ NextRow(r)

LEMMA NextRowFacts ==
    ASSUME TablesTyped, NEW r \in Request, RowTaken(r)
    PROVE  /\ requests' \in [Request -> RequestRow]
           /\ requests'[r].state = "running" /\ requests'[r].school = requests[r].school
           /\ Len(requests'[r].rows) \in Nat
           /\ Len(requests[r].rows) = Len(requests'[r].rows) + 1
           /\ \A q \in Request \ {r} : requests'[q] = requests[q]
<1>1. /\ requests[r].rows \in Seq(Email)
      /\ requests[r] \in RequestRow /\ requests[r].rows # <<>>
  BY DEF TablesTyped, RequestRow, RowTaken
<1>2. /\ Tail(requests[r].rows) \in Seq(Email)
      /\ Len(requests[r].rows) \in Nat /\ Len(requests[r].rows) # 0
      /\ Len(Tail(requests[r].rows)) = Len(requests[r].rows) - 1
  BY <1>1
<1>3. requests'[r] = [requests[r] EXCEPT !.state = "running", !.rows = Tail(requests[r].rows)]
  BY DEF RowTaken, NextRow, TablesTyped
<1>4. /\ requests'[r] \in RequestRow
      /\ requests'[r].state = "running" /\ requests'[r].school = requests[r].school
      /\ requests'[r].rows = Tail(requests[r].rows)
  BY <1>1, <1>2, <1>3 DEF State, RequestRow
<1>5. /\ requests' = [q \in Request |-> requests'[q]]
      /\ \A q \in Request \ {r} : requests'[q] = requests[q]
  BY DEF RowTaken, NextRow, TablesTyped
<1>6. \A q \in Request : requests'[q] \in RequestRow
  BY <1>4, <1>5 DEF TablesTyped
<1> QED
  BY <1>2, <1>4, <1>5, <1>6

LEMMA RowCounted ==
    ASSUME TablesTyped, NEW r \in Request, RowsBalance(r),
           RowTaken(r), SuccessCounted(r) \/ FailureCounted(r)
    PROVE  RowsBalance(r)'
<1>1. report[r].successful \in Nat /\ report[r].failed \in Nat /\ report[r].total \in Nat
  BY FieldsTyped
<1>2. PICK left \in Nat : left = Len(requests[r].rows)
  BY NextRowFacts
<1>3. PICK next \in Nat : next = Len(requests'[r].rows)
  BY NextRowFacts
<1>4. left = next + 1
  BY <1>2, <1>3, NextRowFacts
<1>5. report[r].successful + report[r].failed + left = report[r].total
  BY <1>2 DEF RowsBalance
<1>6. report'[r].successful + report'[r].failed + next = report'[r].total
  <2>1. CASE SuccessCounted(r)
    <3>1. /\ report'[r].successful = report[r].successful + 1
          /\ report'[r].failed = report[r].failed /\ report'[r].total = report[r].total
      BY <2>1, SuccessFacts
    <3> QED
      BY <1>1, <1>4, <1>5, <3>1
  <2>2. CASE FailureCounted(r)
    <3>1. /\ report'[r].successful = report[r].successful
          /\ report'[r].failed = report[r].failed + 1 /\ report'[r].total = report[r].total
      BY <2>2, FailureFacts
    <3> QED
      BY <1>1, <1>4, <1>5, <3>1
  <2> QED
    BY <2>1, <2>2
<1> QED
  BY <1>3, <1>6 DEF RowsBalance

LEMMA BulkRowRefusedKeeps ==
    ASSUME MembersIInv, NEW r \in Request, BulkRowRefused(r)
    PROVE  MembersIInv'
<1> USE DEF MembersIInv
<1>1. /\ UNCHANGED <<users, schools, associations, transaction, lastId, deaths, loop,
                     invited, torn, unguarded, late>>
      /\ loop = r /\ requests[r].state = "running" /\ requests[r].rows # <<>>
      /\ FailureCounted(r) /\ RowTaken(r)
  BY DEF BulkRowRefused, RowTaken, Processing, tableVars, historyVars, FailureCounted
<1>2. /\ requests' \in [Request -> RequestRow]
      /\ requests'[r].state = "running" /\ requests'[r].school = requests[r].school
      /\ Len(requests'[r].rows) \in Nat /\ Len(requests[r].rows) = Len(requests'[r].rows) + 1
      /\ \A q \in Request \ {r} : requests'[q] = requests[q]
  BY <1>1, NextRowFacts
<1>3. /\ report' \in [Request -> ReportRow]
      /\ report'[r].failed = report[r].failed + 1
      /\ report'[r].total = report[r].total
      /\ report'[r].successful = report[r].successful
      /\ \A q \in Request \ {r} : report'[q] = report[q]
  BY <1>1, FailureFacts
<1>4. Moves(r)
  BY <1>1, <1>2, <1>3
     DEF Moves, RowsFit, UploadsCount, UploadCounts, historyVars, TablesTyped
<1>5. UploadCounts(r)'
  <2>1. UploadCounts(r)
    BY DEF UploadsCount
  <2>2. IsBulk(r)' => IsBulk(r) /\ RowsBalance(r)'
    BY <1>1, <1>3, <2>1, RowCounted DEF UploadCounts, IsBulk
  <2> QED
    BY <1>1, <1>2, <1>3, <2>1, <2>2 DEF UploadCounts
<1> QED
  BY <1>1, <1>2, <1>4, <1>5, MovesKeep DEF LateKnown

LEMMA BulkRowWaitsKeeps ==
    ASSUME MembersIInv, NEW r \in Request, BulkRowAwaited(r) \/ BulkCompleted(r)
    PROVE  MembersIInv'
<1> USE DEF MembersIInv
<1>1. PICK st \in {"blocked", "answered"} :
        /\ UNCHANGED <<users, schools, associations, transaction, report, lastId, deaths,
                       invited, torn, unguarded, late>>
        /\ loop = r /\ requests[r].state = "running"
        /\ loop' \in Request \cup {Idle}
        /\ StateSet(r, st) /\ (st = "answered" => requests[r].rows = <<>>)
  BY DEF BulkRowAwaited, BulkCompleted, Processing, tableVars, historyVars, TablesTyped, StateSet
<1>2. /\ requests' \in [Request -> RequestRow]
      /\ requests'[r].state = st /\ st \in State
      /\ requests'[r].rows = requests[r].rows
      /\ \A q \in Request \ {r} : requests'[q] = requests[q]
  BY <1>1, StateSetFacts DEF State
<1>3. \A q \in Request \ {r} : requests[q].state # "running"
  BY <1>1 DEF UploadsCount, UploadCounts
<1>4. Moves(r)
  BY <1>1, <1>2, <1>3 DEF Moves, RowsFit, tableVars, historyVars, TablesTyped
<1>5. UploadCounts(r)'
  <2>1. UploadCounts(r)
    BY DEF UploadsCount
  <2> QED
    BY <1>1, <1>2, <2>1 DEF UploadCounts, IsBulk, RowsBalance
<1> QED
  BY <1>1, <1>2, <1>4, <1>5, MovesKeep
-----------------------------------------------------------------------------
(* What begins an invitation. *)

\* The next user, whose row and school may be committed at once.
Founded(e, s) ==
    /\ schools[s] = "absent"
    /\ users' = [users EXCEPT ![lastId'] = [email |-> e, deleted |-> FALSE]]
    /\ schools' = [schools EXCEPT ![s] = "live"]

\* What grows and never shrinks.
TablesGrow ==
    /\ \A u \in User : users[u] # NoUser => users'[u] # NoUser
    /\ \A s \in School : schools[s] # "absent" => schools'[s] # "absent"

LEMMA InsertFacts ==
    ASSUME MembersIInv, NEW r \in Request, NEW e \in Email, NEW role \in Role, NEW s \in School,
           Inserts(r, e, role, s), requests[r].state # "mailing"
    PROVE  /\ lastId' = lastId + 1 /\ lastId' \in User /\ loop' = Idle
           /\ requests' \in [Request -> RequestRow]
           /\ requests'[r].state = "mailing" /\ requests'[r].school = s
           /\ requests'[r].rows = requests[r].rows
           /\ \A q \in Request \ {r} : requests'[q] = requests[q]
           /\ transaction' \in [Request -> Transaction \cup {NoTransaction}]
           /\ transaction'[r].user = lastId' /\ transaction'[r].email = e
           /\ transaction'[r].role = role /\ transaction'[r].school = s
           /\ \A q \in Request \ {r} : transaction'[q] = transaction[q]
           /\ r \notin Open /\ Open' = Open \cup {r}
           /\ users[lastId'] = NoUser /\ \A q \in Open : transaction[q].user # lastId'
           /\ ~ Used(e) /\ ~ Locked(e)
<1> USE DEF MembersIInv
<1>1. lastId' = lastId + 1 /\ lastId' \in User /\ loop' = Idle
  BY FieldsTyped DEF Inserts, User
<1>2. [user |-> lastId + 1, email |-> e, role |-> role, school |-> s] \in Transaction
  BY <1>1 DEF Inserts, Transaction
<1>3. /\ transaction' \in [Request -> Transaction \cup {NoTransaction}]
      /\ transaction'[r] \in Transaction
      /\ transaction'[r].user = lastId' /\ transaction'[r].email = e
      /\ transaction'[r].role = role /\ transaction'[r].school = s
      /\ \A q \in Request \ {r} : transaction'[q] = transaction[q]
  BY <1>1, <1>2 DEF Inserts, TablesTyped
<1>4. r \notin Open
  BY DEF RowsFit
<1>5. Open' = Open \cup {r}
  BY <1>3, <1>4, RowsDiffer DEF Open
<1>6. /\ requests' \in [Request -> RequestRow]
      /\ requests'[r].state = "mailing" /\ requests'[r].school = s
      /\ requests'[r].rows = requests[r].rows
      /\ \A q \in Request \ {r} : requests'[q] = requests[q]
  <2>1. /\ requests[r] \in RequestRow
        /\ requests'[r] = [requests[r] EXCEPT !.state = "mailing", !.school = s]
        /\ requests' = [q \in Request |-> requests'[q]]
        /\ \A q \in Request \ {r} : requests'[q] = requests[q]
    BY DEF Inserts, TablesTyped
  <2>2. /\ requests'[r] \in RequestRow
        /\ requests'[r].state = "mailing" /\ requests'[r].school = s
        /\ requests'[r].rows = requests[r].rows
    BY <2>1 DEF RequestRow, State
  <2>3. \A q \in Request : requests'[q] \in RequestRow
    BY <2>1, <2>2 DEF TablesTyped
  <2> QED
    BY <2>1, <2>2, <2>3
<1>7. users[lastId'] = NoUser /\ \A q \in Open : transaction[q].user # lastId'
  BY <1>1, FieldsTyped DEF RowsFit, User
<1> QED
  BY <1>1, <1>3, <1>4, <1>5, <1>6, <1>7 DEF Inserts, Free

LEMMA InsertsKeep ==
    ASSUME MembersIInv, NEW r \in Request, NEW e \in Email, NEW role \in Role, NEW s \in School,
           Inserts(r, e, role, s), requests[r].state # "mailing",
           UNCHANGED <<associations, report, deaths, historyVars>>,
           \/ UNCHANGED <<users, schools>> /\ (role = "member" => schools[s] # "absent")
           \/ UNCHANGED users /\ OpensPlatform /\ s = Platform
           \/ Founded(e, s) /\ role = "school_admin",
           IsBulk(r) => role = "member" /\ requests[r].rows # <<>>,
           schools[s] = "deleted" /\ s # Platform => r \in late,
           \A q \in Request \ {r} : requests[q].state # "running"
    PROVE  MembersIInv'
<1> DEFINE n == lastId'
<1> USE DEF MembersIInv
<1>1. /\ lastId' = lastId + 1 /\ n \in User /\ loop' = Idle
      /\ requests' \in [Request -> RequestRow]
      /\ requests'[r].state = "mailing" /\ requests'[r].school = s
      /\ requests'[r].rows = requests[r].rows
      /\ \A q \in Request \ {r} : requests'[q] = requests[q]
  BY InsertFacts
<1>2. /\ transaction' \in [Request -> Transaction \cup {NoTransaction}]
      /\ transaction'[r].user = n /\ transaction'[r].email = e
      /\ transaction'[r].role = role /\ transaction'[r].school = s
      /\ \A q \in Request \ {r} : transaction'[q] = transaction[q]
      /\ r \notin Open /\ Open' = Open \cup {r} /\ Open \subseteq Request
      /\ users[n] = NoUser /\ \A q \in Open : transaction[q].user # n
  BY InsertFacts DEF Open
<1>3. /\ \A u \in User : u # n => users'[u] = users[u]
      /\ \/ users'[n] = NoUser /\ UNCHANGED users
         \/ /\ users'[n] # NoUser /\ users'[n].email = e /\ users'[n].deleted = FALSE
            /\ role = "school_admin" /\ schools'[s] = "live"
      /\ users' \in [User -> UserRow \cup {NoUser}]
  <2>1. /\ [email |-> e, deleted |-> FALSE] \in UserRow
        /\ [email |-> e, deleted |-> FALSE].email = e
        /\ [email |-> e, deleted |-> FALSE].deleted = FALSE
    BY DEF UserRow
  <2> QED
    BY <1>1, <1>2, <2>1, RowsDiffer DEF Founded, TablesTyped
<1>4. /\ \A x \in School : \/ schools'[x] = schools[x]
                           \/ /\ schools[x] = "absent" /\ schools'[x] = "live" /\ x = s
                              /\ s = Platform \/ role = "school_admin"
      /\ role = "member" => schools'[s] # "absent"
      /\ schools' \in [School -> {"absent", "live", "deleted"}]
  BY MembersAssumption DEF Founded, TablesTyped, OpensPlatform
<1>5. TablesGrow
  BY <1>2, <1>3, <1>4 DEF TablesGrow
<1>6. UNCHANGED <<associations, report, deaths, invited, torn, unguarded, late>>
  BY DEF historyVars
<1> HIDE DEF n
<1>7. TablesTyped'
  BY <1>1, <1>2, <1>3, <1>4, <1>6 DEF TablesTyped, n
<1>8. RowsFit'
  <2>1. \A q \in Request : requests'[q].state = "mailing" <=> q \in Open'
    BY <1>1, <1>2 DEF RowsFit
  <2>2. \A u \in User : users'[u] # NoUser => u <= lastId'
    BY <1>1, <1>2, <1>3, FieldsTyped DEF RowsFit, n, User
  <2>3. \A u \in User, x \in School : associations'[u][x] # NoMember => users'[u] # NoUser
    BY <1>5, <1>6 DEF RowsFit, TablesGrow
  <2>4. ASSUME NEW q \in Open'
        PROVE  /\ transaction'[q].user <= lastId'
               /\ transaction'[q].role = "member" =>
                     /\ users'[transaction'[q].user] = NoUser
                     /\ schools'[transaction'[q].school] # "absent"
               /\ schools'[transaction'[q].school] = "absent" =>
                     users'[transaction'[q].user] = NoUser
               /\ requests'[q].school = transaction'[q].school
    <3>1. CASE q = r
      <4>1. transaction'[q].user = n /\ n <= lastId' /\ requests'[q].school = s
        BY <3>1, <1>1, <1>2 DEF n, User
      <4>2. /\ role = "member" => users'[n] = NoUser /\ schools'[s] # "absent"
            /\ schools'[s] = "absent" => users'[n] = NoUser
        BY <1>3, <1>4
      <4> QED
        BY <3>1, <4>1, <4>2, <1>2
    <3>2. CASE q # r
      <4>1. /\ q \in Open /\ transaction'[q] = transaction[q] /\ requests'[q] = requests[q]
            /\ transaction[q].user \in User /\ transaction[q].school \in School
        BY <3>2, <1>1, <1>2, FieldsTyped
      <4>2. transaction[q].user <= lastId' /\ transaction[q].user # n
        <5>1. transaction[q].user <= lastId /\ lastId \in Nat /\ transaction[q].user \in Nat
          BY <4>1, FieldsTyped DEF RowsFit, User
        <5> QED
          BY <5>1, <4>1, <1>1, <1>2
      <4>3. /\ transaction[q].role = "member" =>
                 users[transaction[q].user] = NoUser /\ schools[transaction[q].school] # "absent"
            /\ schools[transaction[q].school] = "absent" => users[transaction[q].user] = NoUser
            /\ requests[q].school = transaction[q].school
        BY <4>1 DEF RowsFit
      <4> QED
        BY <4>1, <4>2, <4>3, <1>3, <1>4
    <3> QED
      BY <3>1, <3>2
  <2>5. \A p, q \in Open' : transaction'[p].user = transaction'[q].user => p = q
    BY <1>2 DEF RowsFit
  <2> QED
    BY <2>1, <2>2, <2>3, <2>4, <2>5 DEF RowsFit
<1>9. AddressesDiffer'
  <2>1. /\ \A u \in User : users[u].email # e
        /\ \A q \in Open : users[transaction[q].user] = NoUser => transaction[q].email # e
    BY InsertFacts DEF Used, Locked
  <2>2. \A u, v \in User : u # v /\ users'[u] # NoUser => users'[u].email # users'[v].email
    BY <1>3, <2>1 DEF AddressesDiffer
  <2>3. \A q \in Open' : users'[transaction'[q].user] = NoUser =>
            \A u \in User : users'[u].email # transaction'[q].email
    <3> SUFFICES ASSUME NEW q \in Open', users'[transaction'[q].user] = NoUser, NEW u \in User
                 PROVE  users'[u].email # transaction'[q].email
      OBVIOUS
    <3>1. CASE q = r
      BY <3>1, <1>2, <1>3, <2>1
    <3>2. CASE q # r
      <4>1. /\ q \in Open /\ transaction'[q] = transaction[q]
            /\ users[transaction[q].user] = NoUser
        BY <3>2, <1>2, <1>3, FieldsTyped
      <4>2. users[u].email # transaction[q].email /\ transaction[q].email # e
        BY <4>1, <2>1 DEF AddressesDiffer, Used
      <4> QED
        BY <4>1, <4>2, <1>3
    <3> QED
      BY <3>1, <3>2
  <2>4. \A p, q \in Open' :
          /\ users'[transaction'[p].user] = NoUser /\ users'[transaction'[q].user] = NoUser
          /\ transaction'[p].email = transaction'[q].email
          => p = q
    BY <1>2, <1>3, <2>1, FieldsTyped, SMTT(60) DEF AddressesDiffer
  <2> QED
    BY <2>2, <2>3, <2>4 DEF AddressesDiffer, Used
<1>10. UploadsCount'
  <2>1. \A q \in Request \ {r} : UploadCounts(q)'
    BY <1>1, <1>2, <1>5, <1>6, FieldsTyped, CountsKept DEF UploadsCount, TablesGrow, TablesTyped
  <2>2. UploadCounts(r)
    BY DEF UploadsCount
  <2>3. RowsBalance(r)' <=> RowsBalance(r)
    BY <1>1, <1>6 DEF RowsBalance
  <2>4. UploadCounts(r)'
    BY <1>1, <1>2, <1>5, <1>6, <2>2, <2>3 DEF UploadCounts, IsBulk, TablesGrow, TablesTyped
  <2> QED
    BY <2>1, <2>4 DEF UploadsCount
<1>11. LateKnown'
  <2> SUFFICES ASSUME NEW q \in Request, requests'[q].state \in {"admitted", "running", "mailing"},
                      requests'[q].school # Platform, schools'[requests'[q].school] = "deleted"
               PROVE  q \in late'
    BY DEF LateKnown
  <2>1. schools[requests'[q].school] = "deleted"
    BY <1>1, <1>4, <1>7 DEF TablesTyped, RequestRow
  <2>2. CASE q = r
    BY <2>1, <2>2, <1>1, <1>6
  <2>3. CASE q # r
    BY <2>1, <2>3, <1>1, <1>6 DEF LateKnown
  <2> QED
    BY <2>2, <2>3
<1>12. MembersFollowSchools'
  <2>1. \A u \in User, x \in School \ {Platform} :
           schools'[x] = "deleted" /\ IsMember(u, x)' => \E q \in late' : u \in invited'[q]
    BY <1>4, <1>6 DEF MembersFollowSchools, IsMember
  <2>2. ASSUME NEW u \in User, HasAccount(u)', u \notin torn'
        PROVE  \/ \E x \in School : associations'[u][x] # NoMember
               \/ \E q \in Open' : transaction'[q].user = u
    <3>1. CASE u = n
      BY <3>1, <1>2
    <3>2. CASE u # n
      <4>1. \/ \E x \in School : associations[u][x] # NoMember
            \/ \E q \in Open : transaction[q].user = u
        BY <2>2, <3>2, <1>3, <1>6 DEF MembersFollowSchools, HasAccount
      <4> QED
        BY <4>1, <1>2, <1>6
    <3> QED
      BY <3>1, <3>2
  <2> QED
    BY <2>1, <2>2 DEF MembersFollowSchools
<1>13. AdministratorsRemain'
  <2>1. ASSUME NEW x \in School
        PROVE  Administrators(x) \subseteq Administrators(x)'
    <3> SUFFICES ASSUME NEW u \in Administrators(x) PROVE u \in Administrators(x)'
      OBVIOUS
    <3>1. u \in User /\ (IsAdmin(u, x) => u # n /\ IsAdmin(u, x)')
      BY <1>2, <1>6 DEF Administrators, IsAdmin, IsMember, RowsFit
    <3>2. u # n
      BY <1>2, <3>1 DEF Administrators
    <3>3. HasAccount(u)' = HasAccount(u) /\ users'[u] = users[u]
      BY <3>1, <3>2, <1>3 DEF HasAccount
    <3>4. \A q \in Open : q \in Open' /\ transaction'[q] = transaction[q]
      BY <1>2
    <3> QED
      BY <3>1, <3>3, <3>4, AdministratorStays
  <2>2. ASSUME role = "school_admin", users'[n] = NoUser \/ ~ users'[n].deleted
        PROVE  n \in Administrators(s)'
    <3>1. r \in Open' /\ n \in User
      BY <1>1, <1>2
    <3> QED
      BY <2>2, <3>1, <1>2 DEF Administrators, HasAccount
  <2>3. users'[n] = NoUser \/ ~ users'[n].deleted
    BY <1>3
  <2>4. \A x \in School : x \notin LeftAlone({})
    BY DEF LeftAlone
  <2>5. ASSUME NEW x \in School \ {Platform}, schools'[x] = "live", schools[x] # "live"
        PROVE  Administrators(x)' # {}
    BY <2>5, <2>2, <2>3, <1>4
  <2> QED
    BY <2>1, <2>4, <2>5, <1>6, AdministratorsLeft, Zenon
<1> QED
  BY <1>7, <1>8, <1>9, <1>10, <1>11, <1>12, <1>13

LEMMA BeginnersKeep ==
    ASSUME MembersIInv, NEW r \in Request, NEW e \in Email,
           \/ \E role \in Role : InviteUser(r, e, role)
           \/ InviteStaff(r, e)
           \/ \E s \in School : SignUp(r, e, s) \/ CreateSchool(r, e, s)
    PROVE  MembersIInv'
<1>1. /\ loop = Idle /\ requests[r].state \in {"new", "admitted"}
      /\ \A q \in Request \ {r} : requests[q].state # "running"
      /\ ~ IsBulk(r)
  BY NobodyRuns
     DEF InviteUser, InviteStaff, SignUp, CreateSchool, Begins, Admitted, MembersIInv,
         UploadsCount, UploadCounts, IsBulk
<1>2. "member" \in Role /\ "school_admin" \in Role /\ Platform \in School
  BY MembersAssumption DEF Role
<1>3. ASSUME NEW role \in Role, InviteUser(r, e, role) PROVE MembersIInv'
  <2> DEFINE s == requests[r].school
  <2>1. s \in School /\ requests[r].state = "admitted"
    BY <1>3, FieldsTyped DEF MembersIInv, InviteUser, Admitted
  <2>2. schools[s] # "absent" /\ (schools[s] = "deleted" /\ s # Platform => r \in late)
    BY <2>1 DEF MembersIInv, UploadsCount, UploadCounts, LateKnown
  <2>3. /\ Inserts(r, e, role, s)
        /\ UNCHANGED <<users, schools, associations, report, deaths, historyVars>>
    BY <1>3 DEF InviteUser, tableVars
  <2> HIDE DEF s
  <2> QED
    BY <1>1, <1>3, <2>1, <2>2, <2>3, InsertsKeep
<1>4. CASE InviteStaff(r, e)
  BY <1>1, <1>2, <1>4, InsertsKeep DEF InviteStaff
<1>5. ASSUME NEW s \in School, SignUp(r, e, s) PROVE MembersIInv'
  BY <1>1, <1>2, <1>5, InsertsKeep DEF SignUp, Unfounded, tableVars
<1>6. ASSUME NEW s \in School, CreateSchool(r, e, s) PROVE MembersIInv'
  BY <1>1, <1>2, <1>6, InsertsKeep DEF CreateSchool, Unfounded, Founded
<1> QED
  BY <1>3, <1>4, <1>5, <1>6

LEMMA BulkRowInvitedKeeps ==
    ASSUME MembersIInv, NEW r \in Request, BulkRowInvited(r)
    PROVE  MembersIInv'
<1>1. /\ loop = r /\ requests[r].state = "running" /\ requests[r].rows # <<>>
      /\ Inserts(r, Address(r), "member", requests[r].school)
      /\ UNCHANGED <<tableVars, report, deaths, historyVars>>
  BY DEF BulkRowInvited, Processing
<1>2. Address(r) \in Email /\ requests[r].school \in School /\ "member" \in Role
  BY <1>1, FieldsTyped DEF MembersIInv, Address, Role
<1>3. /\ schools[requests[r].school] # "absent"
      /\ schools[requests[r].school] = "deleted" /\ requests[r].school # Platform => r \in late
      /\ \A q \in Request \ {r} : requests[q].state # "running"
  BY <1>1 DEF MembersIInv, UploadsCount, UploadCounts, LateKnown
<1> QED
  BY <1>1, <1>2, <1>3, InsertsKeep DEF tableVars

-----------------------------------------------------------------------------
(* Requests that are answered at once. *)

Answers(r) ==
    /\ loop = Idle /\ requests[r].state = "new"
    /\ StateSet(r, "answered")
    /\ UNCHANGED <<loop, transaction, report, invited>>

LEMMA AnswersFacts ==
    ASSUME MembersIInv, NEW r \in Request, Answers(r), TablesGrow
    PROVE  /\ requests' \in [Request -> RequestRow]
           /\ Open' = Open
           /\ \A q \in Request : requests'[q].state = "mailing" <=> q \in Open'
           /\ \A q \in Request : requests'[q].state # "running"
           /\ r \notin Open /\ requests'[r].state = "answered"
           /\ \A q \in Request : q # r => requests'[q] = requests[q]
           /\ UploadsCount'
<1> USE DEF MembersIInv
<1>1. /\ requests' \in [Request -> RequestRow]
      /\ requests'[r].state = "answered"
      /\ \A q \in Request \ {r} : requests'[q] = requests[q]
      /\ Open' = Open /\ report' = report /\ invited' = invited /\ transaction' = transaction
  BY StateSetFacts DEF Answers, State, Open
<1>2. \A q \in Request : requests[q].state # "running"
  BY NobodyRuns DEF Answers
<1>3. \A q \in Request : requests'[q].state = "mailing" <=> q \in Open'
  BY <1>1 DEF RowsFit, Answers
<1>4. \A q \in Request \ {r} : UploadCounts(q)'
  BY <1>1, <1>2, FieldsTyped, CountsKept DEF UploadsCount, TablesGrow, TablesTyped
<1>5. UploadCounts(r)'
  <2>1. report'[r].total = 0 /\ invited'[r] = {}
    BY <1>1 DEF UploadsCount, UploadCounts, Answers
  <2> QED
    BY <1>1, <2>1 DEF UploadCounts, IsBulk
<1> QED
  BY <1>1, <1>2, <1>3, <1>4, <1>5 DEF UploadsCount, RowsFit, Answers

\* A row takes an address that is free.
LEMMA AddressGiven ==
    ASSUME MembersIInv, NEW e \in Email, Free(e),
           NEW u \in User, users'[u] # NoUser, users'[u].email = e,
           \A v \in User : v # u => users'[v] = users[v],
           transaction' = transaction
    PROVE  AddressesDiffer'
<1> USE DEF MembersIInv
<1>1. /\ \A v \in User : users[v].email # e
      /\ \A q \in Open : users[transaction[q].user] = NoUser => transaction[q].email # e
      /\ Open' = Open
  BY DEF Free, Used, Locked, Open
<1>2. \A q \in Open : users'[transaction[q].user] = NoUser => users[transaction[q].user] = NoUser
  BY FieldsTyped
<1>3. \A v, w \in User : v # w /\ users'[v] # NoUser => users'[v].email # users'[w].email
  BY <1>1 DEF AddressesDiffer
<1>4. \A q \in Open : users'[transaction[q].user] = NoUser =>
          \A v \in User : users'[v].email # transaction[q].email
  BY <1>1, <1>2 DEF AddressesDiffer, Used
<1>5. \A p, q \in Open :
          /\ users'[transaction[p].user] = NoUser /\ users'[transaction[q].user] = NoUser
          /\ transaction[p].email = transaction[q].email
          => p = q
  BY <1>2 DEF AddressesDiffer
<1> QED
  BY <1>1, <1>3, <1>4, <1>5 DEF AddressesDiffer, Used

\* create_school dies after its first commit, or a super admin is there at once.
LEMMA RowAddedKeeps ==
    ASSUME MembersIInv, NEW r \in Request, NEW e \in Email,
           CreateSchoolDies(r, e) \/ AddSuperAdmin(r, e)
    PROVE  MembersIInv'
<1> DEFINE n == lastId'
           row == [role |-> "member", deleted |-> FALSE]
<1> USE DEF MembersIInv
<1>1. /\ loop = Idle /\ requests[r].state = "new" /\ StateSet(r, "answered")
      /\ Free(e)
      /\ lastId' = lastId + 1 /\ lastId < MaxUsers
      /\ users' = [users EXCEPT ![n] = [email |-> e, deleted |-> FALSE]]
      /\ \/ UNCHANGED associations /\ torn' = torn \cup {n}
         \/ associations' = [associations EXCEPT ![n][Platform] = row] /\ UNCHANGED torn
      /\ UNCHANGED schools \/ OpensPlatform
      /\ UNCHANGED <<loop, transaction, report, invited, unguarded, late>>
      /\ deaths' \in 0 .. MaxDeaths
  BY MembersAssumption
     DEF CreateSchoolDies, AddSuperAdmin, Begins, StateSet, TablesTyped, historyVars
<1>2. /\ n \in User /\ users[n] = NoUser /\ n = lastId + 1
      /\ \A q \in Open : transaction[q].user # n
      /\ \A x \in School : associations[n][x] = NoMember
  BY <1>1, FieldsTyped DEF User, RowsFit
<1>3. /\ users'[n] # NoUser /\ users'[n].email = e /\ users'[n].deleted = FALSE
      /\ \A v \in User : v # n => users'[v] = users[v]
      /\ users' \in [User -> UserRow \cup {NoUser}]
  <2>1. /\ [email |-> e, deleted |-> FALSE] \in UserRow
        /\ [email |-> e, deleted |-> FALSE].email = e
        /\ [email |-> e, deleted |-> FALSE].deleted = FALSE
    BY DEF UserRow
  <2> QED
    BY <1>1, <1>2, <2>1, RowsDiffer DEF TablesTyped
<1>4. /\ associations' \in [User -> [School -> Member \cup {NoMember}]]
      /\ \A u \in User, x \in School :
           u # n \/ x # Platform => associations'[u][x] = associations[u][x]
      /\ n \in torn' \/ associations'[n][Platform] # NoMember
      /\ torn \subseteq torn' /\ torn' \subseteq User
  <2>1. row \in Member /\ row # NoMember /\ Platform \in School
    <3>1. row \in Member
      BY DEF Member, Role
    <3> QED
      BY <3>1, RowsDiffer, MembersAssumption
  <2>2. torn \subseteq torn' /\ torn' \subseteq User
    BY <1>1, <1>2 DEF TablesTyped
  <2> HIDE DEF row
  <2>3. CASE associations' = associations /\ torn' = torn \cup {n}
    BY <1>2, <2>2, <2>3 DEF TablesTyped
  <2>4. CASE associations' = [associations EXCEPT ![n][Platform] = row]
    <3>1. associations \in [User -> [School -> Member \cup {NoMember}]]
      BY DEF TablesTyped
    <3> HIDE DEF n
    <3>2. associations'[n][Platform] = row
      BY <1>2, <2>1, <2>4, <3>1
    <3>3. associations' \in [User -> [School -> Member \cup {NoMember}]]
      BY <1>2, <2>1, <2>4, <3>1
    <3>4. \A u \in User, x \in School :
             u # n \/ x # Platform => associations'[u][x] = associations[u][x]
      BY <1>2, <2>1, <2>4, <3>1
    <3> QED
      BY <2>1, <2>2, <3>2, <3>3, <3>4
  <2> QED
    BY <1>1, <2>3, <2>4
<1> HIDE DEF n, row
<1>5. /\ schools' \in [School -> {"absent", "live", "deleted"}]
      /\ \A x \in School : x # Platform => schools'[x] = schools[x]
      /\ \A x \in School : schools[x] # "absent" => schools'[x] = schools[x]
      /\ \A x \in School : schools'[x] = "deleted" => schools[x] = "deleted"
  BY <1>1, PlatformOpened
<1>6. TablesGrow
  BY <1>2, <1>3, <1>5 DEF TablesGrow
<1>7. /\ requests' \in [Request -> RequestRow]
      /\ Open' = Open
      /\ \A q \in Request : requests'[q].state = "mailing" <=> q \in Open'
      /\ \A q \in Request : requests'[q].state # "running"
      /\ r \notin Open /\ requests'[r].state = "answered"
      /\ \A q \in Request : q # r => requests'[q] = requests[q]
      /\ UploadsCount'
  BY <1>1, <1>6, AnswersFacts DEF Answers
<1>8. TablesTyped'
  BY <1>1, <1>2, <1>3, <1>4, <1>5, <1>7 DEF TablesTyped, n
<1>9. RowsFit'
  <2>1. lastId' \in Nat /\ lastId \in Nat /\ lastId <= lastId' /\ n <= lastId'
    BY <1>1, FieldsTyped DEF n
  <2>2. \A u \in User : users'[u] # NoUser => u <= lastId'
    BY <1>3, <2>1 DEF RowsFit, User
  <2>3. \A u \in User, x \in School : associations'[u][x] # NoMember => users'[u] # NoUser
    BY <1>3, <1>4, <1>6 DEF RowsFit, TablesGrow
  <2>4. \A q \in Open : transaction[q].user <= lastId'
    BY <2>1, FieldsTyped DEF RowsFit, User
  <2>5. ASSUME NEW q \in Open
        PROVE  /\ transaction[q].role = "member" =>
                    /\ users'[transaction[q].user] = NoUser
                    /\ schools'[transaction[q].school] # "absent"
               /\ schools'[transaction[q].school] = "absent" =>
                    users'[transaction[q].user] = NoUser
               /\ requests'[q].school = transaction[q].school
    <3>1. /\ users'[transaction[q].user] = users[transaction[q].user]
          /\ schools[transaction[q].school] # "absent" => schools'[transaction[q].school] # "absent"
          /\ requests'[q] = requests[q]
      BY <1>2, <1>3, <1>5, <1>7, FieldsTyped
    <3> QED
      BY <3>1 DEF RowsFit
  <2> QED
    BY <1>1, <1>7, <2>2, <2>3, <2>4, <2>5 DEF RowsFit
<1>10. AddressesDiffer'
  BY <1>1, <1>2, <1>3, AddressGiven
<1>11. LateKnown' /\ MembersFollowSchools'
  <2>1. LateKnown'
    <3> SUFFICES ASSUME NEW q \in Request, q # r,
                        requests[q].state \in {"admitted", "running", "mailing"},
                        requests[q].school # Platform, schools'[requests[q].school] = "deleted"
                 PROVE  q \in late
      BY <1>1, <1>7 DEF LateKnown
    <3>1. requests[q].school \in School
      BY FieldsTyped
    <3> QED
      BY <3>1, <1>5 DEF LateKnown
  <2>2. ASSUME NEW u \in User, HasAccount(u)', u \notin torn'
        PROVE  \/ \E s \in School : associations'[u][s] # NoMember
               \/ \E q \in Open' : transaction'[q].user = u
    <3>1. CASE u = n
      BY <2>2, <3>1, <1>4, MembersAssumption
    <3>2. CASE u # n
      <4>1. \/ \E s \in School : associations[u][s] # NoMember
            \/ \E q \in Open : transaction[q].user = u
        BY <2>2, <3>2, <1>3, <1>4 DEF MembersFollowSchools, HasAccount
      <4> QED
        BY <4>1, <3>2, <1>1, <1>4, <1>7
    <3> QED
      BY <3>1, <3>2
  <2>3. \A u \in User, s \in School \ {Platform} :
            schools'[s] = "deleted" /\ IsMember(u, s)' => \E q \in late' : u \in invited'[q]
    BY <1>1, <1>4, <1>5 DEF MembersFollowSchools, IsMember
  <2> QED
    BY <2>1, <2>2, <2>3 DEF MembersFollowSchools
<1>12. AdministratorsRemain'
  <2>1. ASSUME NEW x \in School \ {Platform}
        PROVE  Administrators(x) \subseteq Administrators(x)'
    <3> SUFFICES ASSUME NEW u \in Administrators(x) PROVE u \in Administrators(x)'
      OBVIOUS
    <3>1. u \in User /\ u # n
      BY <1>2 DEF Administrators, IsAdmin, IsMember
    <3>2. /\ IsAdmin(u, x)' = IsAdmin(u, x)
          /\ HasAccount(u)' = HasAccount(u) /\ users'[u] = users[u]
      BY <3>1, <1>3, <1>4 DEF IsAdmin, IsMember, HasAccount
    <3>3. \A q \in Open : q \in Open' /\ transaction'[q] = transaction[q]
      BY <1>1, <1>7
    <3> QED
      BY <3>2, <3>3, AdministratorStays
  <2>2. \A x \in School : x \notin LeftAlone({})
    BY DEF LeftAlone
  <2> QED
    BY <1>1, <1>5, <2>1, <2>2, AdministratorsLeft
<1> QED
  BY <1>7, <1>8, <1>9, <1>10, <1>11, <1>12

LEMMA ChangeEmailKeeps ==
    ASSUME MembersIInv, NEW r \in Request, NEW u \in User, NEW e \in Email,
           ChangeEmail(r, u, e)
    PROVE  MembersIInv'
<1> USE DEF MembersIInv
<1>1. /\ loop = Idle /\ requests[r].state = "new" /\ StateSet(r, "answered")
      /\ Free(e)
      /\ users' = [users EXCEPT ![u].email = e]
      /\ UNCHANGED <<schools, associations, loop, transaction, report, lastId, deaths,
                     invited, torn, unguarded, late>>
  BY DEF ChangeEmail, Begins, StateSet, historyVars
<1>2. users[u] \in UserRow
  BY FieldsTyped DEF ChangeEmail, HasAccount
<1>3. /\ users'[u] \in UserRow /\ users'[u].email = e /\ users'[u].deleted = users[u].deleted
      /\ \A v \in User : v # u => users'[v] = users[v]
      /\ users' \in [User -> UserRow \cup {NoUser}]
  <2>1. /\ users'[u] = [users[u] EXCEPT !.email = e]
        /\ users' = [v \in User |-> users'[v]]
        /\ \A v \in User : v # u => users'[v] = users[v]
    BY <1>1 DEF TablesTyped
  <2>2. /\ users'[u] \in UserRow /\ users'[u].email = e
        /\ users'[u].deleted = users[u].deleted
    BY <1>2, <2>1 DEF UserRow
  <2>3. \A v \in User : users'[v] \in UserRow \cup {NoUser}
    BY <2>1, <2>2 DEF TablesTyped
  <2> QED
    BY <2>1, <2>2, <2>3
<1>4. /\ \A v \in User : users'[v] = NoUser <=> users[v] = NoUser
      /\ \A v \in User : HasAccount(v)' <=> HasAccount(v)
  BY <1>2, <1>3, RowsDiffer DEF HasAccount
<1>5. TablesGrow
  BY <1>1, <1>4 DEF TablesGrow
<1>6. /\ requests' \in [Request -> RequestRow]
      /\ Open' = Open
      /\ \A q \in Request : requests'[q].state = "mailing" <=> q \in Open'
      /\ \A q \in Request : requests'[q].state # "running"
      /\ r \notin Open /\ requests'[r].state = "answered"
      /\ \A q \in Request : q # r => requests'[q] = requests[q]
      /\ UploadsCount'
  BY <1>1, <1>5, AnswersFacts DEF Answers
<1>7. TablesTyped'
  BY <1>1, <1>3, <1>6 DEF TablesTyped
<1>8. RowsFit'
  BY <1>1, <1>4, <1>6, FieldsTyped DEF RowsFit
<1>9. AddressesDiffer'
  BY <1>1, <1>3, RowsDiffer, AddressGiven
<1>10. LateKnown' /\ MembersFollowSchools'
  BY <1>1, <1>4, <1>6 DEF LateKnown, MembersFollowSchools, IsMember
<1>11. AdministratorsRemain'
  <2>1. \A x \in School : Administrators(x)' = Administrators(x)
    BY <1>1, <1>4, <1>6 DEF Administrators, IsAdmin, IsMember
  <2> QED
    BY <1>1, <2>1 DEF AdministratorsRemain
<1> QED
  BY <1>6, <1>7, <1>8, <1>9, <1>10, <1>11

-----------------------------------------------------------------------------
(* What ends an invitation. *)

\* User n joins school s: what a commit of r makes of the tables.
Joins(r, n, s) ==
    /\ n = transaction[r].user /\ s = transaction[r].school
    /\ n \in User /\ s \in School
    /\ users' \in [User -> UserRow \cup {NoUser}] /\ users'[n] # NoUser
    /\ users[n] # NoUser => users'[n] = users[n]
    /\ users[n] = NoUser =>
          users'[n].email = transaction[r].email /\ users'[n].deleted = FALSE
    /\ \A u \in User : u # n => users'[u] = users[u]
    /\ schools' \in [School -> {"absent", "live", "deleted"}]
    /\ schools'[s] = IF schools[s] = "absent" THEN "live" ELSE schools[s]
    /\ \A x \in School : x # s => schools'[x] = schools[x]
    /\ associations' \in [User -> [School -> Member \cup {NoMember}]]
    /\ associations'[n][s] # NoMember /\ ~ associations'[n][s].deleted
    /\ associations'[n][s].role = transaction[r].role
    /\ \A u \in User, x \in School :
          u # n \/ x # s => associations'[u][x] = associations[u][x]
    /\ invited' \in [Request -> SUBSET User]
    /\ invited'[r] = invited[r] \cup {n}
    /\ \A q \in Request : invited[q] \subseteq invited'[q]
    /\ \A q \in Request : q # r => invited'[q] = invited[q]
    /\ transaction' \in [Request -> Transaction \cup {NoTransaction}]
    /\ Open' = Open \ {r} /\ \A q \in Open' : transaction'[q] = transaction[q]
    /\ TablesGrow

LEMMA CommitsFacts ==
    ASSUME MembersIInv, NEW r \in Open, Commits(r)
    PROVE  Joins(r, transaction[r].user, transaction[r].school)
<1> DEFINE n == transaction[r].user
           s == transaction[r].school
<1> USE DEF MembersIInv
<1>1. /\ r \in Request /\ n \in User /\ s \in School
      /\ transaction[r].email \in Email /\ transaction[r].role \in Role
  BY FieldsTyped
<1>2. /\ users' \in [User -> UserRow \cup {NoUser}] /\ users'[n] # NoUser
      /\ users[n] # NoUser => users'[n] = users[n]
      /\ users[n] = NoUser =>
            users'[n].email = transaction[r].email /\ users'[n].deleted = FALSE
      /\ \A u \in User : u # n => users'[u] = users[u]
  <2> DEFINE row == [email |-> transaction[r].email, deleted |-> FALSE]
  <2>1. row \in UserRow /\ row.email = transaction[r].email /\ row.deleted = FALSE
    BY <1>1 DEF UserRow
  <2>2. users' = [users EXCEPT ![n] = IF users[n] = NoUser THEN row ELSE users[n]]
    BY DEF Commits, TablesTyped
  <2> HIDE DEF row
  <2> QED
    BY <1>1, <2>1, <2>2, RowsDiffer DEF TablesTyped
<1>3. /\ schools' \in [School -> {"absent", "live", "deleted"}]
      /\ schools'[s] = IF schools[s] = "absent" THEN "live" ELSE schools[s]
      /\ \A x \in School : x # s => schools'[x] = schools[x]
  BY <1>1 DEF Commits, TablesTyped
<1>4. /\ associations' \in [User -> [School -> Member \cup {NoMember}]]
      /\ associations'[n][s] # NoMember /\ ~ associations'[n][s].deleted
      /\ associations'[n][s].role = transaction[r].role
      /\ \A u \in User, x \in School :
            u # n \/ x # s => associations'[u][x] = associations[u][x]
  <2> DEFINE row == [role |-> transaction[r].role, deleted |-> FALSE]
  <2>1. row \in Member /\ row.role = transaction[r].role /\ row.deleted = FALSE
    BY <1>1 DEF Member
  <2>2. associations' = [associations EXCEPT ![n][s] = row]
    BY DEF Commits
  <2> HIDE DEF row
  <2> QED
    BY <1>1, <2>1, <2>2, RowsDiffer DEF TablesTyped
<1>5. /\ invited' \in [Request -> SUBSET User]
      /\ invited'[r] = invited[r] \cup {n}
      /\ \A q \in Request : q # r => invited'[q] = invited[q]
  BY <1>1 DEF Commits, TablesTyped
<1>6. /\ transaction' \in [Request -> Transaction \cup {NoTransaction}]
      /\ transaction'[r] = NoTransaction
      /\ \A q \in Request : q # r => transaction'[q] = transaction[q]
  BY <1>1 DEF Commits, TablesTyped
<1>7. Open' = Open \ {r} /\ \A q \in Open' : transaction'[q] = transaction[q]
  BY <1>6 DEF Open
<1> HIDE DEF n, s
<1>8. \A q \in Request : invited[q] \subseteq invited'[q]
  BY <1>1, <1>5
<1>9. TablesGrow
  BY <1>1, <1>2, <1>3 DEF TablesGrow
<1>10. n = transaction[r].user /\ s = transaction[r].school
  BY DEF n, s
<1> QED
  <2>1. Joins(r, n, s)
    BY <1>1, <1>2, <1>3, <1>4, <1>5, <1>6, <1>7, <1>8, <1>9, <1>10 DEF Joins
  <2> QED
    BY <2>1 DEF n, s

LEMMA CommitsKeep ==
    ASSUME MembersIInv, NEW r \in Open, Commits(r), loop = Idle,
           requests' \in [Request -> RequestRow], requests'[r].state \in {"running", "answered"},
           report' \in [Request -> ReportRow], loop' \in Request \cup {Idle},
           \A q \in Request \ {r} : requests'[q] = requests[q] /\ report'[q] = report[q],
           requests'[r].state = "running" => requests'[r].school = transaction[r].school,
           UploadCounts(r)',
           UNCHANGED <<lastId, deaths, torn, unguarded, late>>
    PROVE  MembersIInv'
<1> USE DEF MembersIInv
<1>1. PICK n, s : Joins(r, n, s) /\ n = transaction[r].user /\ s = transaction[r].school
  BY CommitsFacts
<1>2. r \in Request /\ n \in User /\ s \in School
  BY <1>1, FieldsTyped
<1>3. /\ users' \in [User -> UserRow \cup {NoUser}] /\ users'[n] # NoUser
      /\ users[n] # NoUser => users'[n] = users[n]
      /\ users[n] = NoUser =>
            users'[n].email = transaction[r].email /\ users'[n].deleted = FALSE
      /\ \A u \in User : u # n => users'[u] = users[u]
  BY <1>1 DEF Joins
<1>4. /\ schools' \in [School -> {"absent", "live", "deleted"}]
      /\ schools'[s] = IF schools[s] = "absent" THEN "live" ELSE schools[s]
      /\ \A x \in School : x # s => schools'[x] = schools[x]
  BY <1>1 DEF Joins
<1>5. /\ associations' \in [User -> [School -> Member \cup {NoMember}]]
      /\ associations'[n][s] # NoMember /\ IsMember(n, s)'
      /\ IsAdmin(n, s)' <=> transaction[r].role = "school_admin"
      /\ \A u \in User, x \in School :
            u # n \/ x # s => associations'[u][x] = associations[u][x]
  BY <1>1 DEF Joins, IsMember, IsAdmin
<1>6. /\ invited' \in [Request -> SUBSET User]
      /\ invited'[r] = invited[r] \cup {n}
      /\ \A q \in Request : invited[q] \subseteq invited'[q]
      /\ \A q \in Request : q # r => invited'[q] = invited[q]
  BY <1>1 DEF Joins
<1>7. /\ transaction' \in [Request -> Transaction \cup {NoTransaction}]
      /\ Open' = Open \ {r} /\ \A q \in Open' : transaction'[q] = transaction[q]
      /\ \A q \in Open' : transaction[q].user # n
      /\ \A q \in Open' : q \in Request /\ transaction[q].user \in User
                          /\ transaction[q].school \in School
      /\ TablesGrow
  BY <1>1, FieldsTyped DEF Joins, RowsFit
<1>8. /\ \A q \in Request : requests[q].state # "running"
      /\ transaction[r].role = "member" => users[n] = NoUser /\ schools[s] # "absent"
      /\ transaction[r].role \in Role
  BY <1>1, NobodyRuns, FieldsTyped DEF RowsFit
<1>9. TablesTyped'
  BY <1>3, <1>4, <1>5, <1>6, <1>7 DEF TablesTyped
<1>10. RowsFit'
  <2>1. \A q \in Request : requests'[q].state = "mailing" <=> q \in Open'
    BY <1>7 DEF RowsFit
  <2>2. \A u \in User : users'[u] # NoUser => u <= lastId'
    BY <1>1, <1>3 DEF RowsFit
  <2>3. \A u \in User, x \in School : associations'[u][x] # NoMember => users'[u] # NoUser
    BY <1>3, <1>5 DEF RowsFit
  <2>4. ASSUME NEW q \in Open'
        PROVE  /\ transaction'[q].user <= lastId'
               /\ transaction'[q].role = "member" =>
                     /\ users'[transaction'[q].user] = NoUser
                     /\ schools'[transaction'[q].school] # "absent"
               /\ schools'[transaction'[q].school] = "absent" =>
                     users'[transaction'[q].user] = NoUser
               /\ requests'[q].school = transaction'[q].school
    <3>1. /\ q \in Open /\ transaction'[q] = transaction[q] /\ requests'[q] = requests[q]
          /\ users'[transaction[q].user] = users[transaction[q].user]
          /\ schools[transaction[q].school] # "absent" =>
                schools'[transaction[q].school] # "absent"
      BY <1>3, <1>7 DEF TablesGrow
    <3> QED
      BY <3>1 DEF RowsFit
  <2>5. \A p, q \in Open' : transaction'[p].user = transaction'[q].user => p = q
    BY <1>7 DEF RowsFit
  <2> QED
    BY <2>1, <2>2, <2>3, <2>4, <2>5 DEF RowsFit
<1>11. AddressesDiffer'
  <2>1. users[n] = NoUser =>
          /\ \A u \in User : users[u].email # transaction[r].email
          /\ \A q \in Open' : users[transaction[q].user] = NoUser =>
                transaction[q].email # transaction[r].email
    BY <1>1, <1>7 DEF AddressesDiffer, Used
  <2>2. \A u, v \in User : u # v /\ users'[u] # NoUser => users'[u].email # users'[v].email
    BY <1>3, <2>1 DEF AddressesDiffer
  <2>3. \A q \in Open' : users'[transaction'[q].user] = NoUser =>
            \A u \in User : users'[u].email # transaction'[q].email
    BY <1>3, <1>7, <2>1 DEF AddressesDiffer, Used
  <2>4. \A p, q \in Open' :
          /\ users'[transaction'[p].user] = NoUser /\ users'[transaction'[q].user] = NoUser
          /\ transaction'[p].email = transaction'[q].email
          => p = q
    BY <1>3, <1>7 DEF AddressesDiffer
  <2> QED
    BY <2>2, <2>3, <2>4 DEF AddressesDiffer, Used
<1>12. UploadsCount'
  <2>1. \A q \in Request \ {r} : transaction'[q] = transaction[q]
    BY DEF Commits, TablesTyped
  <2>2. \A q \in Request \ {r} : UploadCounts(q)'
    BY <2>1, <1>6, <1>7, <1>8, FieldsTyped, CountsKept DEF UploadsCount, TablesGrow, TablesTyped
  <2> QED
    BY <2>2 DEF UploadsCount
<1>13. \A x \in School : schools'[x] = "deleted" => schools[x] = "deleted"
  BY <1>4
<1>14. LateKnown'
  <2> SUFFICES ASSUME NEW q \in Request, requests'[q].state \in {"admitted", "running", "mailing"},
                      requests'[q].school # Platform, schools'[requests'[q].school] = "deleted"
               PROVE  q \in late
    BY DEF LateKnown
  <2>1. schools[requests'[q].school] = "deleted"
    BY <1>9, <1>13 DEF TablesTyped, RequestRow
  <2>2. CASE q = r
    BY <2>1, <2>2 DEF LateKnown, RowsFit
  <2>3. CASE q # r
    BY <2>1, <2>3 DEF LateKnown
  <2> QED
    BY <2>2, <2>3
<1>15. MembersFollowSchools'
  <2>1. ASSUME NEW u \in User, NEW x \in School \ {Platform}, schools'[x] = "deleted",
               IsMember(u, x)'
        PROVE  \E q \in late' : u \in invited'[q]
    <3>1. CASE u = n /\ x = s
      <4>1. r \in late
        BY <2>1, <3>1, <1>1, <1>2, <1>13 DEF LateKnown, RowsFit
      <4> QED
        BY <3>1, <4>1, <1>6
    <3>2. CASE u # n \/ x # s
      <4>1. IsMember(u, x)
        BY <2>1, <3>2, <1>5 DEF IsMember
      <4> QED
        BY <2>1, <4>1, <1>6, <1>13 DEF MembersFollowSchools, TablesTyped
    <3> QED
      BY <3>1, <3>2
  <2>2. ASSUME NEW u \in User, HasAccount(u)', u \notin torn'
        PROVE  \/ \E x \in School : associations'[u][x] # NoMember
               \/ \E q \in Open' : transaction'[q].user = u
    <3>1. CASE u = n
      BY <3>1, <1>2, <1>5
    <3>2. CASE u # n
      <4>1. \/ \E x \in School : associations[u][x] # NoMember
            \/ \E q \in Open : transaction[q].user = u
        BY <2>2, <3>2, <1>3 DEF MembersFollowSchools, HasAccount
      <4> QED
        BY <3>2, <4>1, <1>1, <1>5, <1>7
    <3> QED
      BY <3>1, <3>2
  <2> QED
    BY <2>1, <2>2 DEF MembersFollowSchools
<1>16. AdministratorsRemain'
  <2>1. ASSUME NEW x \in School, NEW u \in Administrators(x)
        PROVE  u \in Administrators(x)'
    <3>1. u \in User /\ (users[u] = NoUser \/ HasAccount(u))
      BY DEF Administrators
    <3>2. users'[u] = NoUser \/ HasAccount(u)'
      BY <3>1, <1>3 DEF HasAccount
    <3>3. users[u] # NoUser => users'[u] = users[u]
      BY <3>1, <1>3
    <3>4. CASE IsAdmin(u, x) /\ HasAccount(u)
      <4>1. users[u] # NoUser /\ HasAccount(u)'
        BY <3>3, <3>4 DEF HasAccount
      <4>2. IsAdmin(u, x)'
        <5>1. CASE u = n /\ x = s
          BY <4>1, <5>1, <1>5, <1>8 DEF Role
        <5>2. CASE u # n \/ x # s
          BY <3>1, <3>4, <5>2, <1>5 DEF IsAdmin, IsMember
        <5> QED
          BY <5>1, <5>2
      <4> QED
        BY <3>1, <4>1, <4>2 DEF Administrators
    <3>5. ASSUME NEW q \in Open, transaction[q].user = u, transaction[q].school = x,
                 transaction[q].role = "school_admin"
          PROVE  u \in Administrators(x)'
      <4>1. CASE q = r
        <5>1. u = n /\ x = s
          BY <3>5, <4>1, <1>1
        <5> QED
          BY <3>1, <3>2, <3>5, <4>1, <5>1, <1>3, <1>5 DEF Administrators
      <4>2. CASE q # r
        <5>1. q \in Open' /\ transaction'[q] = transaction[q]
          BY <4>2, <1>7
        <5> QED
          BY <3>1, <3>2, <3>5, <5>1 DEF Administrators
      <4> QED
        BY <4>1, <4>2
    <3> QED
      BY <3>1, <3>4, <3>5 DEF Administrators
  <2>2. ASSUME NEW x \in School, schools'[x] = "live", schools[x] # "live"
        PROVE  n \in Administrators(x)'
    <3>1. x = s /\ schools[s] = "absent"
      BY <2>2, <1>4
    <3>2. users[n] = NoUser /\ transaction[r].role = "school_admin"
      BY <3>1, <1>1, <1>8 DEF RowsFit, Role
    <3>3. HasAccount(n)' /\ IsAdmin(n, s)'
      BY <3>2, <1>3, <1>5 DEF HasAccount
    <3> QED
      BY <3>1, <3>3, <1>2 DEF Administrators
  <2>3. \A x \in School : x \notin LeftAlone({})
    BY DEF LeftAlone
  <2>4. ASSUME NEW x \in School \ {Platform}, schools'[x] = "live", x \notin unguarded'
        PROVE  \/ Administrators(x)' # {}
               \/ /\ schools[x] = "live" /\ x \notin unguarded
                  /\ Administrators(x) \ {} \subseteq Administrators(x)'
                  /\ x \notin LeftAlone({})
    <3>1. CASE schools[x] = "live"
      BY <3>1, <2>1, <2>3, <2>4
    <3>2. CASE schools[x] # "live"
      BY <3>2, <2>2, <2>4
    <3> QED
      BY <3>1, <3>2
  <2> QED
    BY <2>4, AdministratorsLeft
<1> QED
  BY <1>9, <1>10, <1>11, <1>12, <1>14, <1>15, <1>16

LEMMA FinishInviteKeeps ==
    ASSUME MembersIInv, NEW r \in Request, FinishInvite(r)
    PROVE  MembersIInv'
<1> USE DEF MembersIInv
<1>1. /\ loop = Idle /\ requests[r].state = "mailing" /\ ~ IsBulk(r)
      /\ Commits(r) /\ StateSet(r, "answered")
      /\ UNCHANGED <<loop, report, lastId, deaths, torn, unguarded, late>>
  BY DEF FinishInvite, StateSet
<1>2. /\ requests' \in [Request -> RequestRow]
      /\ requests'[r].state = "answered"
      /\ \A q \in Request \ {r} : requests'[q] = requests[q]
  BY <1>1, StateSetFacts DEF State
<1>3. r \in Open
  BY <1>1 DEF RowsFit
<1>4. PICK n, s : Joins(r, n, s)
  BY <1>1, <1>3, CommitsFacts
<1>5. UploadCounts(r)'
  <2>1. ~ IsBulk(r)'
    BY <1>1 DEF IsBulk
  <2>2. invited'[r] = invited[r] \cup {n} /\ invited[r] \subseteq User
    BY <1>4 DEF Joins, TablesTyped
  <2>3. \A u \in invited[r] : users[u] # NoUser
    BY DEF UploadsCount, UploadCounts
  <2>4. \A u \in invited'[r] : users'[u] # NoUser
    BY <2>2, <2>3, <1>4 DEF Joins, TablesGrow
  <2> QED
    BY <1>2, <2>1, <2>4 DEF UploadCounts
<1> QED
  BY <1>1, <1>2, <1>3, <1>5, CommitsKeep DEF TablesTyped

\* A row of an upload is invited: one more of the rows, one more of the users.
LEMMA BulkRowDoneKeeps ==
    ASSUME MembersIInv, NEW r \in Request, BulkRowDone(r)
    PROVE  MembersIInv'
<1> USE DEF MembersIInv
<1>1. /\ loop = Idle /\ requests[r].state = "mailing" /\ IsBulk(r)
      /\ Commits(r) /\ SuccessCounted(r)
      /\ NextRow(r) /\ loop' = r
      /\ UNCHANGED <<lastId, deaths, torn, unguarded, late>>
  BY DEF BulkRowDone, SuccessCounted
<1>2. /\ r \in Open
      /\ transaction[r].role = "member" /\ requests[r].school = transaction[r].school
      /\ RowTaken(r)
      /\ RowsBalance(r) /\ report[r].successful = Cardinality(invited[r])
      /\ \A u \in invited[r] : users[u] # NoUser
  BY <1>1 DEF RowsFit, UploadsCount, UploadCounts, RowTaken
<1>3. /\ requests' \in [Request -> RequestRow]
      /\ requests'[r].state = "running" /\ requests'[r].school = transaction[r].school
      /\ \A q \in Request \ {r} : requests'[q] = requests[q]
  BY <1>2, NextRowFacts
<1>4. /\ report' \in [Request -> ReportRow]
      /\ report'[r].successful = report[r].successful + 1
      /\ report'[r].total = report[r].total
      /\ \A q \in Request \ {r} : report'[q] = report[q]
  BY <1>1, SuccessFacts
<1>5. PICK n, s : Joins(r, n, s)
  BY <1>1, <1>2, CommitsFacts
<1>6. /\ n \in User /\ n \notin invited[r]
      /\ invited'[r] = invited[r] \cup {n} /\ invited[r] \subseteq User
  BY <1>2, <1>5 DEF Joins, RowsFit, TablesTyped
<1>7. Cardinality(invited'[r]) = Cardinality(invited[r]) + 1
  <2>1. IsFiniteSet(User)
    BY FS_Interval, MembersAssumption DEF User
  <2>2. IsFiniteSet(invited[r])
    BY <2>1, <1>6, FS_Subset
  <2> QED
    BY <2>2, <1>6, FS_AddElement
<1>8. \A u \in invited'[r] : users'[u] # NoUser
  BY <1>2, <1>5, <1>6 DEF Joins, TablesGrow
<1>9. schools'[transaction[r].school] # "absent"
  BY <1>5 DEF Joins
<1>10. RowsBalance(r)'
  BY <1>1, <1>2, RowCounted
<1>11. UploadCounts(r)'
  BY <1>1, <1>2, <1>3, <1>4, <1>7, <1>8, <1>9, <1>10 DEF UploadCounts
<1>12. requests'[r].state \in {"running", "answered"} /\ loop' \in Request \cup {Idle}
  BY <1>1, <1>3
<1> HIDE DEF MembersIInv
<1> QED
  BY <1>1, <1>2, <1>3, <1>4, <1>11, <1>12, CommitsKeep

\* The users whose transactions are rolled back.
RolledBack == {transaction[q].user : q \in Open \ Open'}

\* Transactions are rolled back, and what they leave half done is noted.
LEMMA RollbackKeeps ==
    ASSUME MembersIInv, UNCHANGED <<tableVars, lastId, invited, late>>,
           requests' \in [Request -> RequestRow], report' \in [Request -> ReportRow],
           transaction' \in [Request -> Transaction \cup {NoTransaction}],
           loop' \in Request \cup {Idle}, deaths' \in 0 .. MaxDeaths,
           torn' \subseteq User, unguarded' \subseteq School,
           torn \subseteq torn', unguarded \subseteq unguarded',
           Open' \subseteq Open,
           \A q \in Open' : transaction'[q] = transaction[q] /\ requests'[q] = requests[q],
           \A q \in Open \ Open' : transaction[q].role = "school_admin"
               /\ users[transaction[q].user] # NoUser => transaction[q].user \in torn',
           \A x \in LeftAlone(RolledBack) : schools[x] # "absent" => x \in unguarded',
           \A q \in Request : requests'[q].state = "mailing" <=> q \in Open',
           \A q \in Request :
               /\ requests'[q].state \in {"admitted", "running"}
               /\ requests'[q].school # Platform /\ schools[requests'[q].school] = "deleted"
               => q \in late,
           UploadsCount'
    PROVE  MembersIInv'
<1> USE DEF MembersIInv
<1>1. UNCHANGED <<users, schools, associations, lastId, invited, late>>
  BY DEF tableVars
<1>2. TablesTyped'
  BY <1>1 DEF TablesTyped
<1>3. RowsFit'
  BY <1>1 DEF RowsFit
<1>4. AddressesDiffer'
  <2>1. \A e : Used(e)' = Used(e)
    BY <1>1 DEF Used
  <2> QED
    BY <1>1, <2>1 DEF AddressesDiffer
<1>5. LateKnown'
  BY <1>1 DEF LateKnown
<1>6. MembersFollowSchools'
  <2>1. \A u \in User, s \in School \ {Platform} :
            schools'[s] = "deleted" /\ IsMember(u, s)' => \E q \in late' : u \in invited'[q]
    BY <1>1 DEF MembersFollowSchools, IsMember
  <2>2. ASSUME NEW u \in User, HasAccount(u), u \notin torn'
        PROVE  \/ \E s \in School : associations[u][s] # NoMember
               \/ \E q \in Open' : transaction'[q].user = u
    <3>1. \/ \E s \in School : associations[u][s] # NoMember
          \/ \E q \in Open : transaction[q].user = u
      BY <2>2 DEF MembersFollowSchools
    <3>2. ASSUME NEW q \in Open \ Open' PROVE transaction[q].user # u
      <4>1. transaction[q].role = "member" => users[transaction[q].user] = NoUser
        BY DEF RowsFit
      <4>2. transaction[q].role \in {"member", "school_admin"}
        BY FieldsTyped DEF Role
      <4> QED
        BY <2>2, <4>1, <4>2 DEF HasAccount
    <3> QED
      BY <3>1, <3>2
  <2> QED
    BY <1>1, <2>1, <2>2 DEF MembersFollowSchools, HasAccount
<1>7. AdministratorsRemain'
  <2>1. ASSUME NEW x \in School, NEW u \in Administrators(x), u \notin RolledBack
        PROVE  u \in Administrators(x)'
    <3>1. u \in User
      BY DEF Administrators
    <3>2. IsAdmin(u, x)' = IsAdmin(u, x) /\ HasAccount(u)' = HasAccount(u) /\ users' = users
      BY <1>1 DEF IsAdmin, IsMember, HasAccount
    <3>3. \A q \in Open : transaction[q].user = u => q \in Open' /\ transaction'[q] = transaction[q]
      BY <2>1 DEF RolledBack
    <3> QED
      BY <3>2, <3>3, AdministratorStays
  <2>2. ASSUME NEW x \in School \ {Platform}, schools'[x] = "live", x \notin unguarded'
        PROVE  /\ schools[x] = "live" /\ x \notin unguarded
               /\ Administrators(x) \ RolledBack \subseteq Administrators(x)'
               /\ x \notin LeftAlone(RolledBack)
    BY <2>1, <2>2, <1>1
  <2> QED
    BY <2>2, AdministratorsLeft
<1> QED
  BY <1>2, <1>3, <1>4, <1>5, <1>6, <1>7

LEMMA InviteFailsKeeps ==
    ASSUME MembersIInv, NEW r \in Request, InviteFails(r)
    PROVE  MembersIInv'
<1> USE DEF MembersIInv
<1>1. /\ loop = Idle /\ requests[r].state = "mailing" /\ ~ IsBulk(r)
      /\ deaths' \in 0 .. MaxDeaths
      /\ Tears({r}) /\ StateSet(r, "answered")
      /\ transaction' = [transaction EXCEPT ![r] = NoTransaction]
      /\ UNCHANGED <<tableVars, loop, report, lastId, invited, late>>
  BY MembersAssumption DEF InviteFails, StateSet, TablesTyped
<1>2. /\ requests' \in [Request -> RequestRow]
      /\ requests'[r].state = "answered"
      /\ \A q \in Request \ {r} : requests'[q] = requests[q]
  BY <1>1, StateSetFacts DEF State
<1>3. /\ r \in Open /\ Open' = Open \ {r}
      /\ transaction' \in [Request -> Transaction \cup {NoTransaction}]
      /\ \A q \in Request : q # r => transaction'[q] = transaction[q]
  BY <1>1 DEF Open, RowsFit, TablesTyped
<1>4. /\ torn \subseteq torn' /\ unguarded \subseteq unguarded'
      /\ torn' \subseteq User /\ unguarded' \subseteq School
      /\ transaction[r].role = "school_admin"
           /\ users[transaction[r].user] # NoUser => transaction[r].user \in torn'
      /\ \A x \in LeftAlone(RolledBack) : schools[x] # "absent" => x \in unguarded'
  <2>1. RolledBack = {transaction[q].user : q \in {r} \cap Open}
    BY <1>3 DEF RolledBack
  <2>2. \A x \in LeftAlone(RolledBack) : x \in School
    BY DEF LeftAlone
  <2> QED
    BY <1>1, <1>3, <2>1, <2>2, FieldsTyped DEF Tears, TablesTyped
<1>5. UploadsCount'
  <2>1. \A q \in Request : requests[q].state # "running"
    BY <1>1, NobodyRuns
  <2>2. \A q \in Request \ {r} : UploadCounts(q)'
    BY <1>1, <1>2, <1>3, <2>1, FieldsTyped, CountsKept DEF UploadsCount, tableVars
  <2>3. UploadCounts(r)'
    BY <1>1, <1>2 DEF UploadsCount, UploadCounts, IsBulk, tableVars
  <2> QED
    BY <2>2, <2>3 DEF UploadsCount
<1>6. \A q \in Request : requests'[q].state = "mailing" <=> q \in Open'
  BY <1>2, <1>3 DEF RowsFit
<1>7. \A q \in Request :
          /\ requests'[q].state \in {"admitted", "running"}
          /\ requests'[q].school # Platform /\ schools[requests'[q].school] = "deleted"
          => q \in late
  BY <1>2 DEF LateKnown
<1>8. report' \in [Request -> ReportRow] /\ loop' \in Request \cup {Idle}
  BY <1>1 DEF TablesTyped
<1>9. \A q \in Open' : q \in Request \ {r}
  BY <1>3 DEF Open
<1> HIDE DEF MembersIInv
<1> QED
  BY <1>1, <1>2, <1>3, <1>4, <1>5, <1>6, <1>7, <1>8, <1>9, RollbackKeeps

LEMMA BulkRowFailsKeeps ==
    ASSUME MembersIInv, NEW r \in Request, BulkRowFails(r)
    PROVE  MembersIInv'
<1> USE DEF MembersIInv
<1>1. /\ loop = Idle /\ requests[r].state = "mailing" /\ IsBulk(r)
      /\ deaths' \in 0 .. MaxDeaths
      /\ FailureCounted(r) /\ NextRow(r) /\ loop' = r
      /\ transaction' = [transaction EXCEPT ![r] = NoTransaction]
      /\ UNCHANGED <<tableVars, lastId, invited, torn, unguarded, late>>
  BY MembersAssumption DEF BulkRowFails, FailureCounted, TablesTyped, historyVars
<1>2. /\ r \in Open /\ Open' = Open \ {r}
      /\ transaction' \in [Request -> Transaction \cup {NoTransaction}]
      /\ \A q \in Request : q # r => transaction'[q] = transaction[q]
  BY <1>1 DEF Open, RowsFit, TablesTyped
<1>3. /\ transaction[r].role = "member" /\ requests[r].school = transaction[r].school
      /\ RowTaken(r)
      /\ RowsBalance(r) /\ report[r].successful = Cardinality(invited[r])
      /\ \A u \in invited[r] : users[u] # NoUser
      /\ users[transaction[r].user] = NoUser
      /\ schools[transaction[r].school] # "absent"
      /\ transaction[r].school # Platform /\ schools[transaction[r].school] = "deleted"
            => r \in late
  BY <1>1, <1>2 DEF RowsFit, UploadsCount, UploadCounts, RowTaken, LateKnown
<1>4. /\ requests' \in [Request -> RequestRow]
      /\ requests'[r].state = "running" /\ requests'[r].school = transaction[r].school
      /\ \A q \in Request \ {r} : requests'[q] = requests[q]
  BY <1>3, NextRowFacts
<1>5. /\ report' \in [Request -> ReportRow]
      /\ report'[r].successful = report[r].successful
      /\ report'[r].total = report[r].total
      /\ \A q \in Request \ {r} : report'[q] = report[q]
  BY <1>1, FailureFacts
<1>6. UploadsCount'
  <2>1. \A q \in Request : requests[q].state # "running"
    BY <1>1, NobodyRuns
  <2>2. \A q \in Request \ {r} : UploadCounts(q)'
    BY <1>1, <1>2, <1>4, <1>5, <2>1, FieldsTyped, CountsKept DEF UploadsCount, tableVars
  <2>3. RowsBalance(r)'
    BY <1>1, <1>3, RowCounted
  <2>4. UploadCounts(r)'
    BY <1>1, <1>3, <1>4, <1>5, <2>3 DEF UploadCounts, tableVars
  <2> QED
    BY <2>2, <2>4 DEF UploadsCount
<1>7. \A q \in Request : requests'[q].state = "mailing" <=> q \in Open'
  BY <1>2, <1>4 DEF RowsFit
<1>8. \A q \in Request :
          /\ requests'[q].state \in {"admitted", "running"}
          /\ requests'[q].school # Platform /\ schools[requests'[q].school] = "deleted"
          => q \in late
  BY <1>3, <1>4 DEF LateKnown
<1>9. /\ \A q \in Open \ Open' : transaction[q].role # "school_admin"
      /\ Open' \subseteq Open
      /\ \A q \in Open' : transaction'[q] = transaction[q] /\ requests'[q] = requests[q]
      /\ LeftAlone(RolledBack) = {}
  <2>1. \A q \in Open' : q \in Request \ {r}
    BY <1>2 DEF Open
  <2>2. RolledBack = {transaction[r].user}
    BY <1>2 DEF RolledBack
  <2>3. \A x \in School : transaction[r].user \notin Administrators(x)
    BY <1>2, <1>3 DEF Administrators, HasAccount, RowsFit
  <2>4. LeftAlone(RolledBack) = {}
    BY <2>2, <2>3 DEF LeftAlone
  <2> QED
    BY <1>2, <1>3, <1>4, <2>1, <2>4
<1>10. /\ torn' \subseteq User /\ unguarded' \subseteq School
       /\ torn \subseteq torn' /\ unguarded \subseteq unguarded'
       /\ loop' \in Request \cup {Idle}
  BY <1>1 DEF TablesTyped
<1> HIDE DEF MembersIInv
<1> QED
  BY <1>1, <1>2, <1>4, <1>5, <1>6, <1>7, <1>8, <1>9, <1>10, RollbackKeeps

LEMMA RestartKeeps ==
    ASSUME MembersIInv, Restart
    PROVE  MembersIInv'
<1> USE DEF MembersIInv
<1>1. /\ deaths' \in 0 .. MaxDeaths /\ loop' = Idle
      /\ report' = [r \in Request |-> [total |-> 0, successful |-> 0, failed |-> 0]]
      /\ transaction' = [r \in Request |-> NoTransaction]
      /\ Tears(Open)
      /\ UNCHANGED <<tableVars, lastId, invited, late>>
  BY MembersAssumption DEF Restart, TablesTyped
<1>2. /\ requests' \in [Request -> RequestRow]
      /\ \A q \in Request : \/ requests'[q].state = "answered"
                            \/ requests'[q].state = "new" /\ requests'[q] = requests[q]
  <2>1. /\ requests' = [q \in Request |-> requests'[q]]
        /\ \A q \in Request : requests'[q] = IF requests[q].state = "new"
                                               THEN requests[q]
                                               ELSE [requests[q] EXCEPT !.state = "answered"]
    BY DEF Restart
  <2>2. ASSUME NEW q \in Request
        PROVE  /\ requests'[q] \in RequestRow
               /\ \/ requests'[q].state = "answered"
                  \/ requests'[q].state = "new" /\ requests'[q] = requests[q]
    <3>1. requests[q] \in RequestRow
      BY DEF TablesTyped
    <3>2. /\ [requests[q] EXCEPT !.state = "answered"] \in RequestRow
          /\ [requests[q] EXCEPT !.state = "answered"].state = "answered"
      BY <3>1 DEF RequestRow, State
    <3> QED
      BY <2>1, <3>1, <3>2
  <2> QED
    BY <2>1, <2>2
<1>3. Open' = {} /\ transaction' \in [Request -> Transaction \cup {NoTransaction}]
  BY <1>1 DEF Open
<1>4. [total |-> 0, successful |-> 0, failed |-> 0] \in ReportRow
  BY DEF ReportRow
<1>5. report' \in [Request -> ReportRow]
  BY <1>1, <1>4
<1>6. /\ torn \subseteq torn' /\ unguarded \subseteq unguarded'
      /\ torn' \subseteq User /\ unguarded' \subseteq School
      /\ \A q \in Open : transaction[q].role = "school_admin"
           /\ users[transaction[q].user] # NoUser => transaction[q].user \in torn'
      /\ \A x \in LeftAlone(RolledBack) : schools[x] # "absent" => x \in unguarded'
  <2>1. RolledBack = {transaction[q].user : q \in Open \cap Open}
    BY <1>3 DEF RolledBack
  <2>2. \A x \in LeftAlone(RolledBack) : x \in School
    BY DEF LeftAlone
  <2> QED
    BY <1>1, <2>1, <2>2, FieldsTyped DEF Tears, TablesTyped
<1>7. UploadsCount'
  <2> SUFFICES ASSUME NEW q \in Request PROVE UploadCounts(q)'
    BY DEF UploadsCount
  <2>1. /\ report'[q].total = 0 /\ report'[q].successful = 0 /\ report'[q].failed = 0
        /\ ~ IsBulk(q)'
    BY <1>1 DEF IsBulk
  <2>2. requests'[q].state = "new" => invited'[q] = {}
    BY <1>1, <1>2 DEF UploadsCount, UploadCounts
  <2>3. \A u \in invited'[q] : users'[u] # NoUser
    BY <1>1 DEF UploadsCount, UploadCounts, tableVars
  <2> QED
    BY <1>2, <2>1, <2>2, <2>3 DEF UploadCounts
<1>8. /\ \A q \in Request : requests'[q].state = "mailing" <=> q \in Open'
      /\ \A q \in Request : requests'[q].state # "running"
      /\ loop' \in Request \cup {Idle}
  BY <1>1, <1>2, <1>3
<1> HIDE DEF MembersIInv
<1> QED
  BY <1>1, <1>2, <1>3, <1>5, <1>6, <1>7, <1>8, RollbackKeeps

-----------------------------------------------------------------------------
(* The administration of members. *)

\* No row is new, no address changes, nobody becomes a member.
Shrinks ==
    /\ users' \in [User -> UserRow \cup {NoUser}]
    /\ \A u \in User : users'[u] = NoUser <=> users[u] = NoUser
    /\ \A u \in User : users'[u].email = users[u].email
    /\ \A u \in User : users[u] # NoUser /\ users[u].deleted => users'[u].deleted
    /\ schools' \in [School -> {"absent", "live", "deleted"}]
    /\ \A s \in School : schools'[s] = "absent" <=> schools[s] = "absent"
    /\ associations' \in [User -> [School -> Member \cup {NoMember}]]
    /\ \A u \in User, s \in School :
         /\ associations'[u][s] # NoMember => associations[u][s] # NoMember
         /\ associations[u][s] # NoMember /\ ~ users'[u].deleted => associations'[u][s] # NoMember
         /\ IsMember(u, s)' => IsMember(u, s) /\ (schools'[s] = "deleted" => schools[s] = "deleted")
    /\ \A q \in Request :
         /\ requests[q].state \in {"admitted", "mailing"}
         /\ schools'[requests[q].school] = "deleted"
         => schools[requests[q].school] = "deleted" \/ q \in late'
    /\ unguarded \subseteq unguarded' /\ unguarded' \subseteq School
    /\ late \subseteq late' /\ late' \subseteq Request

LEMMA ShrinksKeep ==
    ASSUME MembersIInv, NEW r \in Request, Administers(r), Shrinks,
           AdministratorsRemain'
    PROVE  MembersIInv'
<1> USE DEF MembersIInv
<1>1. Answers(r) /\ UNCHANGED <<transaction, lastId, deaths, invited, torn, loop, report>>
  BY DEF Administers, Begins, Answers, StateSet
<1>2. TablesGrow
  BY DEF Shrinks, TablesGrow
<1>3. /\ requests' \in [Request -> RequestRow]
      /\ Open' = Open
      /\ \A q \in Request : requests'[q].state = "mailing" <=> q \in Open'
      /\ \A q \in Request : requests'[q].state # "running"
      /\ r \notin Open /\ requests'[r].state = "answered"
      /\ \A q \in Request : q # r => requests'[q] = requests[q]
      /\ UploadsCount'
  BY <1>1, <1>2, AnswersFacts
<1>4. TablesTyped'
  BY <1>1, <1>3 DEF TablesTyped, Shrinks
<1>5. RowsFit'
  <2>1. \A u \in User : users'[u] # NoUser => u <= lastId'
    BY <1>1 DEF RowsFit, Shrinks
  <2>2. \A u \in User, s \in School : associations'[u][s] # NoMember => users'[u] # NoUser
    BY DEF RowsFit, Shrinks
  <2>3. ASSUME NEW q \in Open
        PROVE  /\ transaction'[q].user <= lastId'
               /\ transaction'[q].role = "member" =>
                     /\ users'[transaction'[q].user] = NoUser
                     /\ schools'[transaction'[q].school] # "absent"
               /\ schools'[transaction'[q].school] = "absent" =>
                     users'[transaction'[q].user] = NoUser
               /\ requests'[q].school = transaction'[q].school
    <3>1. /\ q \in Request /\ requests'[q] = requests[q]
          /\ users'[transaction[q].user] = NoUser <=> users[transaction[q].user] = NoUser
          /\ schools'[transaction[q].school] = "absent"
                  <=> schools[transaction[q].school] = "absent"
      BY <1>3, FieldsTyped DEF Shrinks
    <3> QED
      BY <3>1, <1>1 DEF RowsFit
  <2> QED
    BY <1>1, <1>3, <2>1, <2>2, <2>3 DEF RowsFit
<1>6. AddressesDiffer'
  <2>1. /\ \A u \in User : users'[u].email = users[u].email
        /\ \A u \in User : users'[u] = NoUser <=> users[u] = NoUser
        /\ \A q \in Open : transaction[q].user \in User
    BY FieldsTyped DEF Shrinks
  <2>2. \A e : Used(e)' = Used(e)
    BY <2>1 DEF Used
  <2> QED
    BY <1>1, <1>3, <2>1, <2>2 DEF AddressesDiffer
<1>7. LateKnown'
  <2> SUFFICES ASSUME NEW q \in Request, requests'[q].state \in {"admitted", "running", "mailing"},
                      requests'[q].school # Platform, schools'[requests'[q].school] = "deleted"
               PROVE  q \in late'
    BY DEF LateKnown
  <2>1. /\ requests'[q] = requests[q] /\ requests[q].state \in {"admitted", "mailing"}
    BY <1>3
  <2>2. schools[requests[q].school] = "deleted" \/ q \in late'
    BY <2>1 DEF Shrinks
  <2> QED
    BY <2>1, <2>2 DEF LateKnown, Shrinks
<1>8. MembersFollowSchools'
  <2>1. ASSUME NEW u \in User, NEW s \in School \ {Platform},
               schools'[s] = "deleted", IsMember(u, s)'
        PROVE  \E q \in late' : u \in invited'[q]
    <3>1. schools[s] = "deleted" /\ IsMember(u, s)
      BY <2>1 DEF Shrinks
    <3> QED
      BY <3>1, <1>1 DEF MembersFollowSchools, Shrinks
  <2>2. ASSUME NEW u \in User, HasAccount(u)', u \notin torn'
        PROVE  \/ \E s \in School : associations'[u][s] # NoMember
               \/ \E q \in Open' : transaction'[q].user = u
    <3>1. HasAccount(u) /\ ~ users'[u].deleted /\ u \notin torn
      BY <2>2, <1>1 DEF Shrinks, HasAccount
    <3>2. \/ \E s \in School : associations[u][s] # NoMember
          \/ \E q \in Open : transaction[q].user = u
      BY <3>1 DEF MembersFollowSchools
    <3> QED
      BY <3>1, <3>2, <1>1, <1>3 DEF Shrinks
  <2> QED
    BY <2>1, <2>2 DEF MembersFollowSchools
<1> QED
  BY <1>3, <1>4, <1>5, <1>6, <1>7, <1>8

\* One membership changes, the users and schools do not.
Revises(u, s) ==
    /\ UNCHANGED <<users, schools, late>>
    /\ associations' \in [User -> [School -> Member \cup {NoMember}]]
    /\ associations'[u][s] # NoMember
    /\ \A v \in User, x \in School :
         v # u \/ x # s => associations'[v][x] = associations[v][x]

LEMMA RevisesShrinks ==
    ASSUME MembersIInv, NEW u \in User, NEW s \in School, Revises(u, s), IsMember(u, s),
           unguarded \subseteq unguarded', unguarded' \subseteq School
    PROVE  Shrinks
<1>1. \A v \in User, x \in School :
        /\ associations'[v][x] # NoMember => associations[v][x] # NoMember
        /\ associations[v][x] # NoMember => associations'[v][x] # NoMember
        /\ IsMember(v, x)' => IsMember(v, x)
  BY DEF Revises, IsMember
<1>2. \A v \in User : users'[v] = users[v]
  BY DEF Revises
<1>3. \A x \in School : schools'[x] = schools[x]
  BY DEF Revises
<1>4. \A q \in Request : requests[q].school \in School
  BY FieldsTyped DEF MembersIInv
<1> QED
  BY <1>1, <1>2, <1>3, <1>4 DEF Revises, Shrinks, MembersIInv, TablesTyped

\* The membership of u in s changes, or a field of it.
MemberSet(u, s, row) == associations' = [associations EXCEPT ![u][s] = row]

LEMMA MemberRevised ==
    ASSUME MembersIInv, NEW u \in User, NEW s \in School, IsMember(u, s),
           NEW row \in Member, MemberSet(u, s, row),
           UNCHANGED <<users, schools, late>>
    PROVE  Revises(u, s) /\ associations'[u][s] = row
  BY RowsDiffer DEF MembersIInv, TablesTyped, Revises, MemberSet

LEMMA MembersTyped ==
    ASSUME MembersIInv, NEW u \in User, NEW s \in School, IsMember(u, s)
    PROVE  /\ [associations[u][s] EXCEPT !.deleted = TRUE] \in Member
           /\ [associations[u][s] EXCEPT !.deleted = TRUE].deleted
           /\ \A role \in Role :
                /\ [associations[u][s] EXCEPT !.role = role] \in Member
                /\ [associations[u][s] EXCEPT !.role = role].role = role
                /\ ~ [associations[u][s] EXCEPT !.role = role].deleted
<1>1. associations[u][s] \in Member /\ ~ associations[u][s].deleted
  BY DEF MembersIInv, TablesTyped, IsMember
<1> QED
  BY <1>1 DEF Member

\* The last administrator of a school is not removed: of two, one stays.
LEMMA RemoveUserKeeps ==
    ASSUME MembersIInv, NEW r \in Request, NEW u \in User, NEW s \in School,
           RemoveUser(r, u, s)
    PROVE  MembersIInv'
<1>1. /\ Administers(r) /\ IsMember(u, s)
      /\ IsAdmin(u, s) => get_school_admin_count(s) > 1
      /\ associations' = [associations EXCEPT ![u][s].deleted = TRUE]
      /\ unguarded' = unguarded \cup {t \in {s} \cap LeftAlone({u}) :
                                        \E v \in User \ {u} : IsAdmin(v, t)}
      /\ UNCHANGED <<users, schools, late>>
  BY DEF RemoveUser
<1> DEFINE row == [associations[u][s] EXCEPT !.deleted = TRUE]
<1>2. row \in Member /\ row.deleted
  BY <1>1, MembersTyped
<1>3. Revises(u, s) /\ associations'[u][s] = row
  <2>1. associations \in [User -> [School -> Member \cup {NoMember}]]
    BY DEF MembersIInv, TablesTyped
  <2>2. associations' = [associations EXCEPT
            ![u][s] = [associations[u][s] EXCEPT !.deleted = TRUE]]
    BY <1>1, <2>1
  <2>3. MemberSet(u, s, row)
    BY <2>2, Zenon DEF MemberSet
  <2> HIDE DEF row
  <2> QED
    BY <2>3, <1>1, <1>2, MemberRevised
<1> HIDE DEF row
<1>4. Shrinks
  BY <1>1, <1>3, RevisesShrinks DEF MembersIInv, TablesTyped
<1>5. /\ ~ IsAdmin(u, s)'
      /\ \A v \in User, x \in School :
           v # u \/ x # s => IsAdmin(v, x)' = IsAdmin(v, x)
  BY <1>2, <1>3 DEF IsAdmin, IsMember, Revises
<1>6. transaction' = transaction /\ Open' = Open
  BY <1>1 DEF Administers, Open
<1>7. IsAdmin(u, s) => \E v \in User : v # u /\ IsAdmin(v, s)
  <2> SUFFICES ASSUME IsAdmin(u, s), \A v \in User : v # u => ~ IsAdmin(v, s)
               PROVE  FALSE
    OBVIOUS
  <2>1. {v \in User : IsAdmin(v, s)} = {u}
    OBVIOUS
  <2>2. Cardinality({u}) = 1
    BY FS_Singleton
  <2> QED
    BY <1>1, <2>1, <2>2 DEF get_school_admin_count
<1>8. AdministratorsRemain'
  <2>1. ASSUME NEW x \in School, NEW v \in Administrators(x),
               v # u \/ x # s \/ ~ IsAdmin(u, s)
        PROVE  v \in Administrators(x)'
    <3>1. v \in User
      BY DEF Administrators
    <3>2. IsAdmin(v, x) => IsAdmin(v, x)'
      BY <2>1, <3>1, <1>5
    <3>3. HasAccount(v)' = HasAccount(v) /\ users' = users
      BY <1>1 DEF HasAccount
    <3> QED
      BY <3>2, <3>3, <1>6, AdministratorStays
  <2>2. ASSUME NEW x \in School \ {Platform}, schools'[x] = "live", x \notin unguarded',
               x \in LeftAlone({u})
        PROVE  Administrators(x)' # {}
    <3>1. Administrators(x) = {u}
      BY <2>2 DEF LeftAlone
    <3>2. CASE x = s /\ IsAdmin(u, s)
      BY <2>2, <3>2, <1>1, <1>7
    <3>3. CASE x # s \/ ~ IsAdmin(u, s)
      BY <3>1, <3>3, <2>1
    <3> QED
      BY <3>2, <3>3
  <2>3. \A x \in School : Administrators(x) \ {u} \subseteq Administrators(x)'
    BY <2>1
  <2> QED
    BY <1>1, <2>2, <2>3, AdministratorsLeft
<1> QED
  BY <1>1, <1>4, <1>8, ShrinksKeep

LEMMA UpdateRoleKeeps ==
    ASSUME MembersIInv, NEW r \in Request, NEW u \in User, NEW s \in School,
           NEW role \in Role, UpdateRole(r, u, s, role)
    PROVE  MembersIInv'
<1>1. /\ Administers(r) /\ IsMember(u, s) /\ ~ users[u].deleted
      /\ associations[u][s].role # role
      /\ associations' = [associations EXCEPT ![u][s].role = role]
      /\ unguarded' = unguarded \cup {t \in {s} \cap LeftAlone({u}) : role # "school_admin"}
      /\ UNCHANGED <<users, schools, late>>
  BY DEF UpdateRole
<1> DEFINE row == [associations[u][s] EXCEPT !.role = role]
<1>2. row \in Member /\ row.role = role /\ ~ row.deleted /\ row # NoMember
  <2>1. associations[u][s] \in Member /\ ~ associations[u][s].deleted
    BY <1>1 DEF MembersIInv, TablesTyped, IsMember
  <2>2. /\ row \in [role : Role, deleted : BOOLEAN]
        /\ row.role = role /\ ~ row.deleted /\ DOMAIN row = {"role", "deleted"}
    BY <2>1 DEF Member
  <2>3. DOMAIN NoMember = {"role"}
    BY DEF NoMember
  <2> QED
    BY <2>2, <2>3 DEF Member
<1>3. Revises(u, s) /\ associations'[u][s] = row
  <2>1. associations \in [User -> [School -> Member \cup {NoMember}]]
    BY DEF MembersIInv, TablesTyped
  <2>2. associations' = [associations EXCEPT
            ![u][s] = [associations[u][s] EXCEPT !.role = role]]
    BY <1>1, <2>1
  <2>3. MemberSet(u, s, row)
    BY <2>2, Zenon DEF MemberSet
  <2> HIDE DEF row
  <2> QED
    BY <2>3, <1>1, <1>2, MemberRevised
<1> HIDE DEF row
<1>4. unguarded \subseteq unguarded' /\ unguarded' \subseteq School
  BY <1>1 DEF MembersIInv, TablesTyped
<1>5. Shrinks
  BY <1>1, <1>3, <1>4, RevisesShrinks
<1>6. \A v \in User, x \in School : v # u \/ x # s => IsAdmin(v, x)' = IsAdmin(v, x)
  BY <1>3 DEF IsAdmin, IsMember, Revises
<1>7. transaction' = transaction /\ Open' = Open
  BY <1>1 DEF Administers, Open
<1>8. AdministratorsRemain'
  <2>1. ASSUME NEW x \in School, NEW v \in Administrators(x), v # u \/ x # s
        PROVE  v \in Administrators(x)'
    <3>1. v \in User /\ (IsAdmin(v, x) => IsAdmin(v, x)')
      BY <2>1, <1>6 DEF Administrators
    <3>2. HasAccount(v)' = HasAccount(v) /\ users' = users
      BY <1>1 DEF HasAccount
    <3> QED
      BY <3>1, <3>2, <1>7, AdministratorStays
  <2>2. ASSUME NEW x \in School \ {Platform}, schools'[x] = "live", x \notin unguarded',
               x \in LeftAlone({u})
        PROVE  Administrators(x)' # {}
    <3>1. Administrators(x) = {u}
      BY <2>2 DEF LeftAlone
    <3>2. CASE x = s
      <4>1. role = "school_admin"
        BY <2>2, <3>2, <1>1
      <4>2. HasAccount(u)'
        BY <1>1 DEF HasAccount, IsMember, MembersIInv, RowsFit
      <4>3. ~ associations'[u][s].deleted /\ associations'[u][s] # NoMember
        BY <1>2, <1>3
      <4> QED
        BY <4>1, <4>2, <4>3, <3>2, <1>2, <1>3 DEF Administrators, IsAdmin, IsMember
    <3>3. CASE x # s
      BY <3>1, <3>3, <2>1
    <3> QED
      BY <3>2, <3>3
  <2>3. \A x \in School : Administrators(x) \ {u} \subseteq Administrators(x)'
    BY <2>1
  <2> QED
    BY <1>1, <2>2, <2>3, AdministratorsLeft
<1> QED
  BY <1>1, <1>5, <1>8, ShrinksKeep

\* An account is deleted; the schools it leaves alone are noted.
LEMMA AccountDeletedKeeps ==
    ASSUME MembersIInv, NEW r \in Request, NEW u \in User,
           DeleteUser(r, u) \/ DeleteAccount(r, u)
    PROVE  MembersIInv'
<1>1. /\ Administers(r)
      /\ users[u] # NoUser
      /\ users' = [users EXCEPT ![u].deleted = TRUE]
      /\ unguarded' = unguarded \cup LeftAlone({u})
      /\ UNCHANGED <<schools, late>>
      /\ \/ associations' = associations
         \/ associations' = [associations EXCEPT ![u] = [s \in School |-> NoMember]]
  BY DEF DeleteUser, DeleteAccount, HasAccount
<1>2. /\ users' \in [User -> UserRow \cup {NoUser}]
      /\ users'[u] # NoUser /\ users'[u].deleted /\ users'[u].email = users[u].email
      /\ \A v \in User : v # u => users'[v] = users[v]
  <2>1. /\ users'[u] = [users[u] EXCEPT !.deleted = TRUE]
        /\ users' = [v \in User |-> users'[v]]
        /\ \A v \in User : v # u => users'[v] = users[v]
    BY <1>1 DEF MembersIInv, TablesTyped
  <2>2. users[u] \in UserRow
    BY <1>1, FieldsTyped DEF MembersIInv
  <2>3. /\ users'[u] \in UserRow /\ users'[u].deleted /\ users'[u].email = users[u].email
    BY <2>1, <2>2 DEF UserRow
  <2>4. \A v \in User : users'[v] \in UserRow \cup {NoUser}
    BY <2>1, <2>3 DEF MembersIInv, TablesTyped
  <2> QED
    BY <2>1, <2>3, <2>4, RowsDiffer
<1>3. /\ associations' \in [User -> [School -> Member \cup {NoMember}]]
      /\ \A v \in User, s \in School :
           \/ associations'[v][s] = associations[v][s]
           \/ v = u /\ associations'[v][s] = NoMember
  <2>1. CASE associations' = associations
    BY <2>1 DEF MembersIInv, TablesTyped
  <2>2. CASE associations' = [associations EXCEPT ![u] = [s \in School |-> NoMember]]
    <3>1. [s \in School |-> NoMember] \in [School -> Member \cup {NoMember}]
      OBVIOUS
    <3>2. /\ associations'[u] = [s \in School |-> NoMember]
          /\ \A v \in User : v # u => associations'[v] = associations[v]
          /\ associations' \in [User -> [School -> Member \cup {NoMember}]]
      BY <2>2, <3>1 DEF MembersIInv, TablesTyped
    <3> QED
      BY <3>2
  <2> QED
    BY <1>1, <2>1, <2>2
<1>4. \A v \in User, s \in School : /\ IsMember(v, s)' => IsMember(v, s)
                                    /\ IsAdmin(v, s)' => IsAdmin(v, s)
                                    /\ v # u /\ IsAdmin(v, s) => IsAdmin(v, s)'
  BY <1>3 DEF IsMember, IsAdmin
<1>5. unguarded \subseteq unguarded' /\ unguarded' \subseteq School
  BY <1>1 DEF MembersIInv, TablesTyped, LeftAlone
<1>6. Shrinks
  <2>1. \A v \in User : /\ users'[v] = NoUser <=> users[v] = NoUser
                        /\ users'[v].email = users[v].email
                        /\ users[v] # NoUser /\ users[v].deleted => users'[v].deleted
    BY <1>1, <1>2
  <2>2. \A v \in User, s \in School :
          /\ associations'[v][s] # NoMember => associations[v][s] # NoMember
          /\ associations[v][s] # NoMember /\ ~ users'[v].deleted =>
                associations'[v][s] # NoMember
    BY <1>2, <1>3
  <2>3. schools' = schools /\ late' = late
        /\ schools \in [School -> {"absent", "live", "deleted"}] /\ late \subseteq Request
    BY <1>1 DEF MembersIInv, TablesTyped
  <2> QED
    BY <2>1, <2>2, <2>3, <1>2, <1>3, <1>4, <1>5 DEF Shrinks
<1>7. transaction' = transaction /\ Open' = Open
  BY <1>1 DEF Administers, Open
<1>8. AdministratorsRemain'
  <2>1. ASSUME NEW x \in School, NEW v \in Administrators(x), v # u
        PROVE  v \in Administrators(x)'
    <3>1. v \in User /\ (IsAdmin(v, x) => IsAdmin(v, x)')
      BY <2>1, <1>4 DEF Administrators
    <3>2. HasAccount(v)' = HasAccount(v) /\ users'[v] = users[v]
      BY <2>1, <3>1, <1>2 DEF HasAccount
    <3> QED
      BY <3>1, <3>2, <1>7, AdministratorStays
  <2> QED
    BY <1>1, <2>1, AdministratorsLeft
<1> QED
  BY <1>1, <1>6, <1>8, ShrinksKeep

LEMMA DeleteSchoolKeeps ==
    ASSUME MembersIInv, NEW r \in Request, NEW s \in School, DeleteSchool(r, s)
    PROVE  MembersIInv'
<1> DEFINE Removed(row) == IF row = NoMember THEN row ELSE [row EXCEPT !.deleted = TRUE]
<1>1. /\ Administers(r) /\ schools[s] = "live"
      /\ schools' = [schools EXCEPT ![s] = "deleted"]
      /\ associations' = [u \in User |-> [associations[u] EXCEPT ![s] = Removed(@)]]
      /\ late' = late \cup Using(s)
      /\ UNCHANGED <<users, unguarded>>
  BY DEF DeleteSchool
<1>2. \A row \in Member \cup {NoMember} :
        /\ Removed(row) \in Member \cup {NoMember}
        /\ Removed(row) = NoMember <=> row = NoMember
        /\ row # NoMember => Removed(row).deleted
  <2>1. ASSUME NEW row \in Member
        PROVE  [row EXCEPT !.deleted = TRUE] \in Member /\ [row EXCEPT !.deleted = TRUE].deleted
    BY DEF Member
  <2>2. ASSUME NEW row \in Member
        PROVE  Removed(row) = [row EXCEPT !.deleted = TRUE] /\ row # NoMember
    BY RowsDiffer
  <2>3. Removed(NoMember) = NoMember
    OBVIOUS
  <2> HIDE DEF Removed
  <2>4. ASSUME NEW row \in Member
        PROVE  Removed(row) \in Member /\ Removed(row).deleted
    BY <2>1, <2>2
  <2> QED
    BY <2>3, <2>4, RowsDiffer
<1> HIDE DEF Removed
<1>3. /\ \A u \in User : associations'[u][s] = Removed(associations[u][s])
      /\ \A u \in User, x \in School : x # s => associations'[u][x] = associations[u][x]
      /\ associations' \in [User -> [School -> Member \cup {NoMember}]]
  BY <1>1, <1>2 DEF MembersIInv, TablesTyped
<1>4. /\ \A u \in User : associations'[u][s] = NoMember <=> associations[u][s] = NoMember
      /\ \A u \in User : ~ IsMember(u, s)'
      /\ \A u \in User, x \in School : x # s => IsMember(u, x)' = IsMember(u, x)
      /\ \A u \in User : ~ IsAdmin(u, s)'
      /\ \A u \in User, x \in School : x # s => IsAdmin(u, x)' = IsAdmin(u, x)
  <2>1. \A u \in User : associations[u][s] \in Member \cup {NoMember}
    BY DEF MembersIInv, TablesTyped
  <2>2. \A u \in User : /\ associations'[u][s] = NoMember <=> associations[u][s] = NoMember
                        /\ associations'[u][s] # NoMember => associations'[u][s].deleted
    BY <2>1, <1>2, <1>3
  <2> QED
    BY <2>2, <1>3 DEF IsMember, IsAdmin
<1>5. Shrinks
  <2>1. /\ schools' \in [School -> {"absent", "live", "deleted"}]
        /\ \A x \in School : x # s => schools'[x] = schools[x]
        /\ \A x \in School : schools'[x] = "absent" <=> schools[x] = "absent"
    BY <1>1 DEF MembersIInv, TablesTyped
  <2>2. \A q \in Request : requests[q].school \in School
    BY FieldsTyped DEF MembersIInv
  <2>3. /\ unguarded' = unguarded /\ unguarded \subseteq School
        /\ late \subseteq late' /\ late' \subseteq Request
        /\ users' = users /\ users \in [User -> UserRow \cup {NoUser}]
    BY <1>1 DEF MembersIInv, TablesTyped, Using
  <2>4. \A q \in Request :
          /\ requests[q].state \in {"admitted", "mailing"}
          /\ schools'[requests[q].school] = "deleted"
          => schools[requests[q].school] = "deleted" \/ q \in late'
    BY <1>1, <2>1, <2>2 DEF Using
  <2>5. \A u \in User, x \in School :
         /\ associations'[u][x] # NoMember => associations[u][x] # NoMember
         /\ associations[u][x] # NoMember => associations'[u][x] # NoMember
         /\ IsMember(u, x)' => IsMember(u, x) /\ (schools'[x] = "deleted" => schools[x] = "deleted")
    BY <1>3, <1>4, <2>1
  <2> QED
    BY <1>3, <2>1, <2>3, <2>4, <2>5 DEF Shrinks
<1>6. transaction' = transaction /\ Open' = Open
  BY <1>1 DEF Administers, Open
<1>7. AdministratorsRemain'
  <2>1. ASSUME NEW x \in School, x # s
        PROVE  Administrators(x)' = Administrators(x)
    BY <2>1, <1>1, <1>4, <1>6 DEF Administrators, HasAccount
  <2>2. schools'[s] # "live" /\ \A x \in School : x # s => schools'[x] = schools[x]
    BY <1>1 DEF MembersIInv, TablesTyped
  <2> QED
    BY <1>1, <2>1, <2>2 DEF MembersIInv, AdministratorsRemain
<1> QED
  BY <1>1, <1>5, <1>7, ShrinksKeep
-----------------------------------------------------------------------------
(* The theorems. *)

LEMMA MembersStutter == MembersIInv /\ UNCHANGED vars => MembersIInv'
<1> SUFFICES ASSUME MembersIInv, UNCHANGED vars PROVE MembersIInv'
  OBVIOUS
<1>1. /\ UNCHANGED <<users, schools, associations, loop, requests, transaction, report, lastId>>
      /\ UNCHANGED <<deaths, invited, torn, unguarded, late>> /\ Open' = Open
  BY DEF vars, tableVars, requestVars, historyVars, Open
<1>2. \A e : Used(e)' = Used(e)
  BY <1>1 DEF Used
<1>3. TablesTyped' /\ RowsFit'
  BY <1>1 DEF MembersIInv, TablesTyped, RowsFit
<1>4. AddressesDiffer'
  BY <1>1, <1>2 DEF MembersIInv, AddressesDiffer
<1>5. UploadsCount'
  BY <1>1 DEF MembersIInv, UploadsCount, UploadCounts, IsBulk, RowsBalance
<1>6. LateKnown' /\ MembersFollowSchools'
  BY <1>1 DEF MembersIInv, LateKnown, MembersFollowSchools, IsMember, HasAccount
<1>7. AdministratorsRemain'
  BY <1>1 DEF MembersIInv, AdministratorsRemain, Administrators, IsAdmin, IsMember, HasAccount
<1> QED
  BY <1>3, <1>4, <1>5, <1>6, <1>7 DEF MembersIInv

LEMMA MembersStep == MembersIInv /\ [Next]_vars => MembersIInv'
<1> SUFFICES ASSUME MembersIInv, [Next]_vars PROVE MembersIInv'
  OBVIOUS
<1>1. CASE UNCHANGED vars
  BY <1>1, MembersStutter
<1>2. CASE Restart
  BY <1>2, RestartKeeps
<1>3. ASSUME NEW r \in Request, NEW e \in Email,
             \/ \E role \in Role : InviteUser(r, e, role)
             \/ \E s \in School : SignUp(r, e, s) \/ CreateSchool(r, e, s)
             \/ InviteStaff(r, e)
             \/ CreateSchoolDies(r, e)
             \/ AddSuperAdmin(r, e)
             \/ \E u \in User : ChangeEmail(r, u, e)
             \/ AddressRefused(r, e)
             \/ AddressAwaited(r, e)
      PROVE  MembersIInv'
  <2>1. CASE CreateSchoolDies(r, e) \/ AddSuperAdmin(r, e)
    BY <2>1, RowAddedKeeps
  <2>2. CASE AddressRefused(r, e) \/ AddressAwaited(r, e)
    BY <2>2, AnsweredAtOnceKeeps
  <2>3. CASE \E u \in User : ChangeEmail(r, u, e)
    BY <2>3, ChangeEmailKeeps
  <2> QED
    BY <1>3, <2>1, <2>2, <2>3, BeginnersKeep
<1>4. ASSUME NEW r \in Request,
             \/ \E rows \in [1 .. MaxRows -> Email] : StartBulkInvite(r, rows)
             \/ PlatformAlone(r)
             \/ \E u \in User : UserAwaited(r, u)
      PROVE  MembersIInv'
  BY <1>4, StartBulkKeeps, AnsweredAtOnceKeeps
<1>5. ASSUME NEW r \in Request,
             \/ FinishInvite(r) \/ InviteFails(r) \/ BulkRowRefused(r) \/ BulkRowInvited(r)
             \/ BulkRowAwaited(r) \/ BulkRowDone(r) \/ BulkRowFails(r) \/ BulkCompleted(r)
      PROVE  MembersIInv'
  BY <1>5, FinishInviteKeeps, InviteFailsKeeps, BulkRowRefusedKeeps, BulkRowInvitedKeeps,
     BulkRowWaitsKeeps, BulkRowDoneKeeps, BulkRowFailsKeeps
<1>6. ASSUME NEW r \in Request, NEW u \in User,
             \/ \E s \in School : \/ RemoveUser(r, u, s)
                                  \/ \E role \in Role : UpdateRole(r, u, s, role)
             \/ DeleteUser(r, u)
             \/ DeleteAccount(r, u)
      PROVE  MembersIInv'
  BY <1>6, RemoveUserKeeps, UpdateRoleKeeps, AccountDeletedKeeps
<1>7. ASSUME NEW r \in Request, NEW s \in School, Admit(r, s) \/ DeleteSchool(r, s)
      PROVE  MembersIInv'
  BY <1>7, AdmitKeeps, DeleteSchoolKeeps
<1> QED
  BY <1>1, <1>2, <1>3, <1>4, <1>5, <1>6, <1>7 DEF Next, RequestNext

LEMMA MembersInvariant == Spec => []MembersIInv
  BY MembersBegin, MembersStep, PTL DEF Spec

\* Rows are well formed, and a transaction is open exactly while its request
\* awaits an e-mail.
THEOREM MembersTypeCorrect == Spec => []TypeOK
<1>1. MembersIInv => TypeOK
  <2> SUFFICES ASSUME MembersIInv PROVE TypeOK
    OBVIOUS
  <2>1. ASSUME NEW r \in Request
        PROVE  /\ requests[r].state \in
                    {"new", "admitted", "running", "mailing", "blocked", "answered"}
               /\ requests[r].rows \in Seq(Email)
               /\ requests[r].school \in School
               /\ transaction[r].user \in 0 .. lastId
               /\ requests[r].state = "mailing" <=> transaction[r] # NoTransaction
    <3>1. requests[r].state = "mailing" <=> transaction[r] # NoTransaction
      BY DEF MembersIInv, RowsFit, Open
    <3>2. CASE r \in Open
      BY <3>1, <3>2, FieldsTyped DEF MembersIInv, State, RowsFit, User
    <3>3. CASE r \notin Open
      <4>1. transaction[r] = NoTransaction
        BY <3>3 DEF Open
      <4>2. transaction[r].user = 0
        BY <4>1 DEF NoTransaction
      <4> QED
        BY <3>1, <4>2, FieldsTyped DEF MembersIInv, State
    <3> QED
      BY <3>2, <3>3
  <2> QED
    BY <2>1 DEF MembersIInv, TablesTyped, TypeOK, ReportRow
<1> QED
  BY <1>1, MembersInvariant, PTL

\* A live school other than the platform's has an administrator with an account,
\* unless the last one was demoted, deleted his account, was never committed, or
\* was removed while a deleted account stood in for another: however requests
\* interleave, and for any number of schools, users and requests.
THEOREM SchoolsKeepAdministrators == Spec => []AdministratorsRemain
<1>1. MembersIInv => AdministratorsRemain
  BY DEF MembersIInv
<1> QED
  BY <1>1, MembersInvariant, PTL

\* A deleted school other than the platform's has no member but those invited by a
\* request that had read the school before, and no account is left outside every
\* school but by a creation that died half way.
THEOREM MembersGoWithSchools == Spec => []MembersFollowSchools
<1>1. MembersIInv => MembersFollowSchools
  BY DEF MembersIInv
<1> QED
  BY <1>1, MembersInvariant, PTL

\* The report of an answered upload accounts for every row and for who was
\* invited, and no two accounts share an address.
THEOREM UploadsReportWhatTheyDid == Spec => []ReportsAreTrue
<1>1. MembersIInv => ReportsAreTrue
  <2> SUFFICES ASSUME MembersIInv PROVE ReportsAreTrue
    OBVIOUS
  <2>1. ASSUME NEW r \in Request, requests[r].state = "answered", IsBulk(r)
        PROVE  /\ report[r].successful + report[r].failed = report[r].total
               /\ report[r].successful = Cardinality(invited[r])
               /\ \A u \in invited[r] : users[u] # NoUser
    <3>1. /\ requests[r].rows = <<>> /\ RowsBalance(r)
          /\ report[r].successful = Cardinality(invited[r])
          /\ \A u \in invited[r] : users[u] # NoUser
      BY <2>1 DEF MembersIInv, UploadsCount, UploadCounts
    <3>2. Len(requests[r].rows) = 0
      BY <3>1
    <3>3. report[r].successful + report[r].failed = report[r].total
      BY <3>1, <3>2, FieldsTyped DEF RowsBalance, MembersIInv
    <3> QED
      BY <3>1, <3>3
  <2> QED
    BY <2>1 DEF MembersIInv, AddressesDiffer, ReportsAreTrue
<1> QED
  BY <1>1, MembersInvariant, PTL
-----------------------------------------------------------------------------
(* Accounts and their tokens. *)

\* The types, without the bound on the passwords set with a link, which counts
\* the threads; and what the handlers leave behind of whom a row may belong to:
\* an account that is being created is nobody's, its code nobody else's, and
\* every token, wherever it is, is of an account.
TokensTyped ==
    /\ accounts \in [Person -> {"none", "inactive", "active"}]
    /\ tokens \in [Code \cup Link -> TokenRow \cup {None}]
    /\ signing \in [Person -> Code \cup {None}]
    /\ resending \in Person \cup {None}
    /\ threads \in [Thread -> Held \cup {None}]
    /\ settings \in [Link -> Nat]

TokenRowsFit ==
    /\ \A p \in Person : signing[p] # None => accounts[p] = "none" /\ tokens[signing[p]] = None
    /\ \A p, q \in Person : signing[p] # None /\ signing[p] = signing[q] => p = q
    /\ resending # None => accounts[resending] # "none"
    /\ \A v \in Code \cup Link : tokens[v] # None => accounts[tokens[v].owner] # "none"
    /\ \A t \in Thread : threads[t] # None => accounts[threads[t].owner] # "none"

HasCode(p) == \E c \in Code : tokens[c] # None /\ tokens[c].owner = p

Coded ==
    \A p \in Person :
        accounts[p] = "inactive" /\ p # resending /\ p \notin uncoded => HasCode(p)

\* One request at a time holds a link, the row is there while it does, and the
\* password is set when it says so.
ServesOnce(l) ==
    /\ \A s, t \in Thread : Holds(s, l) /\ Holds(t, l) => s = t
    /\ \A t \in Thread : Holds(t, l) => tokens[l] # None
    /\ \A t \in Thread : Holds(t, l) /\ ~ threads[t].written => settings[l] = 0
    /\ tokens[l] # None /\ settings[l] # 0 =>
          \E t \in Thread : Holds(t, l) /\ threads[t].written
    /\ settings[l] <= 1

AccountIInv ==
    /\ TokensTyped
    /\ TokenRowsFit
    /\ Coded
    /\ \A l \in Link \ excused : ServesOnce(l)

\* What a link depends on.
Untouched(l) ==
    /\ tokens'[l] = None <=> tokens[l] = None
    /\ settings'[l] = settings[l]
    /\ \A t \in Thread : /\ Holds(t, l)' <=> Holds(t, l)
                         /\ Holds(t, l) => threads'[t].written = threads[t].written

LEMMA UntouchedServesOnce ==
    ASSUME NEW l \in Link, ServesOnce(l), Untouched(l)
    PROVE  ServesOnce(l)'
  BY DEF ServesOnce, Untouched

LEMMA ValuesDiffer ==
    /\ None \notin TokenRow /\ None \notin Held
    /\ None \notin Person /\ None \notin Code /\ None \notin Link
    /\ \A l \in Link : l \notin Code
  BY AccountAssumption, TokenAssumption

LEMMA NewRow ==
    ASSUME NEW p \in Person
    PROVE  /\ [owner |-> p, live |-> TRUE] \in TokenRow
           /\ [owner |-> p, live |-> TRUE] # None
<1>1. [owner |-> p, live |-> TRUE] \in TokenRow
  BY DEF TokenRow
<1> QED
  BY <1>1, ValuesDiffer

LEMMA AccountsBegin == AccountInit => AccountIInv
  BY ValuesDiffer
     DEF AccountInit, AccountIInv, TokensTyped, TokenRowsFit, Coded, ServesOnce, Holds

\* The sign-up takes a code nobody has, nor is about to have.
LEMMA SignUpStartsKeeps ==
    ASSUME AccountIInv, NEW p \in Person, NEW c \in Code, SignUpStarts(p, c)
    PROVE  AccountIInv'
<1> USE DEF AccountIInv
<1>1. /\ UNCHANGED <<accounts, tokens, resending, threads, uncoded, settings, excused>>
      /\ \/ UNCHANGED signing
         \/ /\ accounts[p] = "none" /\ tokens[c] = None
            /\ \A q \in Person : signing[q] # c
            /\ signing' = [signing EXCEPT ![p] = c]
  BY DEF SignUpStarts, Uncommitted
<1>2. TokensTyped'
  BY <1>1 DEF TokensTyped
<1>3. TokenRowsFit'
  BY <1>1 DEF TokensTyped, TokenRowsFit
<1>4. Coded' /\ \A l \in Link \ excused' : ServesOnce(l)'
  BY <1>1 DEF Coded, HasCode, ServesOnce, Holds
<1> QED
  BY <1>2, <1>3, <1>4

\* The code is stored with the account.
LEMMA SignUpEndsKeeps ==
    ASSUME AccountIInv, NEW p \in Person, SignUpEnds(p)
    PROVE  AccountIInv'
<1> DEFINE c == signing[p]
<1> DEFINE row == [owner |-> p, live |-> TRUE]
<1> USE DEF AccountIInv
<1>1. /\ c \in Code /\ tokens[c] = None /\ accounts[p] = "none"
      /\ \A q \in Person : q # p => signing[q] # c
      /\ accounts' = [accounts EXCEPT ![p] = "inactive"]
      /\ tokens' = [tokens EXCEPT ![c] = row]
      /\ signing' = [signing EXCEPT ![p] = None]
      /\ UNCHANGED <<resending, threads, uncoded, settings, excused>>
  BY DEF SignUpEnds, TokensTyped, TokenRowsFit
<1>2. row \in TokenRow /\ row # None /\ row.owner = p
  BY NewRow
<1> HIDE DEF c, row
<1>3. TokensTyped'
  BY <1>1, <1>2 DEF TokensTyped
<1>4. TokenRowsFit'
  <2>1. \A q \in Person : /\ accounts[q] # "none" => accounts'[q] # "none"
                          /\ q # p => signing'[q] = signing[q] /\ accounts'[q] = accounts[q]
    BY <1>1 DEF TokensTyped
  <2>2. \A v \in Code \cup Link : tokens'[v] # None =>
            tokens'[v] = row \/ (v # c /\ tokens'[v] = tokens[v])
    BY <1>1 DEF TokensTyped
  <2>3. \A v \in Code \cup Link : tokens[v] # None => tokens[v].owner \in Person
    BY DEF TokensTyped, TokenRow
  <2>4. \A t \in Thread : threads[t] # None => threads[t].owner \in Person
    BY DEF TokensTyped, Held
  <2>5. accounts'[p] = "inactive" /\ signing'[p] = None
    BY <1>1 DEF TokensTyped
  <2>6. \A q \in Person : signing'[q] # None => accounts'[q] = "none" /\ tokens'[signing'[q]] = None
    BY <1>1, <2>1, <2>5 DEF TokensTyped, TokenRowsFit
  <2>7. \A v \in Code \cup Link : tokens'[v] # None => accounts'[tokens'[v].owner] # "none"
    BY <1>2, <2>1, <2>2, <2>3, <2>5 DEF TokenRowsFit
  <2>8. \A x, q \in Person : signing'[x] # None /\ signing'[x] = signing'[q] => x = q
    BY <2>1, <2>5 DEF TokenRowsFit
  <2>9. /\ resending' # None => accounts'[resending'] # "none"
        /\ \A t \in Thread : threads'[t] # None => accounts'[threads'[t].owner] # "none"
    BY <1>1, <2>1, <2>4 DEF TokensTyped, TokenRowsFit
  <2> QED
    BY <2>6, <2>7, <2>8, <2>9 DEF TokenRowsFit
<1>5. Coded'
  <2> SUFFICES ASSUME NEW q \in Person, accounts'[q] = "inactive", q # resending',
                      q \notin uncoded'
               PROVE  HasCode(q)'
    BY DEF Coded
  <2>1. CASE q = p
    BY <1>1, <1>2, <2>1 DEF HasCode, TokensTyped
  <2>2. CASE q # p
    BY <1>1, <2>2 DEF Coded, HasCode, TokensTyped
  <2> QED
    BY <2>1, <2>2
<1>6. \A l \in Link \ excused' : ServesOnce(l)'
  <2>1. \A l \in Link : Untouched(l)
    BY <1>1, ValuesDiffer DEF Untouched, Holds, TokensTyped
  <2> QED
    BY <1>1, <2>1, UntouchedServesOnce
<1> QED
  BY <1>3, <1>4, <1>5, <1>6

LEMMA CreateSuperAdminKeeps ==
    ASSUME AccountIInv, NEW p \in Person, CreateSuperAdmin(p)
    PROVE  AccountIInv'
<1> USE DEF AccountIInv
<1>1. /\ UNCHANGED <<tokens, signing, resending, threads, uncoded, settings, excused>>
      /\ \/ UNCHANGED accounts
         \/ signing[p] = None /\ accounts' = [accounts EXCEPT ![p] = "active"]
  BY DEF CreateSuperAdmin
<1>2. TokensTyped'
  BY <1>1 DEF TokensTyped
<1>3. TokenRowsFit'
  BY <1>1 DEF TokensTyped, TokenRow, Held, TokenRowsFit
<1>4. Coded' /\ \A l \in Link \ excused' : ServesOnce(l)'
  BY <1>1 DEF TokensTyped, Coded, HasCode, ServesOnce, Holds
<1> QED
  BY <1>2, <1>3, <1>4

LEMMA UpdateStatusKeeps ==
    ASSUME AccountIInv, NEW p \in Person, NEW status \in {"inactive", "active"},
           UpdateStatus(p, status)
    PROVE  AccountIInv'
<1> USE DEF AccountIInv
<1>1. /\ UNCHANGED <<tokens, signing, resending, threads, settings, excused>>
      /\ accounts[p] # "none"
      /\ accounts' = [accounts EXCEPT ![p] = status]
      /\ uncoded' = IF status = "inactive" THEN uncoded \cup {p} ELSE uncoded
  BY DEF UpdateStatus
<1>2. TokensTyped'
  BY <1>1 DEF TokensTyped
<1>3. TokenRowsFit'
  BY <1>1 DEF TokensTyped, TokenRow, Held, TokenRowsFit
<1>4. Coded' /\ \A l \in Link \ excused' : ServesOnce(l)'
  BY <1>1 DEF TokensTyped, Coded, HasCode, ServesOnce, Holds
<1> QED
  BY <1>2, <1>3, <1>4

\* Who loses his codes is being sent another.
LEMMA ResendDeletesKeeps ==
    ASSUME AccountIInv, NEW p \in Person, ResendDeletes(p)
    PROVE  AccountIInv'
<1> USE DEF AccountIInv
<1>1. /\ resending = None /\ resending' = p /\ accounts[p] = "inactive"
      /\ UNCHANGED <<accounts, signing, threads, uncoded, settings, excused>>
  BY DEF ResendDeletes, LoopFree
<1>2. /\ DOMAIN tokens' = Code \cup Link
      /\ \A v \in Code \cup Link :
            /\ tokens'[v] = tokens[v] \/ tokens'[v] = None
            /\ tokens'[v] # tokens[v] => v \in Code /\ tokens[v].owner = p
      /\ tokens' = [v \in Code \cup Link |-> tokens'[v]]
  BY DEF ResendDeletes, Without
<1>3. TokensTyped'
  BY <1>1, <1>2 DEF TokensTyped
<1>4. TokenRowsFit'
  BY <1>1, <1>2 DEF TokensTyped, TokenRowsFit
<1>5. Coded'
  BY <1>1, <1>2, ValuesDiffer DEF Coded, HasCode
<1>6. \A l \in Link \ excused' : ServesOnce(l)'
  <2>1. \A l \in Link : Untouched(l)
    BY <1>1, <1>2, ValuesDiffer DEF Untouched, Holds
  <2> QED
    BY <1>1, <2>1, UntouchedServesOnce
<1> QED
  BY <1>3, <1>4, <1>5, <1>6

LEMMA ResendInsertsKeeps ==
    ASSUME AccountIInv, NEW c \in Code, ResendInserts(c)
    PROVE  AccountIInv'
<1> DEFINE row == [owner |-> resending, live |-> TRUE]
<1> USE DEF AccountIInv
<1>1. /\ resending \in Person /\ accounts[resending] # "none"
      /\ UNCHANGED <<accounts, signing, threads, settings, excused>>
      /\ resending' = resending \/ resending' = None
  BY DEF ResendInserts, TokensTyped, TokenRowsFit
<1>2. row \in TokenRow /\ row # None /\ row.owner = resending
  BY <1>1, NewRow
<1>3. \/ /\ tokens[c] = None /\ tokens' = [tokens EXCEPT ![c] = row]
         /\ \A q \in Person : signing[q] # c
         /\ resending' = None
         /\ uncoded' = uncoded \ {resending}
      \/ /\ UNCHANGED tokens
         /\ resending' = None
         /\ uncoded' = uncoded \cup {resending}
      \/ UNCHANGED <<tokens, resending, uncoded>>
  BY DEF ResendInserts, Uncommitted
<1> HIDE DEF row
<1>4. TokensTyped'
  BY <1>1, <1>2, <1>3 DEF TokensTyped
<1>5. TokenRowsFit'
  <2>1. \A v \in Code \cup Link : tokens'[v] = tokens[v] \/ tokens'[v] = row
    BY <1>3 DEF TokensTyped
  <2>2. \A v \in Code \cup Link : tokens'[v] # None => accounts'[tokens'[v].owner] # "none"
    BY <1>1, <1>2, <2>1 DEF TokenRowsFit
  <2>3. \A q \in Person : signing'[q] # None => accounts'[q] = "none" /\ tokens'[signing'[q]] = None
    BY <1>1, <1>3 DEF TokenRowsFit, TokensTyped
  <2> QED
    BY <1>1, <2>2, <2>3 DEF TokenRowsFit
<1>6. Coded'
  <2> SUFFICES ASSUME NEW q \in Person, accounts'[q] = "inactive", q # resending',
                      q \notin uncoded'
               PROVE  HasCode(q)'
    BY DEF Coded
  <2>1. CASE q = resending
    BY <1>1, <1>2, <1>3, <2>1 DEF HasCode, TokensTyped
  <2>2. CASE q # resending
    <3>1. HasCode(q)
      BY <1>1, <1>3, <2>2 DEF Coded
    <3> QED
      BY <1>3, <3>1 DEF HasCode, TokensTyped
  <2> QED
    BY <2>1, <2>2
<1>7. \A l \in Link \ excused' : ServesOnce(l)'
  <2>1. \A l \in Link : Untouched(l)
    BY <1>1, <1>3, ValuesDiffer DEF Untouched, Holds, TokensTyped
  <2> QED
    BY <1>1, <2>1, UntouchedServesOnce
<1> QED
  BY <1>4, <1>5, <1>6, <1>7

\* A link is requested once in its life.
LEMMA RequestResetKeeps ==
    ASSUME AccountIInv, NEW p \in Person, NEW k \in Link, RequestReset(p, k)
    PROVE  AccountIInv'
<1> DEFINE row == [owner |-> p, live |-> TRUE]
<1> USE DEF AccountIInv
<1>1. /\ accounts[p] # "none" /\ tokens[k] = None /\ settings[k] = 0
      /\ tokens' = [tokens EXCEPT ![k] = row]
      /\ UNCHANGED <<accounts, signing, resending, threads, uncoded, settings, excused>>
  BY DEF RequestReset
<1>2. row \in TokenRow /\ row # None /\ row.owner = p
  BY NewRow
<1> HIDE DEF row
<1>3. /\ tokens'[k] = row
      /\ \A v \in Code \cup Link : v # k => tokens'[v] = tokens[v]
  BY <1>1 DEF TokensTyped
<1>4. TokensTyped'
  BY <1>1, <1>2 DEF TokensTyped
<1>5. TokenRowsFit'
  <2>1. \A v \in Code \cup Link : tokens'[v] # None => accounts'[tokens'[v].owner] # "none"
    BY <1>1, <1>2, <1>3 DEF TokenRowsFit
  <2>2. \A q \in Person : signing'[q] # None => accounts'[q] = "none" /\ tokens'[signing'[q]] = None
    BY <1>1, <1>3, ValuesDiffer DEF TokenRowsFit, TokensTyped
  <2> QED
    BY <1>1, <2>1, <2>2 DEF TokenRowsFit
<1>6. Coded'
  BY <1>1, <1>3, ValuesDiffer DEF Coded, HasCode
<1>7. \A l \in Link \ excused' : ServesOnce(l)'
  <2> SUFFICES ASSUME NEW l \in Link \ excused PROVE ServesOnce(l)'
    BY <1>1
  <2>1. CASE l = k
    BY <1>1, <1>2, <1>3, <2>1 DEF ServesOnce, Holds
  <2>2. CASE l # k
    <3>1. Untouched(l)
      BY <1>1, <1>3, <2>2 DEF Untouched, Holds
    <3> QED
      BY <3>1, UntouchedServesOnce
  <2> QED
    BY <2>1, <2>2
<1> QED
  BY <1>4, <1>5, <1>6, <1>7

\* A request that finds a link which nobody else holds finds it unused.
LEMMA LookUpKeeps ==
    ASSUME AccountIInv, NEW t \in Thread, NEW v \in Code \cup Link, LookUp(t, v)
    PROVE  AccountIInv'
<1> DEFINE held == [value |-> v, owner |-> tokens[v].owner, written |-> FALSE]
<1> USE DEF AccountIInv
<1>1. /\ threads[t] = None /\ tokens[v] # None
      /\ threads' = [threads EXCEPT ![t] = held]
      /\ excused' = IF v \in Link /\ \E s \in Thread : Holds(s, v)
                      THEN excused \cup {v} ELSE excused
      /\ UNCHANGED <<accounts, tokens, signing, resending, uncoded, settings>>
  BY DEF LookUp
<1>2. /\ tokens[v].owner \in Person /\ held \in Held /\ held # None
      /\ held.value = v /\ held.owner = tokens[v].owner /\ held.written = FALSE
  <2>1. tokens[v].owner \in Person
    BY <1>1 DEF TokensTyped, TokenRow
  <2>2. held \in Held
    BY <2>1 DEF Held
  <2> QED
    BY <2>1, <2>2, ValuesDiffer
<1> HIDE DEF held
<1>3. /\ threads'[t] = held
      /\ \A s \in Thread : s # t => threads'[s] = threads[s]
  BY <1>1 DEF TokensTyped
<1>4. TokensTyped'
  BY <1>1, <1>2 DEF TokensTyped
<1>5. TokenRowsFit'
  BY <1>1, <1>2, <1>3 DEF TokenRowsFit
<1>6. Coded'
  BY <1>1 DEF Coded, HasCode
<1>7. \A l \in Link \ excused' : ServesOnce(l)'
  <2> SUFFICES ASSUME NEW l \in Link, l \notin excused' PROVE ServesOnce(l)'
    OBVIOUS
  <2>1. ServesOnce(l)
    BY <1>1
  <2>2. CASE l = v
    <3>1. \A s \in Thread : ~ Holds(s, l)
      BY <1>1, <2>2
    <3>2. settings[l] = 0
      BY <1>1, <2>1, <2>2, <3>1 DEF ServesOnce
    <3> QED
      BY <1>1, <1>2, <1>3, <2>2, <3>1, <3>2 DEF ServesOnce, Holds
  <2>3. CASE l # v
    <3>1. Untouched(l)
      BY <1>1, <1>2, <1>3, <2>3 DEF Untouched, Holds
    <3> QED
      BY <2>1, <3>1, UntouchedServesOnce
  <2> QED
    BY <2>2, <2>3
<1> QED
  BY <1>4, <1>5, <1>6, <1>7

LEMMA HeldWritten ==
    ASSUME NEW h \in Held
    PROVE  /\ [h EXCEPT !.written = TRUE] \in Held
           /\ [h EXCEPT !.written = TRUE].value = h.value
           /\ [h EXCEPT !.written = TRUE].owner = h.owner
           /\ [h EXCEPT !.written = TRUE].written = TRUE
  BY DEF Held

\* The password is set by the one request that holds the link.
LEMMA ApplyKeeps ==
    ASSUME AccountIInv, NEW t \in Thread, Apply(t)
    PROVE  AccountIInv'
<1> DEFINE v == threads[t].value
<1> USE DEF AccountIInv
<1>1. /\ threads[t] # None /\ ~ threads[t].written
      /\ threads[t] \in Held /\ v \in Code \cup Link
      /\ threads[t].owner \in Person /\ accounts[threads[t].owner] # "none"
      /\ threads' = [threads EXCEPT ![t].written = TRUE]
      /\ UNCHANGED <<tokens, signing, resending, uncoded, excused>>
  BY DEF Apply, TokensTyped, TokenRowsFit, Held
<1>2. \/ /\ v \in Code /\ UNCHANGED settings
         /\ accounts' = [accounts EXCEPT ![threads[t].owner] = "active"]
      \/ v \in Link /\ UNCHANGED accounts /\ settings' = [settings EXCEPT ![v] = @ + 1]
  BY <1>1 DEF Apply
<1>3. /\ threads'[t] \in Held /\ threads'[t] # None /\ threads'[t].value = v
      /\ threads'[t].owner = threads[t].owner /\ threads'[t].written = TRUE
      /\ \A s \in Thread : s # t => threads'[s] = threads[s]
  <2>1. /\ threads'[t] = [threads[t] EXCEPT !.written = TRUE]
        /\ \A s \in Thread : s # t => threads'[s] = threads[s]
    BY <1>1 DEF TokensTyped
  <2>2. /\ threads'[t] \in Held /\ threads'[t].value = v
        /\ threads'[t].owner = threads[t].owner /\ threads'[t].written = TRUE
    BY <1>1, <2>1, HeldWritten
  <2> QED
    BY <2>1, <2>2, ValuesDiffer
<1> HIDE DEF v
<1>4. TokensTyped'
  <2>1. threads' \in [Thread -> Held \cup {None}]
    BY <1>1, <1>3 DEF TokensTyped
  <2> QED
    BY <1>1, <1>2, <2>1 DEF TokensTyped
<1>5. TokenRowsFit'
  BY <1>1, <1>2, <1>3 DEF TokenRowsFit, TokensTyped, TokenRow, Held
<1>6. Coded'
  BY <1>1, <1>2 DEF Coded, HasCode, TokensTyped
<1>7. \A l \in Link \ excused' : ServesOnce(l)'
  <2> SUFFICES ASSUME NEW l \in Link \ excused PROVE ServesOnce(l)'
    BY <1>1
  <2>1. ServesOnce(l)
    OBVIOUS
  <2>2. CASE l = v
    <3>1. Holds(t, l) /\ settings[l] = 0 /\ settings'[l] = 1
      BY <1>1, <1>2, <2>1, <2>2, ValuesDiffer DEF ServesOnce, Holds, v, TokensTyped
    <3>2. \A s \in Thread : Holds(s, l)' => s = t
      BY <1>3, <2>1, <3>1 DEF ServesOnce, Holds
    <3> QED
      BY <1>1, <1>3, <2>1, <2>2, <3>1, <3>2 DEF ServesOnce, Holds
  <2>3. CASE l # v
    <3>1. Untouched(l)
      BY <1>1, <1>2, <1>3, <2>3 DEF Untouched, Holds, v, TokensTyped
    <3> QED
      BY <2>1, <3>1, UntouchedServesOnce
  <2> QED
    BY <2>2, <2>3
<1> QED
  BY <1>4, <1>5, <1>6, <1>7

\* The row goes with the last request that holds it.
LEMMA ForgetKeeps ==
    ASSUME AccountIInv, NEW t \in Thread, Forget(t)
    PROVE  AccountIInv'
<1> DEFINE v == threads[t].value
<1> USE DEF AccountIInv
<1>1. /\ threads[t] # None /\ threads[t].written /\ v \in Code \cup Link
      /\ tokens' = [tokens EXCEPT ![v] = None]
      /\ uncoded' = IF v \in Code /\ tokens[v] # None /\ accounts[tokens[v].owner] = "inactive"
                      THEN uncoded \cup {tokens[v].owner} ELSE uncoded
      /\ threads' = [threads EXCEPT ![t] = None]
      /\ UNCHANGED <<accounts, signing, resending, settings, excused>>
  BY DEF Forget, TokensTyped, Held
<1> HIDE DEF v
<1>2. /\ tokens'[v] = None /\ threads'[t] = None
      /\ \A x \in Code \cup Link : x # v => tokens'[x] = tokens[x]
      /\ \A s \in Thread : s # t => threads'[s] = threads[s]
  BY <1>1 DEF TokensTyped
<1>3. TokensTyped'
  BY <1>1 DEF TokensTyped
<1>4. TokenRowsFit'
  BY <1>1, <1>2 DEF TokenRowsFit, TokensTyped
<1>5. Coded'
  BY <1>1, <1>2 DEF Coded, HasCode
<1>6. \A l \in Link \ excused' : ServesOnce(l)'
  <2> SUFFICES ASSUME NEW l \in Link \ excused PROVE ServesOnce(l)'
    BY <1>1
  <2>1. ServesOnce(l)
    OBVIOUS
  <2>2. CASE l = v
    <3>1. Holds(t, l)
      BY <1>1, <2>2 DEF Holds, v
    <3>2. \A s \in Thread : ~ Holds(s, l)'
      BY <1>2, <2>1, <3>1 DEF ServesOnce, Holds
    <3> QED
      BY <1>1, <1>2, <2>1, <2>2, <3>2 DEF ServesOnce
  <2>3. CASE l # v
    <3>1. Untouched(l)
      BY <1>1, <1>2, <2>3 DEF Untouched, Holds, v
    <3> QED
      BY <2>1, <3>1, UntouchedServesOnce
  <2> QED
    BY <2>2, <2>3
<1> QED
  BY <1>3, <1>4, <1>5, <1>6

LEMMA TokenExpired ==
    ASSUME NEW row \in TokenRow
    PROVE  /\ [row EXCEPT !.live = FALSE] \in TokenRow
           /\ [row EXCEPT !.live = FALSE].owner = row.owner
  BY DEF TokenRow

LEMMA ExpireKeeps ==
    ASSUME AccountIInv, NEW v \in Code \cup Link, Expire(v)
    PROVE  AccountIInv'
<1> USE DEF AccountIInv
<1>1. /\ tokens[v] # None /\ tokens[v] \in TokenRow
      /\ tokens' = [tokens EXCEPT ![v].live = FALSE]
      /\ UNCHANGED <<accounts, signing, resending, threads, uncoded, settings, excused>>
  BY DEF Expire, TokensTyped
<1>2. /\ tokens'[v] \in TokenRow /\ tokens'[v] # None /\ tokens'[v].owner = tokens[v].owner
      /\ \A x \in Code \cup Link : x # v => tokens'[x] = tokens[x]
  <2>1. /\ tokens'[v] = [tokens[v] EXCEPT !.live = FALSE]
        /\ \A x \in Code \cup Link : x # v => tokens'[x] = tokens[x]
    BY <1>1 DEF TokensTyped
  <2>2. tokens'[v] \in TokenRow /\ tokens'[v].owner = tokens[v].owner
    BY <1>1, <2>1, TokenExpired
  <2> QED
    BY <2>1, <2>2, ValuesDiffer
<1>3. TokensTyped'
  <2>1. tokens' \in [Code \cup Link -> TokenRow \cup {None}]
    BY <1>1, <1>2 DEF TokensTyped
  <2> QED
    BY <1>1, <2>1 DEF TokensTyped
<1>4. TokenRowsFit'
  BY <1>1, <1>2 DEF TokenRowsFit, TokensTyped
<1>5. Coded'
  BY <1>1, <1>2 DEF Coded, HasCode
<1>6. \A l \in Link \ excused' : ServesOnce(l)'
  <2>1. \A l \in Link : Untouched(l)
    BY <1>1, <1>2 DEF Untouched, Holds
  <2> QED
    BY <1>1, <2>1, UntouchedServesOnce
<1> QED
  BY <1>3, <1>4, <1>5, <1>6

\* What a restart cuts off is excused.
LEMMA CrashKeeps == AccountIInv /\ Crash => AccountIInv'
<1> SUFFICES ASSUME AccountIInv, Crash PROVE AccountIInv'
  OBVIOUS
<1> USE DEF AccountIInv
<1>1. /\ signing' = [p \in Person |-> None] /\ resending' = None
      /\ threads' = [t \in Thread |-> None]
      /\ uncoded' = uncoded \cup ({resending} \ {None})
      /\ excused' = excused \cup {l \in Link : \E t \in Thread : Holds(t, l) /\ threads[t].written}
      /\ UNCHANGED <<accounts, tokens, settings>>
  BY DEF Crash
<1>2. TokensTyped' /\ TokenRowsFit'
  BY <1>1 DEF TokensTyped, TokenRowsFit
<1>3. Coded'
  BY <1>1, ValuesDiffer DEF Coded, HasCode, TokensTyped
<1>4. \A l \in Link \ excused' : ServesOnce(l)'
  BY <1>1 DEF ServesOnce, Holds
<1> QED
  BY <1>2, <1>3, <1>4

LEMMA AccountStep == AccountIInv /\ [AccountNext]_accountVars => AccountIInv'
<1> SUFFICES ASSUME AccountIInv, [AccountNext]_accountVars PROVE AccountIInv'
  OBVIOUS
<1>1. CASE UNCHANGED accountVars
  BY <1>1 DEF accountVars, AccountIInv, TokensTyped, TokenRowsFit, Coded, HasCode, ServesOnce, Holds
<1>2. CASE \E p \in Person : \/ \E c \in Code : SignUpStarts(p, c)
                             \/ SignUpEnds(p) \/ CreateSuperAdmin(p) \/ ResendDeletes(p)
                             \/ \E status \in {"inactive", "active"} : UpdateStatus(p, status)
                             \/ \E l \in Link : RequestReset(p, l)
  BY <1>2, SignUpStartsKeeps, SignUpEndsKeeps, CreateSuperAdminKeeps, ResendDeletesKeeps,
     UpdateStatusKeeps, RequestResetKeeps
<1>3. CASE \E c \in Code : ResendInserts(c)
  BY <1>3, ResendInsertsKeeps
<1>4. CASE \E t \in Thread, v \in Code \cup Link : LookUp(t, v)
  BY <1>4, LookUpKeeps
<1>5. CASE \E t \in Thread : Apply(t) \/ Forget(t)
  BY <1>5, ApplyKeeps, ForgetKeeps
<1>6. CASE \E v \in Code \cup Link : Expire(v)
  BY <1>6, ExpireKeeps
<1>7. CASE Crash
  BY <1>7, CrashKeeps
<1> QED
  BY <1>1, <1>2, <1>3, <1>4, <1>5, <1>6, <1>7 DEF AccountNext

\* Who waits to be activated has a code unless there is a cause why not, and a
\* link sets one password unless requests overlapped or were cut off: for any
\* accounts, codes, links, threads and restarts, codes and links together.
THEOREM CodesAndLinksServeOnce == AccountSpec => []TokensServeOnce
<1>1. AccountIInv => TokensServeOnce
  BY DEF AccountIInv, Coded, HasCode, ServesOnce, TokensServeOnce
<1> QED
  BY <1>1, AccountsBegin, AccountStep, PTL DEF AccountSpec
-----------------------------------------------------------------------------
(***************************************************************************)
(* How often a link may set a password.  While its row is there, once for  *)
(* every request that has written, but for those a restart cut off; when   *)
(* it is gone, once more for each that had found it.                       *)
(***************************************************************************)
Writers(l) == {t \in Thread : Holds(t, l) /\ threads[t].written}

Pending(l) == {t \in Thread : Holds(t, l) /\ ~ threads[t].written}

CutOff == crashes * Cardinality(Thread)

SettingsCounted(l) ==
    /\ tokens[l] # None => settings[l] <= CutOff + Cardinality(Writers(l))
    /\ tokens[l] = None => settings[l] + Cardinality(Pending(l)) <= CutOff + Cardinality(Thread)

CountsTyped ==
    /\ crashes \in 0 .. MaxCrashes
    /\ hung \in BOOLEAN
    /\ uncoded \subseteq Person /\ excused \subseteq Link

CountsInv == AccountIInv /\ CountsTyped /\ \A l \in Link : SettingsCounted(l)

LEMMA ThreadsFinite ==
    ASSUME NEW T \in SUBSET Thread
    PROVE  /\ IsFiniteSet(T) /\ Cardinality(T) \in Nat
           /\ Cardinality(Thread) \in Nat /\ Cardinality(T) <= Cardinality(Thread)
  BY AccountAssumption, FS_Subset, FS_CardinalityType

LEMMA CutOffGrows ==
    ASSUME CountsTyped
    PROVE  /\ CutOff \in Nat
           /\ crashes' = crashes => CutOff' = CutOff
           /\ crashes' = crashes + 1 => CutOff' = CutOff + Cardinality(Thread)
<1>1. crashes \in Nat /\ Cardinality(Thread) \in Nat
  BY AccountAssumption, FS_CardinalityType DEF CountsTyped
<1>2. \A a, b \in Nat : a * b \in Nat /\ (a + 1) * b = a * b + b
  OBVIOUS
<1>3. CutOff' = crashes' * Cardinality(Thread)
  BY DEF CutOff
<1> QED
  BY <1>1, <1>2, <1>3 DEF CutOff

\* Writers and those who wait to write are apart.
LEMMA WritersAndPending ==
    ASSUME NEW l \in Link
    PROVE  /\ Cardinality(Writers(l)) \in Nat /\ Cardinality(Pending(l)) \in Nat
           /\ Cardinality(Writers(l)) + Cardinality(Pending(l)) <= Cardinality(Thread)
<1>1. Writers(l) \subseteq Thread /\ Pending(l) \subseteq Thread
  BY DEF Writers, Pending
<1>2. Writers(l) \cap Pending(l) = {}
  BY DEF Writers, Pending
<1>3. /\ IsFiniteSet(Writers(l)) /\ Cardinality(Writers(l)) \in Nat
      /\ IsFiniteSet(Pending(l)) /\ Cardinality(Pending(l)) \in Nat
  BY <1>1, ThreadsFinite
<1>4. Cardinality(Writers(l) \cap Pending(l)) = 0
  BY <1>2, FS_EmptySet, Zenon
<1>5. Cardinality(Writers(l) \cup Pending(l)) =
         Cardinality(Writers(l)) + Cardinality(Pending(l)) - 0
  BY <1>3, <1>4, FS_Union
<1>6. Cardinality(Writers(l) \cup Pending(l)) <= Cardinality(Thread)
  BY <1>1, ThreadsFinite
<1> QED
  BY <1>3, <1>5, <1>6

\* Nothing about the link changes, or one that was never used is requested.
LEMMA UntouchedCounted ==
    ASSUME CountsInv, crashes' = crashes, NEW l \in Link,
           Untouched(l) \/ (settings'[l] = 0 /\ tokens'[l] # None)
    PROVE  SettingsCounted(l)'
<1>1. CutOff' = CutOff /\ CutOff \in Nat
  BY CutOffGrows DEF CountsInv
<1>2. CASE Untouched(l)
  <2>1. \A t \in Thread : /\ t \in Writers(l)' <=> t \in Writers(l)
                          /\ t \in Pending(l)' <=> t \in Pending(l)
    BY <1>2 DEF Writers, Pending, Untouched
  <2>2. /\ Writers(l) \subseteq Thread /\ Writers(l)' \subseteq Thread
        /\ Pending(l) \subseteq Thread /\ Pending(l)' \subseteq Thread
    BY DEF Writers, Pending
  <2>3. Writers(l)' = Writers(l) /\ Pending(l)' = Pending(l)
    BY <2>1, <2>2
  <2>4. Cardinality(Writers(l)') = Cardinality(Writers(l))
        /\ Cardinality(Pending(l)') = Cardinality(Pending(l))
    BY <2>3, Zenon
  <2> QED
    BY <1>1, <1>2, <2>4 DEF SettingsCounted, Untouched, CountsInv
<1>3. CASE settings'[l] = 0 /\ tokens'[l] # None
  <2>1. Writers(l)' \subseteq Thread
    BY DEF Writers
  <2>2. Cardinality(Writers(l)') \in Nat
    BY <2>1, ThreadsFinite
  <2> QED
    BY <1>1, <1>3, <2>2 DEF SettingsCounted
<1> QED
  BY <1>2, <1>3

\* A request that finds the link has not written.
LEMMA LookUpCounted ==
    ASSUME CountsInv, NEW t \in Thread, NEW v \in Code \cup Link, LookUp(t, v), NEW l \in Link
    PROVE  SettingsCounted(l)'
<1> DEFINE held == [value |-> v, owner |-> tokens[v].owner, written |-> FALSE]
<1>1. /\ threads[t] = None /\ tokens[v] # None
      /\ threads' = [threads EXCEPT ![t] = held]
      /\ UNCHANGED <<tokens, settings, crashes>>
  BY DEF LookUp
<1>2. held \in Held /\ held # None /\ held.value = v /\ held.written = FALSE
  <2>1. tokens[v].owner \in Person
    BY <1>1 DEF CountsInv, AccountIInv, TokensTyped, TokenRow
  <2>2. held \in Held
    BY <2>1 DEF Held
  <2> QED
    BY <2>2, ValuesDiffer
<1> HIDE DEF held
<1>3. /\ threads'[t] = held
      /\ \A s \in Thread : s # t => threads'[s] = threads[s]
  BY <1>1 DEF CountsInv, AccountIInv, TokensTyped
<1>4. CASE l # v
  <2>1. Untouched(l)
    BY <1>1, <1>2, <1>3, <1>4 DEF Untouched, Holds
  <2> QED
    BY <1>1, <2>1, UntouchedCounted
<1>5. CASE l = v
  <2>1. \A s \in Thread : s \in Writers(l)' <=> s \in Writers(l)
    BY <1>1, <1>2, <1>3 DEF Writers, Holds
  <2>2. Writers(l) \subseteq Thread /\ Writers(l)' \subseteq Thread
    BY DEF Writers
  <2>3. Cardinality(Writers(l)') = Cardinality(Writers(l))
    <3>1. Writers(l)' = Writers(l)
      BY <2>1, <2>2
    <3> QED
      BY <3>1, Zenon
  <2> QED
    BY <1>1, <1>5, <2>3, CutOffGrows DEF SettingsCounted, CountsInv
<1> QED
  BY <1>4, <1>5

\* Who writes was waiting to.
LEMMA ApplyCounted ==
    ASSUME CountsInv, NEW t \in Thread, Apply(t), NEW l \in Link
    PROVE  SettingsCounted(l)'
<1> DEFINE v == threads[t].value
<1>1. /\ threads[t] # None /\ ~ threads[t].written
      /\ threads[t] \in Held /\ v \in Code \cup Link
      /\ threads' = [threads EXCEPT ![t].written = TRUE]
      /\ UNCHANGED <<tokens, crashes>>
  BY DEF Apply, CountsInv, AccountIInv, TokensTyped, Held
<1>2. \/ v \in Code /\ UNCHANGED settings
      \/ v \in Link /\ settings' = [settings EXCEPT ![v] = @ + 1]
  BY <1>1 DEF Apply
<1>3. /\ threads'[t] # None /\ threads'[t].value = v /\ threads'[t].written = TRUE
      /\ \A s \in Thread : s # t => threads'[s] = threads[s]
  <2>1. /\ threads'[t] = [threads[t] EXCEPT !.written = TRUE]
        /\ \A s \in Thread : s # t => threads'[s] = threads[s]
    BY <1>1 DEF CountsInv, AccountIInv, TokensTyped
  <2>2. /\ threads'[t] \in Held /\ threads'[t].value = v /\ threads'[t].written = TRUE
    BY <1>1, <2>1, HeldWritten
  <2> QED
    BY <2>1, <2>2, ValuesDiffer
<1>4. CASE l # v
  <2>1. Untouched(l)
    BY <1>1, <1>2, <1>3, <1>4 DEF Untouched, Holds, CountsInv, AccountIInv, TokensTyped
  <2> QED
    BY <1>1, <2>1, UntouchedCounted
<1>5. CASE l = v
  <2>1. Holds(t, l) /\ settings[l] \in Nat /\ settings'[l] = settings[l] + 1
    BY <1>1, <1>2, <1>5, ValuesDiffer DEF Holds, CountsInv, AccountIInv, TokensTyped
  <2> HIDE DEF v
  <2>2. \A s \in Thread : Holds(s, l)' <=> Holds(s, l)
    BY <1>1, <1>3, <1>5, <2>1 DEF Holds
  <2>3. /\ t \in Pending(l) /\ t \notin Writers(l)
        /\ \A s \in Thread : s \in Writers(l)' <=> s \in Writers(l) \/ s = t
        /\ \A s \in Thread : s \in Pending(l)' <=> s \in Pending(l) /\ s # t
    BY <1>1, <1>3, <2>1, <2>2 DEF Writers, Pending
  <2>4. /\ Writers(l) \subseteq Thread /\ Writers(l)' \subseteq Thread
        /\ Pending(l) \subseteq Thread /\ Pending(l)' \subseteq Thread
    BY DEF Writers, Pending
  <2>5. Writers(l)' = Writers(l) \cup {t} /\ Pending(l)' = Pending(l) \ {t}
    BY <2>3, <2>4
  <2>6. Cardinality(Writers(l)') = Cardinality(Writers(l)) + 1
    <3>1. Cardinality(Writers(l) \cup {t}) = Cardinality(Writers(l)) + 1
      BY <2>3, <2>4, ThreadsFinite, FS_AddElement
    <3> QED
      BY <2>5, <3>1, Zenon
  <2>7. Cardinality(Pending(l)') = Cardinality(Pending(l)) - 1
    <3>1. Cardinality(Pending(l) \ {t}) = Cardinality(Pending(l)) - 1
      BY <2>3, <2>4, ThreadsFinite, FS_RemoveElement
    <3> QED
      BY <2>5, <3>1, Zenon
  <2> QED
    BY <1>1, <2>1, <2>6, <2>7, WritersAndPending, CutOffGrows, ThreadsFinite
       DEF SettingsCounted, CountsInv
<1> QED
  BY <1>4, <1>5

\* The row goes; who found it before may still write.
LEMMA ForgetCounted ==
    ASSUME CountsInv, NEW t \in Thread, Forget(t), NEW l \in Link
    PROVE  SettingsCounted(l)'
<1> DEFINE v == threads[t].value
<1>1. /\ threads[t] # None /\ threads[t].written /\ v \in Code \cup Link
      /\ tokens' = [tokens EXCEPT ![v] = None]
      /\ threads' = [threads EXCEPT ![t] = None]
      /\ UNCHANGED <<settings, crashes>>
  BY DEF Forget, CountsInv, AccountIInv, TokensTyped, Held
<1>2. /\ tokens'[v] = None /\ threads'[t] = None
      /\ \A x \in Code \cup Link : x # v => tokens'[x] = tokens[x]
      /\ \A s \in Thread : s # t => threads'[s] = threads[s]
  BY <1>1 DEF CountsInv, AccountIInv, TokensTyped
<1>3. CASE l # v
  <2>1. Untouched(l)
    BY <1>1, <1>2, <1>3 DEF Untouched, Holds
  <2> QED
    BY <1>1, <2>1, UntouchedCounted
<1>4. CASE l = v
  <2>1. \A s \in Thread : s \in Pending(l)' <=> s \in Pending(l)
    BY <1>1, <1>2 DEF Pending, Holds
  <2>2. Pending(l) \subseteq Thread /\ Pending(l)' \subseteq Thread
    BY DEF Pending
  <2>3. Cardinality(Pending(l)') = Cardinality(Pending(l))
    <3>1. Pending(l)' = Pending(l)
      BY <2>1, <2>2
    <3> QED
      BY <3>1, Zenon
  <2>4. settings[l] \in Nat /\ settings'[l] = settings[l] /\ tokens'[l] = None
    BY <1>1, <1>2, <1>4 DEF CountsInv, AccountIInv, TokensTyped
  <2>5. CutOff' = CutOff /\ CutOff \in Nat
    BY <1>1, CutOffGrows DEF CountsInv
  <2>6. settings[l] + Cardinality(Pending(l)) <= CutOff + Cardinality(Thread)
    <3>1. SettingsCounted(l)
      BY DEF CountsInv
    <3>2. Cardinality(Thread) \in Nat
      BY ThreadsFinite
    <3> QED
      BY <2>4, <2>5, <3>1, <3>2, WritersAndPending DEF SettingsCounted
  <2> QED
    BY <2>3, <2>4, <2>5, <2>6 DEF SettingsCounted
<1> QED
  BY <1>3, <1>4

\* A restart cuts off one request a thread at most.
LEMMA CrashCounted ==
    ASSUME CountsInv, Crash, NEW l \in Link
    PROVE  SettingsCounted(l)'
<1>1. /\ crashes' = crashes + 1 /\ UNCHANGED <<tokens, settings>>
      /\ threads' = [t \in Thread |-> None]
  BY DEF Crash
<1>2. Writers(l)' = {} /\ Pending(l)' = {}
  BY <1>1 DEF Writers, Pending, Holds
<1>3. Cardinality(Writers(l)') = 0 /\ Cardinality(Pending(l)') = 0
  BY <1>2, FS_EmptySet, Zenon
<1>4. settings[l] \in Nat /\ settings'[l] = settings[l]
  BY <1>1 DEF CountsInv, AccountIInv, TokensTyped
<1>5. CutOff' = CutOff + Cardinality(Thread) /\ CutOff \in Nat /\ Cardinality(Thread) \in Nat
  BY <1>1, CutOffGrows, ThreadsFinite DEF CountsInv
<1>6. settings[l] <= CutOff + Cardinality(Thread)
  <2>1. SettingsCounted(l)
    BY DEF CountsInv
  <2> QED
    BY <1>4, <1>5, <2>1, WritersAndPending DEF SettingsCounted
<1> QED
  BY <1>3, <1>4, <1>5, <1>6 DEF SettingsCounted

\* The steps of the loop leave links alone, or request one.
LEMMA LoopCounted ==
    ASSUME CountsInv, NEW l \in Link,
           \/ UNCHANGED accountVars
           \/ \E p \in Person :
                \/ \E c \in Code : SignUpStarts(p, c)
                \/ SignUpEnds(p) \/ CreateSuperAdmin(p) \/ ResendDeletes(p)
                \/ \E status \in {"inactive", "active"} : UpdateStatus(p, status)
                \/ \E k \in Link : RequestReset(p, k)
           \/ \E c \in Code : ResendInserts(c)
           \/ \E v \in Code \cup Link : Expire(v)
    PROVE  SettingsCounted(l)'
<1> SUFFICES /\ crashes' = crashes
             /\ Untouched(l) \/ (settings'[l] = 0 /\ tokens'[l] # None)
  BY UntouchedCounted
<1>1. TokensTyped
  BY DEF CountsInv, AccountIInv
<1>2. ASSUME UNCHANGED <<threads, settings, crashes>>, tokens'[l] = None <=> tokens[l] = None
      PROVE  crashes' = crashes /\ Untouched(l)
  BY <1>2 DEF Untouched, Holds
<1>3. CASE UNCHANGED accountVars
  BY <1>2, <1>3 DEF accountVars
<1>4. ASSUME NEW p \in Person, NEW c \in Code, SignUpStarts(p, c)
      PROVE  crashes' = crashes /\ Untouched(l)
  BY <1>2, <1>4 DEF SignUpStarts
<1>5. ASSUME NEW p \in Person, SignUpEnds(p)
      PROVE  crashes' = crashes /\ Untouched(l)
  <2>1. /\ signing[p] \in Code /\ UNCHANGED <<threads, settings, crashes>>
        /\ tokens' = [tokens EXCEPT ![signing[p]] = [owner |-> p, live |-> TRUE]]
    BY <1>1, <1>5 DEF SignUpEnds, TokensTyped
  <2>2. tokens'[l] = tokens[l]
    BY <1>1, <2>1, ValuesDiffer DEF TokensTyped
  <2> QED
    BY <1>2, <2>1, <2>2
<1>6. ASSUME NEW p \in Person,
             CreateSuperAdmin(p)
               \/ \E status \in {"inactive", "active"} : UpdateStatus(p, status)
      PROVE  crashes' = crashes /\ Untouched(l)
  BY <1>2, <1>6 DEF CreateSuperAdmin, UpdateStatus
<1>7. ASSUME NEW p \in Person, ResendDeletes(p)
      PROVE  crashes' = crashes /\ Untouched(l)
  <2>1. tokens'[l] = tokens[l]
    BY <1>7, ValuesDiffer DEF ResendDeletes, Without
  <2> QED
    BY <1>2, <1>7, <2>1 DEF ResendDeletes
<1>8. ASSUME NEW p \in Person, NEW k \in Link, RequestReset(p, k)
      PROVE  crashes' = crashes /\ (Untouched(l) \/ (settings'[l] = 0 /\ tokens'[l] # None))
  <2>1. /\ settings[k] = 0 /\ UNCHANGED <<threads, settings, crashes>>
        /\ tokens' = [tokens EXCEPT ![k] = [owner |-> p, live |-> TRUE]]
    BY <1>8 DEF RequestReset
  <2>2. CASE l = k
    <3>1. tokens'[l] = [owner |-> p, live |-> TRUE]
      BY <1>1, <2>1, <2>2 DEF TokensTyped
    <3> QED
      BY <2>1, <2>2, <3>1, NewRow
  <2>3. CASE l # k
    <3>1. tokens'[l] = tokens[l]
      BY <1>1, <2>1, <2>3 DEF TokensTyped
    <3> QED
      BY <1>2, <2>1, <3>1
  <2> QED
    BY <2>2, <2>3
<1>9. ASSUME NEW c \in Code, ResendInserts(c)
      PROVE  crashes' = crashes /\ Untouched(l)
  <2>1. /\ UNCHANGED <<threads, settings, crashes>>
        /\ \/ UNCHANGED tokens
           \/ tokens' = [tokens EXCEPT ![c] = [owner |-> resending, live |-> TRUE]]
    BY <1>9 DEF ResendInserts
  <2>2. tokens'[l] = tokens[l]
    BY <1>1, <2>1, ValuesDiffer DEF TokensTyped
  <2> QED
    BY <1>2, <2>1, <2>2
<1>10. ASSUME NEW v \in Code \cup Link, Expire(v)
       PROVE  crashes' = crashes /\ Untouched(l)
  <2>1. /\ tokens[v] # None /\ UNCHANGED <<threads, settings, crashes>>
        /\ tokens' = [tokens EXCEPT ![v].live = FALSE]
    BY <1>10 DEF Expire
  <2>2. tokens[v] \in TokenRow /\ [tokens[v] EXCEPT !.live = FALSE] # None
    <3>1. tokens[v] \in TokenRow
      BY <1>1, <2>1 DEF TokensTyped
    <3> QED
      BY <3>1, TokenExpired, ValuesDiffer
  <2>3. \/ l = v /\ tokens'[l] = [tokens[v] EXCEPT !.live = FALSE]
        \/ l # v /\ tokens'[l] = tokens[l]
    BY <1>1, <2>1 DEF TokensTyped
  <2>4. tokens'[l] = None <=> tokens[l] = None
    BY <2>1, <2>2, <2>3
  <2> QED
    BY <1>2, <2>1, <2>4
<1> QED
  BY <1>3, <1>4, <1>5, <1>6, <1>7, <1>8, <1>9, <1>10

LEMMA CountsTypedStep ==
    ASSUME CountsInv, AccountNext
    PROVE  CountsTyped'
<1> USE DEF CountsInv, CountsTyped
<1>1. ASSUME NEW p \in Person,
             \/ \E c \in Code : SignUpStarts(p, c)
             \/ SignUpEnds(p) \/ CreateSuperAdmin(p) \/ ResendDeletes(p)
             \/ \E status \in {"inactive", "active"} : UpdateStatus(p, status)
             \/ \E l \in Link : RequestReset(p, l)
      PROVE  CountsTyped'
  BY <1>1 DEF SignUpStarts, SignUpEnds, CreateSuperAdmin, ResendDeletes, UpdateStatus, RequestReset
<1>2. ASSUME NEW c \in Code, ResendInserts(c)
      PROVE  CountsTyped'
  <2>1. resending \in Person
    BY <1>2 DEF ResendInserts, AccountIInv, TokensTyped
  <2> QED
    BY <1>2, <2>1 DEF ResendInserts
<1>3. ASSUME NEW t \in Thread, NEW v \in Code \cup Link, LookUp(t, v)
      PROVE  CountsTyped'
  BY <1>3 DEF LookUp
<1>4. ASSUME NEW t \in Thread, Apply(t)
      PROVE  CountsTyped'
  BY <1>4 DEF Apply
<1>5. ASSUME NEW t \in Thread, Forget(t)
      PROVE  CountsTyped'
  <2> DEFINE v == threads[t].value
  <2>1. /\ uncoded' = IF v \in Code /\ tokens[v] # None /\ accounts[tokens[v].owner] = "inactive"
                        THEN uncoded \cup {tokens[v].owner} ELSE uncoded
        /\ UNCHANGED <<crashes, hung, excused>>
    BY <1>5 DEF Forget
  <2>2. v \in Code /\ tokens[v] # None => tokens[v].owner \in Person
    BY DEF AccountIInv, TokensTyped, TokenRow
  <2> QED
    BY <2>1, <2>2
<1>6. ASSUME NEW v \in Code \cup Link, Expire(v)
      PROVE  CountsTyped'
  BY <1>6 DEF Expire
<1>7. ASSUME Crash
      PROVE  CountsTyped'
  <2>1. /\ crashes < MaxCrashes /\ crashes' = crashes + 1 /\ hung' = FALSE
        /\ uncoded' = uncoded \cup ({resending} \ {None})
        /\ excused' = excused
             \cup {l \in Link : \E t \in Thread : Holds(t, l) /\ threads[t].written}
    BY <1>7 DEF Crash
  <2>2. resending \in Person \cup {None} /\ MaxCrashes \in Nat
    BY AccountAssumption DEF AccountIInv, TokensTyped
  <2>3. uncoded' \subseteq Person /\ excused' \subseteq Link
    BY <2>1, <2>2
  <2>4. crashes' \in 0 .. MaxCrashes
    BY <2>1, <2>2
  <2> QED
    BY <2>1, <2>3, <2>4
<1> QED
  BY <1>1, <1>2, <1>3, <1>4, <1>5, <1>6, <1>7 DEF AccountNext

LEMMA CountsBegin == AccountInit => CountsInv
<1> SUFFICES ASSUME AccountInit PROVE CountsInv
  OBVIOUS
<1>1. CountsTyped
  <2>1. crashes = 0 /\ hung = FALSE /\ uncoded = {} /\ excused = {}
    BY DEF AccountInit
  <2>2. 0 \in 0 .. MaxCrashes
    BY AccountAssumption
  <2> QED
    BY <2>1, <2>2 DEF CountsTyped
<1>2. ASSUME NEW l \in Link PROVE SettingsCounted(l)
  <2>1. tokens[l] = None /\ settings[l] = 0
    BY DEF AccountInit
  <2>2. CutOff \in Nat /\ Cardinality(Thread) \in Nat
    BY <1>1, CutOffGrows, ThreadsFinite
  <2>3. /\ Cardinality(Pending(l)) \in Nat
        /\ Cardinality(Pending(l)) <= Cardinality(Thread)
    BY ThreadsFinite DEF Pending
  <2> QED
    BY <2>1, <2>2, <2>3 DEF SettingsCounted
<1> QED
  BY <1>1, <1>2, AccountsBegin DEF CountsInv

LEMMA CountsStep == CountsInv /\ [AccountNext]_accountVars => CountsInv'
<1> SUFFICES ASSUME CountsInv, [AccountNext]_accountVars PROVE CountsInv'
  OBVIOUS
<1>1. AccountIInv'
  BY AccountStep DEF CountsInv
<1>2. CountsTyped'
  <2>1. CASE UNCHANGED accountVars
    BY <2>1 DEF CountsInv, CountsTyped, accountVars
  <2> QED
    BY <2>1, CountsTypedStep
<1>3. ASSUME NEW l \in Link PROVE SettingsCounted(l)'
  BY LoopCounted, LookUpCounted, ApplyCounted, ForgetCounted, CrashCounted DEF AccountNext
<1> QED
  BY <1>1, <1>2, <1>3 DEF CountsInv

\* AccountTypeOK: accounts, codes, links and threads keep their types, and no link
\* sets more passwords than there are threads between two restarts.
THEOREM AccountsTyped == AccountSpec => []AccountTypeOK
<1>1. ASSUME CountsInv PROVE AccountTypeOK
  <2> DEFINE n == Cardinality(Thread)
             bound == (MaxCrashes + 1) * n
  <2>1. CutOff + n <= bound /\ bound \in Nat
    <3>1. crashes \in Nat /\ MaxCrashes \in Nat /\ crashes <= MaxCrashes /\ n \in Nat
      BY <1>1, AccountAssumption, FS_CardinalityType DEF CountsInv, CountsTyped
    <3>2. \A a, b, m \in Nat : a <= b => a * m + m <= (b + 1) * m /\ (b + 1) * m \in Nat
      OBVIOUS
    <3> QED
      BY <3>1, <3>2 DEF CutOff
  <2>2. ASSUME NEW l \in Link PROVE settings[l] \in 0 .. bound
    <3>1. settings[l] \in Nat /\ SettingsCounted(l) /\ CutOff \in Nat /\ n \in Nat
      BY <1>1, CutOffGrows, ThreadsFinite DEF CountsInv, AccountIInv, TokensTyped
    <3>2. settings[l] <= CutOff + n
      BY <3>1, WritersAndPending DEF SettingsCounted
    <3> HIDE DEF bound, n
    <3> QED
      BY <2>1, <3>1, <3>2
  <2> HIDE DEF bound
  <2>3. settings \in [Link -> 0 .. bound]
    BY <1>1, <2>2 DEF CountsInv, AccountIInv, TokensTyped
  <2> QED
    BY <1>1, <2>3 DEF CountsInv, CountsTyped, AccountIInv, TokensTyped, TokenRowsFit,
                      AccountTypeOK, bound
<1> QED
  BY <1>1, CountsBegin, CountsStep, PTL DEF AccountSpec
-----------------------------------------------------------------------------
(***************************************************************************)
(* Schools and accounts side by side.                                      *)
(***************************************************************************)
LEMMA MembersFollowsBoth == MCSpec => Spec /\ AccountSpec
<1>1. MCInit => Init /\ AccountInit
  BY DEF MCInit
<1>2. [MCNext]_<<vars, accountVars, focus>> => [Next]_vars /\ [AccountNext]_accountVars
  BY DEF MCNext, Next
<1> QED
  BY <1>1, <1>2, PTL DEF MCSpec, Spec, AccountSpec

\* MCTypeOK: the rows of both keep their types.
THEOREM SchoolsTypeCorrect == MCSpec => []MCTypeOK
  BY MembersFollowsBoth, MembersTypeCorrect, AccountsTyped, PTL DEF MCTypeOK
=============================================================================
