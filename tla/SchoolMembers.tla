---------------------------- MODULE SchoolMembers ----------------------------
(***************************************************************************)
(* Schools and the people in them: sign-up, invitations one by one or from *)
(* a file, and the administration of members (app/services/school.py,      *)
(* app/services/user.py) over the tables users, schools and                *)
(* user_school_association.                                                *)
(*                                                                         *)
(* An invitation inserts its rows, awaits the e-mail and only then, with   *)
(* the notification, commits.  Meanwhile the event loop runs the other     *)
(* requests: they do not see the rows, but the unique index on users.email *)
(* does, and PostgreSQL lets a second insert of an address wait until the  *)
(* first transaction ends.  That wait is synchronous and holds the event   *)
(* loop, so the loop is a variable here.  Ids come from a sequence, which  *)
(* a rollback does not set back.                                           *)
(***************************************************************************)
EXTENDS Integers, Sequences, FiniteSets

CONSTANTS Email,       \* addresses
          School,      \* ids of schools
          Request,     \* HTTP requests; each is sent once
          First,       \* the address of the first administrator
          FirstSchool, \* and the school he signed up with
          Platform,    \* the school of the platform's staff: ADMIN_SCHOOL_NAME
          MaxUsers,    \* bound: ids taken from the sequence of users
          MaxRows,     \* rows of an uploaded file
          MaxDeaths    \* bound: requests that fail in the database, restarts

ASSUME MembersAssumption ==
    /\ First \in Email /\ "none" \notin Email
    /\ FirstSchool \in School /\ Platform \in School /\ Platform # FirstSchool
    /\ MaxUsers \in Nat \ {0} /\ MaxRows \in Nat /\ MaxDeaths \in Nat

VARIABLES users,        \* id -> NoUser or its row
          schools,      \* id -> "absent", "live" or "deleted"
          associations, \* user -> school -> NoMember or its row
          lastId,       \* the sequence of users.id
          loop,         \* the request the event loop is executing, or Idle
          requests,     \* request -> what it is doing
          transaction,  \* request -> what it has inserted and not committed
          report,       \* request -> the BulkInviteStatus of its task
          deaths,       \* failures so far
          invited,      \* history: request -> users it has reported as invited
          torn,         \* history: users whose request died half done
          unguarded,    \* history: schools that lost their last administrator unasked
          late          \* history: requests whose school was deleted after they read it

tableVars == <<users, schools, associations>>
requestVars == <<loop, requests, transaction, report, lastId>>
historyVars == <<invited, torn, unguarded, late>>
vars == <<tableVars, requestVars, deaths, historyVars>>

User == 1 .. MaxUsers

\* Nothing here tells teachers, students and the platform's staff apart.
Role == {"school_admin", "member"}

Idle == "idle"

NoUser == [email |-> "none"]
NoMember == [role |-> "none"]
NoTransaction == [user |-> 0]

ASSUME LoopAssumption == Idle \notin Request

UserRow == [email : Email, deleted : BOOLEAN]
Member == [role : Role, deleted : BOOLEAN]

\* Rows are well formed, and a transaction is open exactly while its request
\* awaits an e-mail.
TypeOK ==
    /\ users \in [User -> UserRow \cup {NoUser}]
    /\ schools \in [School -> {"absent", "live", "deleted"}]
    /\ associations \in [User -> [School -> Member \cup {NoMember}]]
    /\ lastId \in User
    /\ loop \in Request \cup {Idle}
    /\ \A r \in Request :
         /\ requests[r].state \in
              {"new", "admitted", "running", "mailing", "blocked", "answered"}
         /\ requests[r].rows \in Seq(Email)
         /\ requests[r].school \in School
         /\ transaction[r].user \in 0 .. lastId
         /\ requests[r].state = "mailing" <=> transaction[r] # NoTransaction
    /\ report \in [Request -> [total : Nat, successful : Nat, failed : Nat]]
    /\ deaths \in 0 .. MaxDeaths
    /\ invited \in [Request -> SUBSET User]
    /\ torn \subseteq User
    /\ unguarded \subseteq School
    /\ late \subseteq Request

\* The first school has been signed up.
Init ==
    /\ users = [u \in User |-> IF u = 1 THEN [email |-> First, deleted |-> FALSE]
                                        ELSE NoUser]
    /\ schools = [s \in School |-> IF s = FirstSchool THEN "live" ELSE "absent"]
    /\ associations = [u \in User |-> [s \in School |->
                         IF u = 1 /\ s = FirstSchool
                           THEN [role |-> "school_admin", deleted |-> FALSE]
                           ELSE NoMember]]
    /\ lastId = 1
    /\ loop = Idle
    /\ requests = [r \in Request |-> [state |-> "new", rows |-> <<>>, school |-> FirstSchool]]
    /\ transaction = [r \in Request |-> NoTransaction]
    /\ report = [r \in Request |-> [total |-> 0, successful |-> 0, failed |-> 0]]
    /\ deaths = 0
    /\ invited = [r \in Request |-> {}]
    /\ torn = {}
    /\ unguarded = {}
    /\ late = {}
-----------------------------------------------------------------------------
(* The unique index on users.email. *)

\* A committed row has the address, be it soft-deleted.
Used(e) == \E u \in User : users[u].email = e

Open == {r \in Request : transaction[r] # NoTransaction}

\* An open transaction has inserted the address: another insert waits for it.
Locked(e) ==
    \E r \in Open : transaction[r].email = e /\ users[transaction[r].user] = NoUser

Free(e) == ~ Used(e) /\ ~ Locked(e)
-----------------------------------------------------------------------------
(* Memberships. *)

IsMember(u, s) == associations[u][s] # NoMember /\ ~ associations[u][s].deleted

IsAdmin(u, s) == IsMember(u, s) /\ associations[u][s].role = "school_admin"

\* Deleted accounts count.
get_school_admin_count(s) == Cardinality({u \in User : IsAdmin(u, s)})

HasAccount(u) == users[u] # NoUser /\ ~ users[u].deleted

\* Who administers the school with an account of his own, or will when the open
\* transaction that invites him commits.
Administrators(s) ==
    {u \in User : \/ IsAdmin(u, s) /\ HasAccount(u)
                  \/ \E r \in Open : /\ transaction[r].user = u
                                     /\ transaction[r].school = s
                                     /\ transaction[r].role = "school_admin"
                                     /\ users[u] = NoUser \/ HasAccount(u)}

\* The schools that nobody administers without the users us.
LeftAlone(us) == {s \in School : Administrators(s) # {} /\ Administrators(s) \subseteq us}
-----------------------------------------------------------------------------
(* Requests up to the e-mail. *)

Begins(r) == loop = Idle /\ requests[r].state = "new"

Admitted(r) == loop = Idle /\ requests[r].state = "admitted"

(***************************************************************************)
(* get_current_user_with_context, for a request that invites: the school   *)
(* of the token is read on a thread, while the loop does something else,   *)
(* and never again - for an upload not even after the file is read.        *)
(***************************************************************************)
Admit(r, s) ==
    /\ requests[r].state = "new"
    /\ schools[s] = "live"
    /\ requests' = [requests EXCEPT ![r].state = "admitted", ![r].school = s]
    /\ UNCHANGED <<tableVars, loop, transaction, report, lastId, deaths, historyVars>>

\* The next user, with a membership of s: inserted, and the e-mail is awaited.
Inserts(r, e, role, s) ==
    /\ Free(e)
    /\ lastId < MaxUsers
    /\ lastId' = lastId + 1
    /\ transaction' = [transaction EXCEPT ![r] =
                         [user |-> lastId + 1, email |-> e, role |-> role, school |-> s]]
    /\ requests' = [requests EXCEPT ![r].state = "mailing", ![r].school = s]
    /\ loop' = Idle

\* invite_user; only a super admin, whose school is the platform, may invite in
\* every role.  The enrolments it asks for are coroutines nobody awaits.
InviteUser(r, e, role) ==
    /\ Admitted(r)
    /\ role = "school_admin" => requests[r].school = Platform
    /\ Inserts(r, e, role, requests[r].school)
    /\ UNCHANGED <<tableVars, report, deaths, historyVars>>

\* get_by_name, which finds deleted schools too, or else create with its commit.
OpensPlatform ==
    schools' = [schools EXCEPT ![Platform] = IF @ = "absent" THEN "live" ELSE @]

\* invite_user by a super admin, for the platform.
InviteStaff(r, e) ==
    /\ Admitted(r)
    /\ OpensPlatform
    /\ Inserts(r, e, "member", Platform)
    /\ UNCHANGED <<users, associations, report, deaths, historyVars>>

\* The address is refused, or the request dies, after that commit.
PlatformAlone(r) ==
    /\ Begins(r) \/ Admitted(r)
    /\ schools[Platform] = "absent"
    /\ OpensPlatform
    /\ requests' = [requests EXCEPT ![r].state = "answered"]
    /\ UNCHANGED <<users, associations, loop, transaction, report, lastId, deaths,
                   historyVars>>

\* create_super_admin, by anybody; it does not suspend.
AddSuperAdmin(r, e) ==
    /\ Begins(r)
    /\ Free(e)
    /\ lastId < MaxUsers
    /\ lastId' = lastId + 1
    /\ OpensPlatform
    /\ users' = [users EXCEPT ![lastId'] = [email |-> e, deleted |-> FALSE]]
    /\ associations' = [associations EXCEPT
                          ![lastId'][Platform] = [role |-> "member", deleted |-> FALSE]]
    /\ requests' = [requests EXCEPT ![r].state = "answered"]
    /\ UNCHANGED <<loop, transaction, report, deaths, historyVars>>

\* Schools that do not exist, not even in an open transaction.
Unfounded ==
    {s \in School \ {Platform} : schools[s] = "absent"} \ {transaction[r].school : r \in Open}

\* create_school_and_admin.
SignUp(r, e, s) ==
    /\ Begins(r)
    /\ s \in Unfounded
    /\ Inserts(r, e, "school_admin", s)
    /\ UNCHANGED <<tableVars, report, deaths, historyVars>>

(***************************************************************************)
(* admin_invite_user commits the user, then the school; the membership     *)
(* waits for the e-mail.                                                   *)
(***************************************************************************)
CreateSchool(r, e, s) ==
    /\ Begins(r)
    /\ s \in Unfounded
    /\ Inserts(r, e, "school_admin", s)
    /\ users' = [users EXCEPT ![lastId'] = [email |-> e, deleted |-> FALSE]]
    /\ schools' = [schools EXCEPT ![s] = "live"]
    /\ UNCHANGED <<associations, report, deaths, historyVars>>

\* ... or dies after its first commit.
CreateSchoolDies(r, e) ==
    /\ Begins(r)
    /\ Free(e)
    /\ lastId < MaxUsers
    /\ deaths < MaxDeaths
    /\ deaths' = deaths + 1
    /\ lastId' = lastId + 1
    /\ users' = [users EXCEPT ![lastId'] = [email |-> e, deleted |-> FALSE]]
    /\ requests' = [requests EXCEPT ![r].state = "answered"]
    /\ torn' = torn \cup {lastId'}
    /\ UNCHANGED <<schools, associations, loop, transaction, report,
                   invited, unguarded, late>>

\* create_school has committed the user, not yet his membership: the open
\* transaction holds his row against an update of its key.
RowHeld(u) == \E q \in Open : transaction[q].user = u /\ users[u] # NoUser

\* An administrator or a super admin changes the address of somebody.
ChangeEmail(r, u, e) ==
    /\ Begins(r)
    /\ HasAccount(u) /\ ~ RowHeld(u)
    /\ Free(e)
    /\ users' = [users EXCEPT ![u].email = e]
    /\ requests' = [requests EXCEPT ![r].state = "answered"]
    /\ UNCHANGED <<schools, associations, loop, transaction, report, lastId,
                   deaths, historyVars>>

\* 409, or the index refuses the address of a deleted account.
AddressRefused(r, e) ==
    /\ Begins(r) \/ Admitted(r)
    /\ Used(e)
    /\ requests' = [requests EXCEPT ![r].state = "answered"]
    /\ UNCHANGED <<tableVars, loop, transaction, report, lastId, deaths, historyVars>>

\* The statement waits in the database; the loop waits with it.
Waits(r) ==
    /\ loop' = r
    /\ requests' = [requests EXCEPT ![r].state = "blocked"]
    /\ UNCHANGED <<users, associations, transaction, report, lastId, deaths, historyVars>>

\* The insert, or the update, meets the address in an open transaction.
AddressAwaited(r, e) ==
    /\ Begins(r) \/ Admitted(r)
    /\ ~ Used(e) /\ Locked(e)
    /\ OpensPlatform \/ UNCHANGED schools
    /\ Waits(r)

\* The update meets a row that is held.
UserAwaited(r, u) ==
    /\ Begins(r)
    /\ HasAccount(u) /\ RowHeld(u)
    /\ UNCHANGED schools
    /\ Waits(r)
-----------------------------------------------------------------------------
(* After the e-mail. *)

\* Everything the session of r has inserted is committed.
Commits(r) ==
    LET t == transaction[r] IN
    /\ users' = [users EXCEPT
         ![t.user] = IF @ = NoUser THEN [email |-> t.email, deleted |-> FALSE] ELSE @]
    /\ schools' = [schools EXCEPT ![t.school] = IF @ = "absent" THEN "live" ELSE @]
    /\ associations' = [associations EXCEPT
         ![t.user][t.school] = [role |-> t.role, deleted |-> FALSE]]
    /\ invited' = [invited EXCEPT ![r] = @ \cup {t.user}]
    /\ transaction' = [transaction EXCEPT ![r] = NoTransaction]

\* What a rollback of the open transactions of rs leaves half done.
Tears(rs) ==
    /\ torn' = torn \cup {u \in User : /\ users[u] # NoUser
                                       /\ \E r \in rs \cap Open :
                                            /\ transaction[r].user = u
                                            /\ transaction[r].role = "school_admin"}
    /\ unguarded' = unguarded \cup
         {s \in LeftAlone({transaction[r].user : r \in rs \cap Open}) : schools[s] # "absent"}

IsBulk(r) == report[r].total > 0

\* The notification commits the invitation.
FinishInvite(r) ==
    /\ loop = Idle
    /\ requests[r].state = "mailing" /\ ~ IsBulk(r)
    /\ Commits(r)
    /\ requests' = [requests EXCEPT ![r].state = "answered"]
    /\ UNCHANGED <<loop, report, lastId, deaths, torn, unguarded, late>>

\* The notification fails: get_transactional_db rolls back.
InviteFails(r) ==
    /\ loop = Idle
    /\ requests[r].state = "mailing" /\ ~ IsBulk(r)
    /\ deaths < MaxDeaths
    /\ deaths' = deaths + 1
    /\ Tears({r})
    /\ transaction' = [transaction EXCEPT ![r] = NoTransaction]
    /\ requests' = [requests EXCEPT ![r].state = "answered"]
    /\ UNCHANGED <<tableVars, loop, report, lastId, invited, late>>
-----------------------------------------------------------------------------
(* Invitations from a file. *)

StartBulkInvite(r, rows) ==
    /\ Admitted(r)
    /\ loop' = r
    /\ requests' = [requests EXCEPT ![r].state = "running", ![r].rows = rows]
    /\ report' = [report EXCEPT ![r].total = Len(rows)]
    /\ UNCHANGED <<tableVars, transaction, lastId, deaths, historyVars>>

Address(r) == Head(requests[r].rows)

Processing(r) == loop = r /\ requests[r].state = "running" /\ requests[r].rows # <<>>

NextRow(r) ==
    requests' = [requests EXCEPT ![r].state = "running", ![r].rows = Tail(@)]

BulkRowRefused(r) ==
    /\ Processing(r)
    /\ Used(Address(r))
    /\ report' = [report EXCEPT ![r].failed = @ + 1]
    /\ NextRow(r)
    /\ UNCHANGED <<tableVars, loop, transaction, lastId, deaths, historyVars>>

\* The school is the one of the upload, whatever has become of it.
BulkRowInvited(r) ==
    /\ Processing(r)
    /\ Inserts(r, Address(r), "member", requests[r].school)
    /\ UNCHANGED <<tableVars, report, deaths, historyVars>>

BulkRowAwaited(r) ==
    /\ Processing(r)
    /\ ~ Used(Address(r)) /\ Locked(Address(r))
    /\ requests' = [requests EXCEPT ![r].state = "blocked"]
    /\ UNCHANGED <<tableVars, loop, transaction, report, lastId, deaths, historyVars>>

\* Mutant of BulkRowDone: the row is reported and not committed.
BulkRowReported(r) ==
    /\ loop = Idle
    /\ requests[r].state = "mailing" /\ IsBulk(r)
    /\ invited' = [invited EXCEPT ![r] = @ \cup {transaction[r].user}]
    /\ transaction' = [transaction EXCEPT ![r] = NoTransaction]
    /\ report' = [report EXCEPT ![r].successful = @ + 1]
    /\ NextRow(r)
    /\ loop' = r
    /\ UNCHANGED <<tableVars, lastId, deaths, torn, unguarded, late>>

BulkRowDone(r) ==
    /\ loop = Idle
    /\ requests[r].state = "mailing" /\ IsBulk(r)
    /\ Commits(r)
    /\ report' = [report EXCEPT ![r].successful = @ + 1]
    /\ NextRow(r)
    /\ loop' = r
    /\ UNCHANGED <<lastId, deaths, torn, unguarded, late>>

\* Mutant of BulkRowFails: without db.rollback().
BulkRowKept(r) ==
    /\ loop = Idle
    /\ requests[r].state = "mailing" /\ IsBulk(r)
    /\ deaths < MaxDeaths
    /\ deaths' = deaths + 1
    /\ report' = [report EXCEPT ![r].failed = @ + 1]
    /\ NextRow(r)
    /\ loop' = r
    /\ UNCHANGED <<tableVars, transaction, lastId, historyVars>>

\* Mutant of BulkRowFails: the exception leaves the loop over the rows, and
\* nobody completes the task.
BulkRowAbandoned(r) ==
    /\ loop = Idle
    /\ requests[r].state = "mailing" /\ IsBulk(r)
    /\ deaths < MaxDeaths
    /\ deaths' = deaths + 1
    /\ transaction' = [transaction EXCEPT ![r] = NoTransaction]
    /\ report' = [report EXCEPT ![r].failed = @ + 1]
    /\ requests' = [requests EXCEPT ![r].state = "running"]
    /\ UNCHANGED <<tableVars, loop, lastId, historyVars>>

\* The commit fails: db.rollback(), and on to the next row.
BulkRowFails(r) ==
    /\ loop = Idle
    /\ requests[r].state = "mailing" /\ IsBulk(r)
    /\ deaths < MaxDeaths
    /\ deaths' = deaths + 1
    /\ transaction' = [transaction EXCEPT ![r] = NoTransaction]
    /\ report' = [report EXCEPT ![r].failed = @ + 1]
    /\ NextRow(r)
    /\ loop' = r
    /\ UNCHANGED <<tableVars, lastId, historyVars>>

BulkCompleted(r) ==
    /\ loop = r
    /\ requests[r].state = "running" /\ requests[r].rows = <<>>
    /\ loop' = Idle
    /\ requests' = [requests EXCEPT ![r].state = "answered"]
    /\ UNCHANGED <<tableVars, transaction, report, lastId, deaths, historyVars>>
-----------------------------------------------------------------------------
(* The administration of members; none of it suspends. *)

Administers(r) ==
    /\ Begins(r)
    /\ requests' = [requests EXCEPT ![r].state = "answered"]
    /\ UNCHANGED <<loop, transaction, report, lastId, deaths, invited, torn>>

\* Mutant of RemoveUser: the last administrator may go.
RemoveAnyone(r, u, s) ==
    /\ Administers(r)
    /\ IsMember(u, s)
    /\ associations' = [associations EXCEPT ![u][s].deleted = TRUE]
    /\ unguarded' = unguarded \cup {t \in {s} \cap LeftAlone({u}) :
                                      \E v \in User \ {u} : IsAdmin(v, t)}
    /\ UNCHANGED <<users, schools, late>>

\* remove_user_from_school, by somebody else.  The history notes where the guard
\* was met by the account of somebody who had deleted it.
RemoveUser(r, u, s) ==
    /\ Administers(r)
    /\ IsMember(u, s)
    /\ IsAdmin(u, s) => get_school_admin_count(s) > 1
    /\ associations' = [associations EXCEPT ![u][s].deleted = TRUE]
    /\ unguarded' = unguarded \cup {t \in {s} \cap LeftAlone({u}) :
                                      \E v \in User \ {u} : IsAdmin(v, t)}
    /\ UNCHANGED <<users, schools, late>>

\* update_user_role does not ask who is left.
UpdateRole(r, u, s, role) ==
    /\ Administers(r)
    /\ IsMember(u, s)
    /\ ~ users[u].deleted
    /\ associations[u][s].role # role
    /\ associations' = [associations EXCEPT ![u][s].role = role]
    /\ unguarded' = unguarded \cup {t \in {s} \cap LeftAlone({u}) : role # "school_admin"}
    /\ UNCHANGED <<users, schools, late>>

\* delete_user_by_admin: the memberships go, the user stays as a deleted row.
DeleteUser(r, u) ==
    /\ Administers(r)
    /\ HasAccount(u)
    /\ users' = [users EXCEPT ![u].deleted = TRUE]
    /\ associations' = [associations EXCEPT ![u] = [s \in School |-> NoMember]]
    /\ unguarded' = unguarded \cup LeftAlone({u})
    /\ UNCHANGED <<schools, late>>

\* delete_account, by the user: the memberships stay.
DeleteAccount(r, u) ==
    /\ Administers(r)
    /\ HasAccount(u)
    /\ users' = [users EXCEPT ![u].deleted = TRUE]
    /\ unguarded' = unguarded \cup LeftAlone({u})
    /\ UNCHANGED <<schools, associations, late>>

\* Requests that have read the school and will insert members into it.
Using(s) ==
    {q \in Request : requests[q].state \in {"admitted", "mailing"} /\ requests[q].school = s}

\* Mutant of DeleteSchool: the memberships stay.
DeleteSchoolOnly(r, s) ==
    /\ Administers(r)
    /\ schools[s] = "live"
    /\ schools' = [schools EXCEPT ![s] = "deleted"]
    /\ late' = late \cup Using(s)
    /\ UNCHANGED <<users, associations, unguarded>>

\* delete_school_admin: the memberships it can see are soft-deleted with it.
DeleteSchool(r, s) ==
    /\ Administers(r)
    /\ schools[s] = "live"
    /\ schools' = [schools EXCEPT ![s] = "deleted"]
    /\ associations' = [u \in User |-> [associations[u] EXCEPT
         ![s] = IF @ = NoMember THEN @ ELSE [@ EXCEPT !.deleted = TRUE]]]
    /\ late' = late \cup Using(s)
    /\ UNCHANGED <<users, unguarded>>
-----------------------------------------------------------------------------
(***************************************************************************)
(* The worker restarts: PostgreSQL rolls the open transactions back, and   *)
(* _bulk_invite_tasks was in memory.                                       *)
(***************************************************************************)
Restart ==
    /\ deaths < MaxDeaths
    /\ deaths' = deaths + 1
    /\ loop' = Idle
    /\ requests' = [r \in Request |-> IF requests[r].state = "new"
                                        THEN requests[r]
                                        ELSE [requests[r] EXCEPT !.state = "answered"]]
    /\ report' = [r \in Request |-> [total |-> 0, successful |-> 0, failed |-> 0]]
    /\ transaction' = [r \in Request |-> NoTransaction]
    /\ Tears(Open)
    /\ UNCHANGED <<tableVars, lastId, invited, late>>

RequestNext(r) ==
    \/ \E e \in Email :
         \/ \E s \in School : SignUp(r, e, s) \/ CreateSchool(r, e, s)
         \/ CreateSchoolDies(r, e)
         \/ \E role \in Role : InviteUser(r, e, role)
         \/ InviteStaff(r, e)
         \/ AddSuperAdmin(r, e)
         \/ \E u \in User : ChangeEmail(r, u, e)
         \/ AddressRefused(r, e)
         \/ AddressAwaited(r, e)
    \/ PlatformAlone(r)
    \/ \E rows \in [1 .. MaxRows -> Email] : StartBulkInvite(r, rows)
    \/ FinishInvite(r)
    \/ InviteFails(r)
    \/ BulkRowRefused(r)
    \/ BulkRowInvited(r)
    \/ BulkRowAwaited(r)
    \/ BulkRowDone(r)
    \/ BulkRowFails(r)
    \/ BulkCompleted(r)
    \/ \E u \in User :
         \/ UserAwaited(r, u)
         \/ \E s \in School : \/ RemoveUser(r, u, s)
                              \/ \E role \in Role : UpdateRole(r, u, s, role)
         \/ DeleteUser(r, u)
         \/ DeleteAccount(r, u)
    \/ \E s \in School : Admit(r, s) \/ DeleteSchool(r, s)

Next == (\E r \in Request : RequestNext(r)) \/ Restart

Spec == Init /\ [][Next]_vars

\* What becomes of a request that has been let in.
Handled(r) ==
    /\ Admitted(r)
    /\ \/ \E e \in Email : \/ InviteUser(r, e, "member") \/ InviteStaff(r, e)
                           \/ AddressRefused(r, e) \/ AddressAwaited(r, e)
       \/ PlatformAlone(r)
       \/ \E rows \in [1 .. MaxRows -> Email] : StartBulkInvite(r, rows)

(***************************************************************************)
(* The event loop runs every task that is ready, and the SendGrid call     *)
(* ends, in success or in an error that gather collects.                   *)
(***************************************************************************)
Fairness ==
    \A r \in Request : /\ WF_vars(Handled(r))
                       /\ WF_vars(FinishInvite(r))
                       /\ WF_vars(BulkRowRefused(r))
                       /\ WF_vars(BulkRowInvited(r))
                       /\ WF_vars(BulkRowAwaited(r))
                       /\ WF_vars(BulkRowDone(r))
                       /\ WF_vars(BulkCompleted(r))

FairSpec == Spec /\ Fairness
-----------------------------------------------------------------------------
(* Properties. *)

(***************************************************************************)
(* The last administrator of a school does not go by being removed, in     *)
(* whatever order people are invited, promoted and removed: he goes by a   *)
(* demotion, with his account, with a creation that died half way, or by a *)
(* removal whose guard counted an administrator whose account had been     *)
(* deleted.  (The school of the platform never needed one.)                *)
(***************************************************************************)
AdministratorsRemain ==
    \A s \in School \ {Platform} :
        schools[s] = "live" /\ s \notin unguarded => Administrators(s) # {}

(***************************************************************************)
(* A deleted school has no member but those invited by a request that had  *)
(* read the school before it was deleted, however long ago; the platform's *)
(* school, which is found by its name, aside.  And no account is left      *)
(* without a school it belongs or belonged to, unless the request that     *)
(* created both died between two commits.                                  *)
(***************************************************************************)
MembersFollowSchools ==
    /\ \A u \in User, s \in School \ {Platform} :
         schools[s] = "deleted" /\ IsMember(u, s) => \E r \in late : u \in invited[r]
    /\ \A u \in User :
         HasAccount(u) /\ u \notin torn =>
            \/ \E s \in School : associations[u][s] # NoMember
            \/ \E r \in Open : transaction[r].user = u

\* The report of an answered upload accounts for every row, whoever it counts as
\* invited is in the table, even if other rows were rolled back, and no two
\* accounts, deleted ones included, share an address, although the lookup of an
\* invitation and its commit are separated by an e-mail.
ReportsAreTrue ==
    /\ \A r \in Request :
         requests[r].state = "answered" /\ IsBulk(r) =>
             /\ report[r].successful + report[r].failed = report[r].total
             /\ report[r].successful = Cardinality(invited[r])
             /\ \A u \in invited[r] : users[u] # NoUser
    /\ \A u, v \in User :
         u # v /\ users[u] # NoUser => users[u].email # users[v].email

\* The worker keeps coming to a point where every request it was sent is
\* answered, unless the event loop is stuck in an insert that waits for a
\* transaction only the event loop can end.
AnsweredUnlessStuck ==
    []<>(\/ \A r \in Request : requests[r].state \in {"new", "answered"}
         \/ \E r \in Request : requests[r].state = "blocked")
=============================================================================
