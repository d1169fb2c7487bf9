--------------------------- MODULE MCCoursePages ---------------------------
(***************************************************************************)
(* Courses and ReadCache for TLC: what the pages show of the courses, and  *)
(* how old an answer of the response cache may be.  A behaviour follows    *)
(* the cache, or the courses without, or with, the deletion of a school.   *)
(*                                                                         *)
(* Two schools, two courses; an administrator, a teacher and a student of  *)
(* the first school and a super admin.  The cache holds two trading        *)
(* endpoints of a student, with the patterns of invalidate_trading: an     *)
(* order sweeps the balance and not the trade history, a deposit nothing.  *)
(***************************************************************************)
EXTENDS ReadCache, Courses, TLC

CONSTANTS s1, s2

MCUser == {"admin", "teacher", "student", "super"}

MCRoleOf == [u \in MCUser |->
               CASE u = "admin" -> "school_admin"
                 [] u = "teacher" -> "teacher"
                 [] u = "student" -> "student"
                 [] u = "super" -> "super_admin"]

MCHomeOf == [u \in MCUser |-> s1]

MCKey == {"get_account_balance", "get_trade_history"}
MCOperation == {"place_order", "add_funds"}

MCTouches == [op \in MCOperation |->
                IF op = "place_order" THEN MCKey ELSE {"get_account_balance"}]

MCSweeps == [op \in MCOperation |->
               IF op = "place_order" THEN {"get_account_balance"} ELSE {}]

MCTTL == [key \in MCKey |-> IF key = "get_account_balance" THEN 1 ELSE 2]

VARIABLE focus   \* what the behaviour follows

\* Behaviours that delete a school have no courses in another one, nobody who
\* teaches or attends a course, and no deaths.
OneSchool ==
    /\ \A c \in CourseId : courses'[c] # Nothing => /\ courses'[c].school = s1
                                                    /\ courses'[c].teachers = {}
                                                    /\ courses'[c].students = {}
    /\ closed' \subseteq {s1}
    /\ tornWrites' = 0

PagesInit == Init /\ CourseInit /\ focus \in {"cache", "courses", "school"}

PagesNext ==
    \/ focus = "cache" /\ Next /\ UNCHANGED <<courseVars, focus>>
    \/ focus = "courses" /\ CourseNext /\ closed' = {} /\ UNCHANGED <<vars, focus>>
    \/ focus = "school" /\ CourseNext /\ OneSchool /\ UNCHANGED <<vars, focus>>

PagesSpec == PagesInit /\ [][PagesNext]_<<vars, courseVars, focus>>

\* The rows and the entries of both are well typed.
PagesTypeOK == TypeOK /\ CourseTypeOK

PagesSymmetry ==
    Permutations(Reader) \cup Permutations(Writer)
      \cup Permutations(CourseId) \cup Permutations(CurriculumId)
=============================================================================
