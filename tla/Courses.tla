------------------------------ MODULE Courses ------------------------------
(***************************************************************************)
(* The courses of the schools: who may do what with them                   *)
(* (utils/permission.py), their teachers and students (services/course.py),*)
(* their curricula and lessons (services/curriculum.py,                    *)
(* services/lesson.py), the exams attached to a course or to a curriculum  *)
(* (services/exam.py), and what the lists and pages show of all this.      *)
(*                                                                         *)
(* No handler suspends before its last commit, so each is one step, but    *)
(* creating a course and deleting a curriculum commit several times and    *)
(* may die in between.  Deletion is soft: rows stay, marked.  Every        *)
(* request carries one context, a user with his role and his school.       *)
(***************************************************************************)
EXTENDS Naturals, FiniteSets

CONSTANTS User,          \* the users, each with the context of his token
          SchoolId, CourseId, CurriculumId, LessonId, ExamId,
          RoleOf, HomeOf,    \* user -> role and school of the context
          Nothing,           \* no row yet; an absent id
          Keep,              \* a field an update leaves out
          CourseLimit,       \* courses of a school that one query answers with
          MaxTorn            \* bound: deaths between two commits

Role == {"super_admin", "admin", "member", "school_admin", "teacher", "student"}

ASSUME CourseAssumption ==
    /\ RoleOf \in [User -> Role]
    /\ HomeOf \in [User -> SchoolId]
    /\ Nothing \notin SchoolId \cup CourseId \cup CurriculumId \cup LessonId \cup ExamId
    /\ Keep \notin CourseId \cup CurriculumId \cup {Nothing}
    /\ CourseLimit \in Nat \ {0}
    /\ MaxTorn \in Nat

VARIABLES courses,      \* course -> Nothing or its row, with teachers and students
          curriculums,  \* curriculum -> Nothing or its row
          lessons,      \* lesson -> Nothing or its row
          exams,        \* exam -> Nothing or its row
          closed,       \* the schools that have been deleted
          tornWrites    \* deaths so far

courseVars == <<courses, curriculums, lessons, exams, closed, tornWrites>>

CourseRow == [school : SchoolId, teachers : SUBSET User, students : SUBSET User,
              deleted : BOOLEAN]
CurriculumRow == [course : CourseId, deleted : BOOLEAN]
LessonRow == [curriculum : CurriculumId, deleted : BOOLEAN]

\* unseen is history: the curriculum was given beside a course, and not looked at.
ExamRow == [course : CourseId \cup {Nothing}, curriculum : CurriculumId \cup {Nothing},
            unseen : BOOLEAN, deleted : BOOLEAN]

ASSUME RowAssumption ==
    Nothing \notin CourseRow \cup CurriculumRow \cup LessonRow \cup ExamRow

CourseTypeOK ==
    /\ courses \in [CourseId -> CourseRow \cup {Nothing}]
    /\ curriculums \in [CurriculumId -> CurriculumRow \cup {Nothing}]
    /\ lessons \in [LessonId -> LessonRow \cup {Nothing}]
    /\ exams \in [ExamId -> ExamRow \cup {Nothing}]
    /\ closed \subseteq SchoolId
    /\ tornWrites \in 0 .. MaxTorn

CourseInit ==
    /\ courses = [c \in CourseId |-> Nothing]
    /\ curriculums = [k \in CurriculumId |-> Nothing]
    /\ lessons = [l \in LessonId |-> Nothing]
    /\ exams = [e \in ExamId |-> Nothing]
    /\ closed = {}
    /\ tornWrites = 0

\* The rows a query sees: deleted_at is None.
LiveCourses == {c \in CourseId : courses[c] # Nothing /\ ~ courses[c].deleted}
LiveCurriculums == {k \in CurriculumId : curriculums[k] # Nothing /\ ~ curriculums[k].deleted}
LiveLessons == {l \in LessonId : lessons[l] # Nothing /\ ~ lessons[l].deleted}
LiveExams == {e \in ExamId : exams[e] # Nothing /\ ~ exams[e].deleted}

\* curriculum.course and lesson.curriculum, which see deleted rows too.
CourseOf(k) == curriculums[k].course
LessonCourse(l) == CourseOf(lessons[l].curriculum)
LessonsIn(k) == {l \in LiveLessons : lessons[l].curriculum = k}

\* The course and its school are there.
Standing(c) == c \in LiveCourses /\ courses[c].school \notin closed

\* The process dies before the last of its commits.
Tears == tornWrites < MaxTorn /\ tornWrites' = tornWrites + 1
-----------------------------------------------------------------------------
(* Permissions. *)

IsSuper(u) == RoleOf[u] \in {"super_admin", "admin", "member"}
IsTeacher(u) == RoleOf[u] = "teacher"
IsStudent(u) == RoleOf[u] = "student"

CanManageSchool(u, s) ==
    IsSuper(u) \/ (HomeOf[u] = s /\ RoleOf[u] \in {"school_admin", "teacher"})

CanViewSchool(u, s) == IsSuper(u) \/ HomeOf[u] = s

\* Administrators of the school, and teachers of the course.
CanManageCourse(u, c) ==
    \/ IsSuper(u)
    \/ /\ HomeOf[u] = courses[c].school
       /\ RoleOf[u] = "school_admin" \/ (IsTeacher(u) /\ u \in courses[c].teachers)

CanViewCourse(u, c) ==
    \/ IsSuper(u)
    \/ /\ HomeOf[u] = courses[c].school
       /\ \/ RoleOf[u] = "school_admin"
          \/ IsTeacher(u) /\ u \in courses[c].teachers
          \/ IsStudent(u) /\ u \in courses[c].students

HasRoleIn(u, role, s) == RoleOf[u] = role /\ HomeOf[u] = s

\* get_school_id_for_operation: one's own school, or any for a super admin.
MayWorkFor(u, s) == IsSuper(u) \/ HomeOf[u] = s
-----------------------------------------------------------------------------
(* Courses, their teachers and their students. *)

NewCourse(s, teachers) ==
    [school |-> s, teachers |-> teachers, students |-> {}, deleted |-> FALSE]

\* The course is committed; the teacher who creates it only after that.
CreateCourse(u, c, s) ==
    /\ courses[c] = Nothing
    /\ ~ IsStudent(u)
    /\ MayWorkFor(u, s)
    /\ s \notin closed
    /\ \/ /\ courses' = [courses EXCEPT ![c] = NewCourse(s, {v \in {u} : IsTeacher(v)})]
          /\ UNCHANGED tornWrites
       \/ /\ IsTeacher(u)
          /\ courses' = [courses EXCEPT ![c] = NewCourse(s, {})]
          /\ Tears
    /\ UNCHANGED <<curriculums, lessons, exams, closed>>

AssignTeacher(u, c, t) ==
    /\ c \in LiveCourses
    /\ CanManageSchool(u, courses[c].school)
    /\ HasRoleIn(t, "teacher", courses[c].school)
    /\ t \notin courses[c].teachers
    /\ courses' = [courses EXCEPT ![c].teachers = @ \cup {t}]
    /\ UNCHANGED <<curriculums, lessons, exams, closed, tornWrites>>

RemoveTeacher(u, c, t) ==
    /\ c \in LiveCourses
    /\ CanManageSchool(u, courses[c].school)
    /\ t \in courses[c].teachers
    /\ courses' = [courses EXCEPT ![c].teachers = @ \ {t}]
    /\ UNCHANGED <<curriculums, lessons, exams, closed, tornWrites>>

(***************************************************************************)
(* update_teacher_courses_bulk looks at the school of the caller, not at   *)
(* those of the courses; a course that is gone fails the whole request.    *)
(***************************************************************************)
AssignCourses(u, t, wanted) ==
    /\ CanManageSchool(u, HomeOf[u])
    /\ HasRoleIn(t, "teacher", HomeOf[u])
    /\ wanted \subseteq LiveCourses
    /\ courses' = [c \in CourseId |->
                     IF c \in wanted THEN [courses[c] EXCEPT !.teachers = @ \cup {t}]
                     ELSE IF c \in LiveCourses THEN [courses[c] EXCEPT !.teachers = @ \ {t}]
                     ELSE courses[c]]
    /\ UNCHANGED <<curriculums, lessons, exams, closed, tornWrites>>

EnrollStudent(u, c, t) ==
    /\ c \in LiveCourses
    /\ CanManageSchool(u, courses[c].school)
    /\ HasRoleIn(t, "student", courses[c].school)
    /\ t \notin courses[c].students
    /\ courses' = [courses EXCEPT ![c].students = @ \cup {t}]
    /\ UNCHANGED <<curriculums, lessons, exams, closed, tornWrites>>

UnenrollStudent(u, c, t) ==
    /\ c \in LiveCourses
    /\ CanManageSchool(u, courses[c].school)
    /\ t \in courses[c].students
    /\ courses' = [courses EXCEPT ![c].students = @ \ {t}]
    /\ UNCHANGED <<curriculums, lessons, exams, closed, tornWrites>>

\* Mutant of ExamsUnder: only the curricula that have not been deleted before.
ExamsUnderLive(c) ==
    {e \in ExamId : /\ exams[e] # Nothing
                    /\ \/ exams[e].course = c
                       \/ /\ exams[e].curriculum \in LiveCurriculums
                          /\ CourseOf(exams[e].curriculum) = c}

\* The exams of the course and of all its curricula, deleted ones included.
ExamsUnder(c) ==
    {e \in ExamId : /\ exams[e] # Nothing
                    /\ \/ exams[e].course = c
                       \/ /\ exams[e].curriculum # Nothing
                          /\ CourseOf(exams[e].curriculum) = c}

\* bulk_soft_delete_related_entities, for each of the courses cs; not the lessons.
DeleteContent(cs) ==
    /\ curriculums' = [k \in CurriculumId |->
                         IF curriculums[k] # Nothing /\ curriculums[k].course \in cs
                           THEN [curriculums[k] EXCEPT !.deleted = TRUE]
                           ELSE curriculums[k]]
    /\ exams' = [e \in ExamId |-> IF \E c \in cs : e \in ExamsUnder(c)
                                    THEN [exams[e] EXCEPT !.deleted = TRUE]
                                    ELSE exams[e]]

\* The content and the course, in one commit.
DeleteCourse(u, c) ==
    /\ c \in LiveCourses
    /\ CanManageCourse(u, c)
    /\ courses' = [courses EXCEPT ![c].deleted = TRUE]
    /\ DeleteContent({c})
    /\ UNCHANGED <<lessons, closed, tornWrites>>

get_courses_by_school(s) == {c \in LiveCourses : courses[c].school = s}

\* The answers of a query for one page of the rows, in no order.
Page(rows) == IF Cardinality(rows) <= CourseLimit
                THEN {rows}
                ELSE {page \in SUBSET rows : Cardinality(page) = CourseLimit}

(***************************************************************************)
(* delete_school_admin, in one commit: the content of the courses that one *)
(* page shows, and the school; the courses stay.  Users of the school have *)
(* no further requests let in, but those that were may come later.         *)
(***************************************************************************)
DeleteSchool(u, s) ==
    /\ RoleOf[u] = "super_admin"
    /\ s \notin closed
    /\ \E seen \in Page(get_courses_by_school(s)) : DeleteContent(seen)
    /\ closed' = closed \cup {s}
    /\ UNCHANGED <<courses, lessons, tornWrites>>
-----------------------------------------------------------------------------
(* Curricula and lessons. *)

CreateCurriculum(u, k, c) ==
    /\ curriculums[k] = Nothing
    /\ c \in LiveCourses
    /\ CanManageCourse(u, c)
    /\ curriculums' = [curriculums EXCEPT ![k] = [course |-> c, deleted |-> FALSE]]
    /\ UNCHANGED <<courses, lessons, exams, closed, tornWrites>>

WithoutLessons(gone) ==
    [l \in LessonId |-> IF l \in gone THEN [lessons[l] EXCEPT !.deleted = TRUE] ELSE lessons[l]]

\* One commit for each lesson, then one for the curriculum; its exams stay.
DeleteCurriculum(u, k) ==
    /\ k \in LiveCurriculums
    /\ CanManageCourse(u, CourseOf(k))
    /\ \/ /\ lessons' = WithoutLessons(LessonsIn(k))
          /\ curriculums' = [curriculums EXCEPT ![k].deleted = TRUE]
          /\ UNCHANGED tornWrites
       \/ \E gone \in SUBSET LessonsIn(k) :
            /\ gone # {}
            /\ lessons' = WithoutLessons(gone)
            /\ Tears
            /\ UNCHANGED curriculums
    /\ UNCHANGED <<courses, exams, closed>>

CreateLesson(u, l, k) ==
    /\ lessons[l] = Nothing
    /\ k \in LiveCurriculums
    /\ CanManageCourse(u, CourseOf(k))
    /\ lessons' = [lessons EXCEPT ![l] = [curriculum |-> k, deleted |-> FALSE]]
    /\ UNCHANGED <<courses, curriculums, exams, closed, tornWrites>>

\* A lesson of a deleted course can still be deleted.
DeleteLesson(u, l) ==
    /\ l \in LiveLessons
    /\ CanManageCourse(u, LessonCourse(l))
    /\ lessons' = [lessons EXCEPT ![l].deleted = TRUE]
    /\ UNCHANGED <<courses, curriculums, exams, closed, tornWrites>>
-----------------------------------------------------------------------------
(* Exams, of a course or else of a curriculum. *)

\* _get_course_from_exam_context finds the course, and does not raise.
Found(c, k) == IF c # Nothing THEN c \in LiveCourses
               ELSE k # Nothing => k \in LiveCurriculums

\* ... and what it finds; the curriculum is not looked at beside a course.
Target(c, k) == IF c # Nothing THEN c ELSE IF k # Nothing THEN CourseOf(k) ELSE Nothing

\* _require_exam_management_permission.
MayManageExam(u, c, k) ==
    /\ ~ IsStudent(u)
    /\ Found(c, k)
    /\ IF Target(c, k) = Nothing THEN IsSuper(u) ELSE CanViewCourse(u, Target(c, k))

CreateExam(u, e, c, k) ==
    /\ exams[e] = Nothing
    /\ c # Nothing \/ k # Nothing
    /\ k # Nothing => curriculums[k] # Nothing
    /\ MayManageExam(u, c, k)
    /\ exams' = [exams EXCEPT ![e] = [course |-> c, curriculum |-> k, deleted |-> FALSE,
                                      unseen |-> c # Nothing /\ k # Nothing]]
    /\ UNCHANGED <<courses, curriculums, lessons, closed, tornWrites>>

Given(field) == IF field = Keep THEN Nothing ELSE field

\* A field the request leaves out keeps its value; both the old and the new
\* place of the exam are checked, a place that is cleared is not.
MoveExam(u, e, c, k) ==
    /\ e \in LiveExams
    /\ MayManageExam(u, exams[e].course, exams[e].curriculum)
    /\ Given(c) # Nothing \/ Given(k) # Nothing => MayManageExam(u, Given(c), Given(k))
    /\ Given(k) # Nothing => curriculums[k] # Nothing
    /\ exams' = [exams EXCEPT
                   ![e].course = IF c = Keep THEN @ ELSE c,
                   ![e].curriculum = IF k = Keep THEN @ ELSE k,
                   ![e].unseen = IF k = Keep THEN @
                                 ELSE Given(k) # Nothing /\ Given(c) # Nothing]
    /\ UNCHANGED <<courses, curriculums, lessons, closed, tornWrites>>

RemoveExam(u, e) ==
    /\ e \in LiveExams
    /\ MayManageExam(u, exams[e].course, exams[e].curriculum)
    /\ exams' = [exams EXCEPT ![e].deleted = TRUE]
    /\ UNCHANGED <<courses, curriculums, lessons, closed, tornWrites>>

\* What the endpoints of courses, of curricula and lessons, and of exams offer.
CourseRequest(u) ==
    \/ \E c \in CourseId, s \in SchoolId : CreateCourse(u, c, s)
    \/ \E c \in CourseId : DeleteCourse(u, c)
    \/ \E s \in SchoolId : DeleteSchool(u, s)
    \/ \E c \in CourseId, t \in User :
         \/ AssignTeacher(u, c, t) \/ RemoveTeacher(u, c, t)
         \/ EnrollStudent(u, c, t) \/ UnenrollStudent(u, c, t)
    \/ \E t \in User, wanted \in SUBSET CourseId : AssignCourses(u, t, wanted)

CurriculumRequest(u) ==
    \/ \E k \in CurriculumId, c \in CourseId : CreateCurriculum(u, k, c)
    \/ \E k \in CurriculumId : DeleteCurriculum(u, k)
    \/ \E l \in LessonId, k \in CurriculumId : CreateLesson(u, l, k)
    \/ \E l \in LessonId : DeleteLesson(u, l)

ExamRequest(u) ==
    \/ \E e \in ExamId, c \in CourseId \cup {Nothing}, k \in CurriculumId \cup {Nothing} :
         CreateExam(u, e, c, k)
    \/ \E e \in ExamId, c \in CourseId \cup {Nothing, Keep},
          k \in CurriculumId \cup {Nothing, Keep} : MoveExam(u, e, c, k)
    \/ \E e \in ExamId : RemoveExam(u, e)

CourseNext == \E u \in User : CourseRequest(u) \/ CurriculumRequest(u) \/ ExamRequest(u)

CourseSpec == CourseInit /\ [][CourseNext]_courseVars
-----------------------------------------------------------------------------
(***************************************************************************)
(* What is listed, and what may be opened.  A list that is asked for page  *)
(* by page stands for all its pages; the courses of a school behind the    *)
(* list of exams are asked for once, without a page and without an order.  *)
(***************************************************************************)

get_teacher_courses(u) == {c \in LiveCourses : u \in courses[c].teachers}
get_student_courses(u) == {c \in LiveCourses : u \in courses[c].students}
get_user_courses(u) == get_teacher_courses(u) \cup get_student_courses(u)

get_all_courses(u) == IF IsSuper(u) THEN LiveCourses ELSE get_courses_by_school(HomeOf[u])

get_curriculums_by_course(c) == {k \in LiveCurriculums : CourseOf(k) = c}

\* _get_user_course_and_curriculum_ids, for those who are not super admins: the
\* courses the query may answer with, and their curricula.
ExamCourses(u) ==
    CASE RoleOf[u] = "school_admin" -> Page(get_courses_by_school(HomeOf[u]))
      [] IsTeacher(u) -> {get_teacher_courses(u)}
      [] IsStudent(u) -> {get_student_courses(u)}
      [] OTHER -> {{}}

\* Mutant of ExamCurriculums: exams are looked for in the courses alone.
NoCurriculums(seen) == {}

ExamCurriculums(seen) == UNION {get_curriculums_by_course(c) : c \in seen}

get_all_exams(u, seen) ==
    {e \in LiveExams : \/ IsSuper(u)
                       \/ exams[e].course \in seen
                       \/ exams[e].curriculum \in ExamCurriculums(seen)}

MayOpenCourse(u, c) == c \in LiveCourses /\ CanViewCourse(u, c)

MayOpenCurriculum(u, k) == k \in LiveCurriculums /\ CanViewCourse(u, CourseOf(k))

\* The exam was moved out of its course and its curriculum, into none.
Placeless(e) == Target(exams[e].course, exams[e].curriculum) = Nothing

\* _require_exam_view_permission: without a place, whoever is no student.
MayOpenExam(u, e) ==
    /\ Found(exams[e].course, exams[e].curriculum)
    /\ IF Placeless(e)
         THEN ~ IsStudent(u)
         ELSE CanViewCourse(u, Target(exams[e].course, exams[e].curriculum))
-----------------------------------------------------------------------------
(* Properties. *)

(***************************************************************************)
(* What is left of a course follows it: no curriculum and no exam outlives *)
(* its course, however exams were moved between courses and curricula and  *)
(* whichever curriculum was deleted before, and a lesson outlives its      *)
(* curriculum only with the whole course or with the whole school.  An     *)
(* exam whose curriculum was given beside a course, and never looked at,   *)
(* answers for the course.                                                 *)
(***************************************************************************)
ContentFollowsCourse ==
    /\ \A k \in LiveCurriculums : CourseOf(k) \in LiveCourses
    /\ \A l \in LiveLessons :
         Standing(LessonCourse(l)) => lessons[l].curriculum \in LiveCurriculums
    /\ \A e \in LiveExams :
         /\ exams[e].course # Nothing => exams[e].course \in LiveCourses
         /\ exams[e].curriculum # Nothing /\ ~ exams[e].unseen
            => CourseOf(exams[e].curriculum) \in LiveCourses

\* One query answers with all the courses the user works in.
AllSeen(u) == \/ RoleOf[u] # "school_admin"
              \/ Cardinality(get_courses_by_school(HomeOf[u])) <= CourseLimit

(***************************************************************************)
(* Whatever a user may open he also finds: a course in the list of courses *)
(* and, if he teaches or attends it, among his own, in a school whose list *)
(* he may read; a curriculum in the list of a course he may open; an exam  *)
(* in the list of exams.  The lists and the pages ask different queries,   *)
(* and moves, deletions and bulk assignments across schools must not make  *)
(* them disagree.  They do about two kinds of exams: one that was moved    *)
(* out of every place opens for all but students, and only super admins    *)
(* have it listed; and where a school has more courses than one query      *)
(* answers with, the exams of the others are missing from the list of its  *)
(* administrator.                                                          *)
(***************************************************************************)
OpenableIsListed ==
    \A u \in User :
        /\ \A c \in CourseId : MayOpenCourse(u, c) =>
             /\ CanViewSchool(u, courses[c].school)
             /\ c \in get_all_courses(u)
             /\ IsTeacher(u) \/ IsStudent(u) => c \in get_user_courses(u)
        /\ \A k \in CurriculumId : MayOpenCurriculum(u, k) =>
             MayOpenCourse(u, CourseOf(k)) /\ k \in get_curriculums_by_course(CourseOf(k))
        /\ \A e \in LiveExams, seen \in ExamCourses(u) :
             MayOpenExam(u, e) => \/ e \in get_all_exams(u, seen)
                                  \/ Placeless(e) /\ ~ IsSuper(u)
                                  \/ ~ AllSeen(u)
=============================================================================
