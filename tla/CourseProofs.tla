---------------------------- MODULE CourseProofs -----------------------------
(***************************************************************************)
(* Proofs about Courses and ReadCache, for every set of users, schools,    *)
(* rows, keys, patterns and ttls: rows stay well typed, nothing outlives   *)
(* its course, whoever may open a page finds it listed, and an answer from *)
(* the cache is old for a known time and for a known reason.               *)
(***************************************************************************)
EXTENDS MCCoursePages, TLAPS

(* Courses. *)

\* Rows point at rows that exist; they are marked as deleted, never removed.
RowsExist ==
    /\ \A k \in CurriculumId : curriculums[k] # Nothing => courses[CourseOf(k)] # Nothing
    /\ \A l \in LessonId : lessons[l] # Nothing => curriculums[lessons[l].curriculum] # Nothing
    /\ \A e \in ExamId : exams[e] # Nothing /\ exams[e].curriculum # Nothing
                         => curriculums[exams[e].curriculum] # Nothing

CourseIInv == CourseTypeOK /\ RowsExist /\ ContentFollowsCourse
-----------------------------------------------------------------------------
(* Types. *)

LEMMA InitTyped == CourseInit => CourseTypeOK
  BY CourseAssumption DEF CourseInit, CourseTypeOK

\* A commit that did not come counts as one death.
LEMMA TearsTyped == CourseTypeOK /\ Tears => tornWrites' \in 0 .. MaxTorn
  BY CourseAssumption DEF CourseTypeOK, Tears

LEMMA CreateCourseTyped ==
    ASSUME CourseTypeOK, NEW u \in User, NEW c \in CourseId, NEW s \in SchoolId,
           CreateCourse(u, c, s)
    PROVE  CourseTypeOK'
<1>1. PICK teachers \in SUBSET User : courses' = [courses EXCEPT ![c] = NewCourse(s, teachers)]
  <2>1. CASE courses' = [courses EXCEPT ![c] = NewCourse(s, {})]
    BY <2>1
  <2>2. CASE courses' = [courses EXCEPT ![c] = NewCourse(s, {v \in {u} : IsTeacher(v)})]
    BY <2>2
  <2> QED
    BY <2>1, <2>2 DEF CreateCourse
<1>2. NewCourse(s, teachers) \in CourseRow
  BY DEF NewCourse, CourseRow
<1>3. courses' \in [CourseId -> CourseRow \cup {Nothing}]
  BY <1>1, <1>2 DEF CourseTypeOK
<1>4. tornWrites' \in 0 .. MaxTorn
  BY TearsTyped DEF CourseTypeOK, CreateCourse
<1> QED
  BY <1>3, <1>4 DEF CourseTypeOK, CreateCourse

\* The roster and the teachers of a course change within the users.
LEMMA MembersTyped ==
    ASSUME CourseTypeOK, NEW u \in User, NEW t \in User, NEW c \in CourseId,
           \/ AssignTeacher(u, c, t) \/ RemoveTeacher(u, c, t)
           \/ EnrollStudent(u, c, t) \/ UnenrollStudent(u, c, t)
    PROVE  CourseTypeOK'
<1>1. courses[c] \in CourseRow
  BY DEF CourseTypeOK, AssignTeacher, RemoveTeacher, EnrollStudent, UnenrollStudent, LiveCourses
<1>2. CASE AssignTeacher(u, c, t)
  BY <1>1, <1>2 DEF CourseTypeOK, AssignTeacher, CourseRow
<1>3. CASE RemoveTeacher(u, c, t)
  BY <1>1, <1>3 DEF CourseTypeOK, RemoveTeacher, CourseRow
<1>4. CASE EnrollStudent(u, c, t)
  BY <1>1, <1>4 DEF CourseTypeOK, EnrollStudent, CourseRow
<1>5. CASE UnenrollStudent(u, c, t)
  BY <1>1, <1>5 DEF CourseTypeOK, UnenrollStudent, CourseRow
<1> QED
  BY <1>2, <1>3, <1>4, <1>5

LEMMA AssignCoursesTyped ==
    ASSUME CourseTypeOK, NEW u \in User, NEW t \in User, NEW wanted \in SUBSET CourseId,
           AssignCourses(u, t, wanted)
    PROVE  CourseTypeOK'
<1>1. \A c \in CourseId : courses'[c] \in CourseRow \cup {Nothing}
  BY DEF CourseTypeOK, AssignCourses, CourseRow, LiveCourses
<1> QED
  BY <1>1 DEF CourseTypeOK, AssignCourses

LEMMA ContentTyped ==
    ASSUME CourseTypeOK, NEW cs \in SUBSET CourseId, DeleteContent(cs)
    PROVE  /\ curriculums' \in [CurriculumId -> CurriculumRow \cup {Nothing}]
           /\ exams' \in [ExamId -> ExamRow \cup {Nothing}]
<1>1. curriculums' \in [CurriculumId -> CurriculumRow \cup {Nothing}]
  BY DEF CourseTypeOK, DeleteContent, CurriculumRow
<1>2. \A e \in ExamId : exams'[e] \in ExamRow \cup {Nothing}
  BY DEF CourseTypeOK, DeleteContent, ExamRow, ExamsUnder
<1> QED
  BY <1>1, <1>2 DEF DeleteContent

LEMMA DeleteCourseTyped ==
    ASSUME CourseTypeOK, NEW u \in User, NEW c \in CourseId, DeleteCourse(u, c)
    PROVE  CourseTypeOK'
<1>1. courses' \in [CourseId -> CourseRow \cup {Nothing}]
  <2>1. courses[c] \in CourseRow
    BY DEF CourseTypeOK, DeleteCourse, LiveCourses
  <2>2. [courses[c] EXCEPT !.deleted = TRUE] \in CourseRow
    BY <2>1 DEF CourseRow
  <2> QED
    BY <2>2 DEF CourseTypeOK, DeleteCourse
<1> QED
  BY <1>1, ContentTyped DEF CourseTypeOK, DeleteCourse

LEMMA DeleteSchoolTyped ==
    ASSUME CourseTypeOK, NEW u \in User, NEW s \in SchoolId, DeleteSchool(u, s)
    PROVE  CourseTypeOK'
<1>1. PICK seen \in Page(get_courses_by_school(s)) : DeleteContent(seen)
  BY DEF DeleteSchool
<1>2. seen \in SUBSET CourseId
  BY <1>1 DEF Page, get_courses_by_school, LiveCourses
<1> QED
  BY <1>1, <1>2, ContentTyped DEF CourseTypeOK, DeleteSchool

LEMMA CurriculumsTyped ==
    ASSUME CourseTypeOK, NEW u \in User, NEW k \in CurriculumId,
           (\E c \in CourseId : CreateCurriculum(u, k, c)) \/ DeleteCurriculum(u, k)
    PROVE  CourseTypeOK'
<1>1. CASE \E c \in CourseId : CreateCurriculum(u, k, c)
  BY <1>1 DEF CourseTypeOK, CreateCurriculum, CurriculumRow
<1>2. CASE DeleteCurriculum(u, k)
  <2>1. curriculums' \in [CurriculumId -> CurriculumRow \cup {Nothing}]
    BY <1>2 DEF CourseTypeOK, DeleteCurriculum, CurriculumRow, LiveCurriculums
  <2>2. PICK gone \in SUBSET LessonsIn(k) : lessons' = WithoutLessons(gone)
    BY <1>2 DEF DeleteCurriculum
  <2>3. \A l \in gone : lessons[l] \in LessonRow
    BY DEF CourseTypeOK, LessonsIn, LiveLessons
  <2>4. lessons' \in [LessonId -> LessonRow \cup {Nothing}]
    BY <2>2, <2>3 DEF CourseTypeOK, WithoutLessons, LessonRow
  <2>5. tornWrites' \in 0 .. MaxTorn
    BY <1>2, TearsTyped DEF CourseTypeOK, DeleteCurriculum
  <2> QED
    BY <1>2, <2>1, <2>4, <2>5 DEF CourseTypeOK, DeleteCurriculum
<1> QED
  BY <1>1, <1>2

LEMMA LessonsTyped ==
    ASSUME CourseTypeOK, NEW u \in User, NEW l \in LessonId,
           (\E k \in CurriculumId : CreateLesson(u, l, k)) \/ DeleteLesson(u, l)
    PROVE  CourseTypeOK'
<1>1. CASE \E k \in CurriculumId : CreateLesson(u, l, k)
  BY <1>1 DEF CourseTypeOK, CreateLesson, LessonRow
<1>2. CASE DeleteLesson(u, l)
  BY <1>2 DEF CourseTypeOK, DeleteLesson, LessonRow, LiveLessons
<1> QED
  BY <1>1, <1>2

LEMMA CreateExamTyped ==
    ASSUME CourseTypeOK, NEW u \in User, NEW e \in ExamId,
           NEW c \in CourseId \cup {Nothing}, NEW k \in CurriculumId \cup {Nothing},
           CreateExam(u, e, c, k)
    PROVE  CourseTypeOK'
  BY DEF CourseTypeOK, CreateExam, ExamRow

LEMMA MoveExamTyped ==
    ASSUME CourseTypeOK, NEW u \in User, NEW e \in ExamId,
           NEW c \in CourseId \cup {Nothing, Keep}, NEW k \in CurriculumId \cup {Nothing, Keep},
           MoveExam(u, e, c, k)
    PROVE  CourseTypeOK'
<1>1. exams[e] \in ExamRow
  BY DEF CourseTypeOK, MoveExam, LiveExams
<1>2. \A x \in ExamId \ {e} : exams'[x] = exams[x]
  BY DEF CourseTypeOK, MoveExam
<1>3. exams'[e] = [exams[e] EXCEPT
                     !.course = IF c = Keep THEN @ ELSE c,
                     !.curriculum = IF k = Keep THEN @ ELSE k,
                     !.unseen = IF k = Keep THEN @
                                ELSE Given(k) # Nothing /\ Given(c) # Nothing]
  BY DEF CourseTypeOK, MoveExam
<1>4. exams'[e] \in ExamRow
  BY <1>1, <1>3 DEF ExamRow
<1> QED
  BY <1>2, <1>4 DEF CourseTypeOK, MoveExam

LEMMA RemoveExamTyped ==
    ASSUME CourseTypeOK, NEW u \in User, NEW e \in ExamId, RemoveExam(u, e)
    PROVE  CourseTypeOK'
  BY DEF CourseTypeOK, RemoveExam, ExamRow, LiveExams

\* Every row keeps its type, and no more than MaxTorn requests die.
LEMMA StepTyped == CourseTypeOK /\ [CourseNext]_courseVars => CourseTypeOK'
<1> SUFFICES ASSUME CourseTypeOK, CourseNext PROVE CourseTypeOK'
  BY DEF CourseTypeOK, courseVars
<1> QED
  BY CreateCourseTyped, MembersTyped, AssignCoursesTyped, DeleteCourseTyped, DeleteSchoolTyped,
     CurriculumsTyped, LessonsTyped, CreateExamTyped, MoveExamTyped, RemoveExamTyped
     DEF CourseNext, CourseRequest, CurriculumRequest, ExamRequest

THEOREM CoursesTyped == CourseSpec => []CourseTypeOK
  BY InitTyped, StepTyped, PTL DEF CourseSpec
-----------------------------------------------------------------------------
(***************************************************************************)
(* Nothing outlives its course.  That the rows which are pointed at exist  *)
(* is what makes the property inductive: a course or a curriculum that is  *)
(* created has nothing of an earlier life under it.                        *)
(***************************************************************************)

\* A row is not Nothing, and what is live has a row.
LEMMA RowsThere ==
    ASSUME CourseTypeOK
    PROVE  /\ \A c \in CourseId : courses[c] # Nothing <=> courses[c] \in CourseRow
           /\ \A k \in CurriculumId : curriculums[k] # Nothing <=> curriculums[k] \in CurriculumRow
           /\ \A l \in LessonId : lessons[l] # Nothing <=> lessons[l] \in LessonRow
           /\ \A e \in ExamId : exams[e] # Nothing <=> exams[e] \in ExamRow
  BY RowAssumption DEF CourseTypeOK

LEMMA InitHolds == CourseInit => CourseIInv
  BY InitTyped DEF CourseInit, CourseIInv, RowsExist, ContentFollowsCourse,
     LiveCurriculums, LiveLessons, LiveExams

\* Steps that write courses alone, and delete none.
LEMMA CoursesGrow ==
    ASSUME CourseIInv, UNCHANGED <<curriculums, lessons, exams, closed>>,
           \A c \in CourseId : courses[c] # Nothing =>
             /\ courses'[c] # Nothing /\ courses'[c].deleted = courses[c].deleted
             /\ courses'[c].school = courses[c].school
    PROVE  RowsExist' /\ ContentFollowsCourse'
<1>1. \A k \in CurriculumId : curriculums[k] # Nothing => CourseOf(k) \in CourseId
  BY DEF CourseIInv, CourseTypeOK, CurriculumRow, CourseOf
<1>2. RowsExist'
  BY <1>1 DEF CourseIInv, RowsExist, CourseOf
<1>3. LiveCourses \subseteq LiveCourses'
  BY DEF LiveCourses
<1>4. \A c \in CourseId : courses[c] # Nothing /\ Standing(c)' => Standing(c)
  BY DEF Standing, LiveCourses
<1>5. /\ LiveCurriculums' = LiveCurriculums /\ LiveLessons' = LiveLessons
      /\ LiveExams' = LiveExams
      /\ \A k \in CurriculumId : CourseOf(k)' = CourseOf(k)
      /\ \A l \in LessonId : LessonCourse(l)' = LessonCourse(l)
  BY DEF LiveCurriculums, LiveLessons, LiveExams, CourseOf, LessonCourse
<1>6. \A l \in LiveLessons : LessonCourse(l) \in CourseId /\ courses[LessonCourse(l)] # Nothing
  BY <1>1 DEF CourseIInv, CourseTypeOK, RowsExist, LiveLessons, LessonRow, LessonCourse
<1>7. ContentFollowsCourse'
  BY <1>3, <1>4, <1>5, <1>6 DEF CourseIInv, ContentFollowsCourse, CourseOf, LessonCourse
<1> QED
  BY <1>2, <1>7

LEMMA MembersFollow ==
    ASSUME CourseIInv, NEW u \in User,
           \/ \E c \in CourseId, s \in SchoolId : CreateCourse(u, c, s)
           \/ \E c \in CourseId, t \in User :
                \/ AssignTeacher(u, c, t) \/ RemoveTeacher(u, c, t)
                \/ EnrollStudent(u, c, t) \/ UnenrollStudent(u, c, t)
           \/ \E t \in User, wanted \in SUBSET CourseId : AssignCourses(u, t, wanted)
    PROVE  RowsExist' /\ ContentFollowsCourse'
<1> DEFINE Kept(c) == courses[c] # Nothing =>
                        /\ courses'[c] # Nothing /\ courses'[c].deleted = courses[c].deleted
                        /\ courses'[c].school = courses[c].school
<1>1. CourseTypeOK
  BY DEF CourseIInv
<1>2. ASSUME NEW c \in CourseId, NEW s \in SchoolId, CreateCourse(u, c, s)
      PROVE  \A d \in CourseId : Kept(d)
  BY <1>1, <1>2 DEF CreateCourse, CourseTypeOK
<1>3. ASSUME NEW c \in CourseId, NEW t \in User,
             \/ AssignTeacher(u, c, t) \/ RemoveTeacher(u, c, t)
             \/ EnrollStudent(u, c, t) \/ UnenrollStudent(u, c, t)
      PROVE  \A d \in CourseId : Kept(d)
  <2>1. CourseTypeOK'
    BY <1>1, <1>3, MembersTyped
  <2>2. courses[c] \in CourseRow
    BY <1>1, <1>3, RowsThere
       DEF AssignTeacher, RemoveTeacher, EnrollStudent, UnenrollStudent, LiveCourses
  <2>3. \A d \in CourseId \ {c} : courses'[d] = courses[d]
    BY <1>1, <1>3
       DEF CourseTypeOK, AssignTeacher, RemoveTeacher, EnrollStudent, UnenrollStudent
  <2>4. /\ courses'[c] \in CourseRow /\ courses'[c].deleted = courses[c].deleted
        /\ courses'[c].school = courses[c].school
    BY <1>1, <1>3, <2>2
       DEF CourseTypeOK, CourseRow, AssignTeacher, RemoveTeacher, EnrollStudent, UnenrollStudent
  <2> QED
    BY <2>3, <2>4, RowAssumption
<1>4. ASSUME NEW t \in User, NEW wanted \in SUBSET CourseId, AssignCourses(u, t, wanted)
      PROVE  \A d \in CourseId : Kept(d)
  <2>1. SUFFICES ASSUME NEW d \in CourseId, courses[d] # Nothing
                 PROVE  /\ courses'[d] \in CourseRow
                        /\ courses'[d].deleted = courses[d].deleted
                        /\ courses'[d].school = courses[d].school
    BY RowAssumption
  <2>2. courses[d] \in CourseRow
    BY <1>1, <2>1, RowsThere
  <2> QED
    BY <1>4, <2>2 DEF AssignCourses, CourseRow
<1>5. UNCHANGED <<curriculums, lessons, exams, closed>>
  BY DEF CreateCourse, AssignTeacher, RemoveTeacher, EnrollStudent, UnenrollStudent, AssignCourses
<1>6. \A c \in CourseId : Kept(c)
  BY <1>2, <1>3, <1>4
<1> QED
  BY <1>5, <1>6, CoursesGrow

\* Courses go with their curricula and with the exams under either, and so does
\* the content of the courses of a school.
LEMMA ContentFollows ==
    ASSUME CourseIInv, CourseTypeOK', NEW cs \in SUBSET CourseId, DeleteContent(cs),
           lessons' = lessons,
           \A d \in CourseId : courses[d] # Nothing => courses'[d] # Nothing,
           LiveCourses \ cs \subseteq LiveCourses',
           \A d \in CourseId : Standing(d)' => Standing(d) /\ d \notin cs
    PROVE  RowsExist' /\ ContentFollowsCourse'
<1>1. CourseTypeOK /\ RowsExist /\ ContentFollowsCourse
  BY DEF CourseIInv
<1>2. \A k \in CurriculumId :
        /\ curriculums'[k] # Nothing <=> curriculums[k] # Nothing
        /\ curriculums[k] # Nothing =>
             /\ curriculums'[k].course = curriculums[k].course
             /\ ~ curriculums'[k].deleted
                <=> ~ curriculums[k].deleted /\ curriculums[k].course \notin cs
  BY <1>1, RowsThere, RowAssumption DEF DeleteContent, CurriculumRow
<1> DEFINE Left(e) == \A c \in cs : e \notin ExamsUnder(c)
<1>3. ASSUME NEW e \in ExamId
      PROVE  /\ exams'[e] # Nothing => exams[e] # Nothing
             /\ exams[e] # Nothing =>
                  /\ exams'[e].course = exams[e].course
                  /\ exams'[e].curriculum = exams[e].curriculum
                  /\ exams'[e].unseen = exams[e].unseen
                  /\ ~ exams'[e].deleted => ~ exams[e].deleted /\ Left(e)
  <2>1. CASE ~ Left(e)
    <3>1. exams[e] # Nothing /\ exams[e] \in ExamRow
      BY <1>1, <2>1, RowsThere DEF ExamsUnder
    <3>2. exams'[e] = [exams[e] EXCEPT !.deleted = TRUE]
      BY <2>1 DEF DeleteContent
    <3> QED
      BY <3>1, <3>2 DEF ExamRow
  <2>2. CASE Left(e)
    BY <2>2 DEF DeleteContent
  <2> QED
    BY <2>1, <2>2
<1>4. RowsExist'
  BY <1>1, <1>2, <1>3, RowsThere DEF RowsExist, CourseOf, CurriculumRow, LessonRow, ExamRow
<1>5. ASSUME NEW k \in LiveCurriculums' PROVE CourseOf(k)' \in LiveCourses'
  BY <1>1, <1>2 DEF LiveCurriculums, CourseOf, ContentFollowsCourse
<1>6. ASSUME NEW l \in LiveLessons', Standing(LessonCourse(l))'
      PROVE  (lessons[l].curriculum)' \in LiveCurriculums'
  <2>1. /\ l \in LiveLessons /\ lessons[l].curriculum \in CurriculumId
        /\ curriculums[lessons[l].curriculum] # Nothing
    BY <1>1, <1>6, RowsThere DEF LiveLessons, LessonRow, RowsExist
  <2>2. LessonCourse(l)' = LessonCourse(l) /\ LessonCourse(l) \in CourseId
    BY <1>1, <1>2, <2>1, RowsThere DEF LessonCourse, CourseOf, CurriculumRow
  <2>3. Standing(LessonCourse(l)) /\ LessonCourse(l) \notin cs
    BY <1>6, <2>2 DEF Standing
  <2> QED
    BY <1>1, <1>2, <2>1, <2>3 DEF ContentFollowsCourse, LessonCourse, CourseOf, LiveCurriculums
<1>7. ASSUME NEW e \in LiveExams'
      PROVE  /\ (exams[e].course)' # Nothing => (exams[e].course)' \in LiveCourses'
             /\ (exams[e].curriculum)' # Nothing /\ ~ (exams[e].unseen)'
                => CourseOf(exams[e].curriculum)' \in LiveCourses'
  <2>1. e \in LiveExams /\ Left(e) /\ exams[e] # Nothing /\ exams[e] \in ExamRow
    BY <1>1, <1>3, <1>7, RowsThere DEF LiveExams
  <2>2. exams[e].curriculum # Nothing
        => /\ CourseOf(exams[e].curriculum)' = CourseOf(exams[e].curriculum)
           /\ CourseOf(exams[e].curriculum) \notin cs
    BY <1>1, <1>2, <1>3, <2>1 DEF ExamsUnder, CourseOf, RowsExist, ExamRow, LiveExams
  <2>3. exams[e].course \notin cs
    BY <2>1 DEF ExamsUnder, LiveExams
  <2> QED
    BY <1>1, <1>3, <2>1, <2>2, <2>3 DEF ContentFollowsCourse, LiveExams
<1> QED
  BY <1>4, <1>5, <1>6, <1>7 DEF ContentFollowsCourse

LEMMA DeleteCourseFollows ==
    ASSUME CourseIInv, NEW u \in User, NEW c \in CourseId, DeleteCourse(u, c)
    PROVE  RowsExist' /\ ContentFollowsCourse'
<1>1. CourseTypeOK /\ CourseTypeOK'
  BY DeleteCourseTyped DEF CourseIInv
<1>2. courses[c] \in CourseRow /\ [courses[c] EXCEPT !.deleted = TRUE] \in CourseRow
  <2>1. courses[c] \in CourseRow
    BY <1>1 DEF CourseTypeOK, DeleteCourse, LiveCourses
  <2> QED
    BY <2>1 DEF CourseRow
<1>3. /\ courses'[c] # Nothing /\ courses'[c].deleted
      /\ \A d \in CourseId \ {c} : courses'[d] = courses[d]
  BY <1>1, <1>2, RowAssumption DEF DeleteCourse, CourseTypeOK, CourseRow
<1>4. LiveCourses' = LiveCourses \ {c}
  BY <1>3 DEF LiveCourses
<1>5. \A d \in CourseId : Standing(d)' => Standing(d) /\ d \notin {c}
  BY <1>3, <1>4 DEF Standing, DeleteCourse
<1>6. DeleteContent({c}) /\ lessons' = lessons
  BY DEF DeleteCourse
<1> QED
  BY <1>1, <1>3, <1>4, <1>5, <1>6, ContentFollows

LEMMA DeleteSchoolFollows ==
    ASSUME CourseIInv, NEW u \in User, NEW s \in SchoolId, DeleteSchool(u, s)
    PROVE  RowsExist' /\ ContentFollowsCourse'
<1>1. PICK seen \in Page(get_courses_by_school(s)) : DeleteContent(seen)
  BY DEF DeleteSchool
<1>2. seen \in SUBSET CourseId /\ \A c \in seen : courses[c].school = s
  BY <1>1 DEF Page, get_courses_by_school, LiveCourses
<1>3. CourseTypeOK'
  BY DeleteSchoolTyped DEF CourseIInv
<1>4. /\ lessons' = lessons /\ courses' = courses /\ LiveCourses' = LiveCourses
      /\ closed' = closed \cup {s}
  BY DEF DeleteSchool, LiveCourses
<1>5. \A d \in CourseId : Standing(d)' => Standing(d) /\ d \notin seen
  BY <1>2, <1>4 DEF Standing
<1> QED
  BY <1>1, <1>2, <1>3, <1>4, <1>5, ContentFollows

\* A new curriculum has no lesson and no exam yet; a deleted one has no lesson left.
LEMMA CurriculumsFollow ==
    ASSUME CourseIInv, NEW u \in User, NEW k \in CurriculumId,
           (\E c \in CourseId : CreateCurriculum(u, k, c)) \/ DeleteCurriculum(u, k)
    PROVE  RowsExist' /\ ContentFollowsCourse'
<1>1. CourseTypeOK /\ RowsExist /\ ContentFollowsCourse
  BY DEF CourseIInv
<1>2. ASSUME NEW c \in CourseId, CreateCurriculum(u, k, c)
      PROVE  RowsExist' /\ ContentFollowsCourse'
  <2>1. /\ curriculums[k] = Nothing /\ c \in LiveCourses
        /\ curriculums'[k] = [course |-> c, deleted |-> FALSE]
        /\ \A j \in CurriculumId \ {k} : curriculums'[j] = curriculums[j]
        /\ UNCHANGED <<courses, lessons, exams, closed>>
    BY <1>1, <1>2 DEF CreateCurriculum, CourseTypeOK
  <2>2. curriculums'[k] # Nothing
    <3>1. [course |-> c, deleted |-> FALSE] \in CurriculumRow
      BY DEF CurriculumRow
    <3> QED
      BY <2>1, <3>1, RowAssumption
  <2>3. LiveCourses' = LiveCourses /\ LiveLessons' = LiveLessons /\ LiveExams' = LiveExams
    BY <2>1 DEF LiveCourses, LiveLessons, LiveExams
  <2>4. LiveCurriculums' = LiveCurriculums \cup {k}
    BY <2>1, <2>2 DEF LiveCurriculums
  <2>5. RowsExist'
    BY <1>1, <2>1, <2>2, RowsThere DEF RowsExist, CourseOf, LiveCourses, LessonRow, ExamRow
  <2>6. /\ \A l \in LiveLessons : lessons[l].curriculum \in CurriculumId \ {k}
        /\ \A e \in LiveExams : exams[e].curriculum # Nothing
                                => exams[e].curriculum \in CurriculumId \ {k}
    BY <1>1, <2>1, RowsThere DEF RowsExist, LiveLessons, LiveExams, LessonRow, ExamRow
  <2>7. \A j \in CurriculumId \ {k} : CourseOf(j)' = CourseOf(j)
    BY <2>1 DEF CourseOf
  <2>8. CourseOf(k)' = c
    BY <2>1 DEF CourseOf
  <2>9. \A j \in LiveCurriculums' : CourseOf(j)' \in LiveCourses'
    BY <1>1, <2>1, <2>3, <2>4, <2>7, <2>8 DEF ContentFollowsCourse, LiveCurriculums
  <2>10. \A l \in LiveLessons : LessonCourse(l)' = LessonCourse(l)
    BY <2>1, <2>6, <2>7 DEF LessonCourse, CourseOf
  <2>11. \A l \in LiveLessons' :
           Standing(LessonCourse(l))' => (lessons[l].curriculum)' \in LiveCurriculums'
    BY <1>1, <2>1, <2>3, <2>4, <2>10 DEF ContentFollowsCourse, Standing
  <2>12. \A e \in LiveExams' :
           /\ (exams[e].course)' # Nothing => (exams[e].course)' \in LiveCourses'
           /\ (exams[e].curriculum)' # Nothing /\ ~ (exams[e].unseen)'
              => CourseOf(exams[e].curriculum)' \in LiveCourses'
    BY <1>1, <2>1, <2>3, <2>6, <2>7 DEF ContentFollowsCourse, CourseOf
  <2> QED
    BY <2>5, <2>9, <2>11, <2>12 DEF ContentFollowsCourse
<1>3. CASE DeleteCurriculum(u, k)
  <2>1. /\ k \in LiveCurriculums /\ UNCHANGED <<courses, exams, closed>>
        /\ curriculums[k] # Nothing /\ curriculums[k] \in CurriculumRow
    BY <1>1, <1>3, RowsThere DEF DeleteCurriculum, LiveCurriculums
  <2>2. PICK gone \in SUBSET LessonsIn(k) :
          /\ lessons' = WithoutLessons(gone)
          /\ \/ /\ curriculums' = [curriculums EXCEPT ![k].deleted = TRUE]
                /\ gone = LessonsIn(k)
             \/ curriculums' = curriculums
    BY <1>3 DEF DeleteCurriculum
  <2>3. /\ \A j \in CurriculumId :
             /\ curriculums'[j] # Nothing <=> curriculums[j] # Nothing
             /\ curriculums'[j].course = curriculums[j].course
        /\ LiveCurriculums \ {k} \subseteq LiveCurriculums'
        /\ LiveCurriculums' \subseteq LiveCurriculums
        /\ curriculums' = curriculums => LiveCurriculums' = LiveCurriculums
    <3>1. CASE curriculums' = curriculums
      BY <3>1 DEF LiveCurriculums
    <3>2. CASE curriculums' = [curriculums EXCEPT ![k].deleted = TRUE]
      <4>1. \A j \in CurriculumId \ {k} : curriculums'[j] = curriculums[j]
        BY <1>1, <3>2 DEF CourseTypeOK
      <4>2. curriculums'[k] = [curriculums[k] EXCEPT !.deleted = TRUE]
        BY <1>1, <3>2 DEF CourseTypeOK
      <4>3. /\ curriculums'[k] \in CurriculumRow /\ curriculums'[k].deleted
            /\ curriculums'[k].course = curriculums[k].course
        BY <2>1, <4>2 DEF CurriculumRow
      <4>4. curriculums' # curriculums
        BY <2>1, <4>3 DEF LiveCurriculums
      <4> QED
        BY <2>1, <4>1, <4>3, <4>4, RowAssumption DEF LiveCurriculums
    <3> QED
      BY <2>2, <3>1, <3>2
  <2>4. \A l \in LessonId :
          /\ lessons'[l] # Nothing <=> lessons[l] # Nothing
          /\ lessons[l] # Nothing => lessons'[l].curriculum = lessons[l].curriculum
          /\ l \in LiveLessons' => l \in LiveLessons /\ l \notin gone
    <3>1. \A l \in gone : lessons[l] # Nothing /\ lessons[l] \in LessonRow
      BY <1>1, RowsThere DEF LessonsIn, LiveLessons
    <3> QED
      BY <2>2, <3>1, RowAssumption DEF WithoutLessons, LessonRow, LiveLessons
  <2>5. LiveCourses' = LiveCourses /\ LiveExams' = LiveExams
    BY <2>1 DEF LiveCourses, LiveExams
  <2>6. RowsExist'
    BY <1>1, <2>1, <2>3, <2>4, RowsThere DEF RowsExist, CourseOf, LessonRow, ExamRow
  <2>7. ASSUME NEW j \in LiveCurriculums' PROVE CourseOf(j)' \in LiveCourses'
    BY <1>1, <2>3, <2>5 DEF ContentFollowsCourse, CourseOf, LiveCurriculums
  <2>8. ASSUME NEW l \in LiveLessons', Standing(LessonCourse(l))'
        PROVE  (lessons[l].curriculum)' \in LiveCurriculums'
    <3>1. l \in LiveLessons /\ l \notin gone /\ lessons[l] # Nothing
      BY <2>4, <2>8 DEF LiveLessons
    <3>2. lessons[l].curriculum \in CurriculumId
      BY <1>1, <3>1, RowsThere DEF LessonRow, LiveLessons
    <3>3. LessonCourse(l)' = LessonCourse(l)
      BY <2>3, <2>4, <3>1, <3>2 DEF LessonCourse, CourseOf, LiveLessons
    <3>4. lessons[l].curriculum \in LiveCurriculums
      BY <1>1, <2>1, <2>5, <2>8, <3>1, <3>3 DEF ContentFollowsCourse, Standing
    <3>5. lessons[l].curriculum = k => curriculums' = curriculums
      BY <2>2, <3>1 DEF LessonsIn
    <3> QED
      BY <2>3, <2>4, <3>1, <3>4, <3>5 DEF LiveLessons
  <2>9. ASSUME NEW e \in LiveExams'
        PROVE  /\ (exams[e].course)' # Nothing => (exams[e].course)' \in LiveCourses'
               /\ (exams[e].curriculum)' # Nothing /\ ~ (exams[e].unseen)'
                  => CourseOf(exams[e].curriculum)' \in LiveCourses'
    <3>1. e \in LiveExams /\ exams[e] \in ExamRow
      BY <1>1, <2>5, <2>9, RowsThere DEF LiveExams
    <3>2. exams[e].curriculum # Nothing
          => CourseOf(exams[e].curriculum)' = CourseOf(exams[e].curriculum)
      BY <2>1, <2>3, <3>1 DEF CourseOf, ExamRow
    <3> QED
      BY <1>1, <2>1, <2>5, <3>1, <3>2 DEF ContentFollowsCourse
  <2> QED
    BY <2>6, <2>7, <2>8, <2>9 DEF ContentFollowsCourse
<1> QED
  BY <1>2, <1>3
LEMMA LessonsFollow ==
    ASSUME CourseIInv, NEW u \in User, NEW l \in LessonId,
           (\E k \in CurriculumId : CreateLesson(u, l, k)) \/ DeleteLesson(u, l)
    PROVE  RowsExist' /\ ContentFollowsCourse'
<1>1. CourseTypeOK /\ RowsExist /\ ContentFollowsCourse
  BY DEF CourseIInv
<1>2. /\ UNCHANGED <<courses, curriculums, exams, closed>>
      /\ \A m \in LessonId \ {l} : lessons'[m] = lessons[m]
  BY <1>1 DEF CourseTypeOK, CreateLesson, DeleteLesson
<1>3. \/ /\ lessons'[l] # Nothing /\ lessons'[l].curriculum \in LiveCurriculums
         /\ lessons[l] = Nothing
      \/ /\ lessons'[l] # Nothing /\ lessons'[l].curriculum = lessons[l].curriculum
         /\ lessons[l] # Nothing /\ lessons'[l].deleted
  <2>1. ASSUME NEW k \in CurriculumId, CreateLesson(u, l, k)
        PROVE  /\ lessons'[l] # Nothing /\ lessons'[l].curriculum \in LiveCurriculums
               /\ lessons[l] = Nothing
    <3>1. [curriculum |-> k, deleted |-> FALSE] \in LessonRow
      BY DEF LessonRow
    <3> QED
      BY <1>1, <2>1, <3>1, RowAssumption DEF CreateLesson, CourseTypeOK
  <2>2. CASE DeleteLesson(u, l)
    <3>1. lessons[l] # Nothing /\ lessons[l] \in LessonRow
      BY <1>1, <2>2, RowsThere DEF DeleteLesson, LiveLessons
    <3>2. lessons'[l] = [lessons[l] EXCEPT !.deleted = TRUE]
      BY <1>1, <2>2 DEF DeleteLesson, CourseTypeOK
    <3>3. lessons'[l] \in LessonRow
      BY <3>1, <3>2 DEF LessonRow
    <3> QED
      BY <3>1, <3>2, <3>3, RowAssumption DEF LessonRow
  <2> QED
    BY <2>1, <2>2
<1>4. /\ LiveCourses' = LiveCourses /\ LiveCurriculums' = LiveCurriculums
      /\ LiveExams' = LiveExams /\ LiveLessons' \ {l} \subseteq LiveLessons
      /\ \A k \in CurriculumId : CourseOf(k)' = CourseOf(k)
  BY <1>2 DEF LiveCourses, LiveCurriculums, LiveExams, LiveLessons, CourseOf
<1>5. RowsExist'
  BY <1>1, <1>2, <1>3 DEF RowsExist, CourseOf, LiveCurriculums
<1>6. ASSUME NEW m \in LiveLessons', Standing(LessonCourse(m))'
      PROVE  (lessons[m].curriculum)' \in LiveCurriculums'
  <2>1. CASE m = l
    BY <1>3, <1>4, <1>6, <2>1 DEF LiveLessons
  <2>2. CASE m # l
    <3>1. m \in LiveLessons /\ m \in LessonId \ {l}
      BY <1>4, <1>6, <2>2 DEF LiveLessons
    <3>2. LessonCourse(m)' = LessonCourse(m)
      BY <1>2, <3>1 DEF LessonCourse, CourseOf
    <3> QED
      BY <1>1, <1>2, <1>4, <1>6, <3>1, <3>2 DEF ContentFollowsCourse, Standing
  <2> QED
    BY <2>1, <2>2
<1> QED
  BY <1>1, <1>2, <1>4, <1>5, <1>6 DEF ContentFollowsCourse, CourseOf

(***************************************************************************)
(* An exam keeps to places that were looked at.  Only a curriculum given   *)
(* beside a course is not, and such an exam is marked.                     *)
(***************************************************************************)
LEMMA ExamsFollow ==
    ASSUME CourseIInv, UNCHANGED <<courses, curriculums, lessons, closed>>,
           NEW e \in ExamId, \A x \in ExamId \ {e} : exams'[x] = exams[x],
           exams'[e].curriculum # Nothing => curriculums[exams'[e].curriculum] # Nothing,
           ~ exams'[e].deleted =>
             /\ exams'[e].course # Nothing => exams'[e].course \in LiveCourses
             /\ exams'[e].curriculum # Nothing /\ ~ exams'[e].unseen
                => CourseOf(exams'[e].curriculum) \in LiveCourses
    PROVE  RowsExist' /\ ContentFollowsCourse'
<1>1. RowsExist /\ ContentFollowsCourse
  BY DEF CourseIInv
<1>2. /\ LiveCourses' = LiveCourses /\ LiveCurriculums' = LiveCurriculums
      /\ LiveLessons' = LiveLessons
      /\ \A x \in LiveExams' : x # e => x \in LiveExams /\ exams'[x] = exams[x]
      /\ e \in LiveExams' => ~ exams'[e].deleted
  BY DEF LiveCourses, LiveCurriculums, LiveLessons, LiveExams
<1>3. RowsExist'
  BY <1>1 DEF RowsExist, CourseOf
<1>4. \A x \in LiveExams' :
        /\ (exams[x].course)' # Nothing => (exams[x].course)' \in LiveCourses'
        /\ (exams[x].curriculum)' # Nothing /\ ~ (exams[x].unseen)'
           => CourseOf(exams[x].curriculum)' \in LiveCourses'
  BY <1>1, <1>2 DEF ContentFollowsCourse, CourseOf
<1> QED
  BY <1>1, <1>2, <1>3, <1>4 DEF ContentFollowsCourse, CourseOf, LessonCourse, Standing

LEMMA CreateExamFollows ==
    ASSUME CourseIInv, NEW u \in User, NEW e \in ExamId,
           NEW c \in CourseId \cup {Nothing}, NEW k \in CurriculumId \cup {Nothing},
           CreateExam(u, e, c, k)
    PROVE  RowsExist' /\ ContentFollowsCourse'
<1>1. CourseTypeOK /\ ContentFollowsCourse
  BY DEF CourseIInv
<1>2. /\ UNCHANGED <<courses, curriculums, lessons, closed>>
      /\ \A x \in ExamId \ {e} : exams'[x] = exams[x]
      /\ exams'[e].course = c /\ exams'[e].curriculum = k
      /\ exams'[e].unseen <=> c # Nothing /\ k # Nothing
      /\ k # Nothing => curriculums[k] # Nothing
  BY <1>1 DEF CreateExam, CourseTypeOK
<1>3. IF c # Nothing THEN c \in LiveCourses ELSE k # Nothing => k \in LiveCurriculums
  BY DEF CreateExam, MayManageExam, Found
<1>4. c = Nothing /\ k # Nothing => CourseOf(k) \in LiveCourses
  BY <1>1, <1>3 DEF ContentFollowsCourse
<1> QED
  BY <1>2, <1>3, <1>4, ExamsFollow

LEMMA MoveExamFollows ==
    ASSUME CourseIInv, NEW u \in User, NEW e \in ExamId,
           NEW c \in CourseId \cup {Nothing, Keep}, NEW k \in CurriculumId \cup {Nothing, Keep},
           MoveExam(u, e, c, k)
    PROVE  RowsExist' /\ ContentFollowsCourse'
<1>1. CourseTypeOK /\ RowsExist /\ ContentFollowsCourse
  BY DEF CourseIInv
<1>2. e \in LiveExams /\ exams[e] # Nothing /\ exams[e] \in ExamRow
  BY <1>1, RowsThere DEF MoveExam, LiveExams
<1>3. /\ UNCHANGED <<courses, curriculums, lessons, closed>>
      /\ \A x \in ExamId \ {e} : exams'[x] = exams[x]
  BY <1>1 DEF MoveExam, CourseTypeOK
<1>4. exams'[e] = [exams[e] EXCEPT
                     !.course = IF c = Keep THEN @ ELSE c,
                     !.curriculum = IF k = Keep THEN @ ELSE k,
                     !.unseen = IF k = Keep THEN @
                                ELSE Given(k) # Nothing /\ Given(c) # Nothing]
  BY <1>1 DEF MoveExam, CourseTypeOK
<1>5. /\ exams'[e].course = IF c = Keep THEN exams[e].course ELSE c
      /\ exams'[e].curriculum = IF k = Keep THEN exams[e].curriculum ELSE k
      /\ exams'[e].unseen <=> IF k = Keep THEN exams[e].unseen
                              ELSE Given(k) # Nothing /\ Given(c) # Nothing
  BY <1>2, <1>4 DEF ExamRow
<1>6. /\ Given(c) # Nothing => Given(c) \in LiveCourses
      /\ Given(c) = Nothing /\ Given(k) # Nothing => Given(k) \in LiveCurriculums
      /\ Given(k) # Nothing => curriculums[Given(k)] # Nothing
  <2>1. /\ Given(c) # Nothing \/ Given(k) # Nothing => MayManageExam(u, Given(c), Given(k))
        /\ Given(k) # Nothing => curriculums[k] # Nothing
    BY DEF MoveExam
  <2>2. MayManageExam(u, Given(c), Given(k)) =>
          IF Given(c) # Nothing THEN Given(c) \in LiveCourses
          ELSE Given(k) # Nothing => Given(k) \in LiveCurriculums
    BY DEF MayManageExam, Found
  <2>3. Given(k) # Nothing => Given(k) = k
    BY DEF Given
  <2> QED
    BY <2>1, <2>2, <2>3
<1>7. Given(c) = Nothing /\ Given(k) # Nothing => CourseOf(Given(k)) \in LiveCourses
  BY <1>1, <1>6 DEF ContentFollowsCourse
<1>8. /\ exams[e].course # Nothing => exams[e].course \in LiveCourses
      /\ exams[e].curriculum # Nothing /\ ~ exams[e].unseen
         => CourseOf(exams[e].curriculum) \in LiveCourses
      /\ exams[e].curriculum # Nothing => curriculums[exams[e].curriculum] # Nothing
  BY <1>1, <1>2 DEF ContentFollowsCourse, RowsExist
<1>9. exams'[e].course # Nothing => exams'[e].course \in LiveCourses
  BY <1>5, <1>6, <1>8 DEF Given
<1>10. exams'[e].curriculum # Nothing => curriculums[exams'[e].curriculum] # Nothing
  BY <1>5, <1>6, <1>8 DEF Given
<1>11. exams'[e].curriculum # Nothing /\ ~ exams'[e].unseen
       => CourseOf(exams'[e].curriculum) \in LiveCourses
  BY <1>5, <1>7, <1>8 DEF Given
<1> QED
  BY <1>3, <1>9, <1>10, <1>11, ExamsFollow

LEMMA RemoveExamFollows ==
    ASSUME CourseIInv, NEW u \in User, NEW e \in ExamId, RemoveExam(u, e)
    PROVE  RowsExist' /\ ContentFollowsCourse'
<1>1. CourseTypeOK /\ RowsExist
  BY DEF CourseIInv
<1>2. e \in LiveExams /\ exams[e] # Nothing /\ exams[e] \in ExamRow
  BY <1>1, RowsThere DEF RemoveExam, LiveExams
<1>3. /\ UNCHANGED <<courses, curriculums, lessons, closed>>
      /\ \A x \in ExamId \ {e} : exams'[x] = exams[x]
      /\ exams'[e] = [exams[e] EXCEPT !.deleted = TRUE]
  BY <1>1 DEF RemoveExam, CourseTypeOK
<1>4. exams'[e].deleted /\ exams'[e].curriculum = exams[e].curriculum
  BY <1>2, <1>3 DEF ExamRow
<1> QED
  BY <1>1, <1>2, <1>3, <1>4, ExamsFollow DEF RowsExist

LEMMA StepFollows == CourseIInv /\ [CourseNext]_courseVars => CourseIInv'
<1>1. ASSUME CourseIInv, CourseNext PROVE RowsExist' /\ ContentFollowsCourse'
  BY <1>1, MembersFollow, DeleteCourseFollows, DeleteSchoolFollows, CurriculumsFollow,
     LessonsFollow, CreateExamFollows, MoveExamFollows, RemoveExamFollows
     DEF CourseNext, CourseRequest, CurriculumRequest, ExamRequest
<1>2. ASSUME CourseIInv, UNCHANGED courseVars PROVE RowsExist' /\ ContentFollowsCourse'
  BY <1>2 DEF CourseIInv, RowsExist, ContentFollowsCourse, courseVars, LiveCourses,
     LiveCurriculums, LiveLessons, LiveExams, LessonCourse, CourseOf, Standing
<1> QED
  BY <1>1, <1>2, StepTyped DEF CourseIInv

LEMMA AlwaysHolds == CourseSpec => []CourseIInv
  BY InitHolds, StepFollows, PTL DEF CourseSpec

\* Nothing outlives its course, whatever is created, moved and deleted.
THEOREM NothingOutlivesItsCourse == CourseSpec => []ContentFollowsCourse
<1>1. CourseIInv => ContentFollowsCourse
  BY DEF CourseIInv
<1> QED
  BY <1>1, AlwaysHolds, PTL
-----------------------------------------------------------------------------
(***************************************************************************)
(* Whoever may open a page finds it listed.  It follows from the roles,    *)
(* and from curricula that do not outlive their course.                    *)
(***************************************************************************)

LEMMA ViewedIsListed ==
    ASSUME NEW u \in User, NEW c \in LiveCourses, CanViewCourse(u, c)
    PROVE  /\ CanViewSchool(u, courses[c].school)
           /\ c \in get_all_courses(u)
           /\ IsTeacher(u) \/ IsStudent(u) => c \in get_user_courses(u)
  BY DEF CanViewCourse, CanViewSchool, get_all_courses, get_courses_by_school, get_user_courses,
     get_teacher_courses, get_student_courses, IsSuper, IsTeacher, IsStudent, LiveCourses

\* A query that answers with all courses answers with those the user may view.
LEMMA ViewedIsSeen ==
    ASSUME NEW u \in User, NEW c \in LiveCourses, CanViewCourse(u, c), ~ IsSuper(u),
           AllSeen(u), NEW seen \in ExamCourses(u)
    PROVE  c \in seen
<1>1. CASE RoleOf[u] = "school_admin"
  <2>1. ExamCourses(u) = Page(get_courses_by_school(HomeOf[u]))
    BY <1>1 DEF ExamCourses, IsTeacher, IsStudent
  <2>2. Page(get_courses_by_school(HomeOf[u])) = {get_courses_by_school(HomeOf[u])}
    BY <1>1 DEF AllSeen, Page
  <2>3. seen = get_courses_by_school(HomeOf[u])
    BY <2>1, <2>2
  <2> QED
    BY <1>1, <2>3 DEF CanViewCourse, get_courses_by_school, IsTeacher, IsStudent
<1>2. CASE IsTeacher(u)
  BY <1>2 DEF CanViewCourse, ExamCourses, get_teacher_courses, IsTeacher, IsStudent
<1>3. CASE IsStudent(u)
  BY <1>3 DEF CanViewCourse, ExamCourses, get_student_courses, IsTeacher, IsStudent
<1> QED
  BY <1>1, <1>2, <1>3 DEF CanViewCourse

LEMMA ListsFollowPages ==
    ASSUME ContentFollowsCourse PROVE OpenableIsListed
<1>1. \A k \in LiveCurriculums : CourseOf(k) \in LiveCourses
  BY DEF ContentFollowsCourse
<1>2. ASSUME NEW u \in User, NEW c \in CourseId, MayOpenCourse(u, c)
      PROVE  /\ CanViewSchool(u, courses[c].school)
             /\ c \in get_all_courses(u)
             /\ IsTeacher(u) \/ IsStudent(u) => c \in get_user_courses(u)
  BY <1>2, ViewedIsListed DEF MayOpenCourse
<1>3. ASSUME NEW u \in User, NEW k \in CurriculumId, MayOpenCurriculum(u, k)
      PROVE  MayOpenCourse(u, CourseOf(k)) /\ k \in get_curriculums_by_course(CourseOf(k))
  BY <1>1, <1>3 DEF MayOpenCurriculum, MayOpenCourse, get_curriculums_by_course
<1>4. ASSUME NEW u \in User, NEW e \in LiveExams, NEW seen \in ExamCourses(u),
             MayOpenExam(u, e), IsSuper(u) \/ ~ Placeless(e), AllSeen(u)
      PROVE  e \in get_all_exams(u, seen)
  <2>1. CASE IsSuper(u)
    BY <2>1 DEF get_all_exams
  <2>2. CASE ~ IsSuper(u) /\ exams[e].course # Nothing
    <3>1. exams[e].course \in LiveCourses /\ CanViewCourse(u, exams[e].course)
      BY <1>4, <2>2 DEF MayOpenExam, Found, Placeless, Target
    <3> QED
      BY <1>4, <2>2, <3>1, ViewedIsSeen DEF get_all_exams
  <2>3. CASE ~ IsSuper(u) /\ exams[e].course = Nothing
    <3> DEFINE k == exams[e].curriculum
    <3>1. k \in LiveCurriculums /\ CanViewCourse(u, CourseOf(k))
      BY <1>4, <2>3 DEF MayOpenExam, Found, Placeless, Target
    <3>2. CourseOf(k) \in seen
      BY <1>1, <1>4, <2>3, <3>1, ViewedIsSeen
    <3>3. k \in ExamCurriculums(seen)
      BY <3>1, <3>2 DEF ExamCurriculums, get_curriculums_by_course
    <3> QED
      BY <3>3 DEF get_all_exams
  <2> QED
    BY <2>1, <2>2, <2>3
<1> QED
  BY <1>2, <1>3, <1>4 DEF OpenableIsListed

\* OpenableIsListed: lists and pages agree for every set of users and roles and
\* every limit, but for exams without a place and, where one query does not answer
\* with all the courses of a school, the exams of its administrators' list.
THEOREM PagesAreListed == CourseSpec => []OpenableIsListed
  BY NothingOutlivesItsCourse, ListsFollowPages, PTL
-----------------------------------------------------------------------------
(* The response cache. *)

Entry == [data : Commit, age : Nat]
Read == [key : Key, data : Commit, age : 0 .. MaxFetch]

\* Only what a later commit superseded grows old, and what a reader holds and
\* what is stored is no older than it has been held and stored.
AgesFit ==
    /\ \A key \in Key : current[key] <= commits
    /\ \A key \in Key, c \in Commit : c >= current[key] => outdated[key][c] = 0
    /\ \A r \in Reader :
         reading[r] # NoRead => outdated[reading[r].key][reading[r].data] <= reading[r].age
    /\ \A key \in Key :
         _cache[key] # NoEntry /\ _cache[key].age # TTL[key] =>
             outdated[key][_cache[key].data] <= _cache[key].age + MaxFetch

\* StaleHasCause, with what its step relies on: an entry that has expired has a
\* cause as well, and the writer that is waited for will sweep the key.
Caused(key) ==
    \/ key \in unswept
    \/ \E w \in Writer : /\ writing[w] # NoWrite
                         /\ key \in Touches[writing[w]] \cap Sweeps[writing[w]]

StaleIsCaused == \A key \in Stale : Caused(key)

CacheIInv == TypeOK /\ AgesFit /\ StaleIsCaused

\* What the steps share of the types.
LEMMA RowsTyped ==
    ASSUME TypeOK
    PROVE  /\ commits \in Nat /\ commits <= MaxCommits /\ MaxCommits \in Nat /\ MaxFetch \in Nat
           /\ \A key \in Key : /\ current[key] \in Nat /\ TTL[key] \in Nat \ {0}
                               /\ _cache[key] # NoEntry =>
                                    /\ _cache[key] \in Entry
                                    /\ _cache[key].data \in Commit
                                    /\ _cache[key].age \in 0 .. TTL[key]
           /\ \A key \in Key, c \in Commit : outdated[key][c] \in Nat
           /\ \A r \in Reader : reading[r] # NoRead =>
                 /\ reading[r] \in Read
                 /\ reading[r].key \in Key /\ reading[r].data \in Commit
                 /\ reading[r].age \in 0 .. MaxFetch
  BY CacheAssumption DEF TypeOK, Entry, Read, Commit

LEMMA NothingIsNoRow == NoEntry \notin Entry /\ NoRead \notin Read
  BY DEF NoEntry, NoRead, Entry, Read, Commit

LEMMA CacheBegins == Init => CacheIInv
<1> SUFFICES ASSUME Init PROVE CacheIInv
  OBVIOUS
<1>1. TypeOK
  BY CacheAssumption DEF Init, TypeOK, Commit, NoEntry
<1>2. AgesFit
  BY DEF Init, AgesFit
<1>3. StaleIsCaused
  BY DEF Init, StaleIsCaused, Stale, Stored
<1> QED
  BY <1>1, <1>2, <1>3 DEF CacheIInv

\* A lookup drops what has expired.
LEMMA CleanedKeeps ==
    ASSUME TypeOK, NEW key \in Key
    PROVE  /\ Cleaned[key] = _cache[key] \/ Cleaned[key] = NoEntry
           /\ Cleaned \in [Key -> Entry \cup {NoEntry}]
  BY DEF Cleaned, TypeOK, Entry

LEMMA HitKeeps ==
    ASSUME CacheIInv, NEW key \in Key, Hit(key)
    PROVE  CacheIInv'
<1> USE DEF CacheIInv
<1>1. /\ _cache' \in [Key -> Entry \cup {NoEntry}]
      /\ \A k \in Key : _cache'[k] = _cache[k] \/ _cache'[k] = NoEntry
      /\ UNCHANGED <<commits, current, reading, writing, outdated, unswept>>
  BY CleanedKeeps DEF Hit
<1>2. TypeOK'
  <2>1. NoEntry.age = 0
    BY DEF NoEntry
  <2>2. \A k \in Key : _cache'[k].age <= TTL[k]
    BY <1>1, <2>1, CacheAssumption, SMTT(60) DEF TypeOK
  <2> QED
    BY <1>1, <2>2 DEF TypeOK, Entry
<1>3. AgesFit'
  BY <1>1 DEF AgesFit
<1>4. StaleIsCaused'
  BY <1>1 DEF StaleIsCaused, Stale, Stored, Caused
<1> QED
  BY <1>2, <1>3, <1>4

LEMMA MissKeeps ==
    ASSUME CacheIInv, NEW r \in Reader, NEW key \in Key, Miss(r, key)
    PROVE  CacheIInv'
<1> USE DEF CacheIInv
<1>1. /\ _cache' \in [Key -> Entry \cup {NoEntry}]
      /\ \A k \in Key : _cache'[k] = _cache[k] \/ _cache'[k] = NoEntry
      /\ reading' = [reading EXCEPT ![r] = [key |-> key, data |-> current[key], age |-> 0]]
      /\ UNCHANGED <<commits, current, writing, outdated, unswept>>
  BY CleanedKeeps DEF Miss
<1>2. TypeOK'
  <2>1. reading' \in [Reader -> Read \cup {NoRead}]
    <3>1. [key |-> key, data |-> current[key], age |-> 0] \in Read
      BY CacheAssumption DEF TypeOK, Read
    <3> QED
      BY <1>1, <3>1 DEF TypeOK, Read
  <2>2. \A k \in Key : _cache'[k].age <= TTL[k]
    BY <1>1, CacheAssumption DEF TypeOK, NoEntry
  <2> QED
    BY <1>1, <2>1, <2>2 DEF TypeOK, Entry, Read
<1>3. AgesFit'
  <2>1. \A x \in Reader : reading'[x] # NoRead =>
           outdated[reading'[x].key][reading'[x].data] <= reading'[x].age
    BY <1>1, RowsTyped, SMTT(60) DEF AgesFit, TypeOK
  <2> QED
    BY <1>1, <2>1 DEF AgesFit
<1>4. StaleIsCaused'
  BY <1>1 DEF StaleIsCaused, Stale, Stored, Caused
<1> QED
  BY <1>2, <1>3, <1>4

\* What is stored was read at most MaxFetch ticks ago.
LEMMA FillKeeps ==
    ASSUME CacheIInv, NEW r \in Reader, Fill(r)
    PROVE  CacheIInv'
<1> DEFINE key == reading[r].key
<1> DEFINE data == reading[r].data
<1> USE DEF CacheIInv
<1>1. /\ key \in Key /\ data \in Commit
      /\ _cache' = [_cache EXCEPT ![key] = [data |-> data, age |-> 0]]
      /\ reading' = [reading EXCEPT ![r] = NoRead]
      /\ unswept' = IF data = current[key] THEN unswept \ {key} ELSE unswept \cup {key}
      /\ UNCHANGED <<commits, current, writing, outdated>>
      /\ outdated[key][data] <= MaxFetch
  BY RowsTyped DEF Fill, AgesFit
<1> HIDE DEF key, data
<1>2. TypeOK'
  <2>1. [data |-> data, age |-> 0] \in Entry /\ _cache \in [Key -> Entry \cup {NoEntry}]
    BY <1>1 DEF Entry, TypeOK
  <2>2. _cache' \in [Key -> Entry \cup {NoEntry}]
    BY <1>1, <2>1
  <2>3. /\ \A k \in Key \ {key} : _cache'[k] = _cache[k]
        /\ _cache'[key].age = 0
    BY <1>1, <2>1
  <2>4. \A k \in Key : TTL[k] \in Nat /\ _cache[k].age <= TTL[k]
    BY CacheAssumption DEF TypeOK
  <2>5. \A k \in Key : _cache'[k].age <= TTL[k]
    BY <2>3, <2>4
  <2> QED
    BY <1>1, <2>2, <2>5 DEF TypeOK, Entry
<1>3. AgesFit'
  <2>1. \A k \in Key : _cache'[k] # NoEntry /\ _cache'[k].age # TTL[k] =>
           outdated[k][_cache'[k].data] <= _cache'[k].age + MaxFetch
    BY <1>1, RowsTyped DEF AgesFit, TypeOK
  <2>2. \A x \in Reader : reading'[x] # NoRead => reading'[x] = reading[x]
    BY <1>1 DEF TypeOK
  <2> QED
    BY <1>1, <2>1, <2>2 DEF AgesFit
<1>4. StaleIsCaused'
  <2> SUFFICES ASSUME NEW k \in Key, _cache'[k] # NoEntry, _cache'[k].data # current[k]
               PROVE  Caused(k)'
    BY <1>1 DEF StaleIsCaused, Stale, Stored
  <2>1. CASE k = key
    BY <1>1, <2>1 DEF Caused, TypeOK
  <2>2. CASE k # key
    BY <1>1, <2>2 DEF StaleIsCaused, Stale, Stored, Caused, TypeOK
  <2> QED
    BY <2>1, <2>2
<1> QED
  BY <1>2, <1>3, <1>4

LEMMA ReadFailsKeeps ==
    ASSUME CacheIInv, NEW r \in Reader, ReadFails(r)
    PROVE  CacheIInv'
<1> USE DEF CacheIInv
<1>1. /\ reading' = [reading EXCEPT ![r] = NoRead]
      /\ UNCHANGED <<commits, current, _cache, writing, outdated, unswept>>
  BY DEF ReadFails
<1>2. TypeOK'
  BY <1>1 DEF TypeOK
<1>3. AgesFit'
  BY <1>1 DEF AgesFit, TypeOK
<1>4. StaleIsCaused'
  BY <1>1 DEF StaleIsCaused, Stale, Stored, Caused
<1> QED
  BY <1>2, <1>3, <1>4

\* A commit makes stale what it touches: its writer is on the way, or leaves
\* the key out.
LEMMA WriteKeeps ==
    ASSUME CacheIInv, NEW w \in Writer, NEW op \in Operation, Write(w, op)
    PROVE  CacheIInv'
<1> USE DEF CacheIInv
<1>1. /\ writing[w] = NoWrite
      /\ commits' = commits + 1 /\ commits' \in Commit
      /\ current' = [key \in Key |-> IF key \in Touches[op] THEN commits' ELSE current[key]]
      /\ writing' = [writing EXCEPT ![w] = op]
      /\ unswept' = unswept \cup ((Touches[op] \ Sweeps[op]) \cap Stored)
      /\ Touches[op] \subseteq Key
      /\ UNCHANGED <<_cache, reading, outdated>>
  BY RowsTyped, CacheAssumption DEF Write, Commit
<1>2. TypeOK'
  BY <1>1 DEF TypeOK
<1>3. \A key \in Key : /\ current[key] <= current'[key] /\ current'[key] <= commits'
                       /\ key \in Touches[op] \/ current'[key] = current[key]
  BY <1>1, RowsTyped DEF AgesFit
<1>4. AgesFit'
  <2>1. \A key \in Key, c \in Commit : c >= current'[key] => outdated'[key][c] = 0
    BY <1>1, <1>2, <1>3, RowsTyped DEF AgesFit, TypeOK, Commit
  <2> QED
    BY <1>1, <1>3, <2>1 DEF AgesFit
<1>5. StaleIsCaused'
  <2> SUFFICES ASSUME NEW k \in Key, _cache[k] # NoEntry, _cache[k].data # current'[k]
               PROVE  Caused(k)'
    BY <1>1 DEF StaleIsCaused, Stale, Stored
  <2>1. CASE k \in Touches[op] \cap Sweeps[op]
    BY <1>1, <2>1, OperationAssumption DEF Caused, TypeOK
  <2>2. CASE k \in Touches[op] \ Sweeps[op]
    BY <1>1, <2>2 DEF Caused, Stored
  <2>3. CASE k \notin Touches[op]
    <3>1. Caused(k)
      BY <1>3, <2>3 DEF StaleIsCaused, Stale, Stored
    <3> QED
      BY <1>1, <3>1 DEF Caused, TypeOK
  <2> QED
    BY <2>1, <2>2, <2>3
<1> QED
  BY <1>2, <1>4, <1>5

\* What a sweep leaves stale, somebody else is to sweep or nobody was.
LEMMA InvalidateKeeps ==
    ASSUME CacheIInv, NEW w \in Writer, Invalidate(w)
    PROVE  CacheIInv'
<1> DEFINE swept == Sweeps[writing[w]]
<1> USE DEF CacheIInv
<1>1. /\ _cache' = [key \in Key |-> IF key \in swept THEN NoEntry ELSE _cache[key]]
      /\ writing' = [writing EXCEPT ![w] = NoWrite]
      /\ unswept' = unswept \ swept
      /\ UNCHANGED <<commits, current, reading, outdated>>
  BY DEF Invalidate
<1>2. TypeOK'
  BY <1>1, CacheAssumption DEF TypeOK, NoEntry
<1>3. AgesFit'
  BY <1>1 DEF AgesFit
<1>4. StaleIsCaused'
  BY <1>1 DEF StaleIsCaused, Stale, Stored, Caused, TypeOK
<1> QED
  BY <1>2, <1>3, <1>4

LEMMA WriteFailsKeeps ==
    ASSUME CacheIInv, NEW w \in Writer, WriteFails(w)
    PROVE  CacheIInv'
<1> USE DEF CacheIInv
<1>1. /\ unswept' = unswept \cup (Touches[writing[w]] \cap Stale)
      /\ writing' = [writing EXCEPT ![w] = NoWrite]
      /\ UNCHANGED <<commits, current, _cache, reading, outdated>>
  BY DEF WriteFails
<1>2. TypeOK'
  BY <1>1 DEF TypeOK, Stale, Stored
<1>3. AgesFit'
  BY <1>1 DEF AgesFit
<1>4. StaleIsCaused'
  BY <1>1 DEF StaleIsCaused, Stale, Stored, Caused, TypeOK
<1> QED
  BY <1>2, <1>3, <1>4

LEMMA ClearKeeps == CacheIInv /\ Clear => CacheIInv'
<1> SUFFICES ASSUME CacheIInv, Clear PROVE CacheIInv'
  OBVIOUS
<1> USE DEF CacheIInv
<1>1. TypeOK'
  BY CacheAssumption DEF Clear, TypeOK, NoEntry
<1>2. AgesFit'
  BY DEF Clear, AgesFit
<1>3. StaleIsCaused'
  BY DEF Clear, StaleIsCaused, Stale, Stored
<1> QED
  BY <1>1, <1>2, <1>3

\* Everything grows older by at most a tick, and what is held or stored by a
\* whole one.
LEMMA TickKeeps == CacheIInv /\ Tick => CacheIInv'
<1> SUFFICES ASSUME CacheIInv, Tick PROVE CacheIInv'
  OBVIOUS
<1> USE DEF CacheIInv
<1>1. UNCHANGED <<commits, current, writing, unswept>>
  BY DEF Tick
<1>2. ASSUME NEW key \in Key
      PROVE  /\ _cache'[key] = NoEntry <=> _cache[key] = NoEntry
             /\ _cache[key] # NoEntry =>
                  /\ _cache'[key] \in Entry
                  /\ _cache'[key].data = _cache[key].data
                  /\ _cache'[key].age = Older(_cache[key].age, TTL[key])
             /\ _cache'[key].age <= TTL[key]
  <2>1. CASE _cache[key] = NoEntry
    BY <2>1, CacheAssumption DEF Tick, NoEntry
  <2>2. CASE _cache[key] # NoEntry
    <3>1. _cache[key] \in Entry /\ _cache[key].age \in 0 .. TTL[key] /\ TTL[key] \in Nat
      BY <2>2, RowsTyped
    <3>2. _cache'[key] = [_cache[key] EXCEPT !.age = Older(_cache[key].age, TTL[key])]
      BY <2>2 DEF Tick
    <3>3. /\ Older(_cache[key].age, TTL[key]) \in Nat
          /\ Older(_cache[key].age, TTL[key]) <= TTL[key]
      BY <3>1 DEF Older
    <3>4. /\ _cache'[key] \in Entry
          /\ _cache'[key].data = _cache[key].data
          /\ _cache'[key].age = Older(_cache[key].age, TTL[key])
      BY <3>1, <3>2, <3>3 DEF Entry
    <3> QED
      BY <2>2, <3>3, <3>4, NothingIsNoRow
  <2> QED
    BY <2>1, <2>2
<1>3. ASSUME NEW r \in Reader
      PROVE  /\ reading'[r] = NoRead <=> reading[r] = NoRead
             /\ reading[r] # NoRead =>
                  /\ reading'[r] \in Read
                  /\ reading'[r].key = reading[r].key /\ reading'[r].data = reading[r].data
                  /\ reading'[r].age = reading[r].age + 1
  <2>1. CASE reading[r] = NoRead
    BY <2>1 DEF Tick
  <2>2. CASE reading[r] # NoRead
    <3>1. reading[r] \in Read /\ reading[r].age \in 0 .. MaxFetch /\ reading[r].age < MaxFetch
      BY <2>2, RowsTyped DEF Tick
    <3>2. reading'[r] = [reading[r] EXCEPT !.age = reading[r].age + 1]
      BY <2>2 DEF Tick
    <3>3. reading[r].age + 1 \in 0 .. MaxFetch
      BY <3>1, CacheAssumption
    <3>4. /\ reading'[r] \in Read
          /\ reading'[r].key = reading[r].key /\ reading'[r].data = reading[r].data
          /\ reading'[r].age = reading[r].age + 1
      BY <3>1, <3>2, <3>3 DEF Read
    <3> QED
      BY <2>2, <3>4, NothingIsNoRow
  <2> QED
    BY <2>1, <2>2
<1>4. ASSUME NEW key \in Key, NEW c \in Commit
      PROVE  /\ outdated'[key][c] \in Nat
             /\ outdated'[key][c] <= outdated[key][c] + 1
             /\ c >= current[key] => outdated'[key][c] = outdated[key][c]
  <2>1. /\ outdated[key][c] \in Nat /\ Horizon(key) \in Nat
        /\ c \in Nat /\ current[key] \in Nat
    BY RowsTyped DEF Horizon, Commit
  <2>2. outdated'[key][c] = IF c < current[key] THEN Older(outdated[key][c], Horizon(key))
                                                ELSE outdated[key][c]
    BY DEF Tick
  <2>3. c < current[key] => outdated[key][c] <= Horizon(key) \/ outdated'[key][c] = Horizon(key)
    BY <2>1, <2>2 DEF Older
  <2> QED
    BY <2>1, <2>2, <2>3 DEF Older
<1>5. TypeOK'
  <2>1. _cache' \in [Key -> Entry \cup {NoEntry}] /\ \A key \in Key : _cache'[key].age <= TTL[key]
    BY <1>2 DEF Tick
  <2>2. reading' \in [Reader -> Read \cup {NoRead}]
    BY <1>3 DEF Tick
  <2>3. outdated' \in [Key -> [Commit -> Nat]]
    BY <1>4 DEF Tick
  <2> QED
    BY <1>1, <2>1, <2>2, <2>3 DEF TypeOK, Entry, Read
<1>6. AgesFit'
  <2>1. \A r \in Reader : reading'[r] # NoRead =>
            outdated'[reading'[r].key][reading'[r].data] <= reading'[r].age
    BY <1>3, <1>4, RowsTyped DEF AgesFit
  <2>2. ASSUME NEW key \in Key, _cache'[key] # NoEntry, _cache'[key].age # TTL[key]
        PROVE  outdated'[key][_cache'[key].data] <= _cache'[key].age + MaxFetch
    <3>1. /\ _cache[key] # NoEntry /\ _cache[key].data \in Commit
          /\ _cache'[key].data = _cache[key].data
          /\ _cache'[key].age = Older(_cache[key].age, TTL[key])
          /\ _cache[key].age \in 0 .. TTL[key] /\ TTL[key] \in Nat /\ MaxFetch \in Nat
      BY <1>2, <2>2, RowsTyped
    <3>2. _cache'[key].age = _cache[key].age + 1 /\ _cache[key].age # TTL[key]
      BY <2>2, <3>1 DEF Older
    <3>3. outdated[key][_cache[key].data] <= _cache[key].age + MaxFetch
      BY <3>1, <3>2 DEF AgesFit
    <3>4. /\ outdated[key][_cache[key].data] \in Nat
          /\ outdated'[key][_cache[key].data] \in Nat
          /\ outdated'[key][_cache[key].data] <= outdated[key][_cache[key].data] + 1
      BY <1>4, <3>1, RowsTyped
    <3> QED
      BY <3>1, <3>2, <3>3, <3>4
  <2>3. \A key \in Key, c \in Commit : c >= current'[key] => outdated'[key][c] = 0
    BY <1>1, <1>4 DEF AgesFit
  <2> QED
    BY <1>1, <2>1, <2>2, <2>3 DEF AgesFit
<1>7. StaleIsCaused'
  BY <1>1, <1>2 DEF StaleIsCaused, Stale, Stored, Caused
<1> QED
  BY <1>5, <1>6, <1>7

LEMMA CacheStep == CacheIInv /\ [Next]_vars => CacheIInv'
<1> SUFFICES ASSUME CacheIInv, [Next]_vars PROVE CacheIInv'
  OBVIOUS
<1>1. CASE UNCHANGED vars
  BY <1>1 DEF vars, CacheIInv, TypeOK, AgesFit, StaleIsCaused, Stale, Stored, Caused
<1>2. CASE Next
  BY <1>2, HitKeeps, MissKeeps, FillKeeps, ReadFailsKeeps, WriteKeeps, InvalidateKeeps,
     WriteFailsKeeps, ClearKeeps, TickKeeps DEF Next
<1> QED
  BY <1>1, <1>2

\* Entries, reads and writes keep their types, and no entry is kept beyond its
\* ttl (cache_endpoint, the in-memory backend).
THEOREM CacheTyped == Spec => []TypeOK
<1>1. CacheIInv => TypeOK
  BY DEF CacheIInv
<1> QED
  BY <1>1, CacheBegins, CacheStep, PTL DEF Spec

\* An answer from the cache was the database's less than the ttl of its endpoint
\* and the time of its fetch ago, for any endpoints, patterns and ttls.
THEOREM AnswersAreRecent == Spec => []StalenessIsBounded
<1>1. ASSUME CacheIInv PROVE StalenessIsBounded
  <2> SUFFICES ASSUME NEW key \in Key, Live(key)
               PROVE  outdated[key][_cache[key].data] < Horizon(key)
    BY DEF StalenessIsBounded
  <2>1. /\ _cache[key] # NoEntry /\ _cache[key].age < TTL[key]
        /\ _cache[key].data \in Commit /\ _cache[key].age \in Nat
        /\ TTL[key] \in Nat /\ MaxFetch \in Nat
    BY <1>1, RowsTyped DEF Live, CacheIInv
  <2>2. /\ outdated[key][_cache[key].data] <= _cache[key].age + MaxFetch
        /\ outdated[key][_cache[key].data] \in Nat
    BY <1>1, <2>1, RowsTyped DEF CacheIInv, AgesFit
  <2> QED
    BY <2>1, <2>2 DEF Horizon
<1> QED
  BY <1>1, CacheBegins, CacheStep, PTL DEF Spec

\* A stale answer has a cause: a writer that has not swept yet, patterns that
\* leave the key out, a failure after the commit, or a fill that was overtaken.
THEOREM StaleAnswersHaveCauses == Spec => []StaleHasCause
<1>1. CacheIInv => StaleHasCause
  BY DEF CacheIInv, StaleIsCaused, StaleHasCause, Stale, Stored, Caused, Live
<1> QED
  BY <1>1, CacheBegins, CacheStep, PTL DEF Spec
-----------------------------------------------------------------------------
(***************************************************************************)
(* The courses and the cache side by side.                                 *)
(***************************************************************************)
LEMMA PagesFollowsBoth == PagesSpec => Spec /\ CourseSpec
<1>1. PagesInit => Init /\ CourseInit
  BY DEF PagesInit
<1>2. [PagesNext]_<<vars, courseVars, focus>> => [Next]_vars /\ [CourseNext]_courseVars
  BY DEF PagesNext
<1> QED
  BY <1>1, <1>2, PTL DEF PagesSpec, Spec, CourseSpec

\* PagesTypeOK: the rows and the entries of both keep their types.
THEOREM PagesTypeCorrect == PagesSpec => []PagesTypeOK
  BY PagesFollowsBoth, CoursesTyped, CacheTyped, PTL DEF PagesTypeOK
=============================================================================
