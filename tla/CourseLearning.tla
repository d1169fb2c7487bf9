--------------------------- MODULE CourseLearning ---------------------------
(***************************************************************************)
(* A student's way through one course: enrolment (services/course.py),     *)
(* lessons and progress (services/course_progress.py), the final exam as   *)
(* far as the course looks at it (services/exam_attempt.py) and the        *)
(* completion reward (services/reward_rating.py).                          *)
(*                                                                         *)
(* No handler suspends between its reads and its writes, but submit_exam,  *)
(* which commits the result of the attempt, awaits the subscribers of      *)
(* "course_completed", and only then looks at the enrolment again: it is   *)
(* two actions here.  A handler with several commits may die between two   *)
(* of them.                                                                *)
(***************************************************************************)
EXTENDS Integers, FiniteSets, Sequences

CONSTANTS Student,        \* students of the school
          Lesson,         \* the lessons of the course
          AllowMultiple,  \* exam.allow_multiple_attempts
          MaxRows,        \* bound: enrolment rows
          MaxAttempts,    \* bound: attempts of one student
          MaxFailures     \* bound: deaths between two commits

ASSUME LearningAssumption ==
    /\ IsFiniteSet(Lesson)
    /\ AllowMultiple \in BOOLEAN
    /\ MaxRows \in Nat /\ MaxAttempts \in Nat /\ MaxFailures \in Nat

VARIABLES students,     \* course_students_association
          enrollments,  \* course_enrollments, with their lesson_progress and rewards
          taken,        \* student -> exam attempts started
          open,         \* student -> attempts in progress
          passed,       \* students with a completed, passed attempt
          examActive,   \* the exam is not soft-deleted
          checking,     \* student -> submissions awaiting the event handlers
          failures,     \* deaths so far
          torn          \* history: rows a death left half done

examVars == <<taken, open, passed, examActive, checking>>
vars == <<students, enrollments, examVars, failures, torn>>

Row == [student : Student, deleted : BOOLEAN,
        status : {"not_started", "in_progress", "completed"},
        progress : 0 .. 100,
        lessons : [Lesson -> {"unseen", "started", "completed"}],
        rewards : Nat]

TypeOK ==
    /\ students \subseteq Student
    /\ enrollments \in Seq(Row)
    /\ taken \in [Student -> Nat]
    /\ open \in [Student -> Nat]
    /\ passed \subseteq Student
    /\ examActive \in BOOLEAN
    /\ checking \in [Student -> Nat]
    /\ failures \in Nat
    /\ torn \subseteq DOMAIN enrollments

Init ==
    /\ students = {}
    /\ enrollments = <<>>
    /\ taken = [u \in Student |-> 0]
    /\ open = [u \in Student |-> 0]
    /\ passed = {}
    /\ examActive = TRUE
    /\ checking = [u \in Student |-> 0]
    /\ failures = 0
    /\ torn = {}

\* get_by_user_and_course: the rows of a student that are not deleted.
ActiveRows(u) ==
    {i \in DOMAIN enrollments : enrollments[i].student = u /\ ~ enrollments[i].deleted}

NewRow(u) ==
    [student |-> u, deleted |-> FALSE, status |-> "not_started", progress |-> 0,
     lessons |-> [l \in Lesson |-> "unseen"], rewards |-> 0]

In(row, state) == {l \in Lesson : row.lessons[l] = state}

\* _enrich_course_with_progress: what the course page shows the student.
Shown(u) ==
    IF ActiveRows(u) = {} THEN [progress |-> 0, status |-> "not_started"]
    ELSE LET row == enrollments[CHOOSE i \in ActiveRows(u) : TRUE]
         IN  [progress |-> row.progress, status |-> row.status]

\* n commits were due for row i; the request died before the last.
Dies(i) ==
    /\ failures < MaxFailures
    /\ failures' = failures + 1
    /\ torn' = torn \cup {i}

Lives == UNCHANGED <<failures, torn>>
-----------------------------------------------------------------------------
(* Enrolment. *)

\* The association and the row are committed together.
Enroll(u) ==
    /\ u \notin students
    /\ Len(enrollments) < MaxRows
    /\ students' = students \cup {u}
    /\ enrollments' = Append(enrollments, NewRow(u))
    /\ UNCHANGED <<examVars, failures, torn>>

\* Mutant of Unenroll: the row is left alone.
UnenrollRoster(u) ==
    /\ u \in students
    /\ students' = students \ {u}
    /\ UNCHANGED <<enrollments, examVars, failures, torn>>

\* crud_enrollment.delete is a soft delete: progress and rewards stay.
Unenroll(u) ==
    /\ u \in students
    /\ students' = students \ {u}
    /\ enrollments' =
         IF ActiveRows(u) = {}
           THEN enrollments
           ELSE [enrollments EXCEPT ![CHOOSE i \in ActiveRows(u) : TRUE].deleted = TRUE]
    /\ UNCHANGED <<examVars, failures, torn>>

\* update_student_courses_bulk, for this course: a student without a row stays.
BulkUpdate(u, wanted) ==
    \/ wanted /\ Enroll(u)
    \/ ~ wanted /\ ActiveRows(u) # {} /\ Unenroll(u)
-----------------------------------------------------------------------------
(* Lessons. *)

\* require_course_view_permission and _get_or_raise_enrollment.
MayLearn(u, i) == u \in students /\ i \in ActiveRows(u)

Begun(row) == IF row.status = "not_started" THEN [row EXCEPT !.status = "in_progress"] ELSE row

StartCourse(u, i) ==
    /\ MayLearn(u, i)
    /\ enrollments' = [enrollments EXCEPT ![i] = Begun(@)]
    /\ UNCHANGED <<students, examVars, failures, torn>>

\* Mutant of StartLesson: the status is set without a look at it.
StartLessonAgain(u, i, l) ==
    /\ MayLearn(u, i)
    /\ enrollments' = [enrollments EXCEPT
                         ![i].lessons[l] = IF @ = "unseen" THEN "started" ELSE @,
                         ![i].status = "in_progress"]
    /\ UNCHANGED <<students, examVars, failures, torn>>

\* The progress row is committed, then the status.
StartLesson(u, i, l) ==
    LET visited == [enrollments[i] EXCEPT
                      !.lessons[l] = IF @ = "unseen" THEN "started" ELSE @]
    IN  /\ MayLearn(u, i)
        /\ \/ enrollments' = [enrollments EXCEPT ![i] = Begun(visited)] /\ Lives
           \/ /\ Begun(visited) # visited
              /\ enrollments' = [enrollments EXCEPT ![i] = visited]
              /\ Dies(i)
        /\ UNCHANGED <<students, examVars>>

\* Mutant of calculate_progress: the quotient upside down.
ProgressInverted(row) ==
    LET started == Cardinality(Lesson \ In(row, "unseen"))
        done == Cardinality(In(row, "completed"))
    IN  IF done = 0 THEN 0 ELSE (100 * started) \div done

\* The share of the lessons the student has started, not of all lessons.
calculate_progress(row) ==
    LET started == Cardinality(Lesson \ In(row, "unseen"))
    IN  IF started = 0 THEN 0
        ELSE (100 * Cardinality(In(row, "completed"))) \div started

\* _has_passed_course_exam.
HasPassed(u) == examActive /\ u \in passed

\* _update_course_progress up to the commit of the completion.
Progressed(row) ==
    LET progress == calculate_progress(row)
    IN  [row EXCEPT !.progress = progress,
                    !.status = IF progress >= 100 THEN "completed" ELSE @]

\* ... and its end: the reward, if it is due and not there.
Rewarded(row) ==
    IF row.status = "completed" /\ HasPassed(row.student) /\ row.rewards = 0
      THEN [row EXCEPT !.rewards = @ + 1]
      ELSE row

(***************************************************************************)
(* complete_lesson commits the lesson, then the completion of the course   *)
(* if it has just been reached, then the reward; the percentage travels    *)
(* with the next commit.  A completed lesson is not completed again.       *)
(***************************************************************************)
CompleteLesson(u, i, l) ==
    LET row == enrollments[i]
        ticked == [row EXCEPT !.lessons[l] = "completed"]
        progressed == Progressed(ticked)
    IN  /\ MayLearn(u, i)
        /\ row.lessons[l] = "started"
        /\ \/ /\ enrollments' = [enrollments EXCEPT ![i] = Rewarded(progressed)]
              /\ Lives
           \/ /\ Rewarded(progressed) # ticked
              /\ enrollments' = [enrollments EXCEPT ![i] = ticked]
              /\ Dies(i)
           \/ /\ progressed.status # row.status
              /\ Rewarded(progressed) # progressed
              /\ enrollments' = [enrollments EXCEPT ![i] = progressed]
              /\ Dies(i)
        /\ UNCHANGED <<students, examVars>>
-----------------------------------------------------------------------------
(* The exam and the reward. *)

StartAttempt(u) ==
    /\ u \in students
    /\ examActive
    /\ AllowMultiple \/ taken[u] = 0
    /\ taken[u] < MaxAttempts
    /\ taken' = [taken EXCEPT ![u] = @ + 1]
    /\ open' = [open EXCEPT ![u] = @ + 1]
    /\ UNCHANGED <<students, enrollments, passed, examActive, checking, failures, torn>>

\* The result is committed; a pass is published before anything else.
SubmitExam(u, pass) ==
    /\ open[u] > 0
    /\ examActive
    /\ open' = [open EXCEPT ![u] = @ - 1]
    /\ passed' = IF pass THEN passed \cup {u} ELSE passed
    /\ checking' = IF pass THEN [checking EXCEPT ![u] = @ + 1] ELSE checking
    /\ UNCHANGED <<students, enrollments, taken, examActive, failures, torn>>

\* Mutant of FinishSubmit: the enrolment is not looked at.
FinishUnchecked(u) ==
    /\ checking[u] > 0
    /\ checking' = [checking EXCEPT ![u] = @ - 1]
    /\ UNCHANGED <<students, enrollments, taken, open, passed, examActive, failures, torn>>

\* After the event handlers: a completed enrolment gets its reward.
FinishSubmit(u) ==
    /\ checking[u] > 0
    /\ checking' = [checking EXCEPT ![u] = @ - 1]
    /\ \/ \E i \in ActiveRows(u) :
            /\ enrollments[i].status = "completed"
            /\ enrollments' = [enrollments EXCEPT ![i] = Rewarded(Progressed(@))]
       \/ /\ \A i \in ActiveRows(u) : enrollments[i].status # "completed"
          /\ UNCHANGED enrollments
    /\ UNCHANGED <<students, taken, open, passed, examActive, failures, torn>>

\* award_completion_reward, by hand; it does not ask for the exam.
AwardReward(i) ==
    /\ ~ enrollments[i].deleted
    /\ enrollments[i].status = "completed"
    /\ enrollments[i].rewards = 0
    /\ enrollments' = [enrollments EXCEPT ![i].rewards = @ + 1]
    /\ UNCHANGED <<students, examVars, failures, torn>>

DeleteExam ==
    /\ examActive
    /\ examActive' = FALSE
    /\ UNCHANGED <<students, enrollments, taken, open, passed, checking, failures, torn>>

\* The worker dies with the submissions that wait.
Restart ==
    LET waiting == {u \in Student : checking[u] > 0} IN
    /\ waiting # {}
    /\ failures < MaxFailures
    /\ failures' = failures + 1
    /\ torn' = torn \cup UNION {ActiveRows(u) : u \in waiting}
    /\ checking' = [u \in Student |-> 0]
    /\ UNCHANGED <<students, enrollments, taken, open, passed, examActive>>

Next ==
    \/ \E u \in Student :
         Enroll(u) \/ Unenroll(u) \/ StartAttempt(u) \/ FinishSubmit(u)
    \/ \E u \in Student, b \in BOOLEAN : BulkUpdate(u, b) \/ SubmitExam(u, b)
    \/ \E u \in Student, i \in DOMAIN enrollments : StartCourse(u, i)
    \/ \E u \in Student, i \in DOMAIN enrollments, l \in Lesson :
         StartLesson(u, i, l) \/ CompleteLesson(u, i, l)
    \/ \E i \in DOMAIN enrollments : AwardReward(i)
    \/ DeleteExam
    \/ Restart

Spec == Init /\ [][Next]_vars
-----------------------------------------------------------------------------
(* Properties. *)

(***************************************************************************)
(* The students of the course are those with an enrolment row, and each    *)
(* has one: enrolling, leaving and enrolling again, by whichever route,    *)
(* never leaves two tables that disagree.                                  *)
(***************************************************************************)
RosterMatchesRows ==
    \A u \in Student : Cardinality(ActiveRows(u)) = IF u \in students THEN 1 ELSE 0

(***************************************************************************)
(* An enrolment is rewarded at most once and only when it is completed,    *)
(* although the last lesson, each passed submission and an administrator   *)
(* may all award it.  Whichever comes first, the last lesson or the exam,  *)
(* whoever passed and is shown the course as completed, or as learnt to    *)
(* 100 percent, is rewarded as soon as no submission is waiting, unless a  *)
(* request died between two commits: then nothing awards the reward later. *)
(***************************************************************************)
RewardedIffDue ==
    /\ \A i \in DOMAIN enrollments :
         enrollments[i].rewards <= IF enrollments[i].status = "completed" THEN 1 ELSE 0
    /\ \A u \in Student :
         /\ Shown(u).status = "completed" \/ Shown(u).progress >= 100
         /\ HasPassed(u) /\ checking[u] = 0 /\ ActiveRows(u) \cap torn = {}
         => \E i \in ActiveRows(u) : enrollments[i].rewards = 1

(***************************************************************************)
(* A completed enrolment stays completed and an earned reward stays,       *)
(* whatever the student starts, submits or repeats afterwards.             *)
(***************************************************************************)
AchievementsStay ==
    [][\A i \in DOMAIN enrollments :
         /\ enrollments[i].status = "completed" => enrollments'[i].status = "completed"
         /\ enrollments[i].rewards <= enrollments'[i].rewards]_vars

(***************************************************************************)
(* "Progress should increase: (idx+1)/5 * 100" when the idx-th of five     *)
(* lessons has been started and completed                                  *)
(* (tests/integration/test_progress_calculation.py): the percentage counts *)
(* all lessons of the course.                                              *)
(***************************************************************************)
ProgressCountsAllLessons ==
    \A i \in DOMAIN enrollments \ torn :
        enrollments[i].progress * Cardinality(Lesson)
          <= 100 * Cardinality(In(enrollments[i], "completed"))
=============================================================================
