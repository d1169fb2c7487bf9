-------------------------- MODULE MCCourseLearning --------------------------
(***************************************************************************)
(* CourseLearning and ExamAttempts for TLC.  One behaviour follows either  *)
(* the course or one of its exams in detail; ExamOfCourse relates the two. *)
(***************************************************************************)
EXTENDS CourseLearning, ExamAttempts, TLC

VARIABLE focus   \* what the behaviour follows

LearningInit == Init /\ ExamInit /\ focus \in {"course", "exam"}

LearningNext ==
    \/ focus = "course" /\ Next /\ UNCHANGED <<examDetail, focus>>
    \/ focus = "exam" /\ ExamNext /\ UNCHANGED <<vars, focus>>

LearningSpec == LearningInit /\ [][LearningNext]_<<vars, examDetail, focus>>

\* The rows of both are well typed.
LearningTypeOK == TypeOK /\ ExamTypeOK

\* Neither a completed course and its reward nor a completed attempt and its
\* grade is ever taken back.
EarnedStays == AchievementsStay /\ ResultsStay

LearningSymmetry == Permutations(Lesson) \cup Permutations(Question)
=============================================================================
