---------------------------- MODULE ExamAttempts ----------------------------
(***************************************************************************)
(* One exam of a course in detail: its questions (services/exam.py), the   *)
(* attempts and answers of the students and their grading                  *)
(* (services/exam_attempt.py).                                             *)
(*                                                                         *)
(* Students answer while teachers edit, move and delete the questions.     *)
(* submit_exam commits the grade of one answer after the other, then the   *)
(* result of the attempt, then awaits the subscribers of                   *)
(* "course_completed": a request may die after any of these commits.       *)
(*                                                                         *)
(* CourseLearning looks at this exam through five variables; ExamOfCourse  *)
(* says that the steps of this module are exam steps of that one.          *)
(***************************************************************************)
EXTENDS Integers, Sequences, FiniteSets, FiniteSetsExt

CONSTANTS Examinee,       \* students of the course
          Question,       \* rows of questions
          Choice,         \* indices of the options of a question
          Points,         \* what a question may be worth
          PassMark,       \* values of exam.pass_percentage
          MultipleSittings,  \* exam.allow_multiple_attempts
          MaxSittings,    \* bound: attempts of one student
          MaxEdits,       \* bound: edits of the exam and of its questions
          MaxDeaths       \* bound: requests that die half way

None == -1   \* NULL in the database

ASSUME ExamAssumption ==
    /\ IsFiniteSet(Question)
    /\ Choice \subseteq Nat /\ Points \subseteq Nat /\ Points # {}
    /\ PassMark \subseteq 0 .. 100 \cup {None}
    /\ MultipleSittings \in BOOLEAN
    /\ MaxSittings \in Nat /\ MaxEdits \in Nat /\ MaxDeaths \in Nat

VARIABLES exam,        \* the row of exams
          questions,   \* question -> its row
          attempts,    \* exam_attempts with their user_answers
          completing,  \* student -> submissions awaiting the event handlers
          edits, deaths,
          superseded   \* history: attempts whose exam was edited afterwards

attemptVars == <<attempts, completing>>
examDetail == <<exam, questions, attemptVars, edits, deaths, superseded>>

QuestionRow ==
    [place : {"unwritten", "here", "elsewhere", "deleted"},
     points : Points, correct : Choice \cup {None}]

Answer == [text : Choice \cup {None}, correct : {"null", "yes", "no"}, score : Nat \cup {None}]

NoAnswer == [text |-> None, correct |-> "none", score |-> None]

Attempt ==
    [student : Examinee, status : {"in_progress", "completed"},
     answers : [Question -> Answer \cup {NoAnswer}],
     score : Nat \cup {None}, passed : BOOLEAN]

ExamTypeOK ==
    /\ exam \in [active : BOOLEAN, pass : PassMark]
    /\ questions \in [Question -> QuestionRow]
    /\ attempts \in Seq(Attempt)
    /\ completing \in [Examinee -> Nat]
    /\ edits \in 0 .. MaxEdits /\ deaths \in 0 .. MaxDeaths
    /\ superseded \subseteq DOMAIN attempts

ExamInit ==
    /\ exam \in [active : {TRUE}, pass : PassMark]
    /\ questions = [q \in Question |->
                      [place |-> "unwritten", points |-> Min(Points), correct |-> None]]
    /\ attempts = <<>>
    /\ completing = [u \in Examinee |-> 0]
    /\ edits = 0 /\ deaths = 0
    /\ superseded = {}

\* crud_question.get_by_exam.
QuestionsHere == {q \in Question : questions[q].place = "here"}

Completed == {i \in DOMAIN attempts : attempts[i].status = "completed"}

AttemptsOf(u) == {i \in DOMAIN attempts : attempts[i].student = u}

\* get_all_by_attempt, as a map from questions to answers.
Answered(i) == {q \in Question : attempts[i].answers[q] # NoAnswer}
-----------------------------------------------------------------------------
(* Teachers: the exam and its questions. *)

Edited ==
    /\ edits < MaxEdits
    /\ edits' = edits + 1
    /\ superseded' = Completed
    /\ UNCHANGED <<attemptVars, deaths>>

\* Multiple choice and true/false need a correct answer, free text does not.
CreateQuestion(q, points, correct) ==
    /\ exam.active
    /\ questions[q].place = "unwritten"
    /\ questions' = [questions EXCEPT
                       ![q] = [place |-> "here", points |-> points, correct |-> correct]]
    /\ Edited
    /\ UNCHANGED exam

\* QuestionUpdate requires an exam_id, which is stored: a question can move.
UpdateQuestion(q, place, points, correct) ==
    /\ exam.active
    /\ questions[q].place = "here"
    /\ questions' = [questions EXCEPT
                       ![q] = [place |-> place, points |-> points, correct |-> correct]]
    /\ Edited
    /\ UNCHANGED exam

\* A soft delete: the answers to the question stay.
DeleteQuestion(q) ==
    /\ exam.active
    /\ questions[q].place = "here"
    /\ questions' = [questions EXCEPT ![q].place = "deleted"]
    /\ Edited
    /\ UNCHANGED exam

\* Of update_exam the pass mark.  It may move the exam as well, to another course
\* or curriculum: Courses.MoveExam has that, and here the exam stays in its course.
UpdateExam(pass) ==
    /\ exam.active
    /\ exam' = [exam EXCEPT !.pass = pass]
    /\ Edited
    /\ UNCHANGED questions

DeleteWholeExam ==
    /\ exam.active
    /\ exam' = [exam EXCEPT !.active = FALSE]
    /\ Edited
    /\ UNCHANGED questions
-----------------------------------------------------------------------------
(* Students: attempts and answers. *)

StartSitting(u) ==
    /\ exam.active
    /\ MultipleSittings \/ AttemptsOf(u) = {}
    /\ Cardinality(AttemptsOf(u)) < MaxSittings
    /\ attempts' = Append(attempts,
         [student |-> u, status |-> "in_progress",
          answers |-> [q \in Question |-> NoAnswer], score |-> None, passed |-> FALSE])
    /\ UNCHANGED <<exam, questions, completing, edits, deaths, superseded>>

\* An update leaves is_correct and score of the row as they are.
Written(answer, text) ==
    IF answer = NoAnswer
      THEN [text |-> text, correct |-> "null", score |-> None]
      ELSE [answer EXCEPT !.text = text]

\* The question is looked up, not the exam: a deleted exam still takes answers.
SubmitAnswer(i, q, text) ==
    /\ attempts[i].status = "in_progress"
    /\ q \in QuestionsHere
    /\ attempts' = [attempts EXCEPT ![i].answers[q] = Written(@, text)]
    /\ UNCHANGED <<exam, questions, completing, edits, deaths, superseded>>

\* One commit per answer: a request that dies has written some of them.
SubmitBulkAnswers(i, texts) ==
    /\ attempts[i].status = "in_progress"
    /\ DOMAIN texts # {}
    /\ \E written \in SUBSET DOMAIN texts :
         /\ \/ written = DOMAIN texts /\ UNCHANGED deaths
            \/ /\ written # DOMAIN texts
               /\ deaths < MaxDeaths /\ deaths' = deaths + 1
         /\ attempts' = [attempts EXCEPT ![i].answers =
              [q \in Question |-> IF q \in written THEN Written(@[q], texts[q]) ELSE @[q]]]
    /\ UNCHANGED <<exam, questions, completing, edits, superseded>>
-----------------------------------------------------------------------------
(* Grading. *)

\* NULL on either side is a TypeError, which counts as wrong.
IsCorrect(answer, q) == answer.text # None /\ answer.text = questions[q].correct

\* Mutant of Graded: what has a grade is not graded again.
GradedOnce(answers, S) ==
    [q \in Question |->
       IF q \in S /\ answers[q].score = None
         THEN [answers[q] EXCEPT
                 !.correct = IF IsCorrect(answers[q], q) THEN "yes" ELSE "no",
                 !.score = IF IsCorrect(answers[q], q) THEN questions[q].points ELSE 0]
         ELSE answers[q]]

\* _calculate_score, the answers it has written back: those of the set S.
Graded(answers, S) ==
    [q \in Question |->
       IF q \in S
         THEN [answers[q] EXCEPT
                 !.correct = IF IsCorrect(answers[q], q) THEN "yes" ELSE "no",
                 !.score = IF IsCorrect(answers[q], q) THEN questions[q].points ELSE 0]
         ELSE answers[q]]

\* ... its total, over the questions the exam has now,
TotalScore(i) ==
    MapThenSumSet(LAMBDA q : questions[q].points,
                  {q \in QuestionsHere : q \in Answered(i) /\ IsCorrect(attempts[i].answers[q], q)})

\* ... and whether it is enough.  Without points the percentage is zero.
Passes(i) ==
    LET possible == MapThenSumSet(LAMBDA q : questions[q].points, QuestionsHere)
    IN  /\ exam.pass # None
        /\ IF possible > 0 THEN 100 * TotalScore(i) >= exam.pass * possible
                           ELSE exam.pass = 0

\* Mutant of Submit: the attempt stays open.
SubmitKept(i) ==
    LET u == attempts[i].student
        due == QuestionsHere \cap Answered(i)
    IN  /\ attempts[i].status = "in_progress"
        /\ exam.active
        /\ attempts' = [attempts EXCEPT ![i].answers = Graded(@, due),
                                        ![i].score = TotalScore(i),
                                        ![i].passed = Passes(i)]
        /\ completing' = [completing EXCEPT ![u] = @ + (IF Passes(i) THEN 1 ELSE 0)]
        /\ UNCHANGED <<exam, questions, edits, deaths, superseded>>

\* submit_exam up to the event.
Submit(i) ==
    LET u == attempts[i].student
        due == QuestionsHere \cap Answered(i)
    IN  /\ attempts[i].status = "in_progress"
        /\ exam.active
        /\ attempts' = [attempts EXCEPT ![i].answers = Graded(@, due),
                                        ![i].score = TotalScore(i),
                                        ![i].passed = Passes(i),
                                        ![i].status = "completed"]
        /\ completing' = [completing EXCEPT ![u] = @ + (IF Passes(i) THEN 1 ELSE 0)]
        /\ UNCHANGED <<exam, questions, edits, deaths, superseded>>

\* It dies after some of the answers have been graded; the attempt stays open.
SubmitDies(i) ==
    /\ attempts[i].status = "in_progress"
    /\ exam.active
    /\ deaths < MaxDeaths
    /\ deaths' = deaths + 1
    /\ \E done \in SUBSET (QuestionsHere \cap Answered(i)) :
         attempts' = [attempts EXCEPT ![i].answers = Graded(@, done)]
    /\ UNCHANGED <<exam, questions, completing, edits, superseded>>

\* The event handlers have run; the enrolment is in CourseLearning.
SubmitReturns(u) ==
    /\ completing[u] > 0
    /\ completing' = [completing EXCEPT ![u] = @ - 1]
    /\ UNCHANGED <<exam, questions, attempts, edits, deaths, superseded>>

\* The worker restarts: the submissions that wait are gone.
RestartDuringSubmit ==
    /\ \E u \in Examinee : completing[u] > 0
    /\ deaths < MaxDeaths
    /\ deaths' = deaths + 1
    /\ completing' = [u \in Examinee |-> 0]
    /\ UNCHANGED <<exam, questions, attempts, edits, superseded>>

ExamNext ==
    \/ \E q \in Question, p \in Points, c \in Choice \cup {None} :
         \/ CreateQuestion(q, p, c)
         \/ \E place \in {"here", "elsewhere"} : UpdateQuestion(q, place, p, c)
    \/ \E q \in Question : DeleteQuestion(q)
    \/ \E p \in PassMark : UpdateExam(p)
    \/ DeleteWholeExam
    \/ \E u \in Examinee : StartSitting(u) \/ SubmitReturns(u)
    \/ \E i \in DOMAIN attempts :
         \/ \E q \in Question, t \in Choice \cup {None} : SubmitAnswer(i, q, t)
         \/ \E S \in SUBSET QuestionsHere : \E t \in [S -> Choice] : SubmitBulkAnswers(i, t)
         \/ Submit(i)
         \/ SubmitDies(i)
    \/ RestartDuringSubmit

ExamSpec == ExamInit /\ [][ExamNext]_examDetail
-----------------------------------------------------------------------------
(* Properties. *)

\* get_exam_attempt: the answers it shows are those to the questions of now.
ShownScores(i) ==
    MapThenSumSet(LAMBDA q : attempts[i].answers[q].score,
                  {q \in QuestionsHere : attempts[i].answers[q].score # None})

(***************************************************************************)
(* A result can be checked: until somebody edits the exam, the marks that  *)
(* a completed attempt shows add up to its score, and grading its answers  *)
(* again gives the same score and the same verdict, however often grading  *)
(* died and was repeated and whatever was edited before.                   *)
(***************************************************************************)
GradesAgree ==
    \A i \in Completed \ superseded :
        /\ attempts[i].score = ShownScores(i)
        /\ attempts[i].score = TotalScore(i)
        /\ attempts[i].passed = Passes(i)

\* get_user_highest_scores: the grade that get_all_exams shows.
HighestScore(u) ==
    LET scores == {attempts[i].score : i \in AttemptsOf(u) \cap Completed}
    IN  IF scores = {} THEN None ELSE Max(scores)

(***************************************************************************)
(* Once an attempt is completed nothing changes it any more - late         *)
(* answers, a second submission, edits of the questions - and the grade a  *)
(* student sees never falls.                                               *)
(***************************************************************************)
ResultsStay ==
    [][/\ \A i \in Completed : attempts'[i] = attempts[i]
       /\ \A u \in Examinee : HighestScore(u)' >= HighestScore(u)]_examDetail

(***************************************************************************)
(* What CourseLearning assumes of an exam: a step of this module starts an *)
(* attempt, closes one with or without a pass, ends a submission, deletes  *)
(* the exam, restarts the worker, or is none of its business.              *)
(***************************************************************************)
OfCourse == INSTANCE CourseLearning WITH
    Student <- Examinee, Lesson <- {}, AllowMultiple <- MultipleSittings,
    MaxRows <- 0, MaxAttempts <- MaxSittings, MaxFailures <- MaxDeaths,
    students <- Examinee, enrollments <- <<>>,
    taken <- [u \in Examinee |-> Cardinality(AttemptsOf(u))],
    open <- [u \in Examinee |-> Cardinality(AttemptsOf(u) \ Completed)],
    passed <- {attempts[i].student : i \in {j \in Completed : attempts[j].passed}},
    examActive <- exam.active, checking <- completing,
    failures <- deaths, torn <- {}

ExamOfCourse == [][OfCourse!Next]_(OfCourse!examVars)
=============================================================================
