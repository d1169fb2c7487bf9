--------------------------- MODULE LearningProofs ---------------------------
(***************************************************************************)
(* Theorems about a course and its exams, for every set of students,       *)
(* lessons and questions and any number of enrolments, attempts and deaths: *)
(* roster and rows agree, who is due is rewarded once, what is earned      *)
(* stays, grades can be checked, and the exams are what the course assumes. *)
(***************************************************************************)
EXTENDS MCCourseLearning, InductionLemmas, SequenceTheorems

\* The roster, row by row.
RosterInv ==
    /\ \A i \in DOMAIN enrollments :
         ~ enrollments[i].deleted => enrollments[i].student \in students
    /\ \A u \in students : ActiveRows(u) # {}
    /\ \A i, j \in DOMAIN enrollments :
         /\ ~ enrollments[i].deleted /\ ~ enrollments[j].deleted
         /\ enrollments[i].student = enrollments[j].student
         => i = j

\* At most one reward, and only for a completed enrolment.
Once(row) ==
    /\ row.rewards <= 1
    /\ row.status # "completed" => row.rewards = 0

\* Who has passed, and whose submission is not waiting.
Settled(u) == HasPassed(u) /\ checking[u] = 0
SettledNext(u) == examActive' /\ u \in passed' /\ checking'[u] = 0

\* A course learnt to 100 percent is completed, and rewarded when it is due.
Due(row, settled) ==
    /\ row.progress >= 100 => row.status = "completed"
    /\ row.status = "completed" /\ settled => row.rewards = 1

RewardInv ==
    /\ \A i \in DOMAIN enrollments : Once(enrollments[i])
    /\ \A i \in DOMAIN enrollments :
         \/ enrollments[i].deleted
         \/ i \in torn
         \/ Due(enrollments[i], Settled(enrollments[i].student))

LearningInv == TypeOK /\ RosterInv /\ RewardInv

\* What the lessons and the exam may do to a row.
Grows(old, new) ==
    /\ new \in Row
    /\ new.student = old.student /\ new.deleted = old.deleted
    /\ old.status = "completed" => new.status = "completed"
    /\ old.rewards <= new.rewards
    /\ Once(old) => Once(new)

Replaces(i, new) == enrollments' = [enrollments EXCEPT ![i] = new]
-----------------------------------------------------------------------------
(* Rows. *)

\* The quotient of calculate_progress is a percentage.
LEMMA Percentage ==
    ASSUME NEW done \in Nat, NEW started \in Nat, started > 0, done <= started
    PROVE  (100 * done) \div started \in 0 .. 100
<1> DEFINE q == (100 * done) \div started
<1>1. q \in Int /\ started * q <= 100 * done
  BY SMT
<1>2. q >= 0
  BY SMT
<1>3. q <= 100
  <2> SUFFICES ASSUME q >= 101 PROVE FALSE
    BY <1>1
  <2>1. started * q >= started * 101
    BY <1>1, SMT
  <2> QED
    BY <1>1, <2>1, SMT
<1> QED
  BY <1>1, <1>2, <1>3

LEMMA ProgressIsPercentage ==
    ASSUME NEW row \in Row
    PROVE  calculate_progress(row) \in 0 .. 100
<1> DEFINE visible == Lesson \ In(row, "unseen")
           done == In(row, "completed")
<1>1. done \subseteq visible
  BY DEF In
<1>2. IsFiniteSet(visible)
  BY LearningAssumption, FS_Subset
<1>3. /\ Cardinality(visible) \in Nat /\ Cardinality(done) \in Nat
      /\ Cardinality(done) <= Cardinality(visible)
  BY <1>1, <1>2, FS_Subset, FS_CardinalityType
<1>4. calculate_progress(row) = IF Cardinality(visible) = 0 THEN 0
                                ELSE (100 * Cardinality(done)) \div Cardinality(visible)
  BY DEF calculate_progress
<1> HIDE DEF visible, done
<1>5. CASE Cardinality(visible) = 0
  BY <1>4, <1>5
<1>6. CASE Cardinality(visible) # 0
  BY <1>3, <1>4, <1>6, Percentage, SMTT(60)
<1> QED
  BY <1>5, <1>6

LEMMA BegunGrows ==
    ASSUME NEW row \in Row
    PROVE  /\ Grows(row, Begun(row))
           /\ Begun(row).progress = row.progress /\ Begun(row).rewards = row.rewards
           /\ Begun(row).status = "completed" <=> row.status = "completed"
BY DEF Begun, Grows, Once, Row

LEMMA LessonGrows ==
    ASSUME NEW row \in Row, NEW l \in Lesson, NEW state \in {"unseen", "started", "completed"}
    PROVE  LET new == [row EXCEPT !.lessons[l] = state]
           IN  /\ Grows(row, new)
               /\ new.progress = row.progress /\ new.rewards = row.rewards
               /\ new.status = row.status
BY DEF Grows, Once, Row

LEMMA ProgressedGrows ==
    ASSUME NEW row \in Row
    PROVE  /\ Grows(row, Progressed(row))
           /\ Progressed(row).progress >= 100 => Progressed(row).status = "completed"
           /\ Progressed(row).rewards = row.rewards
<1> DEFINE p == calculate_progress(row)
           state == IF p >= 100 THEN "completed" ELSE row.status
<1>1. p \in 0 .. 100
  BY ProgressIsPercentage
<1>2. Progressed(row) = [row EXCEPT !.progress = p, !.status = state]
  BY DEF Progressed
<1>3. state \in {"not_started", "in_progress", "completed"} /\ (p >= 100 => state = "completed")
      /\ (row.status = "completed" => state = "completed")
  BY DEF Row
<1> HIDE DEF p, state
<1>4. Progressed(row) \in Row
  BY <1>1, <1>2, <1>3 DEF Row
<1>5. /\ Progressed(row).progress = p /\ Progressed(row).status = state
      /\ Progressed(row).rewards = row.rewards /\ Progressed(row).student = row.student
      /\ Progressed(row).deleted = row.deleted
  BY <1>2 DEF Row
<1>6. row.rewards \in Nat
  BY DEF Row
<1> QED
  BY <1>3, <1>4, <1>5, <1>6 DEF Grows, Once

LEMMA RewardedGrows ==
    ASSUME NEW row \in Row
    PROVE  /\ Grows(row, Rewarded(row))
           /\ Rewarded(row).progress = row.progress /\ Rewarded(row).status = row.status
           /\ Once(row) /\ row.status = "completed" /\ HasPassed(row.student)
                => Rewarded(row).rewards = 1
BY DEF Rewarded, Grows, Once, Row

LEMMA GrowsOn ==
    ASSUME NEW a \in Row, NEW b, NEW c, Grows(a, b), Grows(b, c)
    PROVE  Grows(a, c)
BY DEF Grows, Row

\* complete_lesson and the end of submit_exam leave a row as it is due.
LEMMA BroughtUpToDate ==
    ASSUME NEW row \in Row, Once(row)
    PROVE  LET new == Rewarded(Progressed(row))
           IN  /\ Grows(row, new)
               /\ new.progress >= 100 => new.status = "completed"
               /\ new.status = "completed" /\ HasPassed(new.student) => new.rewards = 1
<1> DEFINE p == Progressed(row)
<1>1. Grows(row, p) /\ (p.progress >= 100 => p.status = "completed") /\ p \in Row
  BY ProgressedGrows DEF Grows
<1>2. Once(p)
  BY <1>1 DEF Grows
<1> HIDE DEF p
<1>3. /\ Grows(p, Rewarded(p))
      /\ Rewarded(p).progress = p.progress /\ Rewarded(p).status = p.status
      /\ p.status = "completed" /\ HasPassed(p.student) => Rewarded(p).rewards = 1
  BY <1>1, <1>2, RewardedGrows
<1>4. Grows(row, Rewarded(p)) /\ Rewarded(p).student = p.student
  BY <1>1, <1>3, GrowsOn DEF Grows
<1> QED
  BY <1>1, <1>3, <1>4 DEF p
-----------------------------------------------------------------------------
(* Tables. *)

LEMMA RowsTyped ==
    ASSUME TypeOK, NEW i \in DOMAIN enrollments
    PROVE  /\ enrollments[i] \in Row
           /\ enrollments[i].student \in Student
           /\ checking[enrollments[i].student] \in Nat
<1>1. enrollments \in Seq(Row)
  BY DEF TypeOK
<1>2. enrollments[i] \in Row
  BY <1>1
<1> QED
  BY <1>2 DEF Row, TypeOK

\* One row is replaced: the others, and the number of rows, stay.
LEMMA OneRowReplaced ==
    ASSUME TypeOK, NEW i \in DOMAIN enrollments, NEW new \in Row, Replaces(i, new)
    PROVE  /\ enrollments' \in Seq(Row)
           /\ DOMAIN enrollments' = DOMAIN enrollments
           /\ \A j \in DOMAIN enrollments :
                 enrollments'[j] = IF j = i THEN new ELSE enrollments[j]
<1>1. enrollments \in Seq(Row) /\ i \in 1 .. Len(enrollments)
  BY DEF TypeOK
<1>2. DOMAIN enrollments' = DOMAIN enrollments
  BY DEF Replaces
<1>3. enrollments' \in Seq(Row)
  BY <1>1, ExceptSeq DEF Replaces
<1>4. \A j \in DOMAIN enrollments :
         enrollments'[j] = IF j = i THEN new ELSE enrollments[j]
  BY <1>1 DEF Replaces
<1> QED
  BY <1>2, <1>3, <1>4

\* Nothing the roster looks at changes.
LEMMA RosterKept ==
    ASSUME RosterInv, students' = students, DOMAIN enrollments' = DOMAIN enrollments,
           \A i \in DOMAIN enrollments : /\ enrollments'[i].student = enrollments[i].student
                                         /\ enrollments'[i].deleted = enrollments[i].deleted
    PROVE  RosterInv'
<1>1. \A u : ActiveRows(u)' = ActiveRows(u)
  BY DEF ActiveRows
<1> QED
  BY <1>1 DEF RosterInv

\* A row that grows leaves roster and achievements as they were.
LEMMA RowGrew ==
    ASSUME LearningInv, NEW i \in DOMAIN enrollments, NEW new,
           Replaces(i, new), Grows(enrollments[i], new), students' = students
    PROVE  /\ enrollments' \in Seq(Row)
           /\ DOMAIN enrollments' = DOMAIN enrollments
           /\ enrollments'[i] = new
           /\ \A j \in DOMAIN enrollments : j # i => enrollments'[j] = enrollments[j]
           /\ RosterInv'
           /\ \A j \in DOMAIN enrollments : Once(enrollments'[j])
           /\ \A j \in DOMAIN enrollments : Grows(enrollments[j], enrollments'[j])
<1> USE DEF LearningInv
<1>1. /\ enrollments' \in Seq(Row)
      /\ DOMAIN enrollments' = DOMAIN enrollments
      /\ \A j \in DOMAIN enrollments :
            enrollments'[j] = IF j = i THEN new ELSE enrollments[j]
  BY OneRowReplaced DEF Grows
<1>2. \A j \in DOMAIN enrollments : Grows(enrollments[j], enrollments'[j])
  <2> SUFFICES ASSUME NEW j \in DOMAIN enrollments, j # i
               PROVE  Grows(enrollments[j], enrollments'[j])
    BY <1>1
  <2>1. enrollments'[j] = enrollments[j] /\ enrollments[j] \in Row
    BY <1>1, RowsTyped
  <2> QED
    BY <2>1 DEF Grows, Row
<1>3. RosterInv'
  BY <1>1, <1>2, RosterKept DEF Grows
<1>4. \A j \in DOMAIN enrollments : Once(enrollments'[j])
  BY <1>2 DEF Grows, RewardInv
<1> QED
  BY <1>1, <1>2, <1>3, <1>4
-----------------------------------------------------------------------------
(* Steps. *)

\* What every step does, as far as it is the same for all.
StepKeeps ==
    /\ LearningInv'
    /\ \A i \in DOMAIN enrollments :
          /\ enrollments[i].status = "completed" => enrollments'[i].status = "completed"
          /\ enrollments[i].rewards <= enrollments'[i].rewards

LEMMA RewardNext ==
    ASSUME \A j \in DOMAIN enrollments' : Once(enrollments'[j]),
           \A j \in DOMAIN enrollments' :
              \/ enrollments'[j].deleted
              \/ j \in torn'
              \/ Due(enrollments'[j], SettledNext(enrollments'[j].student))
    PROVE  RewardInv'
BY DEF RewardInv, Once, Due, Settled, SettledNext, HasPassed

\* A lesson, or a reward, in one row; checking, passed and the exam stay.
LEMMA RowSteps ==
    ASSUME LearningInv, NEW i \in DOMAIN enrollments, NEW new,
           Replaces(i, new), Grows(enrollments[i], new),
           UNCHANGED <<students, examVars>>,
           \/ Lives /\ (\/ enrollments[i].deleted
                        \/ i \in torn
                        \/ Due(new, Settled(new.student)))
           \/ Dies(i)
    PROVE  StepKeeps
<1> USE DEF LearningInv
<1>1. /\ enrollments' \in Seq(Row)
      /\ DOMAIN enrollments' = DOMAIN enrollments
      /\ enrollments'[i] = new
      /\ \A j \in DOMAIN enrollments : j # i => enrollments'[j] = enrollments[j]
      /\ RosterInv'
      /\ \A j \in DOMAIN enrollments : Once(enrollments'[j])
      /\ \A j \in DOMAIN enrollments : Grows(enrollments[j], enrollments'[j])
  BY RowGrew
<1>2. failures' \in Nat /\ torn' \subseteq DOMAIN enrollments /\ torn \subseteq torn'
  BY DEF Lives, Dies, TypeOK
<1>3. TypeOK'
  BY <1>1, <1>2 DEF TypeOK, examVars
<1>4. \A u : SettledNext(u) <=> Settled(u)
  BY DEF Settled, SettledNext, HasPassed, examVars
<1>5. ASSUME NEW j \in DOMAIN enrollments
      PROVE  \/ enrollments'[j].deleted
             \/ j \in torn'
             \/ Due(enrollments'[j], SettledNext(enrollments'[j].student))
  <2>1. CASE j = i /\ Dies(i)
    BY <2>1 DEF Dies
  <2>2. CASE j = i /\ ~ Dies(i)
    <3>1. \/ enrollments[i].deleted \/ i \in torn
          \/ Due(new, SettledNext(new.student))
      BY <1>4, <2>2 DEF Due
    <3> QED
      BY <1>1, <1>2, <2>2, <3>1 DEF Grows
  <2>3. CASE j # i
    <3>1. enrollments'[j] = enrollments[j]
      BY <1>1, <2>3
    <3>2. \/ enrollments[j].deleted \/ j \in torn
          \/ Due(enrollments[j], Settled(enrollments[j].student))
      BY DEF RewardInv
    <3> QED
      BY <1>2, <1>4, <3>1, <3>2 DEF Due
  <2> QED
    BY <2>1, <2>2, <2>3
<1>6. RewardInv'
  BY <1>1, <1>5, RewardNext
<1> QED
  BY <1>1, <1>3, <1>6 DEF StepKeeps, Grows

\* The exam moves, and perhaps a death tears rows; the rows stay.
LEMMA ExamSteps ==
    ASSUME LearningInv, UNCHANGED <<students, enrollments>>,
           /\ taken' \in [Student -> Nat] /\ open' \in [Student -> Nat]
           /\ passed' \subseteq Student /\ examActive' \in BOOLEAN
           /\ checking' \in [Student -> Nat] /\ failures' \in Nat
           /\ torn \subseteq torn' /\ torn' \subseteq DOMAIN enrollments,
           \A j \in DOMAIN enrollments :
              \/ enrollments[j].deleted
              \/ j \in torn'
              \/ enrollments[j].status # "completed"
              \/ SettledNext(enrollments[j].student) => Settled(enrollments[j].student)
    PROVE  StepKeeps
<1> USE DEF LearningInv
<1>1. TypeOK'
  BY DEF TypeOK
<1>2. RosterInv'
  BY RosterKept
<1>3. ASSUME NEW j \in DOMAIN enrollments
      PROVE  \/ enrollments[j].deleted
             \/ j \in torn'
             \/ Due(enrollments[j], SettledNext(enrollments[j].student))
  BY DEF RewardInv, Due
<1>4. RewardInv'
  BY <1>3, RewardNext DEF RewardInv
<1>5. \A i \in DOMAIN enrollments : enrollments[i].rewards <= enrollments'[i].rewards
  BY RowsTyped DEF Row
<1> QED
  BY <1>1, <1>2, <1>4, <1>5 DEF StepKeeps

LEMMA RowOf ==
    ASSUME LearningInv, NEW i \in DOMAIN enrollments
    PROVE  /\ enrollments[i] \in Row /\ Once(enrollments[i])
           /\ \/ enrollments[i].deleted \/ i \in torn
              \/ Due(enrollments[i], Settled(enrollments[i].student))
BY RowsTyped DEF LearningInv, RewardInv

LEMMA StartCourseSteps ==
    ASSUME LearningInv, NEW u \in Student, NEW i \in DOMAIN enrollments, StartCourse(u, i)
    PROVE  StepKeeps
<1> DEFINE row == enrollments[i]
<1>1. Grows(row, Begun(row)) /\ Begun(row).progress = row.progress
      /\ Begun(row).rewards = row.rewards
      /\ (Begun(row).status = "completed" <=> row.status = "completed")
  BY RowOf, BegunGrows
<1>2. Replaces(i, Begun(row))
  BY DEF StartCourse, Replaces
<1>3. row.deleted \/ i \in torn \/ Due(Begun(row), Settled(Begun(row).student))
  BY <1>1, RowOf DEF Due, Grows
<1> QED
  BY <1>1, <1>2, <1>3, RowSteps DEF StartCourse, Lives

LEMMA StartLessonSteps ==
    ASSUME LearningInv, NEW u \in Student, NEW i \in DOMAIN enrollments, NEW l \in Lesson,
           StartLesson(u, i, l)
    PROVE  StepKeeps
<1> DEFINE row == enrollments[i]
           state == IF row.lessons[l] = "unseen" THEN "started" ELSE row.lessons[l]
           visited == [row EXCEPT !.lessons[l] = state]
<1>1. row \in Row
  BY RowOf
<1>2. state \in {"unseen", "started", "completed"}
  BY <1>1 DEF Row
<1>3. /\ Grows(row, visited) /\ visited.progress = row.progress
      /\ visited.rewards = row.rewards /\ visited.status = row.status
  BY <1>1, <1>2, LessonGrows, ZenonT(60)
<1>4. /\ UNCHANGED <<students, examVars>>
      /\ \/ Replaces(i, Begun(visited)) /\ Lives
         \/ Replaces(i, visited) /\ Dies(i)
  <2>1. visited = [row EXCEPT !.lessons[l] = IF @ = "unseen" THEN "started" ELSE @]
    OBVIOUS
  <2> QED
    BY <2>1 DEF StartLesson, Replaces
<1> HIDE DEF visited, state
<1>5. /\ Grows(visited, Begun(visited)) /\ Begun(visited).progress = visited.progress
      /\ Begun(visited).rewards = visited.rewards
      /\ (Begun(visited).status = "completed" <=> visited.status = "completed")
  BY <1>3, BegunGrows DEF Grows
<1>6. Grows(row, Begun(visited))
  BY <1>1, <1>3, <1>5, GrowsOn
<1>7. row.deleted \/ i \in torn \/ Due(Begun(visited), Settled(Begun(visited).student))
  BY <1>3, <1>5, <1>6, RowOf DEF Due, Grows
<1>8. CASE Replaces(i, Begun(visited)) /\ Lives
  BY <1>4, <1>6, <1>7, <1>8, RowSteps
<1>9. CASE Replaces(i, visited) /\ Dies(i)
  BY <1>3, <1>4, <1>9, RowSteps
<1> QED
  BY <1>4, <1>8, <1>9

LEMMA CompleteLessonSteps ==
    ASSUME LearningInv, NEW u \in Student, NEW i \in DOMAIN enrollments, NEW l \in Lesson,
           CompleteLesson(u, i, l)
    PROVE  StepKeeps
<1> DEFINE row == enrollments[i]
           ticked == [row EXCEPT !.lessons[l] = "completed"]
           final == Rewarded(Progressed(ticked))
<1>1. row \in Row /\ Once(row)
  BY RowOf
<1>2. Grows(row, ticked)
  BY <1>1, LessonGrows
<1>3. /\ UNCHANGED <<students, examVars>>
      /\ \/ Replaces(i, final) /\ Lives
         \/ Replaces(i, ticked) /\ Dies(i)
         \/ Replaces(i, Progressed(ticked)) /\ Dies(i)
  BY DEF CompleteLesson, Replaces
<1> HIDE DEF ticked
<1>4. ticked \in Row /\ Once(ticked)
  BY <1>1, <1>2 DEF Grows
<1>5. Grows(row, Progressed(ticked))
  BY <1>1, <1>2, <1>4, ProgressedGrows, GrowsOn
<1>6. /\ Grows(ticked, final)
      /\ final.progress >= 100 => final.status = "completed"
      /\ final.status = "completed" /\ HasPassed(final.student) => final.rewards = 1
  BY <1>4, BroughtUpToDate
<1> HIDE DEF final
<1>7. Grows(row, final)
  BY <1>1, <1>2, <1>6, GrowsOn
<1>8. Due(final, Settled(final.student))
  BY <1>6 DEF Due, Settled
<1>9. CASE Replaces(i, final) /\ Lives
  BY <1>3, <1>7, <1>8, <1>9, RowSteps
<1>10. CASE Replaces(i, ticked) /\ Dies(i)
  BY <1>2, <1>3, <1>10, RowSteps
<1>11. CASE Replaces(i, Progressed(ticked)) /\ Dies(i)
  BY <1>3, <1>5, <1>11, RowSteps
<1> QED
  BY <1>3, <1>9, <1>10, <1>11

LEMMA AwardRewardSteps ==
    ASSUME LearningInv, NEW i \in DOMAIN enrollments, AwardReward(i)
    PROVE  StepKeeps
<1> DEFINE row == enrollments[i]
           new == [row EXCEPT !.rewards = @ + 1]
<1>1. row \in Row /\ row.status = "completed" /\ row.rewards = 0
  BY RowOf DEF AwardReward
<1>2. Replaces(i, new)
  BY DEF AwardReward, Replaces
<1>3. Grows(row, new) /\ Due(new, Settled(new.student))
  BY <1>1 DEF Grows, Once, Due, Row
<1> HIDE DEF new
<1> QED
  BY <1>2, <1>3, RowSteps DEF AwardReward, Lives

LEMMA StartAttemptSteps ==
    ASSUME LearningInv, NEW u \in Student, StartAttempt(u)
    PROVE  StepKeeps
<1>1. taken' \in [Student -> Nat] /\ open' \in [Student -> Nat]
  BY DEF LearningInv, TypeOK, StartAttempt
<1>2. \A v : SettledNext(v) => Settled(v)
  BY DEF StartAttempt, SettledNext, Settled, HasPassed
<1> QED
  BY <1>1, <1>2, ExamSteps DEF LearningInv, TypeOK, StartAttempt

LEMMA SubmitExamSteps ==
    ASSUME LearningInv, NEW u \in Student, NEW pass \in BOOLEAN, SubmitExam(u, pass)
    PROVE  StepKeeps
<1>1. open' \in [Student -> Nat] /\ checking' \in [Student -> Nat] /\ passed' \subseteq Student
  BY DEF LearningInv, TypeOK, SubmitExam
<1>2. ASSUME NEW v \in Student PROVE SettledNext(v) => Settled(v)
  BY DEF LearningInv, TypeOK, SubmitExam, SettledNext, Settled, HasPassed
<1>3. \A j \in DOMAIN enrollments : enrollments[j].student \in Student
  BY RowsTyped DEF LearningInv
<1> QED
  BY <1>1, <1>2, <1>3, ExamSteps DEF LearningInv, TypeOK, SubmitExam

LEMMA DeleteExamSteps ==
    ASSUME LearningInv, DeleteExam
    PROVE  StepKeeps
<1>1. \A v : ~ SettledNext(v)
  BY DEF DeleteExam, SettledNext
<1> QED
  BY <1>1, ExamSteps DEF LearningInv, TypeOK, DeleteExam

LEMMA RestartSteps ==
    ASSUME LearningInv, Restart
    PROVE  StepKeeps
<1>1. /\ checking' \in [Student -> Nat] /\ failures' \in Nat
      /\ torn \subseteq torn' /\ torn' \subseteq DOMAIN enrollments
  BY DEF LearningInv, TypeOK, Restart, ActiveRows
<1>2. ASSUME NEW j \in DOMAIN enrollments, ~ enrollments[j].deleted, j \notin torn'
      PROVE  SettledNext(enrollments[j].student) => Settled(enrollments[j].student)
  <2> DEFINE v == enrollments[j].student
  <2>1. v \in Student /\ checking[v] \in Nat /\ j \in ActiveRows(v)
    BY <1>2, RowsTyped DEF LearningInv, ActiveRows
  <2>2. checking[v] = 0
    BY <1>2, <2>1 DEF Restart
  <2> QED
    BY <2>2 DEF Restart, SettledNext, Settled, HasPassed
<1> QED
  BY <1>1, <1>2, ExamSteps DEF LearningInv, TypeOK, Restart

LEMMA FinishSubmitSteps ==
    ASSUME LearningInv, NEW u \in Student, FinishSubmit(u)
    PROVE  StepKeeps
<1> USE DEF LearningInv
<1>1. /\ checking' \in [Student -> Nat]
      /\ \A v \in Student : v # u => checking'[v] = checking[v]
  BY DEF TypeOK, FinishSubmit
<1>2. ASSUME NEW v \in Student, v # u PROVE SettledNext(v) <=> Settled(v)
  BY <1>1, <1>2 DEF SettledNext, Settled, HasPassed, FinishSubmit
<1>3. CASE UNCHANGED enrollments /\ \A i \in ActiveRows(u) : enrollments[i].status # "completed"
  <2>1. ASSUME NEW j \in DOMAIN enrollments
        PROVE  \/ enrollments[j].deleted
               \/ enrollments[j].status # "completed"
               \/ SettledNext(enrollments[j].student) => Settled(enrollments[j].student)
    BY <1>2, <1>3, RowsTyped DEF ActiveRows
  <2> QED
    BY <1>1, <1>3, <2>1, ExamSteps DEF TypeOK, FinishSubmit
<1>4. ASSUME NEW i \in ActiveRows(u),
             Replaces(i, Rewarded(Progressed(enrollments[i])))
      PROVE  StepKeeps
  <2> DEFINE new == Rewarded(Progressed(enrollments[i]))
  <2>1. i \in DOMAIN enrollments /\ ~ enrollments[i].deleted /\ enrollments[i].student = u
    BY DEF ActiveRows
  <2>2. /\ Grows(enrollments[i], new)
        /\ new.progress >= 100 => new.status = "completed"
        /\ new.status = "completed" /\ HasPassed(new.student) => new.rewards = 1
    BY <2>1, RowOf, BroughtUpToDate
  <2> HIDE DEF new
  <2>3. /\ enrollments' \in Seq(Row)
        /\ DOMAIN enrollments' = DOMAIN enrollments
        /\ enrollments'[i] = new
        /\ \A j \in DOMAIN enrollments : j # i => enrollments'[j] = enrollments[j]
        /\ RosterInv'
        /\ \A j \in DOMAIN enrollments : Once(enrollments'[j])
        /\ \A j \in DOMAIN enrollments : Grows(enrollments[j], enrollments'[j])
    <3>1. Replaces(i, new) /\ students' = students
      BY <1>4 DEF new, FinishSubmit
    <3> QED
      BY <2>1, <2>2, <3>1, RowGrew
  <2>4. TypeOK'
    BY <1>1, <2>3 DEF TypeOK, FinishSubmit
  <2>5. Due(new, SettledNext(new.student))
    BY <2>2 DEF Due, SettledNext, HasPassed, FinishSubmit
  <2>6. ASSUME NEW j \in DOMAIN enrollments
        PROVE  \/ enrollments'[j].deleted
               \/ j \in torn'
               \/ Due(enrollments'[j], SettledNext(enrollments'[j].student))
    <3>1. CASE j = i
      BY <2>3, <2>5, <3>1
    <3>2. CASE j # i
      <4>1. enrollments'[j] = enrollments[j] /\ torn' = torn
        BY <2>3, <3>2 DEF FinishSubmit
      <4>2. enrollments[j].deleted \/ (enrollments[j].student \in Student \ {u})
        BY <2>1, <3>2, RowsTyped DEF RosterInv
      <4> QED
        BY <1>2, <4>1, <4>2, RowOf DEF Due
    <3> QED
      BY <3>1, <3>2
  <2>7. RewardInv'
    BY <2>3, <2>6, RewardNext
  <2> QED
    BY <2>3, <2>4, <2>7 DEF StepKeeps, Grows
<1> QED
  BY <1>3, <1>4 DEF FinishSubmit, Replaces

LEMMA EnrollSteps ==
    ASSUME LearningInv, NEW u \in Student, Enroll(u)
    PROVE  StepKeeps
<1> USE DEF LearningInv
<1> DEFINE n == Len(enrollments) + 1
           row == NewRow(u)
<1>1. row \in Row /\ Once(row) /\ row.student = u /\ ~ row.deleted /\ Due(row, TRUE)
      /\ \A s : Due(row, s)
  BY DEF NewRow, Row, Once, Due
<1>2. /\ enrollments \in Seq(Row) /\ DOMAIN enrollments = 1 .. Len(enrollments)
      /\ Len(enrollments) \in Nat
  BY DEF TypeOK
<1> HIDE DEF row
<1>3. /\ enrollments' \in Seq(Row)
      /\ DOMAIN enrollments' = 1 .. n
      /\ \A j \in 1 .. Len(enrollments) : enrollments'[j] = enrollments[j]
      /\ enrollments'[n] = row
  <2>1. enrollments' = Append(enrollments, row)
    BY DEF Enroll, row
  <2> QED
    BY <1>1, <1>2, <2>1, AppendProperties
<1>4. TypeOK'
  BY <1>2, <1>3 DEF TypeOK, Enroll, examVars
<1>5. \A j \in DOMAIN enrollments : enrollments[j].student = u => enrollments[j].deleted
  BY DEF RosterInv, Enroll
<1>6. RosterInv'
  <2>1. ASSUME NEW j \in DOMAIN enrollments'
        PROVE  ~ enrollments'[j].deleted => enrollments'[j].student \in students'
    BY <1>1, <1>2, <1>3 DEF RosterInv, Enroll
  <2>2. ASSUME NEW v \in students'
        PROVE  ActiveRows(v)' # {}
    <3>1. CASE v = u
      BY <1>1, <1>2, <1>3, <3>1 DEF ActiveRows
    <3>2. CASE v # u
      <4>1. PICK j \in DOMAIN enrollments :
               enrollments[j].student = v /\ ~ enrollments[j].deleted
        BY <3>2 DEF RosterInv, ActiveRows, Enroll
      <4>2. j \in DOMAIN enrollments' /\ enrollments'[j] = enrollments[j]
        BY <1>2, <1>3
      <4> QED
        BY <4>1, <4>2 DEF ActiveRows
    <3> QED
      BY <3>1, <3>2
  <2>3. ASSUME NEW j \in DOMAIN enrollments', NEW k \in DOMAIN enrollments',
               ~ enrollments'[j].deleted, ~ enrollments'[k].deleted,
               enrollments'[j].student = enrollments'[k].student
        PROVE  j = k
    <3>1. CASE j = n \/ k = n
      BY <1>1, <1>2, <1>3, <1>5, <2>3, <3>1
    <3>2. CASE j # n /\ k # n
      BY <1>2, <1>3, <2>3, <3>2 DEF RosterInv
    <3> QED
      BY <3>1, <3>2
  <2> QED
    BY <2>1, <2>2, <2>3 DEF RosterInv
<1>7. \A v : SettledNext(v) <=> Settled(v)
  BY DEF Settled, SettledNext, HasPassed, examVars, Enroll
<1>8. ASSUME NEW j \in DOMAIN enrollments'
      PROVE  /\ Once(enrollments'[j])
             /\ \/ enrollments'[j].deleted
                \/ j \in torn'
                \/ Due(enrollments'[j], SettledNext(enrollments'[j].student))
  <2>1. CASE j = n
    BY <1>1, <1>3, <2>1
  <2>2. CASE j # n
    <3>1. j \in DOMAIN enrollments /\ enrollments'[j] = enrollments[j] /\ torn' = torn
      BY <1>2, <1>3, <2>2 DEF Enroll
    <3> QED
      BY <1>7, <3>1, RowOf DEF Due
  <2> QED
    BY <2>1, <2>2
<1>9. RewardInv'
  BY <1>8, RewardNext
<1>10. \A j \in DOMAIN enrollments :
         enrollments'[j] = enrollments[j] /\ enrollments[j].rewards \in Nat
  BY <1>2, <1>3, RowsTyped DEF Row
<1> QED
  BY <1>4, <1>6, <1>9, <1>10 DEF StepKeeps

LEMMA UnenrollSteps ==
    ASSUME LearningInv, NEW u \in Student, Unenroll(u)
    PROVE  StepKeeps
<1> USE DEF LearningInv
<1> DEFINE i == CHOOSE i \in ActiveRows(u) : TRUE
           gone == [enrollments[i] EXCEPT !.deleted = TRUE]
<1>1. i \in ActiveRows(u)
  BY DEF Unenroll, RosterInv
<1>2. i \in DOMAIN enrollments /\ ~ enrollments[i].deleted /\ enrollments[i].student = u
  BY <1>1 DEF ActiveRows
<1>3. Replaces(i, gone)
  BY <1>1 DEF Unenroll, Replaces
<1> HIDE DEF i
<1>4. /\ gone \in Row /\ gone.deleted /\ Once(gone)
      /\ gone.student = u /\ gone.status = enrollments[i].status
      /\ gone.rewards = enrollments[i].rewards
  <2>1. enrollments[i] \in Row /\ Once(enrollments[i])
    BY <1>2, RowOf
  <2>2. /\ gone \in Row /\ gone.deleted
        /\ gone.student = enrollments[i].student /\ gone.status = enrollments[i].status
        /\ gone.rewards = enrollments[i].rewards
    BY <2>1 DEF Row
  <2> HIDE DEF gone
  <2> QED
    BY <1>2, <2>1, <2>2 DEF Once
<1> HIDE DEF gone
<1>5. /\ enrollments' \in Seq(Row)
      /\ DOMAIN enrollments' = DOMAIN enrollments
      /\ enrollments'[i] = gone
      /\ \A j \in DOMAIN enrollments : j # i => enrollments'[j] = enrollments[j]
  BY <1>2, <1>3, <1>4, OneRowReplaced
<1>6. students' = students \ {u} /\ UNCHANGED <<examVars, failures, torn>>
  BY DEF Unenroll
<1>7. TypeOK'
  BY <1>5, <1>6 DEF TypeOK, examVars
<1>8. RosterInv'
  <2>1. ASSUME NEW j \in DOMAIN enrollments', ~ enrollments'[j].deleted
        PROVE  enrollments'[j] = enrollments[j] /\ enrollments[j].student # u /\ j # i
    BY <1>2, <1>4, <1>5, <2>1 DEF RosterInv
  <2>2. ASSUME NEW v \in students'
        PROVE  ActiveRows(v)' # {}
    <3>1. PICK j \in DOMAIN enrollments :
             enrollments[j].student = v /\ ~ enrollments[j].deleted
      BY <1>6 DEF RosterInv, ActiveRows
    <3>2. j \in DOMAIN enrollments' /\ enrollments'[j] = enrollments[j]
      BY <1>2, <1>5, <1>6, <3>1
    <3> QED
      BY <3>1, <3>2 DEF ActiveRows
  <2> QED
    BY <1>5, <1>6, <2>1, <2>2 DEF RosterInv
<1>9. \A v : SettledNext(v) <=> Settled(v)
  BY <1>6 DEF Settled, SettledNext, HasPassed, examVars
<1>10. ASSUME NEW j \in DOMAIN enrollments
       PROVE  /\ Once(enrollments'[j])
              /\ \/ enrollments'[j].deleted
                 \/ j \in torn'
                 \/ Due(enrollments'[j], SettledNext(enrollments'[j].student))
  <2>1. CASE j = i
    BY <1>4, <1>5, <2>1
  <2>2. CASE j # i
    BY <1>5, <1>6, <1>9, <2>2, RowOf DEF Due
  <2> QED
    BY <2>1, <2>2
<1>11. RewardInv'
  BY <1>5, <1>10, RewardNext
<1>12. \A j \in DOMAIN enrollments : enrollments[j].rewards \in Nat
  BY RowsTyped DEF Row
<1> QED
  BY <1>4, <1>5, <1>7, <1>8, <1>11, <1>12 DEF StepKeeps
-----------------------------------------------------------------------------
(* The specification. *)

LEMMA LearningStarts == Init => LearningInv
<1> SUFFICES ASSUME Init PROVE LearningInv
  OBVIOUS
<1>1. enrollments = <<>> /\ DOMAIN enrollments = {} /\ enrollments \in Seq(Row)
  BY DEF Init
<1> QED
  BY <1>1 DEF Init, LearningInv, TypeOK, RosterInv, RewardInv

LEMMA LearningSteps == LearningInv /\ [Next]_vars => StepKeeps
<1> SUFFICES ASSUME LearningInv, [Next]_vars PROVE StepKeeps
  OBVIOUS
<1>1. CASE UNCHANGED vars
  <2>1. LearningInv'
    BY <1>1 DEF vars, examVars, LearningInv, TypeOK, RosterInv, RewardInv, ActiveRows,
                Once, Due, Settled, HasPassed
  <2>2. \A i \in DOMAIN enrollments : enrollments[i].rewards \in Nat
    BY RowsTyped DEF LearningInv, Row
  <2> QED
    BY <1>1, <2>1, <2>2 DEF StepKeeps, vars
<1>2. CASE Next
  <2>1. ASSUME NEW u \in Student, Enroll(u) PROVE StepKeeps
    BY <2>1, EnrollSteps
  <2>2. ASSUME NEW u \in Student, Unenroll(u) PROVE StepKeeps
    BY <2>2, UnenrollSteps
  <2>3. ASSUME NEW u \in Student, StartAttempt(u) PROVE StepKeeps
    BY <2>3, StartAttemptSteps
  <2>4. ASSUME NEW u \in Student, FinishSubmit(u) PROVE StepKeeps
    BY <2>4, FinishSubmitSteps
  <2>5. ASSUME NEW u \in Student, NEW b \in BOOLEAN, BulkUpdate(u, b) PROVE StepKeeps
    BY <2>1, <2>2, <2>5 DEF BulkUpdate
  <2>6. ASSUME NEW u \in Student, NEW b \in BOOLEAN, SubmitExam(u, b) PROVE StepKeeps
    BY <2>6, SubmitExamSteps
  <2>7. ASSUME NEW u \in Student, NEW i \in DOMAIN enrollments, StartCourse(u, i)
        PROVE  StepKeeps
    BY <2>7, StartCourseSteps
  <2>8. ASSUME NEW u \in Student, NEW i \in DOMAIN enrollments, NEW l \in Lesson,
               StartLesson(u, i, l)
        PROVE  StepKeeps
    BY <2>8, StartLessonSteps
  <2>9. ASSUME NEW u \in Student, NEW i \in DOMAIN enrollments, NEW l \in Lesson,
               CompleteLesson(u, i, l)
        PROVE  StepKeeps
    BY <2>9, CompleteLessonSteps
  <2>10. ASSUME NEW i \in DOMAIN enrollments, AwardReward(i) PROVE StepKeeps
    BY <2>10, AwardRewardSteps
  <2>11. ASSUME DeleteExam PROVE StepKeeps
    BY <2>11, DeleteExamSteps
  <2>12. ASSUME Restart PROVE StepKeeps
    BY <2>12, RestartSteps
  <2> QED
    BY <1>2, <2>1, <2>2, <2>3, <2>4, <2>5, <2>6, <2>7, <2>8, <2>9, <2>10, <2>11, <2>12
    DEF Next
<1> QED
  BY <1>1, <1>2

LEMMA LearningStays == Spec => []LearningInv
<1>1. LearningInv /\ [Next]_vars => LearningInv'
  BY LearningSteps DEF StepKeeps
<1> QED
  BY LearningStarts, <1>1, PTL DEF Spec

(***************************************************************************)
(* The roster and the enrolment rows agree, however often students enrol   *)
(* and leave and by whichever route (services/course.py).                  *)
(***************************************************************************)
THEOREM RosterAgrees == Spec => []RosterMatchesRows
<1>1. LearningInv => RosterMatchesRows
  <2> SUFFICES ASSUME LearningInv, NEW u \in Student
               PROVE  Cardinality(ActiveRows(u)) = IF u \in students THEN 1 ELSE 0
    BY DEF RosterMatchesRows
  <2>1. CASE u \in students
    <3>1. PICK i \in ActiveRows(u) : TRUE
      BY <2>1 DEF LearningInv, RosterInv
    <3>2. ActiveRows(u) = {i}
      BY <3>1 DEF LearningInv, RosterInv, ActiveRows
    <3> QED
      BY <2>1, <3>2, FS_Singleton
  <2>2. CASE u \notin students
    <3>1. ActiveRows(u) = {}
      BY <2>2 DEF LearningInv, RosterInv, ActiveRows
    <3> QED
      BY <2>2, <3>1, FS_EmptySet
  <2> QED
    BY <2>1, <2>2
<1> QED
  BY <1>1, LearningStays, PTL

(***************************************************************************)
(* Nobody is rewarded twice or early, and who has passed and is shown a    *)
(* finished course is rewarded, whichever of lesson, submission and        *)
(* administrator came first (services/course_progress.py,                  *)
(* services/exam_attempt.py, services/reward_rating.py).                   *)
(***************************************************************************)
THEOREM RewardsFollowCompletion == Spec => []RewardedIffDue
<1>1. LearningInv => RewardedIffDue
  <2> SUFFICES ASSUME LearningInv PROVE RewardedIffDue
    OBVIOUS
  <2>1. ASSUME NEW i \in DOMAIN enrollments
        PROVE  enrollments[i].rewards <= IF enrollments[i].status = "completed" THEN 1 ELSE 0
    BY RowOf DEF Once, Row
  <2>2. ASSUME NEW u \in Student,
               Shown(u).status = "completed" \/ Shown(u).progress >= 100,
               HasPassed(u), checking[u] = 0, ActiveRows(u) \cap torn = {}
        PROVE  \E i \in ActiveRows(u) : enrollments[i].rewards = 1
    <3> DEFINE i == CHOOSE i \in ActiveRows(u) : TRUE
    <3>1. ActiveRows(u) # {}
      BY <2>2 DEF Shown
    <3>2. i \in ActiveRows(u)
      BY <3>1
    <3>3. Shown(u) = [progress |-> enrollments[i].progress, status |-> enrollments[i].status]
      BY <3>1 DEF Shown
    <3> HIDE DEF i
    <3>4. /\ i \in DOMAIN enrollments /\ ~ enrollments[i].deleted /\ i \notin torn
          /\ enrollments[i].student = u
      BY <2>2, <3>2 DEF ActiveRows
    <3>5. Due(enrollments[i], Settled(u))
      BY <3>4, RowOf
    <3>6. enrollments[i].rewards = 1
      BY <2>2, <3>3, <3>5 DEF Due, Settled
    <3> QED
      BY <3>2, <3>6
  <2> QED
    BY <2>1, <2>2 DEF RewardedIffDue
<1> QED
  BY <1>1, LearningStays, PTL

(***************************************************************************)
(* No step takes a completion or a reward away, a death between two        *)
(* commits and a restart of the worker included.                           *)
(***************************************************************************)
THEOREM AchievementsAreKept == Spec => AchievementsStay
<1> DEFINE Keeps ==
      \A i \in DOMAIN enrollments :
         /\ enrollments[i].status = "completed" => enrollments'[i].status = "completed"
         /\ enrollments[i].rewards <= enrollments'[i].rewards
<1>1. LearningInv /\ [Next]_vars => Keeps
  BY LearningSteps DEF StepKeeps
<1>2. AchievementsStay <=> [][Keeps]_vars
  BY DEF AchievementsStay
<1> QED
  BY <1>1, <1>2, LearningStays, PTL DEF Spec
-----------------------------------------------------------------------------
(* The attempts of an exam. *)

\* What students answer.
Answers == [Question -> Answer \cup {NoAnswer}]

\* A rewrite of the answers of an open attempt.
Rewrites(i, answers) ==
    /\ i \in DOMAIN attempts /\ attempts[i].status = "in_progress"
    /\ answers \in Answers
    /\ attempts' = [attempts EXCEPT ![i].answers = answers]
    /\ deaths' \in 0 .. MaxDeaths
    /\ UNCHANGED <<exam, questions, completing, edits, superseded>>

\* An edit of the exam or of a question.
Edits ==
    /\ exam' \in [active : BOOLEAN, pass : PassMark]
    /\ questions' \in [Question -> QuestionRow]
    /\ edits' \in 0 .. MaxEdits
    /\ superseded' = Completed
    /\ UNCHANGED <<attempts, completing, deaths>>
    /\ exam'.active = exam.active \/ DeleteWholeExam

\* The fields of an attempt.
LEMMA AttemptFields ==
    ASSUME NEW a \in Attempt
    PROVE  /\ a.student \in Examinee /\ a.status \in {"in_progress", "completed"}
           /\ a.answers \in Answers /\ a.score \in Nat \cup {None} /\ a.passed \in BOOLEAN
BY DEF Attempt, Answers

\* Answers are graded by what the questions say, whatever is not is left alone.
LEMMA GradedAnswers ==
    ASSUME NEW answers \in Answers, questions \in [Question -> QuestionRow],
           NEW S \in SUBSET Question, \A q \in S : answers[q] # NoAnswer
    PROVE  /\ Graded(answers, S) \in Answers
           /\ \A q \in Question \ S : Graded(answers, S)[q] = answers[q]
           /\ \A q \in S :
                /\ Graded(answers, S)[q] # NoAnswer
                /\ Graded(answers, S)[q].text = answers[q].text
                /\ Graded(answers, S)[q].score =
                     IF IsCorrect(answers[q], q) THEN questions[q].points ELSE 0
<1> DEFINE grade(q) == [answers[q] EXCEPT
                 !.correct = IF IsCorrect(answers[q], q) THEN "yes" ELSE "no",
                 !.score = IF IsCorrect(answers[q], q) THEN questions[q].points ELSE 0]
<1>1. ASSUME NEW q \in S
      PROVE  /\ grade(q) \in Answer /\ grade(q).text = answers[q].text
             /\ grade(q) # NoAnswer
             /\ grade(q).score = IF IsCorrect(answers[q], q) THEN questions[q].points ELSE 0
  <2>1. answers[q] \in Answer
    BY DEF Answers
  <2>2. questions[q].points \in Nat
    BY ExamAssumption DEF QuestionRow
  <2> DEFINE a == answers[q]
             c == IF IsCorrect(answers[q], q) THEN "yes" ELSE "no"
             p == IF IsCorrect(answers[q], q) THEN questions[q].points ELSE 0
  <2>3. c \in {"null", "yes", "no"} /\ p \in Nat
    BY <2>2
  <2> HIDE DEF a, c, p
  <2>4. a \in Answer
    BY <2>1 DEF a
  <2>5. [a EXCEPT !.correct = c, !.score = p] \in Answer
    BY <2>3, <2>4 DEF Answer
  <2>6. /\ [a EXCEPT !.correct = c, !.score = p].text = a.text
        /\ [a EXCEPT !.correct = c, !.score = p].score = p
    BY <2>4 DEF Answer
  <2>7. \A b \in Answer : b # NoAnswer
    BY DEF Answer, NoAnswer
  <2> QED
    BY <2>5, <2>6, <2>7 DEF a, c, p
<1>2. Graded(answers, S) = [q \in Question |-> IF q \in S THEN grade(q) ELSE answers[q]]
  BY DEF Graded
<1> HIDE DEF grade
<1>3. \A q \in Question : answers[q] \in Answer \cup {NoAnswer}
  BY DEF Answers
<1>4. Graded(answers, S) \in Answers
  BY <1>1, <1>2, <1>3 DEF Answers
<1>5. \A q \in Question \ S : Graded(answers, S)[q] = answers[q]
  BY <1>2
<1>6. \A q \in S : Graded(answers, S)[q] = grade(q)
  BY <1>2
<1> HIDE DEF IsCorrect
<1> QED
  BY <1>1, <1>4, <1>5, <1>6

\* What is written into an answer.
LEMMA WrittenAnswer ==
    ASSUME NEW a \in Answer \cup {NoAnswer}, NEW t \in Choice \cup {None}
    PROVE  Written(a, t) \in Answer
BY DEF Written, Answer, NoAnswer

\* Points of a set of questions add up to a natural.
PointsOf(rows, S) == MapThenSumSet(LAMBDA q : rows[q].points, S)

\* Folding over the questions is summing.
LEMMA PointsAreSums ==
    ASSUME NEW rows, NEW T, IsFiniteSet(T)
    PROVE  \E sum : /\ Sums([q \in T |-> rows[q].points], T, sum)
                    /\ sum[T] = PointsOf(rows, T)
<1> DEFINE g == [q \in T |-> rows[q].points]
           P(it) == it = [s \in SUBSET T |->
                      IF s = {} THEN 0
                      ELSE rows[CHOOSE x \in s : TRUE].points
                             + it[s \ {CHOOSE x \in s : TRUE}]]
           iter == CHOOSE it : P(it)
<1>1. PointsOf(rows, T) = iter[T]
  BY DEF PointsOf, MapThenSumSet, MapThenFoldSet
<1>2. \A it : P(it) <=> Sums(g, T, it)
  BY DEF Sums
<1>3. \E it : Sums(g, T, it)
  BY SumsExist
<1> HIDE DEF P, g
<1>4. P(iter)
  BY <1>2, <1>3
<1> HIDE DEF iter
<1> QED
  BY <1>1, <1>2, <1>4 DEF g

LEMMA PointsNatural ==
    ASSUME NEW rows, NEW T, IsFiniteSet(T), \A q \in T : rows[q].points \in Nat
    PROVE  PointsOf(rows, T) \in Nat
<1> DEFINE g == [q \in T |-> rows[q].points]
<1>1. PICK sum : Sums(g, T, sum) /\ sum[T] = PointsOf(rows, T)
  BY PointsAreSums
<1>2. \A q \in T : g[q] \in Nat
  OBVIOUS
<1> HIDE DEF g
<1> QED
  BY <1>1, <1>2, SumOfNaturals

\* What an exam is worth.
LEMMA TotalIsNatural ==
    ASSUME questions \in [Question -> QuestionRow], NEW i
    PROVE  TotalScore(i) \in Nat
<1> DEFINE T == {q \in QuestionsHere :
                   q \in Answered(i) /\ IsCorrect(attempts[i].answers[q], q)}
<1>1. TotalScore(i) = PointsOf(questions, T)
  BY DEF TotalScore, PointsOf
<1>2. T \in SUBSET Question
  BY DEF QuestionsHere
<1>3. IsFiniteSet(T)
  BY <1>2, ExamAssumption, FS_Subset
<1>4. \A q \in T : questions[q].points \in Nat
  BY <1>2, ExamAssumption DEF QuestionRow
<1> HIDE DEF T
<1> QED
  BY <1>1, <1>3, <1>4, PointsNatural

-----------------------------------------------------------------------------
\* What the actions of the exam come to.
LEMMA EditSteps ==
    ASSUME ExamTypeOK,
           \/ \E q \in Question, p \in Points, c \in Choice \cup {None} :
                \/ CreateQuestion(q, p, c)
                \/ \E place \in {"here", "elsewhere"} : UpdateQuestion(q, place, p, c)
           \/ \E q \in Question : DeleteQuestion(q)
           \/ \E p \in PassMark : UpdateExam(p)
           \/ DeleteWholeExam
    PROVE  Edits
<1>1. /\ exam \in [active : BOOLEAN, pass : PassMark]
      /\ questions \in [Question -> QuestionRow]
      /\ edits \in 0 .. MaxEdits /\ MaxEdits \in Nat
  BY ExamAssumption DEF ExamTypeOK
<1>2. ASSUME Edited
      PROVE  /\ edits' \in 0 .. MaxEdits /\ superseded' = Completed
             /\ UNCHANGED <<attempts, completing, deaths>>
  BY <1>1, <1>2 DEF Edited, attemptVars
<1>3. ASSUME NEW q \in Question, NEW row \in QuestionRow,
             questions' = [questions EXCEPT ![q] = row], exam' = exam, Edited
      PROVE  Edits
  BY <1>1, <1>2, <1>3 DEF Edits
<1>4. ASSUME NEW q \in Question, NEW p \in Points, NEW c \in Choice \cup {None},
             \/ CreateQuestion(q, p, c)
             \/ \E place \in {"here", "elsewhere"} : UpdateQuestion(q, place, p, c)
      PROVE  Edits
  <2>1. PICK place \in {"here", "elsewhere"} :
          /\ questions' = [questions EXCEPT
                             ![q] = [place |-> place, points |-> p, correct |-> c]]
          /\ exam' = exam /\ Edited
    BY <1>4 DEF CreateQuestion, UpdateQuestion
  <2>2. [place |-> place, points |-> p, correct |-> c] \in QuestionRow
    BY DEF QuestionRow
  <2> QED
    BY <1>3, <2>1, <2>2
<1>5. ASSUME NEW q \in Question, DeleteQuestion(q)
      PROVE  Edits
  <2> DEFINE row == [questions[q] EXCEPT !.place = "deleted"]
  <2>1. row \in QuestionRow
    <3>1. questions[q] \in QuestionRow
      BY <1>1
    <3> QED
      BY <3>1 DEF QuestionRow
  <2>2. questions' = [questions EXCEPT ![q] = row] /\ exam' = exam /\ Edited
    BY <1>1, <1>5 DEF DeleteQuestion
  <2> HIDE DEF row
  <2> QED
    BY <1>3, <2>1, <2>2
<1>6. ASSUME NEW p \in PassMark, UpdateExam(p)
      PROVE  Edits
  <2>1. exam' = [exam EXCEPT !.pass = p] /\ questions' = questions /\ Edited
    BY <1>6 DEF UpdateExam
  <2>2. exam' \in [active : BOOLEAN, pass : PassMark] /\ exam'.active = exam.active
    BY <1>1, <2>1
  <2> QED
    BY <1>1, <1>2, <2>1, <2>2 DEF Edits
<1>7. CASE DeleteWholeExam
  <2>1. exam' = [exam EXCEPT !.active = FALSE] /\ questions' = questions /\ Edited
    BY <1>7 DEF DeleteWholeExam
  <2>2. exam' \in [active : BOOLEAN, pass : PassMark]
    BY <1>1, <2>1
  <2> QED
    BY <1>1, <1>2, <1>7, <2>1, <2>2 DEF Edits
<1> QED
  BY <1>4, <1>5, <1>6, <1>7

\* Saving one answer or many, and a submission that dies, rewrite an open attempt.
LEMMA AnswerSteps ==
    ASSUME ExamTypeOK, NEW i \in DOMAIN attempts,
           \/ \E q \in Question, t \in Choice \cup {None} : SubmitAnswer(i, q, t)
           \/ \E S \in SUBSET QuestionsHere : \E t \in [S -> Choice] : SubmitBulkAnswers(i, t)
           \/ SubmitDies(i)
    PROVE  \E answers \in Answers : Rewrites(i, answers)
<1> DEFINE old == attempts[i].answers
<1>1. /\ questions \in [Question -> QuestionRow]
      /\ attempts[i] \in Attempt /\ deaths \in 0 .. MaxDeaths /\ MaxDeaths \in Nat
  BY ExamAssumption, ElementOfSeq, LenProperties DEF ExamTypeOK
<1>2. old \in Answers /\ \A q \in Question : old[q] \in Answer \cup {NoAnswer}
  BY <1>1, AttemptFields DEF Answers
<1>3. QuestionsHere \subseteq Question
  BY DEF QuestionsHere
<1>4. ASSUME NEW q \in Question, NEW t \in Choice \cup {None}, SubmitAnswer(i, q, t)
      PROVE  \E answers \in Answers : Rewrites(i, answers)
  <2> DEFINE new == [old EXCEPT ![q] = Written(@, t)]
  <2>1. new \in Answers
    BY <1>2, WrittenAnswer DEF Answers
  <2>2. Rewrites(i, new)
    BY <1>1, <1>4, <2>1 DEF SubmitAnswer, Rewrites
  <2> QED
    BY <2>1, <2>2
<1>5. ASSUME NEW S \in SUBSET QuestionsHere, NEW t \in [S -> Choice],
             SubmitBulkAnswers(i, t)
      PROVE  \E answers \in Answers : Rewrites(i, answers)
  <2>0. DOMAIN t = S
    OBVIOUS
  <2>1. PICK written \in SUBSET S :
          /\ deaths' = deaths \/ (deaths < MaxDeaths /\ deaths' = deaths + 1)
          /\ attempts' = [attempts EXCEPT ![i].answers =
               [q \in Question |-> IF q \in written THEN Written(@[q], t[q]) ELSE @[q]]]
    BY <1>5, <2>0 DEF SubmitBulkAnswers
  <2> DEFINE new == [q \in Question |-> IF q \in written THEN Written(old[q], t[q]) ELSE old[q]]
  <2>2. new \in Answers
    BY <1>2, <1>3, <2>1, WrittenAnswer DEF Answers
  <2>3. attempts' = [attempts EXCEPT ![i].answers = new]
    BY <2>1
  <2>4. /\ attempts[i].status = "in_progress"
        /\ UNCHANGED <<exam, questions, completing, edits, superseded>>
    BY <1>5 DEF SubmitBulkAnswers
  <2>6. deaths' \in 0 .. MaxDeaths
    BY <1>1, <2>1
  <2> HIDE DEF new
  <2>5. Rewrites(i, new)
    BY <2>2, <2>3, <2>4, <2>6 DEF Rewrites
  <2> QED
    BY <2>2, <2>5
<1>6. CASE SubmitDies(i)
  <2>1. PICK done \in SUBSET (QuestionsHere \cap Answered(i)) :
          attempts' = [attempts EXCEPT ![i].answers = Graded(@, done)]
    BY <1>6 DEF SubmitDies
  <2> DEFINE new == Graded(old, done)
  <2>2. done \in SUBSET Question /\ \A q \in done : old[q] # NoAnswer
    BY <1>3 DEF Answered
  <2>3. new \in Answers
    <3> HIDE DEF old
    <3> QED
      BY <1>1, <1>2, <2>2, GradedAnswers
  <2>4. attempts' = [attempts EXCEPT ![i].answers = new]
    BY <2>1
  <2>5. /\ attempts[i].status = "in_progress" /\ deaths' \in 0 .. MaxDeaths
        /\ UNCHANGED <<exam, questions, completing, edits, superseded>>
    BY <1>1, <1>6 DEF SubmitDies
  <2> HIDE DEF new
  <2>6. Rewrites(i, new)
    BY <2>3, <2>4, <2>5 DEF Rewrites
  <2> QED
    BY <2>3, <2>6
<1> QED
  BY <1>4, <1>5, <1>6

\* The answers of an attempt as its submission leaves them.
Dues(i) == QuestionsHere \cap Answered(i)

LEMMA DueAnswers ==
    ASSUME ExamTypeOK, NEW i \in DOMAIN attempts
    PROVE  /\ Dues(i) \in SUBSET Question
           /\ attempts[i] \in Attempt /\ attempts[i].answers \in Answers
           /\ questions \in [Question -> QuestionRow]
           /\ \A q \in Dues(i) : attempts[i].answers[q] # NoAnswer
           /\ Graded(attempts[i].answers, Dues(i)) \in Answers
<1>1. attempts[i] \in Attempt /\ questions \in [Question -> QuestionRow]
  BY ElementOfSeq, LenProperties DEF ExamTypeOK
<1>2. attempts[i].answers \in Answers
  BY <1>1, AttemptFields
<1>3. Dues(i) \in SUBSET Question /\ \A q \in Dues(i) : attempts[i].answers[q] # NoAnswer
  BY DEF Dues, QuestionsHere, Answered
<1> QED
  BY <1>1, <1>2, <1>3, GradedAnswers

\* An attempt as its submission leaves it.
Closed(i) ==
    [attempts[i] EXCEPT !.answers = Graded(@, Dues(i)), !.score = TotalScore(i),
                        !.passed = Passes(i), !.status = "completed"]

LEMMA ClosedAttempt ==
    ASSUME ExamTypeOK, NEW i \in DOMAIN attempts
    PROVE  /\ Closed(i) \in Attempt
           /\ Closed(i).student = attempts[i].student
           /\ Closed(i).status = "completed"
           /\ Closed(i).answers = Graded(attempts[i].answers, Dues(i))
           /\ Closed(i).score = TotalScore(i)
           /\ Closed(i).passed = Passes(i)
<1> DEFINE a == attempts[i]
           g == Graded(a.answers, Dues(i))
           n == TotalScore(i)
           p == Passes(i)
<1>1. a \in Attempt /\ g \in Answers
  BY DueAnswers
<1>2. n \in Nat
  BY DueAnswers, TotalIsNatural
<1>3. p \in BOOLEAN
  BY DEF Passes
<1>4. Closed(i) = [a EXCEPT !.answers = g, !.score = n, !.passed = p, !.status = "completed"]
  BY DEF Closed
<1> HIDE DEF a, g, n, p
<1> DEFINE c == [a EXCEPT !.answers = g, !.score = n, !.passed = p, !.status = "completed"]
<1>5. /\ c \in Attempt /\ c.student = a.student /\ c.status = "completed"
      /\ c.answers = g /\ c.score = n /\ c.passed = p
  BY <1>1, <1>2, <1>3 DEF Attempt, Answers
<1> HIDE DEF c
<1> QED
  BY <1>4, <1>5 DEF a, g, n, p, c

LEMMA SubmitCloses ==
    ASSUME ExamTypeOK, NEW i \in DOMAIN attempts, Submit(i)
    PROVE  attempts' = [attempts EXCEPT ![i] = Closed(i)]
<1>1. attempts' = [attempts EXCEPT ![i].answers = Graded(@, Dues(i)),
                                   ![i].score = TotalScore(i),
                                   ![i].passed = Passes(i),
                                   ![i].status = "completed"]
  BY DEF Submit, Dues
<1>2. attempts \in [DOMAIN attempts -> Attempt]
  BY LenProperties DEF ExamTypeOK
<1> DEFINE n == TotalScore(i)
           p == Passes(i)
<1>3. attempts' = [attempts EXCEPT ![i].answers = Graded(@, Dues(i)),
                                   ![i].score = n, ![i].passed = p,
                                   ![i].status = "completed"]
  BY <1>1
<1>4. Closed(i) = [attempts[i] EXCEPT !.answers = Graded(@, Dues(i)), !.score = n,
                                      !.passed = p, !.status = "completed"]
  BY DEF Closed
<1> HIDE DEF n, p
<1> QED
  BY <1>2, <1>3, <1>4

\* Every step edits, starts a sitting, rewrites answers, closes an attempt or
\* moves the submissions that wait.
Moves ==
    /\ completing' \in [Examinee -> Nat]
    /\ deaths' \in 0 .. MaxDeaths
    /\ UNCHANGED <<exam, questions, attempts, edits, superseded>>

LEMMA AttemptSteps ==
    ASSUME ExamTypeOK, [ExamNext]_examDetail
    PROVE  \/ Edits
           \/ \E u \in Examinee : StartSitting(u)
           \/ \E i \in DOMAIN attempts : \E answers \in Answers : Rewrites(i, answers)
           \/ \E i \in DOMAIN attempts : Submit(i)
           \/ Moves
<1>1. /\ completing \in [Examinee -> Nat] /\ deaths \in 0 .. MaxDeaths /\ MaxDeaths \in Nat
  BY ExamAssumption DEF ExamTypeOK
<1>2. ASSUME NEW u \in Examinee, SubmitReturns(u) PROVE Moves
  <2>1. /\ completing[u] > 0 /\ completing' = [completing EXCEPT ![u] = @ - 1]
        /\ UNCHANGED <<exam, questions, attempts, edits, deaths, superseded>>
    BY <1>2 DEF SubmitReturns
  <2>2. completing[u] - 1 \in Nat
    BY <1>1, <2>1
  <2> QED
    BY <1>1, <2>1, <2>2 DEF Moves
<1>3. ASSUME RestartDuringSubmit PROVE Moves
  BY <1>1, <1>3 DEF RestartDuringSubmit, Moves
<1>4. ASSUME UNCHANGED examDetail PROVE Moves
  BY <1>1, <1>4 DEF examDetail, attemptVars, Moves
<1> QED
  BY <1>2, <1>3, <1>4, EditSteps, AnswerSteps DEF ExamNext

\* An attempt is replaced by another of the same student.
LEMMA ReplacedAttempt ==
    ASSUME ExamTypeOK, NEW i \in DOMAIN attempts, NEW a \in Attempt,
           attempts' = [attempts EXCEPT ![i] = a]
    PROVE  /\ attempts' \in Seq(Attempt)
           /\ DOMAIN attempts' = DOMAIN attempts
           /\ attempts'[i] = a
           /\ \A j \in DOMAIN attempts : j # i => attempts'[j] = attempts[j]
<1>1. attempts \in Seq(Attempt) /\ DOMAIN attempts = 1 .. Len(attempts)
  BY LenProperties DEF ExamTypeOK
<1>2. attempts' \in Seq(Attempt) /\ Len(attempts') = Len(attempts)
  BY <1>1, ExceptSeq
<1> QED
  BY <1>1, <1>2, LenProperties

\* Rewriting answers is such a replacement.
LEMMA RewrittenAttempt ==
    ASSUME ExamTypeOK, NEW i \in DOMAIN attempts, NEW answers \in Answers,
           Rewrites(i, answers)
    PROVE  \E a \in Attempt : /\ attempts' = [attempts EXCEPT ![i] = a]
                              /\ a.student = attempts[i].student
                              /\ a.status = "in_progress"
<1> DEFINE a == [attempts[i] EXCEPT !.answers = answers]
<1>1. attempts[i] \in Attempt
  BY DueAnswers
<1>2. a \in Attempt /\ a.student = attempts[i].student /\ a.status = attempts[i].status
  BY <1>1 DEF Attempt, Answers
<1>3. attempts' = [attempts EXCEPT ![i] = a] /\ attempts[i].status = "in_progress"
  BY DEF Rewrites
<1> HIDE DEF a
<1> QED
  BY <1>2, <1>3

\* A sitting appends an attempt that is open.
LEMMA StartedAttempt ==
    ASSUME ExamTypeOK, NEW u \in Examinee, StartSitting(u)
    PROVE  /\ attempts' \in Seq(Attempt)
           /\ DOMAIN attempts' = DOMAIN attempts \cup {Len(attempts) + 1}
           /\ Len(attempts) + 1 \notin DOMAIN attempts
           /\ \A j \in DOMAIN attempts : attempts'[j] = attempts[j]
           /\ attempts'[Len(attempts) + 1].student = u
           /\ attempts'[Len(attempts) + 1].status = "in_progress"
<1> DEFINE a == [student |-> u, status |-> "in_progress",
                 answers |-> [q \in Question |-> NoAnswer], score |-> None, passed |-> FALSE]
<1>1. a \in Attempt /\ a.student = u /\ a.status = "in_progress"
  BY DEF Attempt
<1>2. attempts' = Append(attempts, a)
  BY DEF StartSitting
<1>3. attempts \in Seq(Attempt) /\ DOMAIN attempts = 1 .. Len(attempts) /\ Len(attempts) \in Nat
  BY LenProperties DEF ExamTypeOK
<1> HIDE DEF a
<1>4. /\ attempts' \in Seq(Attempt) /\ Len(attempts') = Len(attempts) + 1
      /\ \A j \in 1 .. Len(attempts) : attempts'[j] = attempts[j]
      /\ attempts'[Len(attempts) + 1] = a
  BY <1>1, <1>2, <1>3, AppendProperties
<1>5. DOMAIN attempts' = 1 .. Len(attempts) + 1
  BY <1>4, LenProperties
<1> QED
  BY <1>1, <1>3, <1>4, <1>5

\* What every step leaves of the attempts there were.
LEMMA AttemptsKept ==
    ASSUME ExamTypeOK, [ExamNext]_examDetail
    PROVE  /\ attempts' \in Seq(Attempt)
           /\ DOMAIN attempts \subseteq DOMAIN attempts'
           /\ \A j \in DOMAIN attempts : attempts'[j].student = attempts[j].student
           /\ \A j \in Completed : attempts'[j] = attempts[j]
<1>1. attempts \in Seq(Attempt)
  BY DEF ExamTypeOK
<1>2. ASSUME NEW i \in DOMAIN attempts, NEW a \in Attempt,
             attempts' = [attempts EXCEPT ![i] = a], a.student = attempts[i].student,
             attempts[i].status = "in_progress"
      PROVE  /\ attempts' \in Seq(Attempt)
             /\ DOMAIN attempts \subseteq DOMAIN attempts'
             /\ \A j \in DOMAIN attempts : attempts'[j].student = attempts[j].student
             /\ \A j \in Completed : attempts'[j] = attempts[j]
  BY <1>2, ReplacedAttempt DEF Completed
<1>3. ASSUME NEW i \in DOMAIN attempts, NEW answers \in Answers, Rewrites(i, answers)
      PROVE  /\ attempts' \in Seq(Attempt)
             /\ DOMAIN attempts \subseteq DOMAIN attempts'
             /\ \A j \in DOMAIN attempts : attempts'[j].student = attempts[j].student
             /\ \A j \in Completed : attempts'[j] = attempts[j]
  <2>1. PICK a \in Attempt : /\ attempts' = [attempts EXCEPT ![i] = a]
                             /\ a.student = attempts[i].student
    BY <1>3, RewrittenAttempt
  <2>2. attempts[i].status = "in_progress"
    BY <1>3 DEF Rewrites
  <2> QED
    BY <1>2, <2>1, <2>2
<1>4. ASSUME NEW i \in DOMAIN attempts, Submit(i)
      PROVE  /\ attempts' \in Seq(Attempt)
             /\ DOMAIN attempts \subseteq DOMAIN attempts'
             /\ \A j \in DOMAIN attempts : attempts'[j].student = attempts[j].student
             /\ \A j \in Completed : attempts'[j] = attempts[j]
  <2>1. attempts[i].status = "in_progress"
    BY <1>4 DEF Submit
  <2> QED
    BY <1>2, <1>4, <2>1, SubmitCloses, ClosedAttempt
<1>5. CASE \E u \in Examinee : StartSitting(u)
  BY <1>5, StartedAttempt DEF Completed
<1>6. CASE Edits \/ Moves
  BY <1>1, <1>6 DEF Edits, Moves
<1> QED
  BY <1>3, <1>4, <1>5, <1>6, AttemptSteps

\* The rows are well typed at first, and stay so.
LEMMA ExamInitTyped == ExamInit => ExamTypeOK
<1> SUFFICES ASSUME ExamInit PROVE ExamTypeOK
  OBVIOUS
<1>1. \E m \in Points : \A k \in Points : m =< k
  BY ExamAssumption, LeastNatural
<1>2. Min(Points) \in Points
  BY <1>1 DEF Min
<1>3. questions \in [Question -> QuestionRow]
  BY <1>2 DEF ExamInit, QuestionRow
<1>4. attempts \in Seq(Attempt) /\ superseded \subseteq DOMAIN attempts
  BY EmptySeq DEF ExamInit
<1>5. exam \in [active : BOOLEAN, pass : PassMark]
  BY DEF ExamInit
<1>6. completing \in [Examinee -> Nat]
  BY DEF ExamInit
<1>7. edits \in 0 .. MaxEdits /\ deaths \in 0 .. MaxDeaths
  BY ExamAssumption DEF ExamInit
<1> QED
  BY <1>3, <1>4, <1>5, <1>6, <1>7 DEF ExamTypeOK

LEMMA ExamNextTyped ==
    ASSUME ExamTypeOK, [ExamNext]_examDetail
    PROVE  ExamTypeOK'
<1>1. attempts' \in Seq(Attempt) /\ DOMAIN attempts \subseteq DOMAIN attempts'
  BY AttemptsKept
<1>2. /\ exam \in [active : BOOLEAN, pass : PassMark]
      /\ questions \in [Question -> QuestionRow]
      /\ completing \in [Examinee -> Nat]
      /\ edits \in 0 .. MaxEdits /\ deaths \in 0 .. MaxDeaths
      /\ superseded \subseteq DOMAIN attempts
  BY DEF ExamTypeOK
<1>3. CASE Edits
  BY <1>1, <1>2, <1>3 DEF Edits, ExamTypeOK, Completed
<1>4. CASE \E u \in Examinee : StartSitting(u)
  BY <1>1, <1>2, <1>4 DEF StartSitting, ExamTypeOK
<1>5. CASE \E i \in DOMAIN attempts : \E answers \in Answers : Rewrites(i, answers)
  BY <1>1, <1>2, <1>5 DEF Rewrites, ExamTypeOK
<1>6. ASSUME NEW i \in DOMAIN attempts, Submit(i)
      PROVE  ExamTypeOK'
  <2> DEFINE u == attempts[i].student
             n == IF Passes(i) THEN 1 ELSE 0
  <2>1. u \in Examinee
    BY DueAnswers, AttemptFields
  <2>2. completing' = [completing EXCEPT ![u] = @ + n] /\ n \in Nat
    BY <1>6 DEF Submit
  <2> HIDE DEF n, u
  <2>3. completing' \in [Examinee -> Nat]
    BY <1>2, <2>1, <2>2
  <2> QED
    BY <1>1, <1>2, <1>6, <2>3 DEF Submit, ExamTypeOK
<1>7. CASE Moves
  BY <1>1, <1>2, <1>7 DEF Moves, ExamTypeOK
<1> QED
  BY <1>3, <1>4, <1>5, <1>6, <1>7, AttemptSteps

(***************************************************************************)
(* Exams, questions and attempts keep their types, and the submissions that *)
(* wait are of open attempts.                                              *)
(***************************************************************************)
THEOREM ExamTyped == ExamSpec => []ExamTypeOK
<1>1. ExamTypeOK /\ [ExamNext]_examDetail => ExamTypeOK'
  BY ExamNextTyped
<1> QED
  BY <1>1, ExamInitTyped, PTL DEF ExamSpec

-----------------------------------------------------------------------------
(* Exams: grades. *)

\* The answers that count for an attempt, and the marks of a set of answers.
Right(i) ==
    {q \in QuestionsHere : q \in Answered(i) /\ IsCorrect(attempts[i].answers[q], q)}
MarksOf(answers, S) == MapThenSumSet(LAMBDA q : answers[q].score, S)
Marked(i) == {q \in QuestionsHere : attempts[i].answers[q].score # None}

\* Folding over the answers is summing.
LEMMA MarksAreSums ==
    ASSUME NEW answers, NEW T, IsFiniteSet(T)
    PROVE  \E sum : /\ Sums([q \in T |-> answers[q].score], T, sum)
                    /\ sum[T] = MarksOf(answers, T)
<1> DEFINE g == [q \in T |-> answers[q].score]
           P(it) == it = [s \in SUBSET T |->
                      IF s = {} THEN 0
                      ELSE answers[CHOOSE x \in s : TRUE].score
                             + it[s \ {CHOOSE x \in s : TRUE}]]
           iter == CHOOSE it : P(it)
<1>1. MarksOf(answers, T) = iter[T]
  BY DEF MarksOf, MapThenSumSet, MapThenFoldSet
<1>2. \A it : P(it) <=> Sums(g, T, it)
  BY DEF Sums
<1>3. \E it : Sums(g, T, it)
  BY SumsExist
<1> HIDE DEF P, g
<1>4. P(iter)
  BY <1>2, <1>3
<1> HIDE DEF iter
<1> QED
  BY <1>1, <1>2, <1>4 DEF g

\* The figures of an attempt by these names, now and after the step.
LEMMA Figures ==
    ASSUME NEW i
    PROVE  /\ TotalScore(i) = PointsOf(questions, Right(i))
           /\ ShownScores(i) = MarksOf(attempts[i].answers, Marked(i))
           /\ Passes(i) <=> /\ exam.pass # None
                            /\ IF PointsOf(questions, QuestionsHere) > 0
                                 THEN 100 * TotalScore(i)
                                        >= exam.pass * PointsOf(questions, QuestionsHere)
                                 ELSE exam.pass = 0
<1>1. TotalScore(i) = PointsOf(questions, Right(i))
  BY DEF TotalScore, PointsOf, Right, MapThenSumSet, MapThenFoldSet
<1>2. ShownScores(i) = MarksOf(attempts[i].answers, Marked(i))
  BY DEF ShownScores, MarksOf, Marked, MapThenSumSet, MapThenFoldSet
<1>3. Passes(i) <=> /\ exam.pass # None
                    /\ IF PointsOf(questions, QuestionsHere) > 0
                         THEN 100 * TotalScore(i)
                                >= exam.pass * PointsOf(questions, QuestionsHere)
                         ELSE exam.pass = 0
  BY DEF Passes, PointsOf, MapThenSumSet, MapThenFoldSet
<1> QED
  BY <1>1, <1>2, <1>3

\* Nothing that the figures of an attempt depend on has moved.
LEMMA FiguresKept ==
    ASSUME NEW i, exam' = exam, questions' = questions, attempts'[i] = attempts[i]
    PROVE  /\ TotalScore(i)' = TotalScore(i)
           /\ ShownScores(i)' = ShownScores(i)
           /\ Passes(i)' <=> Passes(i)
<1>1. Right(i)' = Right(i) /\ Marked(i)' = Marked(i) /\ QuestionsHere' = QuestionsHere
  BY DEF Right, Marked, QuestionsHere, Answered, IsCorrect
<1>2. /\ TotalScore(i)' = PointsOf(questions', Right(i)')
      /\ ShownScores(i)' = MarksOf(attempts'[i].answers, Marked(i)')
      /\ Passes(i)' <=> /\ exam'.pass # None
                        /\ IF PointsOf(questions', QuestionsHere') > 0
                             THEN 100 * TotalScore(i)'
                                    >= exam'.pass * PointsOf(questions', QuestionsHere')
                             ELSE exam'.pass = 0
  <2>1. TotalScore(i)' = PointsOf(questions', Right(i)')
    BY DEF TotalScore, PointsOf, Right, MapThenSumSet, MapThenFoldSet
  <2>2. ShownScores(i)' = MarksOf(attempts'[i].answers, Marked(i)')
    BY DEF ShownScores, MarksOf, Marked, MapThenSumSet, MapThenFoldSet
  <2>3. Passes(i)' <=> /\ exam'.pass # None
                       /\ IF PointsOf(questions', QuestionsHere') > 0
                            THEN 100 * TotalScore(i)'
                                   >= exam'.pass * PointsOf(questions', QuestionsHere')
                            ELSE exam'.pass = 0
    BY DEF Passes, PointsOf, MapThenSumSet, MapThenFoldSet
  <2> QED
    BY <2>1, <2>2, <2>3
<1>3. TotalScore(i)' = TotalScore(i) /\ ShownScores(i)' = ShownScores(i)
  BY <1>1, <1>2, Figures
<1> QED
  BY <1>1, <1>2, <1>3, Figures

\* Grading changes no text: who was right is still right after it.
LEMMA SubmittedFigures ==
    ASSUME ExamTypeOK, NEW i \in DOMAIN attempts, Submit(i)
    PROVE  /\ TotalScore(i)' = TotalScore(i)
           /\ Passes(i)' <=> Passes(i)
           /\ ShownScores(i)' = TotalScore(i)
<1> DEFINE old == attempts[i].answers
           new == attempts'[i].answers
<1>1. exam' = exam /\ questions' = questions /\ QuestionsHere' = QuestionsHere
  BY DEF Submit, QuestionsHere
<1>2. attempts'[i] = Closed(i)
  BY SubmitCloses, ClosedAttempt, ReplacedAttempt
<1>3. /\ Dues(i) \in SUBSET Question /\ old \in Answers
      /\ questions \in [Question -> QuestionRow]
      /\ \A q \in Dues(i) : old[q] # NoAnswer
      /\ new = Graded(old, Dues(i))
  BY <1>2, DueAnswers, ClosedAttempt
<1>4. /\ \A q \in Question \ Dues(i) : new[q] = old[q]
      /\ \A q \in Dues(i) :
           /\ new[q] # NoAnswer /\ new[q].text = old[q].text
           /\ new[q].score = IF IsCorrect(old[q], q) THEN questions[q].points ELSE 0
  <2> HIDE DEF old, new
  <2> QED
    BY <1>3, GradedAnswers
<1>5. \A q \in QuestionsHere : q \in Dues(i) <=> old[q] # NoAnswer
  BY DEF Dues, QuestionsHere, Answered
<1>6. Right(i)' = Right(i) /\ Right(i) \in SUBSET Dues(i)
  <2>1. Right(i) = {q \in Dues(i) : IsCorrect(old[q], q)}
    BY DEF Right, Dues
  <2>2. Right(i)' = {q \in QuestionsHere : /\ q \in Question /\ new[q] # NoAnswer
                                           /\ new[q].text # None
                                           /\ new[q].text = questions[q].correct}
    BY <1>1 DEF Right, Answered, IsCorrect
  <2>3. \A q \in QuestionsHere : q \in Question /\ (q \in Dues(i) \/ new[q] = NoAnswer)
    BY <1>4, <1>5 DEF QuestionsHere
  <2>4. Dues(i) \subseteq QuestionsHere
    BY DEF Dues
  <2> HIDE DEF old, new
  <2> QED
    BY <1>4, <2>1, <2>2, <2>3, <2>4 DEF IsCorrect
<1>7. Marked(i)' = Dues(i)
  <2>1. Marked(i)' = {q \in QuestionsHere : new[q].score # None}
    BY <1>1 DEF Marked
  <2>2. \A q \in Dues(i) : new[q].score # None /\ q \in QuestionsHere
    <3>1. \A q \in Dues(i) : questions[q].points \in Nat
      BY <1>3, ExamAssumption DEF QuestionRow
    <3>2. \A n \in Nat : n # None
      BY DEF None
    <3>3. \A q \in Dues(i) : q \in QuestionsHere
      BY DEF Dues
    <3> HIDE DEF old, new
    <3> QED
      BY <1>4, <3>1, <3>2, <3>3
  <2>3. \A q \in QuestionsHere : q \notin Dues(i) => new[q].score = None
    BY <1>4, <1>5 DEF NoAnswer, QuestionsHere
  <2> HIDE DEF new
  <2> QED
    BY <2>1, <2>2, <2>3
<1>8. TotalScore(i)' = PointsOf(questions', Right(i)')
  BY DEF TotalScore, PointsOf, Right, MapThenSumSet, MapThenFoldSet
<1>9. ShownScores(i)' = MarksOf(new, Marked(i)')
  BY DEF ShownScores, MarksOf, Marked, MapThenSumSet, MapThenFoldSet
<1>10. Passes(i)' <=> /\ exam'.pass # None
                      /\ IF PointsOf(questions', QuestionsHere') > 0
                           THEN 100 * TotalScore(i)'
                                  >= exam'.pass * PointsOf(questions', QuestionsHere')
                           ELSE exam'.pass = 0
  BY DEF Passes, PointsOf, MapThenSumSet, MapThenFoldSet
<1>11. TotalScore(i) = PointsOf(questions, Right(i))
  BY Figures
<1>12. PointsOf(questions, Right(i)) = MarksOf(new, Dues(i))
  <2> DEFINE B == Dues(i)
             A == Right(i)
             g == [q \in B |-> new[q].score]
             h == [q \in A |-> questions[q].points]
  <2>1. IsFiniteSet(B) /\ IsFiniteSet(A) /\ A \in SUBSET B
    BY <1>3, <1>6, ExamAssumption, FS_Subset
  <2>2. PICK sum : Sums(g, B, sum) /\ sum[B] = MarksOf(new, B)
    BY <2>1, MarksAreSums
  <2>3. PICK part : Sums(h, A, part) /\ part[A] = PointsOf(questions, A)
    BY <2>1, PointsAreSums
  <2>4. \A q \in B : q \in A <=> IsCorrect(old[q], q)
    BY DEF Right, Dues
  <2>5. \A q \in B : questions[q].points \in Nat
    BY <1>3, ExamAssumption DEF QuestionRow
  <2>6. /\ \A q \in B : g[q] \in Nat
        /\ \A q \in A : h[q] = g[q]
        /\ \A q \in B \ A : g[q] = 0
    <3> HIDE DEF old, new, A, B
    <3> QED
      BY <1>4, <2>1, <2>4, <2>5 DEF B
  <2> HIDE DEF A, B, g, h
  <2>7. sum[B] = part[A]
    BY <2>1, <2>2, <2>3, <2>6, SumWithoutZeros
  <2> QED
    BY <2>2, <2>3, <2>7 DEF A, B
<1>13. TotalScore(i)' = TotalScore(i)
  BY <1>1, <1>6, <1>8, <1>11
<1>14. Passes(i)' <=> Passes(i)
  BY <1>1, <1>10, <1>13, Figures
<1>15. ShownScores(i)' = TotalScore(i)
  BY <1>7, <1>9, <1>11, <1>12
<1> QED
  BY <1>13, <1>14, <1>15

\* The grade of an attempt is right, and so is what is shown of it.
Agrees(i) ==
    /\ attempts[i].score = ShownScores(i)
    /\ attempts[i].score = TotalScore(i)
    /\ attempts[i].passed = Passes(i)

\* Every step keeps it, the edits of an exam apart, which nothing is claimed of.
LEMMA ExamNextAgrees ==
    ASSUME ExamTypeOK, GradesAgree, [ExamNext]_examDetail
    PROVE  GradesAgree'
<1>1. \A i \in Completed \ superseded : Agrees(i)
  BY DEF GradesAgree, Agrees
<1>2. SUFFICES ASSUME NEW j \in Completed' \ superseded' PROVE Agrees(j)'
  BY DEF GradesAgree, Agrees
<1>3. ASSUME j \in Completed \ superseded, exam' = exam, questions' = questions
      PROVE  Agrees(j)'
  <2>1. attempts'[j] = attempts[j]
    BY <1>3, AttemptsKept
  <2>2. /\ TotalScore(j)' = TotalScore(j) /\ ShownScores(j)' = ShownScores(j)
        /\ Passes(j)' <=> Passes(j)
    BY <1>3, <2>1, FiguresKept
  <2>3. Agrees(j)
    BY <1>1, <1>3
  <2>4. Passes(j) \in BOOLEAN /\ Passes(j)' \in BOOLEAN
    BY DEF Passes
  <2> QED
    BY <2>1, <2>2, <2>3, <2>4 DEF Agrees
<1>4. CASE Edits
  BY <1>2, <1>4 DEF Edits, Completed
<1>5. ASSUME NEW u \in Examinee, StartSitting(u) PROVE Agrees(j)'
  <2>1. exam' = exam /\ questions' = questions /\ superseded' = superseded
    BY <1>5 DEF StartSitting
  <2>2. j \in Completed
    BY <1>5, StartedAttempt DEF Completed
  <2> QED
    BY <1>3, <2>1, <2>2
<1>6. ASSUME NEW i \in DOMAIN attempts, NEW answers \in Answers, Rewrites(i, answers)
      PROVE  Agrees(j)'
  <2>1. exam' = exam /\ questions' = questions /\ superseded' = superseded
    BY <1>6 DEF Rewrites
  <2>2. PICK a \in Attempt : /\ attempts' = [attempts EXCEPT ![i] = a]
                             /\ a.status = "in_progress"
    BY <1>6, RewrittenAttempt
  <2>3. j \in Completed
    BY <2>2, ReplacedAttempt DEF Completed
  <2> QED
    BY <1>3, <2>1, <2>3
<1>7. ASSUME NEW i \in DOMAIN attempts, Submit(i) PROVE Agrees(j)'
  <2>1. exam' = exam /\ questions' = questions /\ superseded' = superseded
    BY <1>7 DEF Submit
  <2>2. attempts'[i] = Closed(i) /\ \A k \in Completed' : k = i \/ k \in Completed
    BY <1>7, SubmitCloses, ClosedAttempt, ReplacedAttempt DEF Completed
  <2>3. Agrees(i)'
    <3>1. Closed(i).score = TotalScore(i) /\ Closed(i).passed = Passes(i)
      BY ClosedAttempt
    <3>2. Passes(i) \in BOOLEAN /\ Passes(i)' \in BOOLEAN
      BY DEF Passes
    <3> QED
      BY <1>7, <2>2, <3>1, <3>2, SubmittedFigures DEF Agrees
  <2> QED
    BY <1>3, <2>1, <2>2, <2>3
<1>8. CASE Moves
  BY <1>3, <1>8 DEF Moves, Completed
<1> QED
  BY <1>4, <1>5, <1>6, <1>7, <1>8, AttemptSteps

(***************************************************************************)
(* A result can be checked: until the exam is edited, the marks an attempt *)
(* shows add up to its score, and its answers graded again give this score *)
(* and this verdict, although grading may have died between its commits and *)
(* been repeated (services/exam_attempt.py).                               *)
(***************************************************************************)
THEOREM GradesAreRight == ExamSpec => []GradesAgree
<1>1. ExamInit => GradesAgree
  BY DEF ExamInit, GradesAgree, Completed
<1>2. ExamTypeOK /\ GradesAgree /\ [ExamNext]_examDetail => GradesAgree'
  BY ExamNextAgrees
<1> QED
  BY <1>1, <1>2, ExamTyped, PTL DEF ExamSpec

\* Scores of completed attempts: a finite set of naturals that only grows.
Scores(u) == {attempts[i].score : i \in AttemptsOf(u) \cap Completed}

\* There are no more scores than attempts.
LEMMA ScoresFinite ==
    ASSUME NEW rows, NEW D, IsFiniteSet(D)
    PROVE  IsFiniteSet({rows[i].score : i \in D})
<1> DEFINE G == {s \in SUBSET D : IsFiniteSet({rows[i].score : i \in s})}
<1>1. {} \in G
  BY FS_EmptySet
<1>2. ASSUME NEW s \in SUBSET D, s # {}, \A x \in s : s \ {x} \in G
      PROVE  s \in G
  <2>1. PICK x \in s : TRUE
    BY <1>2
  <2> DEFINE rest == {rows[i].score : i \in s \ {x}}
  <2>2. {rows[i].score : i \in s} = rest \cup {rows[x].score}
    BY <2>1
  <2>3. IsFiniteSet(rest)
    BY <1>2
  <2> HIDE DEF rest
  <2>4. IsFiniteSet(rest \cup {rows[x].score})
    BY <2>3, FS_AddElement
  <2> QED
    BY <2>2, <2>4
<1> HIDE DEF G
<1>3. SUBSET D \subseteq G
  BY <1>1, <1>2, SubsetInduction
<1>4. D \in G
  BY <1>3
<1> QED
  BY <1>4 DEF G

\* An attempt that is completed has a score.
Scored == \A i \in Completed : attempts[i].score \in Nat

\* Every step keeps it.
LEMMA ExamNextScored ==
    ASSUME ExamTypeOK, Scored, [ExamNext]_examDetail
    PROVE  Scored'
<1> SUFFICES ASSUME NEW j \in Completed', j \notin Completed
             PROVE  attempts'[j].score \in Nat
  BY AttemptsKept DEF Scored
<1>1. ASSUME NEW i \in DOMAIN attempts, Submit(i)
      PROVE  attempts'[j].score \in Nat
  <2>1. attempts'[i] = Closed(i) /\ \A k \in Completed' : k = i \/ k \in Completed
    BY <1>1, SubmitCloses, ClosedAttempt, ReplacedAttempt DEF Completed
  <2>2. TotalScore(i) \in Nat
    BY TotalIsNatural DEF ExamTypeOK
  <2> QED
    BY <2>1, <2>2, ClosedAttempt
<1>2. ASSUME NEW i \in DOMAIN attempts, NEW answers \in Answers, Rewrites(i, answers)
      PROVE  FALSE
  BY <1>2, RewrittenAttempt, ReplacedAttempt DEF Completed
<1>3. CASE \E u \in Examinee : StartSitting(u)
  BY <1>3, StartedAttempt DEF Completed
<1>4. CASE Edits \/ Moves
  BY <1>4 DEF Edits, Moves, Completed
<1> QED
  BY <1>1, <1>2, <1>3, <1>4, AttemptSteps

\* The grade that is shown: none, or the best of the scores.
BestShown ==
    \A u \in Examinee :
        /\ Scores(u) = {} => HighestScore(u) = None
        /\ Scores(u) # {} => /\ HighestScore(u) \in Scores(u)
                             /\ \A n \in Scores(u) : HighestScore(u) >= n
        /\ Scores(u) \in SUBSET Nat

LEMMA BestIsShown == ExamTypeOK /\ Scored => BestShown
<1> SUFFICES ASSUME ExamTypeOK, Scored, NEW u \in Examinee
             PROVE  /\ Scores(u) = {} => HighestScore(u) = None
                    /\ Scores(u) # {} => /\ HighestScore(u) \in Scores(u)
                                         /\ \A n \in Scores(u) : HighestScore(u) >= n
                    /\ Scores(u) \in SUBSET Nat
  BY DEF BestShown
<1> DEFINE D == AttemptsOf(u) \cap Completed
<1>1. IsFiniteSet(D)
  <2>1. DOMAIN attempts = 1 .. Len(attempts) /\ Len(attempts) \in Nat
    BY LenProperties DEF ExamTypeOK
  <2>2. D \in SUBSET (1 .. Len(attempts))
    BY <2>1 DEF Completed
  <2>3. IsFiniteSet(1 .. Len(attempts))
    BY <2>1, FS_Interval
  <2> HIDE DEF D
  <2> QED
    BY <2>2, <2>3, FS_Subset
<1>2. IsFiniteSet(Scores(u))
  <2>1. Scores(u) = {attempts[i].score : i \in D}
    BY DEF Scores
  <2> HIDE DEF D
  <2> QED
    BY <1>1, <2>1, ScoresFinite
<1>3. Scores(u) \in SUBSET Nat
  BY DEF Scores, Scored
<1>4. HighestScore(u) = IF Scores(u) = {} THEN None ELSE Max(Scores(u))
  BY DEF HighestScore, Scores
<1>5. ASSUME Scores(u) # {}
      PROVE  /\ Max(Scores(u)) \in Scores(u)
             /\ \A n \in Scores(u) : Max(Scores(u)) >= n
  <2>1. \E m \in Scores(u) : \A n \in Scores(u) : m >= n
    BY <1>2, <1>3, <1>5, GreatestElement
  <2> QED
    BY <2>1 DEF Max
<1> QED
  BY <1>3, <1>4, <1>5

(***************************************************************************)
(* A completed attempt is not touched again, by late answers, a second     *)
(* submission or an edit of its questions, and the best grade a student is *)
(* shown never falls (services/exam_attempt.py, crud/exam_attempt.py).     *)
(***************************************************************************)
THEOREM ResultsAreKept == ExamSpec => ResultsStay
<1> DEFINE Inv == ExamTypeOK /\ Scored
           Keeps == /\ \A i \in Completed : attempts'[i] = attempts[i]
                    /\ \A u \in Examinee : HighestScore(u)' >= HighestScore(u)
<1>1. ExamInit => Inv
  BY ExamInitTyped DEF ExamInit, Scored, Completed
<1>2. Inv /\ [ExamNext]_examDetail => Inv'
  BY ExamNextTyped, ExamNextScored
<1>3. Inv => BestShown
  BY BestIsShown
<1>4. Inv /\ BestShown /\ BestShown' /\ [ExamNext]_examDetail => Keeps
  <2> SUFFICES ASSUME Inv, BestShown, BestShown', [ExamNext]_examDetail PROVE Keeps
    OBVIOUS
  <2>1. \A i \in Completed : attempts'[i] = attempts[i]
    BY AttemptsKept
  <2>2. ASSUME NEW u \in Examinee PROVE HighestScore(u)' >= HighestScore(u)
    <3>1. Scores(u) \subseteq Scores(u)'
      BY AttemptsKept, <2>1 DEF Scores, AttemptsOf, Completed
    <3> QED
      BY <3>1 DEF BestShown, None
  <2> QED
    BY <2>1, <2>2
<1>5. Inv /\ BestShown /\ BestShown' /\ [ExamNext]_examDetail => [Keeps]_examDetail
  BY <1>4
<1> HIDE DEF Inv, Keeps
<1>6. ExamSpec => [][Keeps]_examDetail
  BY <1>1, <1>2, <1>3, <1>5, PTL DEF ExamSpec
<1> QED
  BY <1>6 DEF ResultsStay, Keeps
-----------------------------------------------------------------------------
(* Exams: what the course sees. *)

\* The variables of CourseLearning that an exam stands for.
Taken == [u \in Examinee |-> Cardinality(AttemptsOf(u))]
Open == [u \in Examinee |-> Cardinality(AttemptsOf(u) \ Completed)]
Passed == {attempts[i].student : i \in {j \in Completed : attempts[j].passed}}

\* They are what ExamAttempts substitutes.
LEMMA CourseVariables ==
    /\ OfCourse!examVars = <<Taken, Open, Passed, exam.active, completing>>
    /\ OfCourse!examVars' = <<Taken', Open', Passed', exam'.active, completing'>>
BY DEF OfCourse!examVars, Taken, Open, Passed

\* A student has finitely many attempts.
LEMMA FiniteAttempts ==
    ASSUME ExamTypeOK, NEW u
    PROVE  /\ IsFiniteSet(AttemptsOf(u)) /\ IsFiniteSet(AttemptsOf(u) \ Completed)
           /\ Cardinality(AttemptsOf(u)) \in Nat
           /\ Cardinality(AttemptsOf(u) \ Completed) \in Nat
           /\ AttemptsOf(u) = {} <=> Cardinality(AttemptsOf(u)) = 0
<1>1. DOMAIN attempts = 1 .. Len(attempts) /\ Len(attempts) \in Nat
  BY LenProperties DEF ExamTypeOK
<1>2. AttemptsOf(u) \in SUBSET (1 .. Len(attempts))
  BY <1>1 DEF AttemptsOf
<1>3. IsFiniteSet(AttemptsOf(u))
  <2>1. IsFiniteSet(1 .. Len(attempts))
    BY <1>1, FS_Interval
  <2> QED
    BY <1>2, <2>1, FS_Subset
<1>4. IsFiniteSet(AttemptsOf(u) \ Completed)
  BY <1>3, FS_Subset
<1> QED
  BY <1>3, <1>4, FS_CardinalityType, FS_EmptySet

\* A sitting is an attempt of the course.
LEMMA SittingIsAttempt ==
    ASSUME ExamTypeOK, NEW u \in Examinee, StartSitting(u)
    PROVE  OfCourse!StartAttempt(u)
<1> DEFINE n == Len(attempts) + 1
<1>1. /\ DOMAIN attempts' = DOMAIN attempts \cup {n} /\ n \notin DOMAIN attempts
      /\ \A j \in DOMAIN attempts : attempts'[j] = attempts[j]
      /\ attempts'[n].student = u /\ attempts'[n].status = "in_progress"
  BY StartedAttempt
<1> HIDE DEF n
<1>2. Completed' = Completed
  BY <1>1 DEF Completed
<1>3. /\ AttemptsOf(u)' = AttemptsOf(u) \cup {n}
      /\ \A v \in Examinee : v # u => AttemptsOf(v)' = AttemptsOf(v)
      /\ \A v \in Examinee : n \notin AttemptsOf(v)
  BY <1>1 DEF AttemptsOf
<1>4. n \notin Completed
  BY <1>1 DEF Completed
<1>5. Cardinality(AttemptsOf(u)') = Cardinality(AttemptsOf(u)) + 1
  BY <1>3, FiniteAttempts, FS_AddElement
<1>6. Cardinality(AttemptsOf(u)' \ Completed') = Cardinality(AttemptsOf(u) \ Completed) + 1
  <2>1. AttemptsOf(u)' \ Completed' = (AttemptsOf(u) \ Completed) \cup {n}
    BY <1>2, <1>3, <1>4
  <2> QED
    BY <1>3, <2>1, FiniteAttempts, FS_AddElement
<1>7. Taken' = [Taken EXCEPT ![u] = @ + 1]
  BY <1>3, <1>5 DEF Taken
<1>8. Open' = [Open EXCEPT ![u] = @ + 1]
  BY <1>2, <1>3, <1>6 DEF Open
<1>9. Passed' = Passed
  BY <1>1, <1>2 DEF Passed, Completed
<1>10. /\ exam.active
       /\ MultipleSittings \/ AttemptsOf(u) = {}
       /\ Cardinality(AttemptsOf(u)) < MaxSittings
       /\ UNCHANGED <<exam, questions, completing, edits, deaths, superseded>>
  BY DEF StartSitting
<1>11. MultipleSittings \/ Taken[u] = 0
  BY <1>10, FiniteAttempts DEF Taken
<1>12. Taken[u] < MaxSittings
  BY <1>10 DEF Taken
<1> QED
  BY <1>7, <1>8, <1>9, <1>10, <1>11, <1>12
     DEF OfCourse!StartAttempt, Taken, Open, Passed

\* A submission closes one open attempt, with a pass or without.
LEMMA SubmitIsSubmit ==
    ASSUME ExamTypeOK, NEW i \in DOMAIN attempts, Submit(i)
    PROVE  \E u \in Examinee, b \in BOOLEAN : OfCourse!SubmitExam(u, b)
<1>1. PICK u \in Examinee : u = attempts[i].student
  BY DueAnswers, AttemptFields
<1>2. PICK pass \in BOOLEAN : pass = Passes(i)
  BY DEF Passes
<1>3. /\ DOMAIN attempts' = DOMAIN attempts
      /\ \A j \in DOMAIN attempts : j # i => attempts'[j] = attempts[j]
      /\ attempts'[i].student = u /\ attempts'[i].status = "completed"
      /\ attempts'[i].passed = pass
  BY <1>1, <1>2, SubmitCloses, ClosedAttempt, ReplacedAttempt
<1>4. /\ attempts[i].status = "in_progress" /\ exam.active
      /\ completing' = [completing EXCEPT ![u] = @ + (IF pass THEN 1 ELSE 0)]
      /\ UNCHANGED <<exam, questions, edits, deaths, superseded>>
  BY <1>1, <1>2 DEF Submit
<1>5. Completed' = Completed \cup {i} /\ i \notin Completed
  BY <1>3, <1>4 DEF Completed
<1>6. \A v \in Examinee : AttemptsOf(v)' = AttemptsOf(v)
  BY <1>1, <1>3 DEF AttemptsOf
<1>7. i \in AttemptsOf(u) /\ \A v \in Examinee : v # u => i \notin AttemptsOf(v)
  BY <1>1 DEF AttemptsOf
<1>8. /\ AttemptsOf(u)' \ Completed' = (AttemptsOf(u) \ Completed) \ {i}
      /\ i \in AttemptsOf(u) \ Completed
      /\ \A v \in Examinee : v # u =>
           AttemptsOf(v)' \ Completed' = AttemptsOf(v) \ Completed
  <2>1. AttemptsOf(u)' = AttemptsOf(u)
    BY <1>6
  <2>2. AttemptsOf(u)' \ Completed' = (AttemptsOf(u) \ Completed) \ {i}
    BY <1>5, <2>1
  <2>3. ASSUME NEW v \in Examinee, v # u
        PROVE  AttemptsOf(v)' \ Completed' = AttemptsOf(v) \ Completed
    <3>1. AttemptsOf(v)' = AttemptsOf(v) /\ i \notin AttemptsOf(v)
      BY <1>6, <1>7, <2>3
    <3> QED
      BY <1>5, <3>1
  <2>4. i \in AttemptsOf(u) \ Completed
    BY <1>5, <1>7
  <2> QED
    BY <2>2, <2>3, <2>4
<1>9. /\ Cardinality(AttemptsOf(u)' \ Completed') = Cardinality(AttemptsOf(u) \ Completed) - 1
      /\ Cardinality(AttemptsOf(u) \ Completed) > 0
  <2>1. IsFiniteSet(AttemptsOf(u) \ Completed)
    BY FiniteAttempts
  <2> DEFINE S == AttemptsOf(u) \ Completed
  <2>2. i \in S /\ IsFiniteSet(S)
    BY <1>8, <2>1
  <2> HIDE DEF S
  <2>3. Cardinality(S \ {i}) = Cardinality(S) - 1
    BY <2>2, FS_RemoveElement
  <2>4. Cardinality(S) \in Nat /\ Cardinality(S) # 0
    BY <2>2, FS_CardinalityType, FS_EmptySet
  <2>5. Cardinality(S) > 0
    BY <2>4
  <2> QED
    BY <1>8, <2>3, <2>5 DEF S
<1>10. Taken' = Taken
  BY <1>6 DEF Taken
<1>11. Open' = [Open EXCEPT ![u] = @ - 1] /\ Open[u] > 0
  <2>1. /\ Open = [v \in Examinee |-> Cardinality(AttemptsOf(v) \ Completed)]
        /\ Open' = [v \in Examinee |-> Cardinality(AttemptsOf(v)' \ Completed')]
    BY DEF Open
  <2>2. \A v \in Examinee : Open'[v] = IF v = u THEN Open[v] - 1 ELSE Open[v]
    BY <1>8, <1>9, <2>1
  <2>3. Open[u] > 0
    BY <1>9, <2>1
  <2> QED
    BY <2>1, <2>2, <2>3
<1>12. Passed' = IF pass THEN Passed \cup {u} ELSE Passed
  <2>1. \A j \in Completed : attempts'[j] = attempts[j]
    BY <1>3, <1>5 DEF Completed
  <2>2. Passed' = {attempts'[j].student : j \in {k \in Completed \cup {i} : attempts'[k].passed}}
    BY <1>5 DEF Passed
  <2>3. \A x : x \in Passed' <=>
                \/ \E j \in Completed : attempts'[j].passed /\ x = attempts'[j].student
                \/ attempts'[i].passed /\ x = attempts'[i].student
    BY <2>2
  <2>4. \A x : x \in Passed <=> \E j \in Completed : attempts[j].passed /\ x = attempts[j].student
    BY DEF Passed
  <2>5. \A x : x \in Passed' <=> x \in Passed \/ (pass /\ x = u)
    BY <1>3, <2>1, <2>3, <2>4
  <2> QED
    BY <2>5
<1>13. completing' = IF pass THEN [completing EXCEPT ![u] = @ + 1] ELSE completing
  <2>1. completing \in [Examinee -> Nat] /\ completing[u] \in Nat
    BY DEF ExamTypeOK
  <2>2. CASE pass
    BY <1>4, <2>2
  <2>3. CASE ~ pass
    <3>1. completing' = [completing EXCEPT ![u] = @ + 0]
      BY <1>4, <2>3
    <3>2. completing[u] + 0 = completing[u]
      BY <2>1
    <3> QED
      BY <2>1, <2>3, <3>1, <3>2
  <2> QED
    BY <2>2, <2>3
<1>14. OfCourse!SubmitExam(u, pass)
  <2>1. /\ exam.active /\ exam'.active = exam.active /\ deaths' = deaths
    BY <1>4
  <2> QED
    BY <1>10, <1>11, <1>12, <1>13, <2>1
       DEF OfCourse!SubmitExam, Taken, Open, Passed
<1> QED
  BY <1>14

\* Answers and their grades are none of the course's business.
LEMMA RewritesAreInvisible ==
    ASSUME ExamTypeOK, NEW i \in DOMAIN attempts, NEW answers \in Answers,
           Rewrites(i, answers)
    PROVE  UNCHANGED OfCourse!examVars
<1>1. PICK a \in Attempt : /\ attempts' = [attempts EXCEPT ![i] = a]
                           /\ a.student = attempts[i].student /\ a.status = "in_progress"
  BY RewrittenAttempt
<1>2. /\ DOMAIN attempts' = DOMAIN attempts /\ attempts'[i] = a
      /\ \A j \in DOMAIN attempts : j # i => attempts'[j] = attempts[j]
  BY <1>1, ReplacedAttempt
<1>3. attempts[i].status = "in_progress"
  BY DEF Rewrites
<1>4. Completed' = Completed /\ \A j \in Completed : attempts'[j] = attempts[j]
  BY <1>1, <1>2, <1>3 DEF Completed
<1>5. \A v \in Examinee : AttemptsOf(v)' = AttemptsOf(v)
  BY <1>1, <1>2 DEF AttemptsOf
<1>6. Taken' = Taken /\ Open' = Open
  BY <1>4, <1>5 DEF Taken, Open
<1>7. Passed' = Passed
  BY <1>4 DEF Passed
<1> QED
  BY <1>6, <1>7, CourseVariables DEF Rewrites

\* An edit is none either, or it is the deletion of the exam.
LEMMA EditsOrDeletion ==
    ASSUME ExamTypeOK, Edits
    PROVE  [OfCourse!Next]_(OfCourse!examVars)
<1>1. UNCHANGED <<attempts, completing, deaths>>
  BY DEF Edits
<1>2. Completed' = Completed /\ \A v \in Examinee : AttemptsOf(v)' = AttemptsOf(v)
  BY <1>1 DEF Completed, AttemptsOf
<1>3. Taken' = Taken /\ Open' = Open /\ Passed' = Passed
  BY <1>1, <1>2 DEF Taken, Open, Passed
<1>4. CASE exam'.active = exam.active
  BY <1>1, <1>3, <1>4, CourseVariables
<1>5. CASE DeleteWholeExam
  <2>1. exam.active /\ exam'.active = FALSE
    BY <1>5 DEF DeleteWholeExam, ExamTypeOK
  <2>2. OfCourse!DeleteExam
    BY <1>1, <1>3, <2>1 DEF OfCourse!DeleteExam, Taken, Open, Passed
  <2> QED
    BY <2>2 DEF OfCourse!Next
<1> QED
  BY <1>4, <1>5 DEF Edits

\* Submissions that begin or end to wait change nothing the course sees.
LEMMA WaitingSubmissions ==
    ASSUME ExamTypeOK,
           \/ \E u \in Examinee : SubmitReturns(u)
           \/ RestartDuringSubmit
    PROVE  OfCourse!Next
<1>1. UNCHANGED <<exam, attempts>>
  BY DEF SubmitReturns, RestartDuringSubmit
<1>2. Completed' = Completed /\ \A v \in Examinee : AttemptsOf(v)' = AttemptsOf(v)
  BY <1>1 DEF Completed, AttemptsOf
<1>3. Taken' = Taken /\ Open' = Open /\ Passed' = Passed
  BY <1>1, <1>2 DEF Taken, Open, Passed
<1>4. \A v : OfCourse!ActiveRows(v) = {}
  BY DEF OfCourse!ActiveRows
<1>5. ASSUME NEW u \in Examinee, SubmitReturns(u)
      PROVE  OfCourse!Next
  <2>1. /\ completing[u] > 0 /\ completing' = [completing EXCEPT ![u] = @ - 1]
        /\ deaths' = deaths
    BY <1>5 DEF SubmitReturns
  <2>2. OfCourse!FinishSubmit(u)
    BY <1>1, <1>3, <1>4, <2>1 DEF OfCourse!FinishSubmit, Taken, Open, Passed
  <2> QED
    BY <2>2 DEF OfCourse!Next
<1>6. CASE RestartDuringSubmit
  <2>1. /\ \E u \in Examinee : completing[u] > 0
        /\ deaths < MaxDeaths /\ deaths' = deaths + 1
        /\ completing' = [u \in Examinee |-> 0]
    BY <1>6 DEF RestartDuringSubmit
  <2>2. UNION {OfCourse!ActiveRows(u) : u \in {v \in Examinee : completing[v] > 0}} = {}
    BY <1>4
  <2>3. OfCourse!Restart
    BY <1>1, <1>3, <2>1, <2>2 DEF OfCourse!Restart, Taken, Open, Passed
  <2> QED
    BY <2>3 DEF OfCourse!Next
<1> QED
  BY <1>5, <1>6

(***************************************************************************)
(* What CourseLearning says of exams is true of ExamAttempts: every step   *)
(* is, to the course, a sitting, a submission that passes or does not, the *)
(* deletion of the exam, or nothing.                                       *)
(***************************************************************************)
THEOREM ExamsAreOfCourse == ExamSpec => ExamOfCourse
<1>1. ExamTypeOK /\ [ExamNext]_examDetail => [OfCourse!Next]_(OfCourse!examVars)
  <2> SUFFICES ASSUME ExamTypeOK, [ExamNext]_examDetail
               PROVE  [OfCourse!Next]_(OfCourse!examVars)
    OBVIOUS
  <2>1. CASE Edits
    BY <2>1, EditsOrDeletion
  <2>2. CASE \E u \in Examinee : StartSitting(u)
    BY <2>2, SittingIsAttempt DEF OfCourse!Next
  <2>3. CASE \E i \in DOMAIN attempts : \E answers \in Answers : Rewrites(i, answers)
    BY <2>3, RewritesAreInvisible
  <2>4. CASE \E i \in DOMAIN attempts : Submit(i)
    BY <2>4, SubmitIsSubmit DEF OfCourse!Next
  <2>5. CASE (\E u \in Examinee : SubmitReturns(u)) \/ RestartDuringSubmit
    BY <2>5, WaitingSubmissions
  <2>6. CASE UNCHANGED examDetail
    <3>1. UNCHANGED <<exam, attempts, completing>>
      BY <2>6 DEF examDetail, attemptVars
    <3>2. Taken' = Taken /\ Open' = Open /\ Passed' = Passed
      BY <3>1 DEF Taken, Open, Passed, AttemptsOf, Completed
    <3> QED
      BY <3>1, <3>2, CourseVariables
  <2> QED
    BY <2>1, <2>2, <2>3, <2>4, <2>5, <2>6, EditSteps, AnswerSteps DEF ExamNext
<1> QED
  BY <1>1, ExamTyped, PTL DEF ExamSpec, ExamOfCourse
-----------------------------------------------------------------------------
(***************************************************************************)
(* The course and the exam side by side: a behaviour of both is one of each, *)
(* and what is proved of the parts holds of it.                            *)
(***************************************************************************)
LEMMA LearningFollowsBoth == LearningSpec => Spec /\ ExamSpec
<1>1. LearningInit => Init /\ ExamInit
  BY DEF LearningInit
<1>2. [LearningNext]_<<vars, examDetail, focus>> => [Next]_vars /\ [ExamNext]_examDetail
  BY DEF LearningNext
<1> QED
  BY <1>1, <1>2, PTL DEF LearningSpec, Spec, ExamSpec

\* LearningTypeOK: the rows of both keep their types.
THEOREM LearningTypeCorrect == LearningSpec => []LearningTypeOK
  BY LearningFollowsBoth, LearningStays, ExamTyped, PTL DEF LearningTypeOK, LearningInv

\* EarnedStays: no step takes a completion or a reward away, nor changes the score
\* or the verdict of a completed attempt.
THEOREM EarnedIsKept == LearningSpec => EarnedStays
  BY LearningFollowsBoth, AchievementsAreKept, ResultsAreKept, PTL DEF EarnedStays
=============================================================================
