SPECIFICATION LearningSpec
CONSTANTS
    Student = {u1}
    Lesson = {l1, l2}
    AllowMultiple = TRUE
    MaxRows = 2
    MaxAttempts = 3
    MaxFailures = 2
    Examinee = {e1}
    Question = {q1, q2}
    Choice = {0}
    Points = {1, 2}
    PassMark = {50}
    MultipleSittings = TRUE
    MaxSittings = 2
    MaxEdits = 3
    MaxDeaths = 1
SYMMETRY LearningSymmetry
INVARIANT LearningTypeOK
INVARIANT RosterMatchesRows
INVARIANT RewardedIffDue
INVARIANT GradesAgree
PROPERTY EarnedStays
PROPERTY ExamOfCourse
CHECK_DEADLOCK FALSE
