SPECIFICATION Spec
CONSTANTS
    Student = {u1}
    Lesson = {l1, l2}
    AllowMultiple = TRUE
    MaxRows = 1
    MaxAttempts = 0
    MaxFailures = 0
INVARIANT ProgressCountsAllLessons
CHECK_DEADLOCK FALSE
