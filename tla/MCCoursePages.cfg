SPECIFICATION PagesSpec
CONSTANTS
    Key <- MCKey
    Operation <- MCOperation
    Touches <- MCTouches
    Sweeps <- MCSweeps
    TTL <- MCTTL
    Reader = {r1, r2}
    Writer = {w1, w2}
    MaxCommits = 2
    MaxFetch = 1
    s1 = s1
    s2 = s2
    SchoolId = {s1, s2}
    CourseId = {c1, c2}
    CurriculumId = {k1, k2}
    LessonId = {l1}
    ExamId = {e1}
    User <- MCUser
    RoleOf <- MCRoleOf
    HomeOf <- MCHomeOf
    Nothing = Nothing
    Keep = Keep
    CourseLimit = 1
    MaxTorn = 1
SYMMETRY PagesSymmetry
INVARIANT PagesTypeOK
INVARIANT StalenessIsBounded
INVARIANT StaleHasCause
INVARIANT ContentFollowsCourse
INVARIANT OpenableIsListed
CHECK_DEADLOCK FALSE
