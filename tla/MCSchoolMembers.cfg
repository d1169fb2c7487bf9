SPECIFICATION MCSpec
CONSTANTS
    Email = {e1, e2, e3}
    School = {s1, s2, plat}
    Request = {r1, r2, r3, r4}
    First = e1
    FirstSchool = s1
    Platform = plat
    MaxUsers = 7
    MaxRows = 2
    MaxDeaths = 1
    Person = {p1, p2}
    Code = {d1, d2}
    Link = {n1}
    Thread = {t1, t2}
    None = None
    MaxCrashes = 1
INVARIANT MCTypeOK
INVARIANT AdministratorsRemain
INVARIANT MembersFollowSchools
INVARIANT ReportsAreTrue
INVARIANT TokensServeOnce
PROPERTY AnsweredUnlessStuck
CHECK_DEADLOCK FALSE
