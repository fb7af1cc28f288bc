CONSTANTS
    a = a
    b = b
    c = c
    s1 = s1
    s2 = s2
    s3 = s3
    k1 = k1
    k2 = k2
    NoUser = NoUser
    NoCall = NoCall
    Users = {a, b}
    Sockets = {s1, s2, s3}
    Owner <- TwoTabs
    Calls = {k1}
    Switches <- MuteAndVideo
    Faulty = FALSE
    Patience = 1
    MaxCrashes = 0
SPECIFICATION FairSpec
CHECK_DEADLOCK FALSE
INVARIANTS
    RostersAgree
PROPERTIES
    MarksResolve
    RequestsResolve
    OverIsRecorded
