CONSTANTS
    a = a
    b = b
    c = c
    s1 = s1
    s2 = s2
    s3 = s3
    k1 = k1
    k2 = k2
    NoUser = NoUser
    NoCall = NoCall
    Users = {a, b, c}
    Sockets = {s1, s2, s3}
    Owner <- TabEach
    Calls = {k1}
    Switches = {}
    Faulty = TRUE
    Patience = 1
    MaxCrashes = 1
SPECIFICATION Spec
CHECK_DEADLOCK FALSE
SYMMETRY TabEachSymmetry
INVARIANTS
    NeverEmpty
PROPERTIES
    HeirIsPresent
    RoomSpec
