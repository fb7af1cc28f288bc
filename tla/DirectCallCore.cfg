CONSTANTS
    a = a
    b = b
    c = c
    k1 = k1
    k2 = k2
    r1 = r1
    r2 = r2
    HubLoop = HubLoop
    NoUser = NoUser
    NoCall = NoCall
    Users = {a, b}
    Friendships <- Pair
    Calls = {k1, k2}
    Requests = {r1, r2}
    VideoCalls = {}
    Switches = {}
    Readers = {}
    Subscribers = {a}
    Faulty = TRUE
    MaxClock = 1
    MaxCrashes = 0
SPECIFICATION Spec
CHECK_DEADLOCK FALSE
SYMMETRY TaskSymmetry
INVARIANTS
    NoCrossedCalls
    TalkTimeOnlyIfAnswered
    MissedIsNoticed
PROPERTIES
    LedgerSpec
