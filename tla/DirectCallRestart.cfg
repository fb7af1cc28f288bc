CONSTANTS
    a = a
    b = b
    c = c
    k1 = k1
    k2 = k2
    r1 = r1
    r2 = r2
    HubLoop = HubLoop
    NoUser = NoUser
    NoCall = NoCall
    Users = {a, b}
    Friendships <- Pair
    Calls = {k1}
    Requests = {r1}
    VideoCalls = {k1}
    Switches = {"muted", "cameraOn"}
    Readers = {b}
    Subscribers = {a, b}
    Faulty = FALSE
    MaxClock = 2
    MaxCrashes = 1
SPECIFICATION FairSpec
CHECK_DEADLOCK FALSE
INVARIANTS
    FlagsOnlyIfAnswered
PROPERTIES
    ReadStaysRead
    SweptCallEnds
