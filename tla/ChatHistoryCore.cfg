CONSTANTS
    a = a
    b = b
    s1 = s1
    s2 = s2
    m1 = m1
    m2 = m2
    m3 = m3
    m4 = m4
    m5 = m5
    NoMessage = NoMessage
    Users = {a, b}
    Sockets = {s1, s2}
    Owner <- OneEach
    Messages = {m1, m2, m3, m4, m5}
    Old = {m1, m2, m3, m4}
    Author <- AllByA
    MaxPinned = 1
    MaxTime = 1
    MaxEvents = 5
SPECIFICATION Spec
CHECK_DEADLOCK FALSE
SYMMETRY OldSymmetry
INVARIANTS
    NothingMissed
    PinsAreBounded
    RecallStands
PROPERTIES
    ReadsAdvance
