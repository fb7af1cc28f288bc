CONSTANTS
    a = a
    b = b
    c = c
    r1 = r1
    r2 = r2
    w1 = w1
    w2 = w2
    NoUser = NoUser
    NoRequest = NoRequest
    Users = {a, b}
    Founders = {a}
    Creator = a
    Requests = {r1, r2}
    Workers = {w1, w2}
    Visitors = {b}
    MaxMonths = 2
    MaxActs = 1
SPECIFICATION Spec
SYMMETRY Symmetric
CHECK_DEADLOCK FALSE
INVARIANTS
    NobodyJoinsUninvited
    CardIsTrue
PROPERTIES
    BanHolds
    AnswersStay
