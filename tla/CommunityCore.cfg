CONSTANTS
    a = a
    b = b
    c = c
    r1 = r1
    r2 = r2
    i1 = i1
    i2 = i2
    w1 = w1
    w2 = w2
    NoUser = NoUser
    Door = Door
    Code = Code
    Users = {a, b, c}
    Founder = a
    Requests = {r1, r2}
    Invitations = {i1}
    Workers = {w1, w2}
    MaxUses = 1
    MaxLost = 1
    MaxBegun = 4
SPECIFICATION Spec
SYMMETRY Symmetric
VIEW Seen
CHECK_DEADLOCK FALSE
INVARIANTS
    UsesAreBounded
    AnswersAreTrue
PROPERTIES
    OnlyTransfersTear
    CreatorIsNotDemoted
