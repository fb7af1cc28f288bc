CONSTANTS
    a = a
    b = b
    k1 = k1
    k2 = k2
    k3 = k3
    w1 = w1
    w2 = w2
    w3 = w3
    NoKey = NoKey
    Nobody = Nobody
    Chats = {1, 2}
    Participants = {a, b}
    Keys = {k1, k2, k3}
    Workers = {w1, w2}
SPECIFICATION FairSpec
CHECK_DEADLOCK FALSE
INVARIANTS
    OneKey
PROPERTIES
    KeySpec
    BatchesEnd
