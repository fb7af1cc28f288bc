CONSTANTS
    s1 = s1
    s2 = s2
    w1 = w1
    w2 = w2
    NoSession = NoSession
    Sessions = {s1}
    Workers = {w1, w2}
    TTL = 1
    MaxDelay = 1
    MaxVersion = 1
    MaxActs = 1
SPECIFICATION Spec
CHECK_DEADLOCK FALSE
SYMMETRY Alike
VIEW Seen
PROPERTIES
    LetInForGrace
    ShutOutForGrace
    BanStands
