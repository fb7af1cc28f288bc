CONSTANTS
    u = u
    c1 = c1
    c2 = c2
    NoUser = NoUser
    NoClient = NoClient
    Users = {u}
    Clients = {c1, c2}
    Owner <- TwoOfOne
    Guarded = {c1}
    Senders = {h1}
    Hub = hub
    Capacity = 1
SPECIFICATION Spec
CHECK_DEADLOCK FALSE
INVARIANTS
    NoPanic
