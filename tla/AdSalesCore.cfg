CONSTANTS
    u = u
    p = p
    q = q
    o1 = o1
    o2 = o2
    s1 = s1
    s2 = s2
    s3 = s3
    w1 = w1
    w2 = w2
    NoUser = NoUser
    NoPackage = NoPackage
    NoOrder = NoOrder
    NoSub = NoSub
    Users = {u}
    Packages = {p, q}
    Orders = {o1}
    Subs = {s1, s2}
    Workers = {w1, w2}
    MaxDirect = 1
    MaxTrouble = 2
SPECIFICATION FairSpec
CHECK_DEADLOCK FALSE
PROPERTIES
    NeverLeftWithout
    SaleSpec
    MoneyIsHonoured
    PartnerLapses
