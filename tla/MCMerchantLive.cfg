CONSTANTS
    o1 = o1  o2 = o2  p1 = p1  p2 = p2  r1 = r1
    None = None
    Orders = {o1}
    Payments = {p1, p2}
    Relays = {r1}
    Pays <- TwicePays
    Splits = {p2}
    Rails = 2
    RailOf <- TwiceRailOf
    Wraps <- TwiceWraps
    MaxReceipts = 1
    Wanted = 1
    Repeats = 1
    InFlightMax = 1
    MaxCrashes = 1
    MaxBadWrites = 0
    CalmComes = TRUE
SPECIFICATION FairSpec
PROPERTIES UnresolvedIsKept PaidIsTold 
CHECK_DEADLOCK FALSE
