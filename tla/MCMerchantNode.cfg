CONSTANTS
    o1 = o1  o2 = o2  p1 = p1  p2 = p2  r1 = r1
    None = None
    Orders = {o1, o2}
    Payments = {p1}
    Relays = {r1}
    Pays <- SharedPays
    Splits = {}
    Rails = 1
    RailOf <- SharedRailOf
    Wraps <- SharedWraps
    MaxReceipts = 1
    Wanted = 1
    Repeats = 1
    InFlightMax = 1
    MaxCrashes = 1
    MaxBadWrites = 0
    CalmComes = FALSE
SPECIFICATION Spec
INVARIANTS TypeOK AnnouncedOnce AnsweredIsNotTold OrderIsNotLost
PROPERTIES AckedIsNotResent ClaimsAreSettled
CHECK_DEADLOCK FALSE
