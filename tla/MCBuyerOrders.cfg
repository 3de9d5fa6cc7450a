CONSTANTS
    Orders = {1, 2}
    MaxAttempts = 2
    None = None
    Tabs = {t1, t2}
    Wallets = {w1, w2}
    RailSets <- EveryPair
    Valid = 1
SPECIFICATION Spec
INVARIANTS TypeOK  PaidOncePerOrder InFlightIsOnRecord FreedIsUnpaid
SYMMETRY Symmetry
CHECK_DEADLOCK FALSE
