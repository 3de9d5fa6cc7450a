CONSTANTS
    Procs = {p1, p2}
    Pids = {1, 2}
    Places = {h1, h2}
    Orders = {o1, o2}
    MaxOrders = 1
    MaxCalls = 3
    None = None
    Blank = Blank
SPECIFICATION FairSpec
INVARIANT TypeOK
PROPERTIES UpdatesAreKept CallsEnd
