CONSTANTS
    Jobs = {1, 2}
    Sigs = {s1}
    NoSig = NoSig
    NoJob = NoJob
    Ledgers <- OneAwaiting
    Ticks = {"tick1"}
    MaxRetries = 1
    ScanBudget = 1
    MaxQueue = 1
    MaxBadWrites = 0
    MaxCrashes = 1
SPECIFICATION Spec
INVARIANTS WorkIsSettled 
