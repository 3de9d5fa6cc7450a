CONSTANTS
    Jobs = {1}
    Sigs = {s1}
    NoSig = NoSig
    NoJob = NoJob
    Ledgers <- NoLedger
    Ticks = {"tick1"}
    MaxRetries = 1
    ScanBudget = 1
    MaxQueue = 2
    MaxBadWrites = 0
    MaxCrashes = 1
SPECIFICATION Spec
PROPERTY InterruptedJobIsKept
