CONSTANTS
    Jobs = {1, 2}
    Sigs = {s1, s2}
    NoSig = NoSig
    NoJob = NoJob
    Ledgers <- SettledOnFile
    Ticks = {"tick1", "tick2"}
    MaxRetries = 1
    ScanBudget = 1
    MaxQueue = 2
    MaxBadWrites = 0
    MaxCrashes = 0
SPECIFICATION Spec
PROPERTY PermanentFailureIsFinal
