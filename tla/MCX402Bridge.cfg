CONSTANTS
    Jobs = {1}
    Sigs = {s1}
    NoSig = NoSig
    NoJob = NoJob
    Ledgers <- NoLedger
    Ticks = {"tick1"}
    MaxRetries = 1
    ScanBudget = 1
    MaxQueue = 2
    MaxBadWrites = 1
    MaxCrashes = 1
    MaxPaidAttempts = 1
    MaxSignatures = 2
    FreeRetries = 1
    RefundedRetries = 1
    MaxBadSaves = 1
SPECIFICATION FairBSpec
INVARIANTS ReexecutionBounded NeverCalledUnpaid SpendIsBounded
PROPERTIES PermanentFailureIsFinal EveryJobEnds ResultIsBoughtOnce
