CONSTANTS
    Jobs = {1, 2}
    Rungs <- ShortLadder
    MinRung = 2
    ScanBudget = 1
    Window = 3
    MaxLag = 3
SPECIFICATION FairSpec
INVARIANTS TypeOK PayerIsNeverDenied 
PROPERTY UnpaidIsClosed
