CONSTANTS
    Jobs = {1, 2}
    Sigs = {s1, s2}
    NoSig = NoSig
    NoJob = NoJob
    Ledgers <- CleanLedgers
SPECIFICATION Spec
INVARIANTS TypeOK SettledStaysOwned MarksAreDurable
PROPERTIES ReleasedSettledNothing LedgerSettles
SYMMETRY SigSymmetry
