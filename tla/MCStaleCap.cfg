CONSTANTS
    Jobs = {1, 2}
    Proofs = {"p", "q"}
    Owners = {"alice"}
    ProofOf <- OwnProofs
    OwnerOf <- OwnProofsOwner
    Price <- UnitPrice
    Floor <- UnitPrice
    Cap <- CapOfOne
    Expiry = 1
    Skew = 1
    MaxCrashes = 0
SPECIFICATION Spec
INVARIANT CapIsNotOversubscribed
CHECK_DEADLOCK FALSE
