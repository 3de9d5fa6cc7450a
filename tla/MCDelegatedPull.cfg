CONSTANTS
    Jobs = {1, 2}
    Proofs = {"p"}
    Owners = {"alice"}
    ProofOf <- OneProof
    OwnerOf <- OneProofOwner
    Price <- MeteredPrice
    Floor <- MeteredFloor
    Cap <- CapOfTwo
    Expiry = 1
    Skew = 1
    MaxCrashes = 1
SPECIFICATION FairSpec
INVARIANTS TypeOK NonceIsBurnedOnce UnchargedIsTrue ChargedIsRecoverable ReservationsAreExact
PROPERTY ChargedIsAnswered
CHECK_DEADLOCK FALSE
