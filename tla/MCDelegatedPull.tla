--------------------------- MODULE MCDelegatedPull ---------------------------
(* Instances of DelegatedPull for TLC. *)
EXTENDS DelegatedPull, TLC

\* Two jobs that present one proof, and one owner.
OneProof == (1 :> "p") @@ (2 :> "p")
OneProofOwner == ("p" :> "alice")

\* Two jobs of one owner with a proof each.
OwnProofs == (1 :> "p") @@ (2 :> "q")
OwnProofsOwner == ("p" :> "alice") @@ ("q" :> "alice")

\* Prices: one metered skill and one flat skill; or two of one subunit.
MeteredPrice == (1 :> 2) @@ (2 :> 1)
MeteredFloor == (1 :> 1) @@ (2 :> 1)
UnitPrice == (1 :> 1) @@ (2 :> 1)

CapOfOne == ("alice" :> 1)
CapOfTwo == ("alice" :> 2)
=============================================================================
