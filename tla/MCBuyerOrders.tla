--------------------------- MODULE MCBuyerOrders ----------------------------
(* Instances of BuyerOrders for TLC. *)
EXTENDS BuyerOrders, TLC

\* The pairs of rails two orders of one product are tried on.
Pair(r, s) == (1 :> r) @@ (2 :> s)

EveryPair == {Pair("solana", "tempo"), Pair("eip3009", "solana"), Pair("tempo", "eip3009")}

Symmetry == Permutations(Tabs) \cup Permutations(Wallets)
=============================================================================
