---------------------------- MODULE MCX402Bridge ----------------------------
(* Instances of X402Bridge for TLC. *)
EXTENDS X402BridgeProofs

NoEntry == [status |-> "absent", sig |-> NoSig, net |-> FALSE, old |-> FALSE]
NoLedger == {[j \in Jobs |-> NoEntry]}
=============================================================================
