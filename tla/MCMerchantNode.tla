--------------------------- MODULE MCMerchantNode ---------------------------
(* merchant_node: one payment that verifies for two orders (they are of one *)
(* product), found by the sweep and named by a receipt of the second order. *)
(* merchant_live: one order, two payments on two chains, the second with a  *)
(* fee part.                                                                *)
EXTENDS MerchantNode, TLC

CONSTANTS o1, o2, p1, p2, r1

SharedPays == p1 :> {o1, o2}
SharedRailOf == p1 :> 1
TwicePays == p1 :> {o1} @@ p2 :> {o1}
TwiceRailOf == p1 :> 1 @@ p2 :> 2

order(o) == [type |-> "order", order |-> o, tx |-> None]
receipt(o, p) == [type |-> "receipt", order |-> o, tx |-> p]
SharedWraps == {order(o1), order(o2), receipt(o2, p1)}
TwiceWraps == {order(o1)}
=============================================================================
