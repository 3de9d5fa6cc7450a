----------------------------- MODULE Settlement -----------------------------
(***************************************************************************)
(* What a record of payments promises, whoever keeps it (the provider's    *)
(* JobLedger, the store's MerchantNode, the proofs of DelegatedPull, the   *)
(* orders of BuyerOrders): a payment is spent on one order, once, and      *)
(* stays spent on it.  How many steps, files, crashes and retries it takes *)
(* is not said here.                                                       *)
(***************************************************************************)
CONSTANTS Payments, Orders

VARIABLE spent    \* <<p, o>>: payment p has been spent on order o

Once(S) == \A a, b \in S : a[1] = b[1] => a = b

Init == spent \in SUBSET (Payments \X Orders) /\ Once(spent)

\* Some payments are spent; what was spent before stays so.
Spend == spent \subseteq spent' /\ spent' \subseteq Payments \X Orders /\ Once(spent')

Spec == Init /\ [][Spend]_spent
=============================================================================
