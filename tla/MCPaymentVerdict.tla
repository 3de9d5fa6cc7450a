-------------------------- MODULE MCPaymentVerdict --------------------------
(* Instances of PaymentVerdict for TLC. *)
EXTENDS PaymentVerdictProofs

\* The first rungs of RECOVERY_DEFER_BACKOFF_TICKS, which is <<1, 2, 5, 15, 30, 60>>.
ShortLadder == <<1, 2>>
=============================================================================
