---------------------------- MODULE MCJobRuntime ----------------------------
(* Instances of JobRuntime for TLC. *)
EXTENDS JobRuntimeProofs

NoEntry == [status |-> "absent", sig |-> NoSig, net |-> FALSE, old |-> FALSE]
Unconfirmed == [NoEntry EXCEPT !.status = "paid"]

NoLedger == {[j \in Jobs |-> NoEntry]}

\* A file that a crash left behind: job 1 was asked for its payment, which was
\* not seen; the others are still to come.
OneAwaiting == {[j \in Jobs |-> IF j = 1 THEN Unconfirmed ELSE NoEntry]}

\* Files with every job settled and not yet worked on.
SettledOnFile ==
    {[j \in Jobs |-> [Unconfirmed EXCEPT !.sig = s[j], !.net = TRUE]] :
        s \in {f \in [Jobs -> Sigs] : \A i, j \in Jobs : f[i] = f[j] => i = j}}
=============================================================================
