---------------------------- MODULE MCJobLedger ----------------------------
(* Instances of JobLedger for TLC. *)
EXTENDS JobLedgerProofs, TLC

SigSymmetry == Permutations(Sigs)

\* A first start, and a file with a job that paid and was never confirmed.
CleanLedgers ==
    {Empty} \cup {[Empty EXCEPT ![1] = [Blank EXCEPT !.sig = s]] : s \in Sigs}
=============================================================================
