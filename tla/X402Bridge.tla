----------------------------- MODULE X402Bridge -----------------------------
(***************************************************************************)
(* The paid upstream bridge (packages/cli/src/x402/driver.ts and store.ts) *)
(* under the provider runtime: the skill of every job buys its result from *)
(* an upstream that is paid per request and may answer anything.  What a   *)
(* call has spent and bought is in a file of its own, beside the ledger.   *)
(*                                                                         *)
(* A call is one execute() of the driver; it exists while its worker is at *)
(* "exec".  A call the runtime gives up on leaves no store write behind    *)
(* that ends after the job is dispatched again.                            *)
(***************************************************************************)
EXTENDS JobRuntime

CONSTANTS
    MaxPaidAttempts,   \* X402_MAX_PAID_ATTEMPTS
    MaxSignatures,     \* X402_MAX_PAYMENT_SIGNATURES
    FreeRetries,       \* entries of X402_FREE_RETRY_DELAYS_MS
    RefundedRetries,   \* X402_REFUNDED_RETRIES
    MaxBadSaves        \* bound on failed writes of the store

VARIABLES
    record,    \* [Jobs -> X402JobRecord], the file
    call,      \* [Workers -> [Jobs -> the execute() under way]]
    sent,      \* history: signed payments that left the process, per job
    refused,   \* history: those the upstream answered with a 402
    badSaves

ASSUME BridgeAssumption ==
    {MaxPaidAttempts, MaxSignatures, FreeRetries, RefundedRetries, MaxBadSaves} \subseteq Nat

bridgeVars == <<record, call, sent, refused, badSaves>>
bvars == <<vars, bridgeVars>>

CallSteps == {"none", "lookup", "unpaid", "claim", "granted", "paid", "refund", "body", "freeBody",
              "done", "transient", "permanent", "raw"}

NoRecord == [attempts |-> 0, signatures |-> 0, saved |-> FALSE]
NoCall   == [step |-> "none", free |-> 0, refunded |-> 0]
NewCall  == [NoCall EXCEPT !.step = "lookup"]

Doing(w, j, step) == at[w][j] = "exec" /\ call[w][j].step = step

To(w, j, step) == call' = [call EXCEPT ![w][j].step = step]

\* One read-modify-write of the store; its queue lets no other in between.
Save(j, r, ok) ==
    /\ ok \/ badSaves < MaxBadSaves
    /\ record' = IF ok THEN [record EXCEPT ![j] = r] ELSE record
    /\ badSaves' = IF ok THEN badSaves ELSE badSaves + 1

\* Mutant: the inline retries that cost no money have no end.
RetryForEver(w, j) == To(w, j, "unpaid")

\* A failure before any payment of this attempt left: one more try, or the
\* error goes to the runtime.
RetryFree(w, j) ==
    LET c == call[w][j]
    IN  IF c.free < FreeRetries
        THEN call' = [call EXCEPT ![w][j] = [c EXCEPT !.step = "unpaid", !.free = c.free + 1]]
        ELSE To(w, j, "transient")

(***************************************************************************)
(* execute() and attemptUpstream(), from one await to the next.            *)
(***************************************************************************)
\* Mutant: the cache is not looked at.
LookUpNothing(w, j) ==
    /\ Doing(w, j, "lookup") /\ To(w, j, "unpaid")
    /\ UNCHANGED <<record, sent, refused, badSaves>>

\* The result was bought before; or the input and the wallet are checked again.
LookUp(w, j) ==
    /\ Doing(w, j, "lookup")
    /\ \E step \in IF record[j].saved THEN {"done"} ELSE {"unpaid", "permanent", "raw"} :
          To(w, j, step)
    /\ UNCHANGED <<record, sent, refused, badSaves>>

\* The request without a payment: an error, a refusal, a result for nothing, or
\* a 402 whose challenge the wallet signs.
AskUnpaid(w, j) ==
    /\ Doing(w, j, "unpaid")
    /\ \/ RetryFree(w, j)
       \/ \E step \in {"permanent", "freeBody", "claim"} : To(w, j, step)
    /\ UNCHANGED <<record, sent, refused, badSaves>>

OverBudgetOf(r) == r.signatures >= MaxSignatures \/ r.attempts >= MaxPaidAttempts

Claimed(r) == [r EXCEPT !.attempts = r.attempts + 1, !.signatures = r.signatures + 1]

claimPaidAttempt(w, j) ==
    /\ Doing(w, j, "claim")
    /\ IF OverBudgetOf(record[j])
       THEN To(w, j, "permanent") /\ UNCHANGED <<record, badSaves>>
       ELSE \E ok \in BOOLEAN :
              /\ Save(j, Claimed(record[j]), ok)
              /\ IF ok THEN To(w, j, "granted") ELSE RetryFree(w, j)
    /\ UNCHANGED <<sent, refused>>

\* The signed request leaves the process.
SendPaid(w, j) ==
    /\ Doing(w, j, "granted")
    /\ To(w, j, "paid")
    /\ sent' = [sent EXCEPT ![j] = @ + 1]
    /\ UNCHANGED <<record, refused, badSaves>>

\* Its answer, if one comes.  A 402 says the payment was not taken.
Answered(w, j) ==
    /\ Doing(w, j, "paid")
    /\ \/ \E step \in {"body", "transient", "permanent"} : To(w, j, step) /\ UNCHANGED refused
       \/ To(w, j, "refund") /\ refused' = [refused EXCEPT ![j] = @ + 1]
    /\ UNCHANGED <<record, sent, badSaves>>

\* Mutant: a refund gives the signature back, too.
RefundedOf(r) == [r EXCEPT !.attempts = r.attempts - 1, !.signatures = r.signatures - 1]

Refunded(r) == IF r.attempts = 0 THEN r ELSE [r EXCEPT !.attempts = r.attempts - 1]

\* The slot goes back before the inline retry is considered; a refund that is
\* not written leaves the slot spent and ends the call.
refundPaidAttempt(w, j) ==
    /\ Doing(w, j, "refund")
    /\ \E ok \in BOOLEAN :
          /\ Save(j, Refunded(record[j]), ok)
          /\ IF ok /\ call[w][j].refunded < RefundedRetries
             THEN LET c == call[w][j]
                  IN  call' = [call EXCEPT ![w][j] =
                                [c EXCEPT !.step = "unpaid", !.refunded = c.refunded + 1]]
             ELSE To(w, j, "transient")
    /\ UNCHANGED <<sent, refused>>

\* The body of a 2xx is read and saved before it is returned.  Too large a body
\* is final; a broken connection is not, and costs nothing if nothing was paid;
\* a failed write is no error the driver classifies.
TakeBody(w, j) ==
    /\ Doing(w, j, "body") \/ Doing(w, j, "freeBody")
    /\ \/ \E ok \in BOOLEAN :
            /\ Save(j, [record[j] EXCEPT !.saved = TRUE], ok)
            /\ To(w, j, IF ok THEN "done" ELSE "raw")
       \/ To(w, j, "permanent") /\ UNCHANGED <<record, badSaves>>
       \/ /\ IF Doing(w, j, "body") THEN To(w, j, "transient") ELSE RetryFree(w, j)
          /\ UNCHANGED <<record, badSaves>>
    /\ UNCHANGED <<sent, refused>>

CallStep(w, j) ==
    /\ \/ LookUp(w, j) \/ AskUnpaid(w, j) \/ claimPaidAttempt(w, j) \/ SendPaid(w, j)
       \/ Answered(w, j) \/ refundPaidAttempt(w, j) \/ TakeBody(w, j)
    /\ UNCHANGED vars

(***************************************************************************)
(* The runtime around the calls.                                           *)
(***************************************************************************)
\* What the runtime makes of a call: it delivers only a result, keeps a job
\* whose error is transient or whose budget ran out, wherever the call was, and
\* closes one whose error is final or not classified.  Recovery closes a job
\* here only before the call, when its input file is gone.
Heeds(w, j) ==
    LET step == call[w][j].step
    IN  at[w][j] = "exec" /\ at'[w][j] # "exec" =>
          /\ at'[w][j] = "deliver" \/ entries'[j].status = "executed" => step = "done"
          /\ at'[w][j] = "keep" => step # "permanent"
          /\ at'[w][j] = "close" => step \in {"lookup", "permanent", "raw", "done"}
          /\ w # Live /\ entries'[j].status = "failed" => step = "lookup"

\* The call starts and ends with the worker's stay at "exec".
CallsAfter ==
    [w \in Workers |-> [j \in Jobs |->
        IF at'[w][j] # "exec" THEN NoCall
        ELSE IF at[w][j] = "exec" THEN call[w][j] ELSE NewCall]]

\* sweepExpired, at the start of a process: records past their retention, which
\* is longer than the 24 hours a job is worked on.
Expired == late

Follows ==
    /\ \A w \in Workers, j \in Jobs : Heeds(w, j)
    /\ call' = CallsAfter
    /\ \E old \in SUBSET Expired :
          /\ old # {} => ~up /\ up'
          /\ record' = [j \in Jobs |-> IF j \in old THEN NoRecord ELSE record[j]]
    /\ UNCHANGED <<sent, refused, badSaves>>

RuntimeStep == Next /\ Follows

BInit ==
    /\ Init
    /\ record = [j \in Jobs |-> NoRecord]
    /\ call = [w \in Workers |-> [j \in Jobs |-> NoCall]]
    /\ sent = [j \in Jobs |-> 0] /\ refused = [j \in Jobs |-> 0]
    /\ badSaves = 0

BNext ==
    \/ RuntimeStep
    \/ ThreadFree /\ \E w \in Workers, j \in Jobs : CallStep(w, j)

BSpec == BInit /\ [][BNext]_bvars

CallEnded(w, j) == call[w][j].step \in {"none", "done", "transient", "permanent", "raw"}

\* The runtime's fairness, but no operator needs to configure a budget: a call
\* that never ended would keep its job.  Every await of a call ends.
BFairness ==
    /\ WF_bvars(Start /\ Follows) /\ WF_bvars(stopping /\ Crash /\ Follows)
    /\ \A w \in Workers, j \in Jobs :
          /\ SF_bvars(ThreadFree /\ CallStep(w, j))
          /\ SF_bvars(ThreadFree /\ CallEnded(w, j) /\ WorkerStep(w, j) /\ Follows)
    /\ \A w \in Ticks : /\ SF_bvars(ThreadFree /\ (TickStart(w) \/ TickResume(w)) /\ Follows)
                        /\ WF_bvars(TickWalk(w) /\ Follows)
    /\ \A j \in Jobs : /\ WF_bvars(WindowOver(j) /\ Follows) /\ WF_bvars(Late(j) /\ Follows)
                       /\ WF_bvars(Due(j) /\ Follows)

FairBSpec == BSpec /\ BFairness

-----------------------------------------------------------------------------
\* The money one job can cost the operator, over every retry, abort, failed
\* write, crash and restart and whatever the upstream answers: no more signed
\* payments than the hard cap, and no more of those the upstream did not refuse
\* than the paid attempts (claimPaidAttempt, refundPaidAttempt, sweepExpired).
SpendIsBounded ==
    \A j \in Jobs : sent[j] <= MaxSignatures /\ sent[j] - refused[j] <= MaxPaidAttempts

\* A result that was bought and saved is never bought again: a retry of the job
\* delivers it (getResult, saveTextResult, saveFileResult).
ResultIsBoughtOnce == [][\A j \in Jobs : record[j].saved => sent'[j] = sent[j]]_bvars
=============================================================================
