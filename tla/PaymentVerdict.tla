--------------------------- MODULE PaymentVerdict ---------------------------
(***************************************************************************)
(* When recovery may close a job because nobody paid                       *)
(* (packages/cli/src/payment-recovery.ts and the recovery tick that drives *)
(* it): the backoff ladder, the scan budget, the window the customer was   *)
(* given, the two looks and the proof of the RPC endpoint, with time.      *)
(*                                                                         *)
(* Time is counted in half recovery ticks, the width of the jitter.  Every *)
(* timer holds what is left of it.  A look at the chain takes any time.    *)
(* Jobs are numbered in the order the ledger lists them.                   *)
(***************************************************************************)
EXTENDS Integers, FiniteSets, Sequences

CONSTANTS
    Jobs,
    Rungs,       \* RECOVERY_DEFER_BACKOFF_TICKS
    MinRung,     \* TERMINAL_CONFIRMATION_MIN_RUNG
    ScanBudget,  \* recoveryScanBudgetPerTick
    Window,      \* length of the payment window, in half ticks
    MaxLag       \* how long the index may hide a confirmed payment, in half ticks

ASSUME LadderAssumption ==
    /\ Jobs \subseteq Nat
    /\ Rungs \in Seq(Nat \ {0})
    /\ MinRung \in 1..Len(Rungs)
    /\ {ScanBudget, Window} \subseteq Nat \ {0}
    /\ MaxLag \in Nat

\* The shortest wait before a confirming look, and the half tick at least between
\* the payment and the first look, outlast the lag of the index.
ASSUME LagAssumption == \A r \in MinRung..Len(Rungs) : MaxLag <= 2 * Rungs[r]

VARIABLES
    half,      \* half a tick past the last tick
    ticked,    \* the tick that is due now has run
    job,       \* [Jobs -> {"open", "settled", "unpaid"}]
    window,    \* half ticks until the payment request expires
    payment,   \* [Jobs -> "none" | half ticks until the index shows it]
    look,      \* [Jobs -> Looks], where the look at a job in flight stands
    wait,      \* half ticks until nextAttemptAt
    attempts,  \* rung of the ladder, stopped at the last one
    saw,       \* jobs whose last look was empty after the window
    faults,    \* history: jobs that had an inconclusive look
    flaky,     \* RPC calls and file writes may fail
    serves,    \* what the RPC endpoint serves: "chain" or "nothing"
    endpoint,  \* endpointSoundness
    slot       \* endpointProbe: no promise, a pending one, or one that resolved to false

vars == <<half, ticked, job, window, payment, look, wait, attempts, saw, faults, flaky,
          serves, endpoint, slot>>

timers == <<half, ticked, window, payment>>
world == <<flaky, serves>>
probe == <<endpoint, slot>>
ladder == <<wait, attempts, saw, faults>>

Looks == {"none", "listing", "empty", "asking", "trusted", "untrusted"}

\* No lag is that long.
NotPaid == MaxLag + 1

Open == {j \in Jobs : job[j] = "open"}

(***************************************************************************)
(* RecoveryDeferrals.                                                      *)
(***************************************************************************)
\* recoveryDeferDelayMs: the jitter is half a tick to either side.
Delays(rung) == (2 * Rungs[rung] - 1)..(2 * Rungs[rung] + 1)

\* The lookup stops at the last rung, and so does the count kept here.
NextRung(j) == IF attempts[j] < Len(Rungs) THEN attempts[j] + 1 ELSE Len(Rungs)

\* Mutant: the wait before the confirming look is not floored.
LadderRung(n, empty) == n

RungOfWait(n, empty) == IF empty /\ n < MinRung THEN MinRung ELSE n

\* note: one rung up; the wait after an empty look past the window is floored.
note(j, empty) ==
    /\ attempts' = [attempts EXCEPT ![j] = NextRung(j)]
    /\ \E d \in Delays(RungOfWait(NextRung(j), empty)) : wait' = [wait EXCEPT ![j] = d]
    /\ saw' = IF empty THEN saw \cup {j} ELSE saw \ {j}
    /\ faults' = IF empty THEN faults ELSE faults \cup {j}

\* Mutant: an empty look inside the window climbs the ladder like any other.
noteClimbing(j) ==
    /\ attempts' = [attempts EXCEPT ![j] = NextRung(j)]
    /\ \E d \in Delays(NextRung(j)) : wait' = [wait EXCEPT ![j] = d]
    /\ saw' = saw \ {j}
    /\ UNCHANGED faults

noteAwaitingWindow(j) ==
    /\ \E d \in Delays(1) : wait' = [wait EXCEPT ![j] = d]
    /\ saw' = saw \ {j}
    /\ UNCHANGED <<attempts, faults>>

\* clear, when the payment is confirmed.
clear(j) ==
    /\ wait' = [wait EXCEPT ![j] = 0]
    /\ attempts' = [attempts EXCEPT ![j] = 0]
    /\ saw' = saw \ {j}
    /\ UNCHANGED faults

(***************************************************************************)
(* The tick: the first jobs that are due get a look, the others are parked *)
(* for less than a tick, which changes nothing else about them.            *)
(***************************************************************************)
Due == {j \in Open : look[j] = "none" /\ wait[j] = 0}

Chosen == {j \in Due : Cardinality({i \in Due : i < j}) < ScanBudget}

Tick ==
    /\ half = 0 /\ ~ticked /\ ticked' = TRUE
    /\ look' = [j \in Jobs |-> IF j \in Chosen THEN "listing" ELSE look[j]]
    /\ \E parked \in [Due \ Chosen -> {0, 1}] :
          wait' = [j \in Jobs |-> IF j \in DOMAIN parked THEN parked[j] ELSE wait[j]]
    /\ UNCHANGED <<half, job, window, payment, attempts, saw, faults, world, probe>>

(***************************************************************************)
(* One look: reVerifyPayment and what recoverSingleJob does with it.       *)
(***************************************************************************)
Inconclusive(j) ==
    /\ note(j, FALSE)
    /\ look' = [look EXCEPT ![j] = "none"]
    /\ UNCHANGED job

Visible(j) == serves = "chain" /\ payment[j] = 0

\* The reference scan.  An error, a deadline or a refused claim may spoil it.
List(j) ==
    /\ look[j] = "listing"
    /\ \/ flaky /\ Inconclusive(j)
       \/ /\ Visible(j)
          /\ job' = [job EXCEPT ![j] = "settled"]
          /\ look' = [look EXCEPT ![j] = "none"]
          /\ clear(j)
       \/ /\ ~Visible(j)
          /\ look' = [look EXCEPT ![j] = "empty"]
          /\ UNCHANGED <<job, ladder>>
    /\ UNCHANGED <<timers, world, probe>>

AwaitWindow(j) ==
    /\ look[j] = "empty" /\ window[j] > 0
    /\ noteAwaitingWindow(j)
    /\ look' = [look EXCEPT ![j] = "none"]
    /\ UNCHANGED <<timers, job, world, probe>>

\* endpointMayIssueTerminalVerdict: a cached answer, or one shared probe.
AskEndpoint(j) ==
    /\ look[j] = "empty" /\ window[j] = 0
    /\ look' = [look EXCEPT ![j] = CASE endpoint = "sound" -> "trusted"
                                     [] endpoint = "wrong-cluster" -> "untrusted"
                                     [] slot = "failed" -> "untrusted"
                                     [] OTHER -> "asking"]
    /\ slot' = IF endpoint = "unchecked" /\ slot = "free" THEN "pending" ELSE slot
    /\ UNCHANGED <<timers, job, ladder, world, endpoint>>

\* Mutant: an endpoint that answers at all is trusted.
Answers == {"sound", "unchecked"}

\* What the probe can find out: it fails, or it sees what the endpoint serves.
Findings ==
    {IF serves = "chain" THEN "sound" ELSE "wrong-cluster"} \cup IF flaky THEN {"unchecked"} ELSE {}

\* Mutant: the slot of the shared probe keeps a failed answer.
Pinned(found) == IF found = "unchecked" THEN "failed" ELSE "free"

\* What is left in the slot once the probe has settled.
Released(found) == "free"

Asking == {j \in Jobs : look[j] = "asking"}

ProbeAnswers ==
    /\ slot = "pending"
    /\ \E found \in Findings :
          /\ endpoint' = found
          /\ slot' = Released(found)
          /\ look' = [j \in Jobs |-> IF j \notin Asking THEN look[j]
                                     ELSE IF found = "sound" THEN "trusted" ELSE "untrusted"]
    /\ UNCHANGED <<timers, job, ladder, world>>

Distrust(j) ==
    /\ look[j] = "untrusted"
    /\ Inconclusive(j)
    /\ UNCHANGED <<timers, world, probe>>

\* The first clean look is only noted; a second one in a row closes the job.
Verdict(j) ==
    /\ look[j] = "trusted"
    /\ look' = [look EXCEPT ![j] = "none"]
    /\ IF j \in saw
       THEN job' = [job EXCEPT ![j] = "unpaid"] /\ UNCHANGED ladder
       ELSE note(j, TRUE) /\ UNCHANGED job
    /\ UNCHANGED <<timers, world, probe>>

(***************************************************************************)
(* The customers and the clock.                                            *)
(***************************************************************************)
\* The customer pays inside the window; the index shows it later.
Pay(j) ==
    /\ window[j] > 0 /\ payment[j] = NotPaid
    /\ \E lag \in 0..MaxLag : payment' = [payment EXCEPT ![j] = lag]
    /\ UNCHANGED <<half, ticked, job, window, look, ladder, world, probe>>

\* Mutant: a timer runs on past its end.
LessUnguarded(n) == n - 1

Less(n) == IF n = 0 THEN 0 ELSE n - 1

Pass ==
    /\ half = 0 => ticked
    /\ half' = 1 - half /\ ticked' = FALSE
    /\ window' = [j \in Jobs |-> Less(window[j])]
    /\ payment' = [j \in Jobs |-> IF payment[j] = NotPaid THEN NotPaid ELSE Less(payment[j])]
    /\ wait' = [j \in Jobs |-> Less(wait[j])]
    /\ UNCHANGED <<job, look, attempts, saw, faults, world, probe>>

\* The outage ends.
Calm ==
    /\ flaky /\ flaky' = FALSE
    /\ UNCHANGED <<timers, job, look, ladder, serves, probe>>

\* The agent stops and starts again, perhaps with another endpoint: every deferral
\* and what was known of the endpoint are forgotten.  The time it is down is that
\* of looks that do not end.
Restart ==
    /\ flaky
    /\ half' = 0 /\ ticked' = FALSE
    /\ look' = [j \in Jobs |-> "none"]
    /\ wait' = [j \in Jobs |-> 0] /\ attempts' = [j \in Jobs |-> 0] /\ saw' = {}
    /\ endpoint' = "unchecked" /\ slot' = "free"
    /\ serves' \in {"chain", "nothing"}
    /\ UNCHANGED <<job, window, payment, faults, flaky>>

Init ==
    /\ half = 0 /\ ticked = FALSE
    /\ job = [j \in Jobs |-> "open"]
    /\ window = [j \in Jobs |-> Window]
    /\ payment = [j \in Jobs |-> NotPaid]
    /\ look = [j \in Jobs |-> "none"]
    /\ wait = [j \in Jobs |-> 0] /\ attempts = [j \in Jobs |-> 0]
    /\ saw = {} /\ faults = {}
    /\ flaky = TRUE /\ serves \in {"chain", "nothing"}
    /\ endpoint = "unchecked" /\ slot = "free"

LookStep(j) == List(j) \/ AwaitWindow(j) \/ AskEndpoint(j) \/ Distrust(j) \/ Verdict(j)

Next ==
    \/ Tick \/ Pass \/ ProbeAnswers \/ Calm \/ Restart
    \/ \E j \in Jobs : LookStep(j) \/ Pay(j)

Spec == Init /\ [][Next]_vars

\* Time passes, ticks fire, looks and probes end, and so does an outage.
FairSpec ==
    /\ Spec /\ WF_vars(Tick) /\ WF_vars(Pass) /\ WF_vars(ProbeAnswers) /\ WF_vars(Calm)
    /\ \A j \in Jobs : WF_vars(LookStep(j))

-----------------------------------------------------------------------------
\* Every variable keeps its type.
TypeOK ==
    /\ half \in {0, 1} /\ ticked \in BOOLEAN
    /\ job \in [Jobs -> {"open", "settled", "unpaid"}]
    /\ window \in [Jobs -> 0..Window]
    /\ payment \in [Jobs -> 0..MaxLag \cup {NotPaid}]
    /\ look \in [Jobs -> Looks]
    /\ wait \in [Jobs -> Nat] /\ attempts \in [Jobs -> 0..Len(Rungs)]
    /\ saw \subseteq Jobs /\ faults \subseteq Jobs
    /\ flaky \in BOOLEAN /\ serves \in {"chain", "nothing"}
    /\ endpoint \in {"unchecked", "sound", "wrong-cluster"}
    /\ slot \in {"free", "pending", "failed"}

\* A customer who paid inside the window is never closed as unpaid, though the
\* index may hide the payment for MaxLag and the endpoint may serve another
\* chain (TERMINAL_CONFIRMATION_MIN_RUNG, endpointMayIssueTerminalVerdict).
PayerIsNeverDenied == \A j \in Jobs : job[j] = "unpaid" => payment[j] = NotPaid

\* While the window is open and no look has failed, a job is looked at again
\* within the first rung and its jitter: empty looks inside the window do not climb
\* the ladder (noteAwaitingWindow), nor does waiting for the scan budget.
WindowIsWatched == \A j \in Open \ faults : window[j] > 0 => wait[j] <= 2 * Rungs[1] + 1

\* Once an outage is over and the endpoint serves the chain, a job nobody pays is
\* closed, whatever the outage and restarts did to its looks, to the cached
\* answers about the endpoint and to the jobs it shares the scan budget with
\* (endpointProbe, parkForCapacity).
UnpaidIsClosed ==
    \A j \in Jobs :
        (/\ ~flaky /\ serves = "chain"
         /\ job[j] = "open" /\ window[j] = 0 /\ payment[j] = NotPaid) ~> job[j] = "unpaid"
=============================================================================
