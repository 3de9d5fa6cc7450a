----------------------------- MODULE JobRuntime -----------------------------
(***************************************************************************)
(* The provider runtime on the flat paid path (packages/cli/src/runtime.ts *)
(* with payment-recovery.ts): live jobs, the recovery ticks and the jobs   *)
(* they dispatch, all interleaving at every await, over one JobLedger      *)
(* whose writes may fail and whose process may crash.                      *)
(*                                                                         *)
(* A worker is the live handler or one recovery tick's dispatch of a job;  *)
(* at[w][j] is the await worker w of job j is suspended at.  The ledger is *)
(* younger than its retention period here, so nothing is pruned.           *)
(***************************************************************************)
EXTENDS Naturals, FiniteSets

CONSTANTS
    Jobs, Sigs, NoSig, NoJob, Ledgers,   \* see JobLedger
    Ticks,         \* recovery ticks that may be under way at the same time
    MaxRetries,    \* recoveryMaxRetries
    ScanBudget,    \* recoveryScanBudgetPerTick
    MaxQueue,      \* maxQueueSize
    MaxBadWrites,  \* bound on failed ledger writes
    MaxCrashes     \* bound on crashes

VARIABLES
    entries, owners, disk, up, expired, settledBy,   \* the ledger
    meta, metaDisk,   \* payment_request and retry_count, in memory and on file
    at,               \* [Workers -> [Jobs -> Steps]]
    inFlight,         \* job ids that are being worked on
    tick,             \* the loop of each recovery tick
    listening,        \* the first tick is over and jobs are taken in
    stopping,         \* stop() was called and the process has not exited yet
    waiting,          \* jobs inside a deferral backoff
    sawNoPayment,     \* jobs whose last look was a complete, empty scan
    chain,            \* the job references each confirmed transaction carries
    asked,            \* customers that hold a payment request
    windowOver,       \* requests past their expiry
    late,             \* entries older than MAX_PAID_AGE_MS
    executions,       \* history: runs of the skill per job
    onTime,           \* history: jobs paid inside their window
    denied,           \* history: jobs closed as "no payment was found"
    told,             \* history: customers told of a permanent failure by a tick
    results,          \* history: customers that received the result
    badWrites, crashes

Live == "live"
Workers == Ticks \cup {Live}

ASSUME RuntimeAssumption ==
    /\ Jobs \subseteq Nat
    /\ NoJob \notin Jobs /\ NoSig \notin Sigs
    /\ Live \notin Ticks
    /\ MaxRetries \in Nat

Steps == {"idle", "gates", "quote", "asking", "start", "verify", "empty", "claimed",
          "ready", "exec", "reshare", "deliver", "delivered", "verifyLast", "keep", "close",
          "aborted"}

L == INSTANCE JobLedger

ledgerVars == <<entries, owners, disk, settledBy, meta, metaDisk, badWrites>>
deferVars  == <<waiting, sawNoPayment>>
tickVars   == <<tick, listening, stopping>>
worldVars  == <<up, expired, chain, asked, windowOver, late, crashes>>
histVars   == <<executions, onTime, denied, told, results>>
vars == <<ledgerVars, at, inFlight, deferVars, tickVars, worldVars, histVars>>

NoMeta == [req |-> FALSE, retry |-> 0]
IdleTick == [step |-> "idle", todo |-> {}, scans |-> 0]
Pending == {j \in Jobs : entries[j].status \in {"paid", "executed"}}
Active == Cardinality({p \in Workers \X Jobs : at[p[1]][p[2]] # "idle"})

(***************************************************************************)
(* Ledger calls.  A write may fail; it then throws.                        *)
(***************************************************************************)
Writes == IF badWrites < MaxBadWrites THEN BOOLEAN ELSE {TRUE}

Written(ok) ==
    /\ metaDisk' = IF ok THEN meta' ELSE metaDisk
    /\ badWrites' = IF ok THEN badWrites ELSE badWrites + 1

Transition(j, to, ok) == L!mark(j, to, ok) /\ UNCHANGED meta /\ Written(ok)

CanBecome(j, to) == to \in L!VALID_TRANSITIONS[entries[j].status]

\* markFailed: nothing on an invalid transition, and a failed write is swallowed.
markFailed(j) ==
    IF CanBecome(j, "failed")
    THEN \E ok \in Writes : Transition(j, "failed", ok)
    ELSE UNCHANGED ledgerVars

\* Mutant: the retry is not counted.
RetryUncounted(j, ok) == L!setFields(j, ok) /\ UNCHANGED meta /\ Written(ok)

\* The retry count is only ever compared with MaxRetries, so it stops there.
incrementRetry(j, ok) ==
    /\ L!setFields(j, ok)
    /\ meta' = [meta EXCEPT ![j].retry = IF @ < MaxRetries THEN @ + 1 ELSE @]
    /\ Written(ok)

(***************************************************************************)
(* Moving a worker.                                                        *)
(***************************************************************************)
Goto(w, j, step) == at' = [at EXCEPT ![w][j] = step] /\ UNCHANGED inFlight

\* Mutant: a path out of the handler misses the finally block.
LeaveInFlight(w, j) == at' = [at EXCEPT ![w][j] = "idle"] /\ UNCHANGED inFlight

\* The finally block of the dispatcher.
Leave(w, j) == at' = [at EXCEPT ![w][j] = "idle"] /\ inFlight' = inFlight \ {j}

\* An error: the live handler classifies it in the catch of processJob (a disk
\* error keeps the job for recovery, any other closes it); recovery logs it and
\* leaves the entry as it is.
Throw(w, j) ==
    IF w = Live THEN \E kind \in {"keep", "close"} : Goto(w, j, kind) ELSE Leave(w, j)

(***************************************************************************)
(* The live handler: processJob, executeJob and collectPayment.            *)
(***************************************************************************)
Intake(j) ==
    /\ up /\ listening /\ ~stopping /\ j \notin inFlight
    /\ entries[j].status = "absent"
    /\ Active < MaxQueue
    /\ at' = [at EXCEPT ![Live][j] = "gates"]
    /\ inFlight' = inFlight \cup {j}
    /\ UNCHANGED <<ledgerVars, deferVars, tickVars, worldVars, histVars>>

\* A gate before payment refuses the job: nothing was recorded.
Refuse(j) ==
    /\ at[Live][j] = "gates"
    /\ Leave(Live, j)
    /\ UNCHANGED <<ledgerVars, deferVars, tickVars, worldVars, histVars>>

Accept(j) ==
    /\ at[Live][j] = "gates"
    /\ \E ok \in Writes :
          /\ L!recordPaid(j, ok)
          /\ meta' = [meta EXCEPT ![j] = NoMeta]
          /\ Written(ok)
          /\ IF ok THEN Goto(Live, j, "quote") ELSE Throw(Live, j)
    /\ late' = late \ {j}
    /\ UNCHANGED <<deferVars, tickVars, up, expired, chain, asked, windowOver, crashes, histVars>>

\* The protocol config cannot be read, or the request is built and persisted
\* before the customer sees it.
Quote(j) ==
    /\ at[Live][j] = "quote"
    /\ \/ Goto(Live, j, "close") /\ UNCHANGED ledgerVars
       \/ \E ok \in Writes :
            /\ L!updatePayment(j, FALSE, ok)
            /\ meta' = [meta EXCEPT ![j].req = TRUE]
            /\ Written(ok)
            /\ IF ok THEN Goto(Live, j, "asking") ELSE Throw(Live, j)
    /\ UNCHANGED <<deferVars, tickVars, worldVars, histVars>>

\* Publishing payment-required: it may reach the customer and still throw.
Ask(j) ==
    /\ at[Live][j] = "asking"
    /\ \E reached, sent \in BOOLEAN :
          /\ asked' = IF reached THEN asked \cup {j} ELSE asked
          /\ Goto(Live, j, IF sent THEN "verify" ELSE "close")
    /\ UNCHANGED <<ledgerVars, deferVars, tickVars, up, expired, chain, windowOver, late,
                   crashes, histVars>>

\* One of the two one-shot paths loses; the second loss, or the deadline, ends
\* the wait.  Never a verdict: the error raised is PaymentTimeoutError.
NextPath == [verify |-> "verifyLast", verifyLast |-> "keep"]

PathLoses(j) ==
    /\ at[Live][j] \in DOMAIN NextPath
    /\ Goto(Live, j, NextPath[at[Live][j]])
    /\ UNCHANGED <<ledgerVars, deferVars, tickVars, worldVars, histVars>>

PaymentTimeout(j) ==
    /\ at[Live][j] \in DOMAIN NextPath
    /\ Goto(Live, j, "keep")
    /\ UNCHANGED <<ledgerVars, deferVars, tickVars, worldVars, histVars>>

KeepsPaid(j) == at[Live][j] = "keep" /\ entries[j].status = "paid"

\* The catch block of processJob.
Catch(j) ==
    /\ at[Live][j] \in {"keep", "close", "aborted"}
    /\ IF entries[j].status = "executed" \/ KeepsPaid(j)
       THEN UNCHANGED ledgerVars
       ELSE markFailed(j)
    /\ Leave(Live, j)
    /\ UNCHANGED <<deferVars, tickVars, worldVars, histVars>>

(***************************************************************************)
(* Settling the payment, live and in recovery: bind the transaction, then  *)
(* record the net amount.  In recovery nothing runs between the two, but a *)
(* crash may fall there.                                                   *)
(***************************************************************************)
Defer(j) == waiting' = waiting \cup {j} /\ sawNoPayment' = sawNoPayment \ {j}

Deferred(w, j) == Defer(j) /\ Leave(w, j)

ClaimRefused(w, j) ==
    IF w = Live THEN Goto(w, j, NextPath[at[w][j]]) /\ UNCHANGED deferVars
                ELSE Deferred(w, j)

\* Mutant: a transaction is accepted without looking at what it pays for.
AnyTransaction(j) == {t \in Sigs : chain[t] # {}}

\* What verifyPayment accepts for job j.
Payments(j) == {t \in Sigs : j \in chain[t]}

Claim(w, j) ==
    /\ at[w][j] \in DOMAIN NextPath
    /\ \E t \in Payments(j), ok \in Writes :
          /\ L!claimPaymentSignature(j, t, ok)
          /\ UNCHANGED meta
          /\ IF L!ClaimOutcome(j, t, ok) \in {"claimed", "not-persisted"}
             THEN Written(ok) ELSE ok /\ UNCHANGED <<metaDisk, badWrites>>
          /\ IF L!ClaimOutcome(j, t, ok) = "claimed"
             THEN Goto(w, j, "claimed") /\ UNCHANGED deferVars
             ELSE ClaimRefused(w, j)
    /\ UNCHANGED <<tickVars, worldVars, histVars>>

Runs(j) == executions' = [executions EXCEPT ![j] = @ + 1]

Confirm(w, j) ==
    /\ at[w][j] = "claimed"
    /\ \E ok \in Writes :
          /\ L!updatePayment(j, TRUE, ok)
          /\ UNCHANGED meta
          /\ Written(ok)
          /\ \/ /\ ok /\ w = Live
                /\ Goto(w, j, "exec") /\ Runs(j) /\ UNCHANGED deferVars
             \/ /\ ok /\ w # Live
                /\ Goto(w, j, "ready") /\ UNCHANGED executions
                /\ waiting' = waiting \ {j} /\ sawNoPayment' = sawNoPayment \ {j}
             \/ /\ ~ok /\ UNCHANGED executions
                /\ IF w = Live THEN Throw(w, j) /\ UNCHANGED deferVars ELSE Deferred(w, j)
    /\ UNCHANGED <<tickVars, worldVars, onTime, denied, told, results>>

(***************************************************************************)
(* Running the skill and delivering its result, live and in recovery.      *)
(***************************************************************************)
\* The skill throws, its budget runs out, or the result cannot be seeded: the
\* live handler classifies the error, recovery leaves the job for a later tick
\* or, on a refusal or a lost input file, closes it.
ExecFails(w, j) ==
    /\ at[w][j] = "exec"
    /\ \/ Throw(w, j) /\ UNCHANGED ledgerVars
       \/ w # Live /\ markFailed(j) /\ Leave(w, j)
    /\ UNCHANGED <<deferVars, tickVars, worldVars, histVars>>

\* markExecuted and markDelivered do nothing on an invalid transition.
MarkThen(w, j, to, step) ==
    IF CanBecome(j, to)
    THEN \E ok \in Writes :
            /\ Transition(j, to, ok)
            /\ IF ~ok THEN Throw(w, j)
               ELSE IF step = "idle" THEN Leave(w, j) ELSE Goto(w, j, step)
    ELSE /\ UNCHANGED ledgerVars
         /\ IF step = "idle" THEN Leave(w, j) ELSE Goto(w, j, step)

Executed(w, j) ==
    /\ at[w][j] = "exec"
    /\ MarkThen(w, j, "executed", "deliver")
    /\ UNCHANGED <<deferVars, tickVars, worldVars, histVars>>

\* Publishing the result: it may reach the customer and still throw.
Deliver(w, j) ==
    /\ at[w][j] = "deliver"
    /\ \E reached, sent \in BOOLEAN :
          /\ sent => reached
          /\ results' = IF reached THEN results \cup {j} ELSE results
          /\ IF sent THEN Goto(w, j, "delivered") ELSE Throw(w, j)
    /\ UNCHANGED <<ledgerVars, deferVars, tickVars, worldVars, executions, onTime, denied, told>>

Delivered(w, j) ==
    /\ at[w][j] = "delivered"
    /\ MarkThen(w, j, "delivered", "idle")
    /\ UNCHANGED <<deferVars, tickVars, worldVars, histVars>>

(***************************************************************************)
(* recoverSingleJob: a recovery worker picks its branch by the entry's     *)
(* status at the moment the queue runs it.                                 *)
(***************************************************************************)
NeedsScan(j) == entries[j].status = "paid" /\ ~entries[j].net /\ meta[j].req

\* failRecoveredJob: no skill routes the tags any more, or the payment request
\* was never stored or cannot be used.
CloseRecovered(w, j) ==
    /\ at[w][j] = "start" /\ entries[j].status = "paid"
    /\ markFailed(j)
    /\ Leave(w, j)
    /\ UNCHANGED <<deferVars, tickVars, worldVars, histVars>>

RecoverPaid(w, j) ==
    /\ at[w][j] = "start" /\ entries[j].status = "paid"
    /\ entries[j].net \/ meta[j].req
    /\ Goto(w, j, IF entries[j].net THEN "ready" ELSE "verify")
    /\ UNCHANGED <<ledgerVars, deferVars, tickVars, worldVars, histVars>>

RecoverExecuted(w, j) ==
    /\ at[w][j] = "start" /\ entries[j].status = "executed"
    /\ \E ok \in Writes :
          incrementRetry(j, ok) /\ IF ok THEN Goto(w, j, "reshare") ELSE Throw(w, j)
    /\ UNCHANGED <<deferVars, tickVars, worldVars, histVars>>

\* The entry was closed while this worker waited in the queue.
RecoverClosed(w, j) ==
    /\ at[w][j] = "start" /\ j \notin Pending
    /\ Leave(w, j)
    /\ UNCHANGED <<ledgerVars, deferVars, tickVars, worldVars, histVars>>

\* reShareResultAttachments: a fresh ticket, or the blob is gone.
Reshare(w, j) ==
    /\ at[w][j] = "reshare"
    /\ \/ Goto(w, j, "deliver") /\ UNCHANGED ledgerVars
       \/ markFailed(j) /\ Leave(w, j)
    /\ UNCHANGED <<deferVars, tickVars, worldVars, histVars>>

\* The reference scan found nothing it may claim: an empty history, or anything
\* that is not evidence (an error, a deadline, a transaction of another job).
Scan(w, j) ==
    /\ w # Live /\ at[w][j] = "verify"
    /\ \/ Payments(j) = {} /\ Goto(w, j, "empty") /\ UNCHANGED deferVars
       \/ Deferred(w, j)
    /\ UNCHANGED <<ledgerVars, tickVars, worldVars, histVars>>

\* Mutant: an empty history is believed inside the advertised window.
BelievesAnyEmptyScan(j) == entries[j].sig = NoSig

\* What an empty history may be believed about: the job owns no settlement and
\* the request it issued is past its expiry.
MayConclude(j) == entries[j].sig = NoSig /\ j \in windowOver

\* Mutant: the first empty scan closes the job.
OneLook(j) == TRUE

SecondLook(j) == j \in sawNoPayment

Verdict(w, j) ==
    /\ at[w][j] = "empty"
    /\ \/ Deferred(w, j) /\ UNCHANGED <<ledgerVars, denied>>
       \/ /\ MayConclude(j) /\ ~SecondLook(j)
          /\ waiting' = waiting \cup {j} /\ sawNoPayment' = sawNoPayment \cup {j}
          /\ Leave(w, j)
          /\ UNCHANGED <<ledgerVars, denied>>
       \/ /\ MayConclude(j) /\ SecondLook(j)
          /\ markFailed(j)
          /\ denied' = denied \cup {j}
          /\ Leave(w, j)
          /\ UNCHANGED deferVars
    /\ UNCHANGED <<tickVars, worldVars, executions, onTime, told, results>>

\* The health and preflight gates, then one more retry is spent and the skill
\* runs again.
GateRefuses(w, j) ==
    /\ at[w][j] = "ready"
    /\ Leave(w, j)
    /\ UNCHANGED <<ledgerVars, deferVars, tickVars, worldVars, histVars>>

Rerun(w, j) ==
    /\ at[w][j] = "ready"
    /\ \E ok \in Writes :
          /\ incrementRetry(j, ok)
          /\ IF ok THEN Goto(w, j, "exec") /\ Runs(j)
                   ELSE Throw(w, j) /\ UNCHANGED executions
    /\ UNCHANGED <<deferVars, tickVars, worldVars, onTime, denied, told, results>>

(***************************************************************************)
(* recoverPendingJobs: one tick lists the pending jobs that are not in     *)
(* flight, then walks its list; only the notice of a closed job suspends   *)
(* it.  Nothing keeps a tick from starting while an earlier one is         *)
(* suspended, and inFlight is not looked at again.                         *)
(***************************************************************************)
\* Mutant: jobs in flight are listed too.
AllPending == Pending

Listed == Pending \ inFlight

TickStart(w) ==
    /\ up /\ ~stopping /\ tick[w] = IdleTick
    /\ listening \/ \A v \in Ticks : tick[v] = IdleTick
    /\ tick' = [tick EXCEPT ![w] = [step |-> "walk", todo |-> Listed, scans |-> 0]]
    /\ waiting' = waiting \cap Pending
    /\ sawNoPayment' = sawNoPayment \cap Pending
    /\ UNCHANGED <<ledgerVars, at, inFlight, listening, stopping, worldVars, histVars>>

Walks(w, j) ==
    tick[w].step = "walk" /\ j \in tick[w].todo /\ \A k \in tick[w].todo : j <= k

Walked(w, j, step, scans) ==
    tick' = [tick EXCEPT ![w] = [step |-> step, todo |-> @.todo \ {j}, scans |-> scans]]

Exhausted(j) == entries[j].status = "paid" /\ meta[j].retry >= MaxRetries

GivesUp(j) == j \in late \/ Exhausted(j)

TickGivesUp(w, j) ==
    /\ Walks(w, j) /\ GivesUp(j)
    /\ markFailed(j)
    /\ told' = told \cup {j}
    /\ Walked(w, j, "notify", tick[w].scans)
    /\ UNCHANGED <<at, inFlight, deferVars, listening, stopping, worldVars, executions, onTime,
                   denied, results>>

TickSkips(w, j) ==
    /\ Walks(w, j) /\ ~GivesUp(j) /\ j \in waiting
    /\ Walked(w, j, "walk", tick[w].scans)
    /\ UNCHANGED <<ledgerVars, at, inFlight, deferVars, listening, stopping, worldVars, histVars>>

OverBudget(w, j) == NeedsScan(j) /\ tick[w].scans >= ScanBudget

\* parkForCapacity: the job keeps its place on the ladder and its first look.
TickParks(w, j) ==
    /\ Walks(w, j) /\ ~GivesUp(j) /\ j \notin waiting /\ OverBudget(w, j)
    /\ waiting' = waiting \cup {j}
    /\ Walked(w, j, "walk", tick[w].scans)
    /\ UNCHANGED <<ledgerVars, at, inFlight, sawNoPayment, listening, stopping, worldVars,
                   histVars>>

TickDispatches(w, j) ==
    /\ Walks(w, j) /\ ~GivesUp(j) /\ j \notin waiting /\ ~OverBudget(w, j)
    /\ Active < MaxQueue
    /\ at[w][j] = "idle"   \* one dispatch of a job per tick bounds the overlap
    /\ at' = [at EXCEPT ![w][j] = "start"]
    /\ inFlight' = inFlight \cup {j}
    /\ Walked(w, j, "walk", tick[w].scans + IF NeedsScan(j) THEN 1 ELSE 0)
    /\ UNCHANGED <<ledgerVars, deferVars, listening, stopping, worldVars, histVars>>

\* The queue is full: the loop breaks.
TickBreaks(w, j) ==
    /\ Walks(w, j) /\ ~GivesUp(j) /\ j \notin waiting /\ ~OverBudget(w, j)
    /\ Active >= MaxQueue
    /\ tick' = [tick EXCEPT ![w].todo = {}]
    /\ UNCHANGED <<ledgerVars, at, inFlight, deferVars, listening, stopping, worldVars, histVars>>

TickResume(w) ==
    /\ tick[w].step = "notify"
    /\ tick' = [tick EXCEPT ![w].step = "walk"]
    /\ UNCHANGED <<ledgerVars, at, inFlight, deferVars, listening, stopping, worldVars, histVars>>

\* After the first tick run() starts the interval and takes in jobs.
TickEnd(w) ==
    /\ tick[w].step = "walk" /\ tick[w].todo = {}
    /\ tick' = [tick EXCEPT ![w] = IdleTick]
    /\ listening' = TRUE
    /\ UNCHANGED <<ledgerVars, at, inFlight, deferVars, stopping, worldVars, histVars>>

TickWalk(w) ==
    \/ TickEnd(w)
    \/ \E j \in Jobs : TickGivesUp(w, j) \/ TickSkips(w, j) \/ TickParks(w, j)
                       \/ TickDispatches(w, j) \/ TickBreaks(w, j)

(***************************************************************************)
(* The end of a process: stop() aborts every job and the process exits     *)
(* soon after, or it crashes.                                              *)
(***************************************************************************)
Stop ==
    /\ up /\ ~stopping /\ crashes < MaxCrashes
    /\ stopping' = TRUE
    /\ UNCHANGED <<ledgerVars, at, inFlight, deferVars, tick, listening, worldVars, histVars>>

\* The abort reaches a verification or a skill before the process is gone.
Abort(w, j) ==
    /\ stopping /\ at[w][j] \in {"verify", "verifyLast", "exec"}
    /\ \/ w = Live /\ Goto(w, j, "aborted") /\ UNCHANGED deferVars
       \/ w # Live /\ at[w][j] = "exec" /\ Leave(w, j) /\ UNCHANGED deferVars
       \/ w # Live /\ at[w][j] # "exec" /\ Deferred(w, j)
    /\ UNCHANGED <<ledgerVars, tickVars, worldVars, histVars>>

AllIdle == [w \in Workers |-> [j \in Jobs |-> "idle"]]

Crash ==
    /\ L!Crash
    /\ crashes < MaxCrashes /\ crashes' = crashes + 1
    /\ meta' = [j \in Jobs |-> NoMeta]
    /\ at' = AllIdle /\ inFlight' = {}
    /\ waiting' = {} /\ sawNoPayment' = {}
    /\ tick' = [w \in Ticks |-> IdleTick] /\ listening' = FALSE /\ stopping' = FALSE
    /\ UNCHANGED <<metaDisk, badWrites, chain, asked, windowOver, late, histVars>>

Start ==
    /\ L!Start
    /\ meta' = metaDisk
    /\ UNCHANGED <<metaDisk, badWrites, at, inFlight, deferVars, tickVars, chain, asked,
                   windowOver, late, crashes, histVars>>

(***************************************************************************)
(* The world: customers, the chain and the clock.                          *)
(***************************************************************************)
\* A transaction is confirmed.  It may carry the reference of any request.
Pay(t, js) ==
    /\ chain[t] = {} /\ js # {} /\ js \subseteq asked
    /\ chain' = [chain EXCEPT ![t] = js]
    /\ onTime' = onTime \cup (js \ windowOver)
    /\ UNCHANGED <<ledgerVars, at, inFlight, deferVars, tickVars, up, expired, asked, windowOver,
                   late, crashes, executions, denied, told, results>>

WindowOver(j) ==
    /\ meta[j].req \/ metaDisk[j].req
    /\ j \notin windowOver /\ windowOver' = windowOver \cup {j}
    /\ UNCHANGED <<ledgerVars, at, inFlight, deferVars, tickVars, up, expired, chain, asked, late,
                   crashes, histVars>>

Late(j) ==
    /\ {entries[j].status, disk[j].status} # {"absent"}
    /\ j \in asked => j \in windowOver
    /\ j \notin late /\ late' = late \cup {j}
    /\ UNCHANGED <<ledgerVars, at, inFlight, deferVars, tickVars, up, expired, chain, asked,
                   windowOver, crashes, histVars>>

\* A deferral runs out.
Due(j) ==
    /\ j \in waiting /\ waiting' = waiting \ {j}
    /\ UNCHANGED <<ledgerVars, at, inFlight, sawNoPayment, tickVars, worldVars, histVars>>

Init ==
    /\ L!Init
    /\ meta = [j \in Jobs |-> NoMeta]
    /\ metaDisk = [j \in Jobs |-> [NoMeta EXCEPT !.req = disk[j].status # "absent"]]
    /\ at = AllIdle /\ inFlight = {}
    /\ tick = [w \in Ticks |-> IdleTick] /\ listening = FALSE /\ stopping = FALSE
    /\ waiting = {} /\ sawNoPayment = {}
    /\ chain = [t \in Sigs |-> {j \in Jobs : disk[j].sig = t}]
    /\ asked = {j \in Jobs : disk[j].status # "absent"}
    /\ windowOver = {} /\ late = {}
    /\ executions = [j \in Jobs |-> 0]
    /\ onTime = {} /\ denied = {} /\ told = {} /\ results = {}
    /\ badWrites = 0 /\ crashes = 0

LiveStep(j) ==
    \/ Refuse(j) \/ Accept(j) \/ Quote(j) \/ Ask(j)
    \/ PathLoses(j) \/ PaymentTimeout(j) \/ Catch(j)

RecoveryStep(w, j) ==
    \/ CloseRecovered(w, j) \/ RecoverPaid(w, j) \/ RecoverExecuted(w, j) \/ RecoverClosed(w, j)
    \/ Reshare(w, j) \/ Scan(w, j) \/ Verdict(w, j) \/ GateRefuses(w, j) \/ Rerun(w, j)

WorkStep(w, j) ==
    \/ Claim(w, j) \/ Confirm(w, j) \/ ExecFails(w, j) \/ Executed(w, j)
    \/ Deliver(w, j) \/ Delivered(w, j) \/ Abort(w, j)

WorkerStep(w, j) ==
    \/ w = Live /\ LiveStep(j)
    \/ w # Live /\ RecoveryStep(w, j)
    \/ WorkStep(w, j)

\* One thread runs it all: from one await to the next a tick's walk of its list
\* is not interrupted by another part of the process.
ThreadFree == \A w \in Ticks : tick[w].step # "walk"

Next ==
    \/ ThreadFree /\ \E j \in Jobs : Intake(j)
    \/ ThreadFree /\ \E w \in Workers, j \in Jobs : WorkerStep(w, j)
    \/ ThreadFree /\ \E w \in Ticks : TickStart(w) \/ TickResume(w)
    \/ \E w \in Ticks : TickWalk(w)
    \/ ThreadFree /\ Stop
    \/ \E t \in Sigs, js \in SUBSET Jobs : Pay(t, js)
    \/ \E j \in Jobs : WindowOver(j) \/ Late(j) \/ Due(j)
    \/ Crash \/ Start

Spec == Init /\ [][Next]_vars

\* Every await of a worker or a tick ends (a skill's by itself or by the budget the
\* operator configures), the interval keeps firing, deferrals run out, the day
\* passes, and an operator starts a stopped agent again.
Fairness ==
    /\ WF_vars(Start) /\ WF_vars(stopping /\ Crash)
    /\ \A w \in Workers, j \in Jobs : SF_vars(ThreadFree /\ WorkerStep(w, j))
    /\ \A w \in Ticks : /\ SF_vars(ThreadFree /\ (TickStart(w) \/ TickResume(w)))
                        /\ WF_vars(TickWalk(w))
    /\ \A j \in Jobs : WF_vars(WindowOver(j)) /\ WF_vars(Late(j)) /\ WF_vars(Due(j))

FairSpec == Spec /\ Fairness

-----------------------------------------------------------------------------
\* Every variable keeps its type.
TypeOK ==
    /\ L!TypeOK
    /\ meta \in [Jobs -> [req : BOOLEAN, retry : Nat]]
    /\ metaDisk \in [Jobs -> [req : BOOLEAN, retry : Nat]]
    /\ at \in [Workers -> [Jobs -> Steps]]
    /\ tick \in [Ticks -> [step : {"idle", "walk", "notify"}, todo : SUBSET Jobs, scans : Nat]]
    /\ listening \in BOOLEAN /\ stopping \in BOOLEAN
    /\ {inFlight, waiting, sawNoPayment, asked, windowOver, late, onTime, denied, told, results}
         \subseteq SUBSET Jobs
    /\ chain \in [Sigs -> SUBSET Jobs]
    /\ executions \in [Jobs -> Nat]

\* No unpaid work: a job whose skill has run is recorded, in the file, as settled
\* by a confirmed transaction that carries its reference (executeJob,
\* recoverSingleJob).
RunIsPaid ==
    \A j \in Jobs : executions[j] > 0 =>
        \E t \in Sigs : j \in chain[t] /\ <<t, j>> \in settledBy

\* No unpaid work, and no transaction that buys two jobs.  Live handlers and
\* recovery race for the transactions, writes fail and the process dies in
\* between (collectPayment, reVerifyPayment, executeJob).
WorkIsSettled ==
    /\ RunIsPaid
    /\ \A t \in Sigs : Cardinality({j \in Jobs : <<t, j>> \in settledBy}) <= 1

\* The skill runs at most once live and then once per recovery retry, over all
\* restarts: the count is on disk before each run (recoverSingleJob).
ReexecutionBounded == \A j \in Jobs : executions[j] <= MaxRetries + 1

\* A customer who paid inside the window they were given is never told that no
\* payment was found, wherever the payment falls between a scan, its answer,
\* the expiry of the request, a restart and the next scan (reVerifyPayment).
NeverCalledUnpaid == denied \cap onTime = {}

\* A worker of a job has it in flight, so neither intake nor a later tick
\* starts a second one for it (inFlight in run and recoverPendingJobs).
OneWorkerPerJob ==
    \A j \in Jobs : LET working == {w \in Workers : at[w][j] # "idle"}
                    IN  /\ Cardinality(working) <= 1
                        /\ j \in inFlight <=> working # {}

\* Recovery's verdicts are the last word on a job: once a tick has told the
\* customer that the job failed permanently, no result follows.
PermanentFailureIsFinal ==
    [][\A j \in told : j \in results' => j \in results]_vars

\* A restart resumes interrupted jobs, so the abort of a shutdown never closes a
\* job whose payment was confirmed.
InterruptedJobIsKept ==
    [][\A j \in Jobs :
          at[Live][j] = "aborted" /\ entries[j].net => entries'[j].status # "failed"]_vars

\* Every job that is paid or executed is closed in the end, by a result, a
\* verdict or the 24 hour cutoff: no path leaves it in flight, parked, deferred
\* or retried for ever (recoverPendingJobs, MAX_PAID_AGE_MS).
EveryJobEnds == \A j \in Jobs : (up /\ j \in Pending) ~> (up /\ j \notin Pending)

\* The runtime keeps to the ledger's contract: it claims only for unconfirmed
\* jobs, confirms only what it claimed, and so inherits the ledger's theorems.
LedgerContract == L!Spec
=============================================================================
