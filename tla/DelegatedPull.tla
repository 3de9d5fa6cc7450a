---------------------------- MODULE DelegatedPull ----------------------------
(***************************************************************************)
(* A job paid by a delegated pull (packages/cli/src/runtime.ts,            *)
(* UsedNonceStore in ledger.ts, settlement.ts of pay-core).  The customer  *)
(* presents a signed proof instead of paying; the provider burns its nonce,*)
(* reserves the price, works, and then pulls the money in two phases:      *)
(* signed and recorded first, sent and confirmed second.  Recovery takes   *)
(* up what a crash or an outage leaves behind.                             *)
(*                                                                         *)
(* Every proof expires at the same time.  Two recoveries of one job do not *)
(* overlap here (see JobRuntime), and the nonce store stays below its size *)
(* cap.  A start may find the nonce file unreadable, the ledger never.     *)
(***************************************************************************)
EXTENDS Naturals, FiniteSets, FiniteSetsExt

CONSTANTS
    Jobs, Proofs, Owners,
    ProofOf,      \* the proof (an owner and a nonce) that a job presents
    OwnerOf,      \* the owner of the account that a proof names
    Price,        \* priceSubunits of the skill of a job
    Floor,        \* meteredMinSubunits; the price itself for a flat skill
    Cap,          \* what an owner approved for this delegate
    Expiry,       \* expiryUnix
    Skew,         \* PROOF_CLOCK_SKEW_SECS
    MaxCrashes    \* bound on crashes

ASSUME DelegationAssumption ==
    /\ ProofOf \in [Jobs -> Proofs] /\ OwnerOf \in [Proofs -> Owners]
    /\ Price \in [Jobs -> Nat \ {0}] /\ Floor \in [Jobs -> Nat \ {0}]
    /\ \A j \in Jobs : Floor[j] <= Price[j]
    /\ Cap \in [Owners -> Nat]
    /\ Expiry \in Nat \ {0} /\ Skew \in Nat \ {0} /\ MaxCrashes \in Nat

VARIABLES
    entries, file,     \* the ledger, in memory and on disk
    used, usedFile,    \* UsedNonceStore, in memory and on disk
    inFlight,          \* delegationInFlight
    stage,             \* [Jobs -> Stages], the await a job is suspended at
    checked,           \* when a job being verified passed the expiry check
    tx, amount,        \* the pull of a job on the chain, and what it moves
    over,              \* pulls whose blockhash has run out
    settled,           \* pulls that a read of the owner's account shows
    now, late,         \* the clock, and the jobs older than MAX_PAID_AGE_MS
    calm, writable,    \* outages are over; writes to disk succeed
    up, crashes,
    burns,             \* history: how often a nonce was burned
    told               \* history: what a customer was told last

ledger == <<entries, file>>
nonces == <<used, usedFile, burns>>
chain  == <<tx, amount, over, settled>>
world  == <<now, late, calm, writable, up, crashes>>
task   == <<stage, checked, inFlight>>
vars   == <<ledger, nonces, task, chain, world, told>>

Stages == {"idle", "verifying", "asking", "working", "signing", "sending", "confirming",
           "delivering", "reconciling", "redelivering"}

\* Where a live job holds its reservation.
Holding == {"working", "signing", "sending", "confirming", "delivering"}

Statuses == {"absent", "paid", "executed", "delivered", "failed"}

\* content: delivered_content or an attachment is set; pull: pull_signature is.
Entry == [status : Statuses, content : BOOLEAN, pull : BOOLEAN]

Absent == [status |-> "absent", content |-> FALSE, pull |-> FALSE]

Owner(j) == OwnerOf[ProofOf[j]]

Total(f, S) == MapThenSumSet(LAMBDA j : f[j], S)

-----------------------------------------------------------------------------
(***************************************************************************)
(* The files.  A disk that refuses one write of a step refuses the others. *)
(***************************************************************************)
\* JobLedger.flush: the whole Map or nothing; memory keeps the change.
Flush(es) == entries' = es /\ file' = IF writable THEN es ELSE file

\* Mutant: a nonce is forgotten the moment its proof expires.
RetainedToExpiry == now < Expiry

\* Nonces are kept until expiry and skew have passed.
Retained == now < Expiry + Skew

\* Mutant: the ledger is not consulted at a start.
NotReburned(es) == {}

\* reconcileUsedNonces: a nonce in a persisted raw event is burned again.
Reburned(es) == {p \in Proofs : Retained /\ \E j \in Jobs : ProofOf[j] = p /\ es[j].status # "absent"}

(***************************************************************************)
(* Leaving the handler.                                                    *)
(***************************************************************************)
Goto(j, step) == stage' = [stage EXCEPT ![j] = step] /\ UNCHANGED <<checked, inFlight>>

\* Mutant: what was charged is released, not what was reserved.
ReleaseCharged(j) == amount[j]

ReleaseReserved(j) == Price[j]

\* The finally block; releaseDelegationReservation saturates at zero.
Leave(j) ==
    /\ stage' = [stage EXCEPT ![j] = "idle"]
    /\ checked' = [checked EXCEPT ![j] = 0]
    /\ LET current == inFlight[Owner(j)]
       IN  inFlight' =
              IF stage[j] \notin Holding THEN inFlight
              ELSE [inFlight EXCEPT ![Owner(j)] =
                       IF current > ReleaseReserved(j) THEN current - ReleaseReserved(j) ELSE 0]

\* markFailed, whose failed write is swallowed, and the feedback to the customer.
Close(j, es, message) ==
    /\ Flush([es EXCEPT ![j].status = "failed", ![j].content = FALSE])
    /\ told' = [told EXCEPT ![j] = message]

Reject(j) == Leave(j) /\ Close(j, entries, "failed")

\* "... - you were not charged.  Please re-submit."
CloseUncharged(j) == Leave(j) /\ Close(j, entries, "uncharged")

\* An error before the job is executed: processJob keeps it as paid or closes it.
Throw(j, es) ==
    /\ Leave(j)
    /\ \/ Close(j, es, "failed")
       \/ entries' = es /\ UNCHANGED <<file, told>>

\* Run on with the ledger es, unless the write fails and throws.
Persist(j, es, step) ==
    \/ writable /\ Flush(es) /\ Goto(j, step) /\ UNCHANGED told
    \/ ~writable /\ Throw(j, es)

-----------------------------------------------------------------------------
(***************************************************************************)
(* executeJob in delegated mode and delegatedPreCheck.                     *)
(***************************************************************************)
\* recordPaid and the expiry check; the proof is verified next.  A subscription
\* starts seconds before the agent does: too late for an event that a recovery
\* tick has answered, should its entry never have reached the disk.
Record(j) ==
    /\ up /\ stage[j] = "idle" /\ entries[j].status = "absent" /\ told[j] # "uncharged"
    /\ LET es == [entries EXCEPT ![j] = [Absent EXCEPT !.status = "paid"]] IN
       \/ ~writable /\ Throw(j, es)
       \/ writable /\ Expiry <= now /\ Leave(j) /\ Close(j, es, "failed")
       \/ /\ writable /\ Expiry > now
          /\ Flush(es)
          /\ stage' = [stage EXCEPT ![j] = "verifying"]
          /\ checked' = [checked EXCEPT ![j] = now]
          /\ UNCHANGED <<inFlight, told>>
    /\ UNCHANGED <<nonces, chain, world>>

\* An invalid proof or a used nonce is refused.
Refuse(j) ==
    /\ stage[j] = "verifying"
    /\ Reject(j)
    /\ UNCHANGED <<nonces, chain, world>>

\* has, markUsed and markDelegated without an await in between.
Burn(j) ==
    /\ stage[j] = "verifying" /\ ProofOf[j] \notin used
    /\ used' = used \cup {ProofOf[j]}
    /\ usedFile' = IF writable THEN used' ELSE usedFile
    /\ burns' = [burns EXCEPT ![ProofOf[j]] = burns[ProofOf[j]] + 1]
    /\ Persist(j, entries, "asking")
    /\ UNCHANGED <<chain, world>>

\* The cap the account shows, less what other jobs hold, covers the price.
Fits(j, o) == Total(amount, {k \in settled : Owner(k) = o}) + inFlight[o] + Price[j] <= Cap[o]

\* getDelegation has answered: reserve, or reject (also when the call failed,
\* the owner revoked the delegation or has spent the balance).
Admit(j) ==
    /\ stage[j] = "asking"
    /\ \/ Reject(j)
       \/ /\ Fits(j, Owner(j))
          /\ stage' = [stage EXCEPT ![j] = "working"]
          /\ inFlight' = [inFlight EXCEPT ![Owner(j)] = inFlight[Owner(j)] + Price[j]]
          /\ UNCHANGED <<checked, ledger, told>>
    /\ UNCHANGED <<nonces, chain, world>>

\* Mutant: the charge the skill reports is taken as it is.
ChargeReported(j, reported) == reported

\* resolveMeteredCharge: raised to the floor, then capped by the price.
Charge(j, reported) ==
    LET raised == IF reported < Floor[j] THEN Floor[j] ELSE reported
    IN  IF raised > Price[j] THEN Price[j] ELSE raised

\* The skill fails, returns nothing to deliver, or its result is persisted.
Work(j) ==
    /\ stage[j] = "working"
    /\ \/ (Throw(j, entries) \/ CloseUncharged(j)) /\ UNCHANGED amount
       \/ /\ \E reported \in 0..Price[j] + 1 : amount' = [amount EXCEPT ![j] = Charge(j, reported)]
          /\ Persist(j, [entries EXCEPT ![j].content = TRUE], "signing")
    /\ UNCHANGED <<nonces, tx, over, settled, world>>

\* Phase A: buildSignedPull and recordPullSignature.
Sign(j) ==
    /\ stage[j] = "signing"
    /\ \/ Throw(j, entries) /\ UNCHANGED tx
       \/ /\ tx' = [tx EXCEPT ![j] = "signed"]
          /\ Persist(j, [entries EXCEPT ![j].pull = TRUE], "sending")
    /\ UNCHANGED <<nonces, amount, over, settled, world>>

\* Phase B: the bytes reach the cluster or not; an error is swallowed.
Send(j) ==
    /\ stage[j] = "sending"
    /\ \E arrived \in {"sent", "signed"} : tx' = [tx EXCEPT ![j] = arrived]
    /\ Goto(j, "confirming")
    /\ UNCHANGED <<ledger, nonces, amount, over, settled, world, told>>

\* Mutant: a pull that is not found is taken for dead before its blockhash is over.
GuessedOutcomes(j) == IF tx[j] = "landed" THEN {"landed"} ELSE {"dead"}

\* confirmPullToTerminal: what the chain shows; once the blockhash is over, the
\* rechecks outlast the lag of the index; the poll budget runs out in an outage.
Outcomes(j) ==
    (IF tx[j] = "landed" THEN {"landed"}
     ELSE IF tx[j] = "reverted" \/ j \in over THEN {"dead"} ELSE {})
    \cup (IF calm THEN {} ELSE {"unresolved"})
    \cup (IF ~calm /\ j \in over THEN {"landed"} ELSE {})

\* markExecuted.  After a failed write the entry is executed in memory, which
\* neither processJob nor recovery closes.
Executed(j, step) ==
    /\ Flush([entries EXCEPT ![j].status = "executed"])
    /\ IF writable THEN Goto(j, step) ELSE Leave(j)
    /\ UNCHANGED told

Confirm(j) ==
    /\ stage[j] = "confirming"
    /\ \/ "unresolved" \in Outcomes(j) /\ Leave(j) /\ UNCHANGED <<ledger, told>>
       \/ "dead" \in Outcomes(j) /\ CloseUncharged(j)
       \/ "landed" \in Outcomes(j) /\ Executed(j, "delivering")
    /\ UNCHANGED <<nonces, chain, world>>

\* deliverResult and markDelivered, live or recovered.
Deliver(j) ==
    /\ stage[j] \in {"delivering", "redelivering"}
    /\ Leave(j)
    /\ \/ ~calm /\ UNCHANGED <<ledger, told>>
       \/ /\ Flush([entries EXCEPT ![j].status = "delivered", ![j].content = FALSE])
          /\ told' = [told EXCEPT ![j] = "result"]
    /\ UNCHANGED <<nonces, chain, world>>

-----------------------------------------------------------------------------
(***************************************************************************)
(* Recovery.                                                               *)
(***************************************************************************)
\* Mutant: executed entries are left alone.
PendingPaid == {j \in Jobs : entries[j].status = "paid"}

Pending == {j \in Jobs : entries[j].status \in {"paid", "executed"}}

\* Mutant: the age cutoff closes a job whose pull may have landed.
CutOffByAge(j) == j \in late

CutOff(j) == j \in late /\ ~entries[j].pull

\* The tick reaches an entry: close it, or start with what its status calls for.
Recover(j) ==
    /\ up /\ stage[j] = "idle" /\ j \in Pending
    /\ \/ CutOff(j) /\ Reject(j)
       \/ /\ ~CutOff(j) /\ entries[j].status = "paid"
          /\ IF entries[j].pull THEN Goto(j, "reconciling") /\ UNCHANGED <<ledger, told>>
             ELSE CloseUncharged(j)
       \/ /\ ~CutOff(j) /\ entries[j].status = "executed" /\ writable
          /\ \/ Flush(entries) /\ Goto(j, "redelivering") /\ UNCHANGED told
             \/ Leave(j) /\ Close(j, entries, "lost")
    /\ UNCHANGED <<nonces, chain, world>>

\* reconcileDelegatedEntry; a result blob may be gone.
Reconcile(j) ==
    /\ stage[j] = "reconciling"
    /\ \/ "unresolved" \in Outcomes(j) /\ Leave(j) /\ UNCHANGED <<ledger, told>>
       \/ "dead" \in Outcomes(j) /\ CloseUncharged(j)
       \/ "landed" \in Outcomes(j) /\ (\/ Executed(j, "redelivering")
                                       \/ Leave(j) /\ Close(j, entries, "lost"))
    /\ UNCHANGED <<nonces, chain, world>>

-----------------------------------------------------------------------------
(***************************************************************************)
(* The chain, the clock, the disk and the process.                         *)
(***************************************************************************)
Landed == {j \in Jobs : tx[j] = "landed"}

\* The chain moves the money if the allowance covers it, or rejects the pull.
Land(j) ==
    /\ tx[j] = "sent" /\ j \notin over
    /\ LET o == Owner(j) IN
       \E ok \in BOOLEAN :
          /\ ok => Total(amount, {k \in Landed : Owner(k) = o}) + amount[j] <= Cap[o]
          /\ tx' = [tx EXCEPT ![j] = IF ok THEN "landed" ELSE "reverted"]
    /\ UNCHANGED <<ledger, nonces, task, amount, over, settled, world, told>>

\* The block height passes lastValidBlockHeight.
RunOut(j) ==
    /\ tx[j] \in {"signed", "sent"} /\ j \notin over
    /\ over' = over \cup {j}
    /\ UNCHANGED <<ledger, nonces, task, tx, amount, settled, world, told>>

\* getDelegation reads at the finalized commitment, later than a status shows.
Finalize(j) ==
    /\ j \in Landed \ settled
    /\ settled' = settled \cup {j}
    /\ UNCHANGED <<ledger, nonces, task, tx, amount, over, world, told>>

\* A proof is verified in less time than the skew.
Pass ==
    /\ now < Expiry + Skew
    /\ \A j \in Jobs : stage[j] = "verifying" => now < checked[j] + Skew
    /\ now' = now + 1
    /\ UNCHANGED <<ledger, nonces, task, chain, late, calm, writable, up, crashes, told>>

GrowOld(j) ==
    /\ now = Expiry + Skew /\ entries[j].status # "absent"
    /\ j \notin late /\ late' = late \cup {j}
    /\ UNCHANGED <<ledger, nonces, task, chain, now, calm, writable, up, crashes, told>>

\* UsedNonceStore.prune.
Prune ==
    /\ up /\ ~Retained /\ used # {}
    /\ used' = {} /\ usedFile' = IF writable THEN {} ELSE usedFile
    /\ UNCHANGED <<ledger, burns, task, chain, world, told>>

Disk ==
    /\ ~calm /\ writable' = ~writable
    /\ UNCHANGED <<ledger, nonces, task, chain, now, late, calm, up, crashes, told>>

\* The last outage ends.
Calm ==
    /\ ~calm /\ calm' = TRUE /\ writable' = TRUE
    /\ UNCHANGED <<ledger, nonces, task, chain, now, late, up, crashes, told>>

Crash ==
    /\ up /\ crashes < MaxCrashes
    /\ up' = FALSE /\ crashes' = crashes + 1
    /\ entries' = [j \in Jobs |-> Absent] /\ used' = {}
    /\ stage' = [j \in Jobs |-> "idle"] /\ checked' = [j \in Jobs |-> 0]
    /\ inFlight' = [o \in Owners |-> 0]
    /\ UNCHANGED <<file, usedFile, burns, chain, now, late, calm, writable, told>>

\* A nonce file that cannot be parsed is rotated aside.
Start ==
    /\ ~up /\ up' = TRUE
    /\ entries' = file
    /\ \E stored \in {usedFile, {}} :
          /\ used' = stored \cup Reburned(file)
          /\ usedFile' = IF used' # stored /\ writable THEN used' ELSE stored
    /\ UNCHANGED <<file, burns, task, chain, now, late, calm, writable, crashes, told>>

Init ==
    /\ entries = [j \in Jobs |-> Absent] /\ file = entries
    /\ used = {} /\ usedFile = {} /\ burns = [p \in Proofs |-> 0]
    /\ inFlight = [o \in Owners |-> 0]
    /\ stage = [j \in Jobs |-> "idle"] /\ checked = [j \in Jobs |-> 0]
    /\ tx = [j \in Jobs |-> "none"] /\ amount = [j \in Jobs |-> 0]
    /\ over = {} /\ settled = {} /\ late = {} /\ now = 0
    /\ calm = FALSE /\ writable = TRUE /\ up = TRUE /\ crashes = 0
    /\ told = [j \in Jobs |-> "nothing"]

LiveStep(j) ==
    Refuse(j) \/ Burn(j) \/ Admit(j) \/ Work(j) \/ Sign(j) \/ Send(j) \/ Confirm(j) \/ Deliver(j)

RecoveryStep(j) == Recover(j) \/ Reconcile(j)

ChainStep(j) == Land(j) \/ RunOut(j) \/ Finalize(j)

Next ==
    \/ \E j \in Jobs : Record(j) \/ LiveStep(j) \/ RecoveryStep(j) \/ ChainStep(j) \/ GrowOld(j)
    \/ Pass \/ Prune \/ Disk \/ Calm \/ Crash \/ Start

Spec == Init /\ [][Next]_vars

\* Handlers run on, ticks fire, blockhashes run out, outages end, the operator
\* restarts a crashed agent.
FairSpec ==
    /\ Spec /\ WF_vars(Calm) /\ WF_vars(Start)
    /\ \A j \in Jobs : WF_vars(LiveStep(j)) /\ WF_vars(RecoveryStep(j)) /\ WF_vars(RunOut(j))

-----------------------------------------------------------------------------
\* Every variable has its type; a charge lies in the range the card published.
TypeOK ==
    /\ entries \in [Jobs -> Entry] /\ file \in [Jobs -> Entry]
    /\ used \subseteq Proofs /\ usedFile \subseteq Proofs /\ burns \in [Proofs -> Nat]
    /\ inFlight \in [Owners -> Nat]
    /\ stage \in [Jobs -> Stages] /\ checked \in [Jobs -> 0..Expiry + Skew]
    /\ tx \in [Jobs -> {"none", "signed", "sent", "landed", "reverted"}]
    /\ amount \in [Jobs -> Nat]
    /\ \A j \in Jobs : amount[j] \in {0} \cup Floor[j]..Price[j]
    /\ over \subseteq Jobs /\ settled \subseteq Jobs /\ late \subseteq Jobs
    /\ now \in 0..Expiry + Skew /\ crashes \in 0..MaxCrashes
    /\ calm \in BOOLEAN /\ writable \in BOOLEAN /\ up \in BOOLEAN
    /\ told \in [Jobs -> {"nothing", "failed", "uncharged", "lost", "result"}]

\* A nonce is burned at most once: by jobs that present it at the same time,
\* after it was pruned, and across crashes that lost the nonce file or the last
\* write to it (UsedNonceStore, reconcileUsedNonces).
NonceIsBurnedOnce == \A p \in Proofs : burns[p] <= 1

\* A customer who was told "you were not charged" is not charged, then or later
\* (confirmPullToTerminal, reconcileDelegatedEntry).
UnchargedIsTrue == \A j \in Jobs : told[j] = "uncharged" => tx[j] # "landed"

\* While an agent runs, a customer who was charged has the result, was told that
\* it was lost, or has a ledger entry that a recovery delivers from, whatever
\* writes failed (recordDeliveredContent before recordPullSignature).
ChargedIsRecoverable ==
    \A j \in Landed :
        up => \/ entries[j].content /\ entries[j].pull /\ entries[j].status \in {"paid", "executed"}
              \/ told[j] \in {"result", "lost"}

\* The reservations of an owner are those of the jobs that hold one, on every
\* way out of the handler, though a metered job charges less than it reserved
\* (the try and finally of executeJob, releaseDelegationReservation).
ReservationsAreExact ==
    \A o \in Owners :
        inFlight[o] = Total(Price, {j \in Jobs : stage[j] \in Holding /\ Owner(j) = o})

\* "concurrent same-owner jobs cannot oversubscribe the cap (reservation)",
\* packages/cli/tests/runtime-delegated.test.ts:586: what was pulled and what
\* live jobs hold stays within the approved cap.
CapIsNotOversubscribed ==
    \A o \in Owners :
        Total(amount, {j \in Landed : Owner(j) = o /\ stage[j] \notin Holding})
            + Total(Price, {j \in Jobs : stage[j] \in Holding /\ Owner(j) = o}) <= Cap[o]

\* What the pulls move is a Settlement: a signed proof pays for one job, once,
\* whatever the customer presents it for, and what landed stays landed.
pulled == {<<ProofOf[j], j>> : j \in Landed}

Pulls == INSTANCE Settlement WITH Payments <- Proofs, Orders <- Jobs, spent <- pulled

PullsAreSettled == Pulls!Spec

\* A customer who was charged gets the result or hears that it is lost, after
\* any outage and any crash (the pull-signature exemption of recoverPendingJobs).
ChargedIsAnswered ==
    \A j \in Jobs : tx[j] = "landed" ~> told[j] \in {"result", "lost"}
=============================================================================
