----------------------------- MODULE JobLedger -----------------------------
(***************************************************************************)
(* The provider's job ledger (packages/cli/src/ledger.ts, class JobLedger) *)
(* on the flat paid path: the in-memory entries, the file they are flushed *)
(* to, and the index from settlement signatures to the job that consumed   *)
(* them.  Every method is synchronous, so it is one step; every method     *)
(* that flushes takes the outcome of the flush as a parameter, because the *)
(* write of the file can fail.  A crash loses everything but the file.     *)
(*                                                                         *)
(* The specification of this module lets any client call any method at any *)
(* time, within the contract the comments of the code state; the runtime   *)
(* is one such client.                                                     *)
(***************************************************************************)
EXTENDS Naturals

CONSTANTS
    Jobs,      \* job ids, numbered in the order the ledger's Map iterates them
    Sigs,      \* usable settlement signatures (non-empty strings)
    NoSig,     \* payment_signature is undefined
    NoJob,     \* the index has no owner for a signature
    Ledgers    \* the ledger files a process may find when it first starts

VARIABLES
    entries,   \* Map of the running process: [Jobs -> Entry]
    owners,    \* paymentSignatureOwners: [Sigs -> Jobs \cup {NoJob}]
    disk,      \* what the ledger file holds
    up,        \* is a process running on this ledger
    expired,   \* signatures past the chain's history horizon: none verifies
    settledBy  \* history: <<s, j>> once the file says that s paid for j

vars == <<entries, owners, disk, up, expired, settledBy>>

Statuses == {"absent", "paid", "executed", "delivered", "failed"}
Terminal == {"delivered", "failed"}

\* One ledger entry: its status, payment_signature, whether net_amount is set,
\* and whether created_at predates the retention cutoff.  "absent" stands for a
\* job id the Map does not hold.
Entry == [status : Statuses, sig : Sigs \cup {NoSig}, net : BOOLEAN, old : BOOLEAN]

Absent == [status |-> "absent", sig |-> NoSig, net |-> FALSE, old |-> FALSE]

Blank == [Absent EXCEPT !.status = "paid"]

Empty == [j \in Jobs |-> Absent]

ASSUME ConstantsAssumption ==
    /\ Jobs \subseteq Nat
    /\ NoJob \notin Jobs
    /\ NoSig \notin Sigs
    /\ Ledgers \subseteq [Jobs -> Entry]

VALID_TRANSITIONS ==
    [absent    |-> {},
     paid      |-> {"executed", "failed"},
     executed  |-> {"delivered", "failed"},
     delivered |-> {},
     failed    |-> {}]

(***************************************************************************)
(* The file.  flush writes a temporary, tightens its mode and renames it,  *)
(* so it replaces the whole file or none of it.                            *)
(***************************************************************************)
SettlementsIn(es) ==
    {p \in Sigs \X Jobs : es[p[2]].sig = p[1] /\ es[p[2]].net}

flush(es, ok) ==
    /\ disk' = IF ok THEN es ELSE disk
    /\ settledBy' = IF ok THEN settledBy \cup SettlementsIn(es) ELSE settledBy

(***************************************************************************)
(* indexPaymentSignatures: an entry is indexed unless an earlier one holds *)
(* the signature already.                                                  *)
(***************************************************************************)
Carriers(es, s) == {j \in Jobs : es[j].sig = s}

IsIndexOf(marks, es) ==
    \A s \in Sigs :
        \/ Carriers(es, s) = {} /\ marks[s] = NoJob
        \/ marks[s] \in Carriers(es, s)
           /\ \A j \in Carriers(es, s) : marks[s] <= j

(***************************************************************************)
(* claimPaymentSignature: bind s to job j.                                 *)
(***************************************************************************)
ClaimOutcome(j, s, ok) ==
    IF entries[j].status = "absent" THEN "unknown-job"
    ELSE IF owners[s] \notin {NoJob, j} THEN "consumed-by-other"
    ELSE IF ok THEN "claimed" ELSE "not-persisted"

\* The mark a second, different claim of the same job gives up.
Releases(j, s, t) ==
    /\ entries[j].sig = t
    /\ t # s
    /\ owners[t] = j

MarksOfClaim(j, s) ==
    [t \in Sigs |-> IF Releases(j, s, t) THEN NoJob
                    ELSE IF t = s THEN j ELSE owners[t]]

\* Mutant: the catch block restores the entry only.
MarksKept(j, s, marks) == marks

MarksRolledBack(j, s, marks) ==
    [t \in Sigs |-> IF Releases(j, s, t) THEN j
                    ELSE IF t = s THEN owners[s] ELSE marks[t]]

BindClaim(j, s, ok) ==
    LET bound == [entries EXCEPT ![j].sig = s]
        marks == MarksOfClaim(j, s)
    IN  /\ flush(bound, ok)
        /\ entries' = IF ok THEN bound
                      ELSE [bound EXCEPT ![j].sig = entries[j].sig]
        /\ owners' = IF ok THEN marks ELSE MarksRolledBack(j, s, marks)

claimPaymentSignature(j, s, ok) ==
    IF ClaimOutcome(j, s, ok) \in {"claimed", "not-persisted"}
    THEN BindClaim(j, s, ok)
    ELSE UNCHANGED <<entries, owners, disk, settledBy>>

(***************************************************************************)
(* The other methods.  Each updates the entry in memory, then flushes.     *)
(***************************************************************************)
recordPaid(j, ok) ==
    /\ entries[j].status = "absent"
    /\ entries' = [entries EXCEPT ![j] = Blank]
    /\ flush(entries', ok)
    /\ UNCHANGED owners

\* updatePayment with a net amount, or (net = FALSE) with a payment request.
updatePayment(j, net, ok) ==
    /\ entries[j].status # "absent"
    /\ entries' = [entries EXCEPT ![j].net = @ \/ net]
    /\ flush(entries', ok)
    /\ UNCHANGED owners

\* The methods that set fields this module does not tell apart, retry_count and
\* the result and delegated fields: what matters of them here is their flush,
\* which also writes whatever an earlier failed flush left in memory only.
setFields(j, ok) ==
    /\ entries[j].status # "absent"
    /\ flush(entries, ok)
    /\ UNCHANGED <<entries, owners>>

\* transition, with the flush of markExecuted, markDelivered and markFailed.
mark(j, to, ok) ==
    /\ to \in VALID_TRANSITIONS[entries[j].status]
    /\ entries' = [entries EXCEPT ![j].status = to]
    /\ flush(entries', ok)
    /\ UNCHANGED owners

\* Mutant: the retention cutoff is not applied.
PrunableAtOnce == {j \in Jobs : entries[j].status \in Terminal}

Prunable == {j \in Jobs : entries[j].status \in Terminal /\ entries[j].old}

\* releasePrunedPaymentSignatures: a signature an entry that stays carries
\* keeps its mark, whoever owns it.
MarksOfPrune(kept) ==
    [s \in Sigs |->
        IF Carriers(entries, s) # {} /\ Carriers(kept, s) = {}
        THEN NoJob ELSE owners[s]]

\* Mutant: entries are flagged instead of dropped.
PruneByFlag(ok) ==
    /\ Prunable # {}
    /\ entries' = [j \in Jobs |-> IF j \in Prunable
                                 THEN [entries[j] EXCEPT !.status = "pruned"]
                                 ELSE entries[j]]
    /\ flush(entries', ok)
    /\ UNCHANGED owners

pruneOldEntries(ok) ==
    LET kept == [j \in Jobs |-> IF j \in Prunable THEN Absent ELSE entries[j]]
    IN  /\ Prunable # {}
        /\ entries' = kept
        /\ owners' = MarksOfPrune(kept)
        /\ flush(kept, ok)

\* Mutant: the index is not rebuilt on a restart.
LoadWithoutIndex ==
    /\ entries' = disk
    /\ owners' = [s \in Sigs |-> NoJob]
    /\ UNCHANGED <<disk, settledBy>>

\* The constructor: read the file, then build the index from it.
load ==
    /\ entries' = disk
    /\ owners' \in {m \in [Sigs -> Jobs \cup {NoJob}] : IsIndexOf(m, disk)}
    /\ UNCHANGED <<disk, settledBy>>

(***************************************************************************)
(* The client.  A claim is only made for a signature that verifies on the  *)
(* chain, by a job that is not confirmed yet and is younger than the 24h   *)
(* cutoff; net_amount is only recorded for a job that owns a settlement.   *)
(***************************************************************************)
Record(j) == up /\ (\E ok \in BOOLEAN : recordPaid(j, ok)) /\ UNCHANGED <<up, expired>>

Request(j) ==
    /\ up /\ entries[j].status = "paid"
    /\ \E ok \in BOOLEAN : updatePayment(j, FALSE, ok)
    /\ UNCHANGED <<up, expired>>

SetFields(j) == up /\ (\E ok \in BOOLEAN : setFields(j, ok)) /\ UNCHANGED <<up, expired>>

MayClaim(j, s) ==
    /\ entries[j].status \in {"absent", "paid"}
    /\ ~entries[j].net
    /\ ~entries[j].old
    /\ s \notin expired

Claim(j, s) ==
    /\ up /\ MayClaim(j, s)
    /\ \E ok \in BOOLEAN : claimPaymentSignature(j, s, ok)
    /\ UNCHANGED <<up, expired>>

Confirm(j) ==
    /\ up /\ entries[j].status = "paid" /\ entries[j].sig \in Sigs
    /\ \E ok \in BOOLEAN : updatePayment(j, TRUE, ok)
    /\ UNCHANGED <<up, expired>>

Mark(j) ==
    /\ up
    /\ \E to \in Statuses, ok \in BOOLEAN : mark(j, to, ok)
    /\ UNCHANGED <<up, expired>>

Prune == up /\ (\E ok \in BOOLEAN : pruneOldEntries(ok)) /\ UNCHANGED <<up, expired>>

Crash ==
    /\ up /\ up' = FALSE
    /\ entries' = Empty
    /\ owners' = [s \in Sigs |-> NoJob]
    /\ UNCHANGED <<disk, expired, settledBy>>

Start == ~up /\ up' = TRUE /\ load /\ UNCHANGED expired

\* Time.  The chain forgets a transaction after days, the ledger an entry
\* after 30: an entry grows old only once its settlement no longer verifies.
Forget(s) ==
    /\ s \notin expired /\ expired' = expired \cup {s}
    /\ UNCHANGED <<entries, owners, disk, up, settledBy>>

Grown(es, j) == [es EXCEPT ![j].old = es[j].status # "absent"]

Age(j) ==
    /\ {entries[j].sig, disk[j].sig} \subseteq expired \cup {NoSig}
    /\ entries' = Grown(entries, j)
    /\ disk' = Grown(disk, j)
    /\ <<entries', disk'>> # <<entries, disk>>
    /\ UNCHANGED <<owners, up, expired, settledBy>>

Init ==
    /\ disk \in Ledgers
    /\ entries = Empty
    /\ owners = [s \in Sigs |-> NoJob]
    /\ up = FALSE
    /\ expired = {}
    /\ settledBy = SettlementsIn(disk)

Next ==
    \/ Crash \/ Start \/ Prune
    \/ \E j \in Jobs : Record(j) \/ Request(j) \/ SetFields(j) \/ Confirm(j) \/ Mark(j) \/ Age(j)
    \/ \E s \in Sigs : Forget(s) \/ \E j \in Jobs : Claim(j, s)

Spec == Init /\ [][Next]_vars

-----------------------------------------------------------------------------
\* Every variable keeps its type.
TypeOK ==
    /\ entries \in [Jobs -> Entry]
    /\ owners \in [Sigs -> Jobs \cup {NoJob}]
    /\ disk \in [Jobs -> Entry]
    /\ up \in BOOLEAN
    /\ expired \in SUBSET Sigs
    /\ settledBy \in SUBSET (Sigs \X Jobs)

\* One transaction settles one job: over the whole life of the agent, crashes
\* and failed writes included, the file never records two jobs as paid by the
\* same signature (claimPaymentSignature).
OneTransactionOneJob ==
    \A p, q \in settledBy : p[1] = q[1] => p[2] = q[2]

\* The index never forgets a settlement that could still be spent: while the
\* chain can still verify s, a running process refuses it to every other job,
\* also after a restart, a refused write or a prune.
SettledStaysOwned ==
    up => \A p \in settledBy : p[1] \notin expired => owners[p[1]] = p[2]

\* Every mark is backed by the file: an ownership that exists in memory only
\* would be forgotten by a restart (the flush inside the claim, and its
\* roll-back when the write fails).
MarksAreDurable ==
    up => \A s \in Sigs \ expired :
            owners[s] # NoJob => /\ entries[owners[s]].sig = s
                                 /\ disk[owners[s]].sig = s

\* A mark that a step takes from a job had settled nothing: releasing it hands
\* no paid-for transaction to another job.
ReleasedSettledNothing ==
    [][\A s \in Sigs \ expired :
          up /\ up' /\ owners[s] # NoJob /\ owners'[s] # owners[s]
            => \A p \in settledBy : p[1] # s]_vars

\* While a process runs, a job that was delivered or failed is never worked on
\* again: its status only ends by the entry being pruned (VALID_TRANSITIONS).
ClosedStaysClosed ==
    [][\A j \in Jobs :
          up /\ up' /\ entries[j].status \in Terminal
            => entries'[j].status \in {entries[j].status, "absent"}]_vars

\* The ledger implements Settlement: whatever is written, lost, pruned or
\* reloaded, a signature pays one job and stays spent on it.
Settled == INSTANCE Settlement WITH Payments <- Sigs, Orders <- Jobs, spent <- settledBy

LedgerSettles == Settled!Spec
=============================================================================
