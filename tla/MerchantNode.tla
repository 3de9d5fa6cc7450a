---------------------------- MODULE MerchantNode ----------------------------
(***************************************************************************)
(* The running store (packages/merchant-node/src: cli.ts run, runtime.ts,  *)
(* intake.ts, ledger.ts, solana.ts, tempo.ts, eip3009.ts, webhook.ts,      *)
(* hand.ts).  Orders and receipts arrive as gift wraps on inbox relays; a  *)
(* payment is found by a live check or by the sweep; what is found is      *)
(* saved, then told: to the buyer as a completed status on the relays, to  *)
(* the store's backend as a webhook.                                       *)
(*                                                                         *)
(* All changes of the ledger are tasks on one queue.  A task is suspended  *)
(* at its reads of the chain and at its publishes; only the clock, the     *)
(* chain, the relays, the HTTP requests of webhooks and a crash go on      *)
(* meanwhile.  A webhook is configured.  How a transaction is judged       *)
(* against the terms of an order is an input (Pays, Splits).               *)
(***************************************************************************)
EXTENDS Naturals, FiniteSets

CONSTANTS
    Orders,        \* order keys, <buyer>:<orderId>
    Payments,      \* settlement ids: what a claim is made on
    None,          \* no order, no payment, no answer
    Pays,          \* the orders a payment verifies for
    Splits,        \* payments whose fee part went to a treasury (paid rule 2)
    Rails,         \* the number of chains; a sweep visits 1..Rails in turn
    RailOf,        \* the chain of a payment
    Wraps,         \* the messages buyers may send
    MaxReceipts,   \* MAX_RECEIPTS_PER_ORDER
    Relays,        \* the store's inbox relays
    Wanted,        \* DELIVERY_RELAYS_WANTED
    Repeats,       \* the length of ASK_AGAIN_DELAYS_MS
    InFlightMax,   \* MAX_WEBHOOKS_IN_FLIGHT
    MaxCrashes, MaxBadWrites,  \* bounds on crashes and on failed saves
    CalmComes      \* whether failures end (assumed for liveness)

ASSUME MerchantAssumption ==
    /\ None \notin Orders \cup Payments \cup {"refused", "paid", "complete", "refund"}
    /\ Pays \in [Payments -> SUBSET Orders] /\ Splits \subseteq Payments
    /\ Rails \in Nat \ {0} /\ RailOf \in [Payments -> 1..Rails]
    /\ Wraps \subseteq [type : {"order", "receipt"}, order : Orders,
                        tx : Payments \cup {None}]
    /\ \A w \in Wraps : w.type = "receipt" => w.tx # None
    /\ {MaxReceipts, Wanted, Repeats, InFlightMax, MaxCrashes, MaxBadWrites} \subseteq Nat
    /\ CalmComes \in BOOLEAN

VARIABLES
    mem, disk,        \* LedgerState, of the process and in the file
    tasks,            \* what the queue runs now: at most one task
    waiting, timers,  \* wraps on the queue; repeated checks whose delay runs
    sweep,            \* the sweep on the queue
    flight,           \* WebhookSender.inFlight and its requests
    aged,              \* open orders past the catch-up window
    calm,             \* chains, relays and the backend answer from now on
    up, crashes, badWrites,
    told              \* history: <<o, p>> once anybody was told that p paid o

ledger  == <<mem, disk, badWrites>>
queue   == <<tasks, timers>>
inbox   == <<waiting, sweep>>
world   == <<aged, calm>>
process == <<up, crashes>>
vars    == <<ledger, queue, inbox, flight, world, process, told>>

Sweep == [queued : BOOLEAN, live : BOOLEAN, ahead : SUBSET Wraps, upTo : SUBSET Wraps]

LedgerState ==
    [status     : [Orders -> {"absent", "open", "paid", "closed"}],
     by         : [Orders -> Payments \cup {None}],        \* paid.signature
     claims     : [Payments -> Orders \cup {None}],
     rumors     : SUBSET Wraps,                            \* seenRumors
     reported   : [Orders -> SUBSET Payments],             \* reportedTxs
     judged     : [Orders -> SUBSET Payments],             \* refusedTxs, noLegTxs, blockedTx
     unresolved : [Orders -> SUBSET Payments],             \* feeUnresolved
     kept       : SUBSET (Orders \X Payments),             \* unresolvedPayments
     to         : [Orders -> SUBSET Relays],               \* deliveredTo
     done       : SUBSET Orders,                           \* deliveredAt is set
     hook       : [Orders -> {"none", "pending", "sent", "failed"}],
     answer     : [Orders -> {"complete", "refund", None}],  \* answeredByHand
     known      : BOOLEAN,                                 \* treasuries
     covered    : SUBSET Wraps]                            \* sent before resumeAt

emptyLedger ==
    [status |-> [o \in Orders |-> "absent"], by |-> [o \in Orders |-> None],
     claims |-> [p \in Payments |-> None], rumors |-> {},
     reported |-> [o \in Orders |-> {}], judged |-> [o \in Orders |-> {}],
     unresolved |-> [o \in Orders |-> {}], kept |-> {},
     to |-> [o \in Orders |-> {}], done |-> {},
     hook |-> [o \in Orders |-> "none"], answer |-> [o \in Orders |-> None],
     known |-> FALSE, covered |-> {}]

NoSweep == [queued |-> FALSE, live |-> FALSE, ahead |-> {}, upTo |-> {}]

\* Mutant: a task does not wait for the one that is suspended.
NoQueue == up

\* The queue runs no task: what comes next may start.
Idle == up /\ tasks = {}

(***************************************************************************)
(* saveLedger replaces the whole file or throws; the change stays in       *)
(* memory.  The error ends the task that saves.                            *)
(***************************************************************************)
Save(L, ok) ==
    /\ mem' = L
    /\ IF ok THEN disk' = L /\ UNCHANGED badWrites
       ELSE /\ badWrites < MaxBadWrites
            /\ badWrites' = badWrites + 1
            /\ UNCHANGED disk

openOrders(L) == {o \in Orders : L.status[o] = "open" /\ o \notin aged}

undeliveredOrders(L) == {o \in Orders : L.status[o] = "paid"} \ L.done

(***************************************************************************)
(* Judging payment p for order o.  The guards come before the read of the  *)
(* chain, the claim and the record after it.  Before all is calm the read  *)
(* may fail, or the payment may not have landed yet ("ask").               *)
(***************************************************************************)
EarlyVerdict(o, p) ==
    IF mem.claims[p] \notin {None, o} THEN "refused"
    ELSE IF mem.by[o] = None THEN None
    ELSE IF mem.by[o] = p THEN "paid" ELSE "refused"

Verdicts(o, p) ==
    (IF calm THEN {} ELSE {"ask"}) \cup
    {IF o \notin Pays[p] \/ mem.claims[p] \notin {None, o} THEN "refused"
     ELSE IF p \in Splits /\ ~mem.known THEN "unresolved"
     ELSE "paid"}

\* claimPayment and recordPayment: one change, the webhook entry in it.
recordPayment(L, o, p) ==
    [L EXCEPT !.status[o] = "paid", !.by[o] = p, !.claims[p] = o,
              !.unresolved[o] = {}, !.hook[o] = "pending"]

\* Mutant: a payment that could not be judged yet is set aside.
JudgeOnce(L, o, p, verdict) ==
    IF verdict = "paid" THEN IF L.by[o] = p THEN L ELSE recordPayment(L, o, p)
    ELSE IF verdict = "unresolved" THEN [L EXCEPT !.unresolved[o] = @ \cup {p}]
    ELSE [L EXCEPT !.judged[o] = @ \cup {p}, !.unresolved[o] = @ \ {p}]

\* What a check leaves on the order.
Judge(L, o, p, verdict) ==
    IF verdict = "paid" THEN IF L.by[o] = p THEN L ELSE recordPayment(L, o, p)
    ELSE IF verdict = "refused"
         THEN [L EXCEPT !.judged[o] = @ \cup {p}, !.unresolved[o] = @ \ {p}]
    ELSE IF verdict = "unresolved" THEN [L EXCEPT !.unresolved[o] = @ \cup {p}]
    ELSE L

(***************************************************************************)
(* deliverPending: the completed statuses go out when its task starts.     *)
(***************************************************************************)
DeliverTasks(L) ==
    {[at |-> "deliver", pending |-> undeliveredOrders(L)] :
        u \in {v \in {undeliveredOrders(L)} : v # {}}}

ToldOf(L, os) == {<<o, L.by[o]>> : o \in os}

deliveryDone(accepted, old) ==
    /\ accepted # {}
    /\ old \/ Cardinality(accepted) >= Wanted \/ accepted = Relays

Deliver(t, got, old, ok) ==
    LET L == [mem EXCEPT
                !.to = [o \in Orders |-> IF o \in t.pending THEN @[o] \cup got[o] ELSE @[o]],
                !.done = @ \cup {o \in t.pending :
                                    deliveryDone(mem.to[o] \cup got[o], o \in old)}]
    IN  /\ t.at = "deliver"
        /\ \A o \in Orders : got[o] \subseteq IF o \in t.pending THEN Relays \ mem.to[o] ELSE {}
        /\ calm => \A o \in t.pending : got[o] = Relays \ mem.to[o]
        /\ IF L = mem THEN ok /\ UNCHANGED ledger ELSE Save(L, ok)
        /\ tasks' = tasks \ {t}
        /\ UNCHANGED <<timers, inbox, flight, world, process, told>>

(***************************************************************************)
(* The inbox.  SeenWraps keeps a wrap from the queue while it waits there  *)
(* or was read.  One that was read comes again after a restart: ReadAgain. *)
(* InboxListener calls a relay live when all it stored has been handed     *)
(* over: what was posted until then is on the queue or in the ledger.      *)
(***************************************************************************)
Receive(w) ==
    /\ up /\ w \notin waiting \cup mem.rumors
    /\ waiting' = waiting \cup {w}
    /\ UNCHANGED <<ledger, queue, sweep, flight, world, process, told>>

QueueSweep(live) ==
    /\ up /\ ~sweep.queued
    /\ sweep' = [queued |-> TRUE, live |-> live,
                 ahead |-> IF live THEN waiting ELSE {},
                 upTo |-> IF live THEN waiting \cup mem.rumors ELSE {}]
    /\ UNCHANGED <<ledger, queue, waiting, flight, world, process, told>>

\* handleWrap leaves the queue, which is first in, first out.
Taken(w) ==
    /\ Idle /\ w \in waiting
    /\ sweep.live => w \in sweep.ahead
    /\ waiting' = waiting \ {w}
    /\ sweep' = [sweep EXCEPT !.ahead = @ \ {w}]
    /\ UNCHANGED <<flight, world, process>>

\* Of an order that was delivered, the status is sent again (off the queue).
resend(o) == told' = told \cup ToldOf(mem, {o} \cap mem.done)

\* Mutant: neither rumors nor the ids of closed orders are remembered.
ReadAgainRevives(w) ==
    /\ Idle /\ w \in mem.rumors /\ w.type = "order" /\ mem.status[w.order] = "closed"
    /\ Save([mem EXCEPT !.status[w.order] = "open"], TRUE)
    /\ UNCHANGED <<queue, inbox, flight, world, process, told>>

\* It changes no ledger; nor does another message with the id of an order that
\* is held or closed.
ReadAgain(w) ==
    /\ Idle /\ w \in mem.rumors
    /\ resend(w.order)
    /\ UNCHANGED <<ledger, queue, inbox, flight, world, process>>

TakeOrder(w, ok) ==
    LET L == [mem EXCEPT !.rumors = @ \cup {w}]
    IN  /\ Taken(w) /\ w.type = "order" /\ w \notin mem.rumors
        /\ IF mem.status[w.order] = "absent"
           THEN Save([L EXCEPT !.status[w.order] = "open"], ok)
           ELSE ok /\ mem' = L /\ UNCHANGED <<disk, badWrites>>
        /\ UNCHANGED <<queue, told>>

\* A receipt before its order is forgotten, so that it can be read again.
TakeEarlyReceipt(w) ==
    /\ Taken(w) /\ w.type = "receipt" /\ w \notin mem.rumors
    /\ mem.status[w.order] \notin {"open", "paid"}
    /\ UNCHANGED <<ledger, queue, told>>

StartCheck(o, p, n) ==
    tasks' = tasks \cup {[at |-> "check", order |-> o, tx |-> p, attempt |-> n,
                          early |-> EarlyVerdict(o, p)]}

TakeReceipt(w, live, ok) ==
    LET o     == w.order
        isNew == w.tx \notin mem.reported[o]
        full  == isNew /\ Cardinality(mem.reported[o]) >= MaxReceipts
        L     == [mem EXCEPT !.rumors = @ \cup {w}, !.reported[o] = @ \cup {w.tx}]
    IN  /\ Taken(w) /\ w.type = "receipt" /\ w \notin mem.rumors
        /\ mem.status[o] \in {"open", "paid"}
        /\ IF full THEN ok /\ UNCHANGED <<ledger, tasks, told>>
           ELSE /\ Save(L, ok)
                /\ IF ok THEN resend(o) ELSE UNCHANGED told
                /\ IF ok /\ live /\ isNew /\ o \notin mem.done /\ w.tx \notin mem.judged[o]
                   THEN StartCheck(o, w.tx, 0) ELSE UNCHANGED tasks
        /\ UNCHANGED timers

\* checkReported, from the answer of the chain to the end.
CheckReported(t, verdict, ok) ==
    LET L == Judge(mem, t.order, t.tx, verdict)
    IN  /\ t.at = "check"
        /\ verdict \in IF t.early = None THEN Verdicts(t.order, t.tx) ELSE {t.early}
        /\ Save(L, ok)
        /\ IF ok /\ verdict = "paid"
           THEN /\ tasks' = (tasks \ {t}) \cup DeliverTasks(L)
                /\ told' = told \cup ToldOf(L, undeliveredOrders(L))
           ELSE tasks' = tasks \ {t} /\ UNCHANGED told
        /\ timers' = IF ok /\ verdict \in {"ask", "unresolved"} /\ t.attempt < Repeats
                     THEN timers \cup {[order |-> t.order, tx |-> t.tx,
                                        attempt |-> t.attempt + 1]}
                     ELSE timers
        /\ UNCHANGED <<inbox, flight, world, process>>

\* askAgain, when its delay is over.
AskAgain(r, live) ==
    /\ Idle /\ r \in timers
    /\ timers' = timers \ {r}
    /\ IF /\ live
          /\ mem.status[r.order] = "open"
          /\ r.tx \in mem.reported[r.order] \ mem.judged[r.order]
       THEN StartCheck(r.order, r.tx, r.attempt) ELSE UNCHANGED tasks
    /\ UNCHANGED <<ledger, inbox, flight, world, process, told>>

\* Mutant: what a closed order left unresolved goes with it.
PrunedWhole(L, gone) ==
    LET Without(f) == [o \in Orders |-> IF o \in gone THEN {} ELSE f[o]]
    IN  [L EXCEPT !.status = [o \in Orders |-> IF o \in gone THEN "closed" ELSE @[o]],
                  !.reported = Without(@), !.judged = Without(@), !.unresolved = Without(@)]

(***************************************************************************)
(* The sweep: resume point and prune, treasuries, each rail, save, deliver. *)
(***************************************************************************)
\* pruneExpiredOrders.  The transactions of a closed order are gone with it.
Pruned(L, gone) ==
    LET Without(f) == [o \in Orders |-> IF o \in gone THEN {} ELSE f[o]]
    IN  [L EXCEPT !.status = [o \in Orders |-> IF o \in gone THEN "closed" ELSE @[o]],
                  !.kept = @ \cup {e \in gone \X Payments : e[2] \in L.unresolved[e[1]]},
                  !.reported = Without(@), !.judged = Without(@), !.unresolved = Without(@)]

\* Mutant: the resume point is taken when the sweep runs.
StartSweepLate(gone) ==
    /\ Idle /\ sweep.queued /\ sweep.ahead = {}
    /\ gone \subseteq {o \in aged : mem.status[o] = "open"}
    /\ mem' = [Pruned(mem, gone) EXCEPT !.covered = IF sweep.live THEN waiting \cup mem.rumors ELSE @]
    /\ tasks' = tasks \cup {[at |-> "refresh"]}
    /\ sweep' = NoSweep
    /\ UNCHANGED <<disk, badWrites, timers, waiting, flight, world, process, told>>

StartSweep(gone) ==
    /\ Idle /\ sweep.queued /\ sweep.ahead = {}
    /\ gone \subseteq {o \in aged : mem.status[o] = "open"}
    /\ mem' = [Pruned(mem, gone) EXCEPT !.covered = IF sweep.live THEN sweep.upTo ELSE @]
    /\ tasks' = tasks \cup {[at |-> "refresh"]}
    /\ sweep' = NoSweep
    /\ UNCHANGED <<disk, badWrites, timers, waiting, flight, world, process, told>>

\* The payments a rail looks at: reported to it, or found by its scan.
Candidates(L, rail) ==
    {e \in openOrders(L) \X Payments :
        /\ RailOf[e[2]] = rail
        /\ e[2] \in L.reported[e[1]] \/ e[1] \in Pays[e[2]]
        /\ e[2] \notin L.judged[e[1]]}

RailTask(L, rail) == [at |-> "rail", rail |-> rail, todo |-> Candidates(L, rail)]

Refresh(t, known) ==
    LET L == [mem EXCEPT !.known = known]
    IN  /\ t.at = "refresh"
        /\ known \in {mem.known, TRUE} /\ (calm => known)
        /\ mem' = L
        /\ tasks' = (tasks \ {t}) \cup {RailTask(L, 1)}
        /\ UNCHANGED <<disk, badWrites, timers, inbox, flight, world, process, told>>

RailGoesOn(t, e) == [at |-> "rail", rail |-> t.rail, todo |-> t.todo \ {e}]

\* Mutant: the sweep records a payment without claiming it.
RailStepUnclaimed(t, o, p, verdict) ==
    /\ t.at = "rail" /\ <<o, p>> \in t.todo
    /\ verdict = IF o \in Pays[p] THEN "paid" ELSE "ask"
    /\ mem' = Judge(mem, o, p, verdict)
    /\ tasks' = (tasks \ {t}) \cup {RailGoesOn(t, <<o, p>>)}
    /\ UNCHANGED <<disk, badWrites, timers, inbox, flight, world, process, told>>

RailStep(t, o, p, verdict) ==
    /\ t.at = "rail" /\ <<o, p>> \in t.todo
    /\ IF mem.by[o] = None /\ p \notin mem.judged[o] /\ mem.claims[p] = None
       THEN verdict \in Verdicts(o, p) /\ mem' = Judge(mem, o, p, verdict)
       ELSE verdict = "ask" /\ UNCHANGED mem
    /\ tasks' = (tasks \ {t}) \cup {RailGoesOn(t, <<o, p>>)}
    /\ UNCHANGED <<disk, badWrites, timers, inbox, flight, world, process, told>>

\* A rail is through, or it throws: the next one has its turn.
RailOver(t) == t.at = "rail" /\ (t.todo = {} \/ ~calm)

NextRail(t) ==
    /\ RailOver(t) /\ t.rail < Rails
    /\ tasks' = (tasks \ {t}) \cup {RailTask(mem, t.rail + 1)}
    /\ UNCHANGED <<ledger, timers, inbox, flight, world, process, told>>

EndSweep(t, ok) ==
    /\ RailOver(t) /\ t.rail = Rails
    /\ Save(mem, ok)
    /\ IF ok THEN /\ tasks' = (tasks \ {t}) \cup DeliverTasks(mem)
                  /\ told' = told \cup ToldOf(mem, undeliveredOrders(mem))
       ELSE tasks' = tasks \ {t} /\ UNCHANGED told
    /\ UNCHANGED <<timers, inbox, flight, world, process>>

(***************************************************************************)
(* WebhookSender.  A pick is a task; the request runs off the queue; its   *)
(* outcome is another task.  flight[o] is "" while o is not in inFlight.   *)
(***************************************************************************)
inFlight == {o \in Orders : flight[o] # ""}

\* Mutant: an entry in flight is picked again.
dueUnguarded == {o \in Orders : mem.hook[o] = "pending"}

dueWebhooks == {o \in Orders : mem.hook[o] = "pending"} \ inFlight

\* The clock decides which entries are past their nextAt, and past their deadline.
WebhookTick(picked, late) ==
    /\ Idle /\ picked \subseteq dueWebhooks /\ picked # {} /\ late \subseteq picked
    /\ Cardinality(inFlight \cup picked) <= InFlightMax
    /\ flight' = [o \in Orders |-> IF o \notin picked THEN flight[o]
                                   ELSE IF o \in late THEN "late" ELSE "posted"]
    /\ told' = told \cup ToldOf(mem, picked \ late)
    /\ UNCHANGED <<ledger, queue, inbox, world, process>>

\* The answer is in; "no" also stands for an answer that was lost.
WebhookAnswer(o, answer) ==
    /\ up /\ flight[o] = "posted"
    /\ calm => answer = "ok"
    /\ flight' = [flight EXCEPT ![o] = answer]
    /\ UNCHANGED <<ledger, queue, inbox, world, process, told>>

applySendResult(o) ==
    IF flight[o] = "ok" THEN {"sent"}
    ELSE IF flight[o] = "late" THEN {"failed"} ELSE {"pending", "failed"}

\* Mutant: a failed attempt is never taken out of inFlight.
WebhookCommitOnce(o, state, ok) ==
    /\ Idle /\ flight[o] \in {"ok", "no", "late"} /\ state \in applySendResult(o)
    /\ Save([mem EXCEPT !.hook[o] = state], ok)
    /\ flight' = [flight EXCEPT ![o] = IF state = "pending" THEN "gone" ELSE ""]
    /\ UNCHANGED <<queue, inbox, world, process, told>>

WebhookCommit(o, state, ok) ==
    /\ Idle /\ flight[o] \in {"ok", "no", "late"} /\ state \in applySendResult(o)
    /\ Save([mem EXCEPT !.hook[o] = state], ok)
    /\ flight' = [flight EXCEPT ![o] = ""]
    /\ UNCHANGED <<queue, inbox, world, process, told>>

(***************************************************************************)
(* The process.  A crash, and the stop for an RPC of another cluster, lose *)
(* everything but the file; the relays hand every wrap over again.         *)
(***************************************************************************)
Down(saved) ==
    /\ crashes < MaxCrashes /\ ~calm
    /\ up' = FALSE /\ crashes' = crashes + 1
    /\ mem' = saved /\ disk' = saved
    /\ tasks' = {} /\ timers' = {} /\ waiting' = {} /\ sweep' = NoSweep
    /\ flight' = [o \in Orders |-> ""]
    /\ aged' = {o \in aged : saved.status[o] # "absent"}
    /\ UNCHANGED <<badWrites, calm, told>>

Crash == up /\ Down(disk)

\* refreshTreasuries found another cluster: save, then stop.
WrongCluster(t, ok) ==
    /\ t.at = "refresh" /\ ~calm
    /\ IF ok THEN Down(mem)
       ELSE /\ Save(mem, FALSE) /\ tasks' = tasks \ {t}
            /\ UNCHANGED <<timers, inbox, flight, world, process, told>>

Start ==
    /\ ~up /\ up' = TRUE
    /\ UNCHANGED <<ledger, queue, inbox, flight, world, crashes, told>>

(***************************************************************************)
(* The owner's commands take the node's lock: they run while it is down.   *)
(***************************************************************************)
applyHandAnswer(L, o, kind) ==
    [L EXCEPT !.status[o] = "closed", !.answer[o] = kind,
              !.reported[o] = {}, !.judged[o] = {}, !.unresolved[o] = {},
              !.kept = {e \in @ : e[1] # o}]

\* Neither an order that is paid nor one that was answered.
planHandAnswer(o) == disk.status[o] \in {"open", "closed"} /\ disk.answer[o] = None

\* An answer is saved before it is published; a rerun publishes the stored one.
HandAnswer(o, kind) ==
    /\ ~up /\ planHandAnswer(o)
    /\ disk' = applyHandAnswer(disk, o, kind) /\ mem' = disk'
    /\ UNCHANGED <<badWrites, queue, inbox, flight, world, process, told>>

rearmWebhook(o, kind) ==
    /\ disk.status[o] = "paid"
    /\ kind = "retry" => disk.hook[o] \in {"pending", "failed"}

\* webhook retry and resend: saved as pending, sent once, the outcome saved.
WebhookAgain(o, kind, result) ==
    /\ ~up /\ rearmWebhook(o, kind)
    /\ disk' = [disk EXCEPT !.hook[o] = result] /\ mem' = disk'
    /\ told' = told \cup ToldOf(disk, {o})
    /\ UNCHANGED <<badWrites, queue, inbox, flight, world, process>>

(***************************************************************************)
(* The world: buyers, chains, clocks.                                      *)
(***************************************************************************)
\* The catch-up window of an open order ends.
GrowOld(o) ==
    /\ mem.status[o] = "open" /\ o \notin aged /\ aged' = aged \cup {o}
    /\ UNCHANGED <<ledger, queue, inbox, flight, calm, process, told>>

Calm ==
    /\ CalmComes /\ ~calm /\ calm' = TRUE
    /\ UNCHANGED <<ledger, queue, inbox, flight, aged, process, told>>

-----------------------------------------------------------------------------
Init ==
    /\ mem = emptyLedger /\ disk = emptyLedger
    /\ tasks = {} /\ waiting = {} /\ timers = {} /\ sweep = NoSweep
    /\ flight = [o \in Orders |-> ""]
    /\ aged = {} /\ calm = FALSE
    /\ up = FALSE /\ crashes = 0 /\ badWrites = 0
    /\ told = {}

\* What leaves the queue next; the queue is first in, first out.
TakeWrap ==
    \E w \in waiting :
        \/ TakeEarlyReceipt(w)
        \/ \E ok \in BOOLEAN : TakeOrder(w, ok)
        \/ \E live, ok \in BOOLEAN : TakeReceipt(w, live, ok)

TakeTimer == \E r \in timers, live \in BOOLEAN : AskAgain(r, live)

TakeSweep == \E gone \in SUBSET Orders : StartSweep(gone)

TakeTick(o) ==
    \E picked, late \in SUBSET Orders : o \in picked /\ WebhookTick(picked, late)

TakeOutcome(o) ==
    \E state \in {"sent", "failed", "pending"}, ok \in BOOLEAN : WebhookCommit(o, state, ok)

\* The suspended task goes on.
Resume ==
    \E t \in tasks :
        \/ \E v \in {"paid", "refused", "unresolved", "ask"}, ok \in BOOLEAN :
              CheckReported(t, v, ok)
        \/ \E known \in BOOLEAN : Refresh(t, known)
        \/ \E e \in Orders \X Payments, v \in {"paid", "refused", "unresolved", "ask"} :
              RailStep(t, e[1], e[2], v)
        \/ NextRail(t)
        \/ \E ok \in BOOLEAN : EndSweep(t, ok)
        \/ \E got \in [Orders -> SUBSET Relays], old \in SUBSET Orders, ok \in BOOLEAN :
              Deliver(t, got, old, ok)

Node ==
    \/ TakeWrap \/ TakeTimer \/ TakeSweep \/ Resume
    \/ \E o \in Orders : TakeTick(o) \/ TakeOutcome(o)
    \/ \E o \in Orders, answer \in {"ok", "no"} : WebhookAnswer(o, answer)
    \/ \E live \in BOOLEAN : QueueSweep(live)
    \/ \E w \in Wraps : Receive(w) \/ ReadAgain(w)

Owner ==
    \E o \in Orders :
        \/ \E kind \in {"complete", "refund"} : HandAnswer(o, kind)
        \/ \E kind \in {"retry", "resend"}, result \in {"pending", "sent"} :
              WebhookAgain(o, kind, result)

World ==
    \/ \E o \in Orders : GrowOld(o)
    \/ Calm

Next ==
    \/ Node \/ Owner \/ World
    \/ Start \/ Crash \/ \E t \in tasks, ok \in BOOLEAN : WrongCluster(t, ok)

Spec == Init /\ [][Next]_vars

\* The queue serves every task; a suspended task ends; in the end all is calm.
FairSpec ==
    /\ Spec
    /\ WF_vars(Start) /\ WF_vars(Calm)
    /\ WF_vars(\E live \in BOOLEAN : QueueSweep(live))
    /\ WF_vars(Resume)
    /\ SF_vars(TakeWrap) /\ SF_vars(TakeSweep) 
    /\ \A o \in Orders : /\ SF_vars(TakeTick(o)) /\ SF_vars(TakeOutcome(o))
                         /\ WF_vars(\E answer \in {"ok", "no"} : WebhookAnswer(o, answer))

-----------------------------------------------------------------------------
Task ==
    [at : {"deliver"}, pending : SUBSET Orders]
    \cup [at : {"refresh"}]
    \cup [at : {"rail"}, rail : 1..Rails, todo : SUBSET (Orders \X Payments)]
    \cup [at : {"check"}, order : Orders, tx : Payments, attempt : 0..Repeats,
          early : {"refused", "paid", None}]

\* Every variable has its type, and a paid order names the payment that paid it.
TypeOK ==
    /\ mem \in LedgerState /\ disk \in LedgerState
    /\ tasks \subseteq Task /\ (\A t, u \in tasks : t = u)
    /\ waiting \subseteq Wraps
    /\ timers \subseteq [order : Orders, tx : Payments, attempt : 1..Repeats]
    /\ sweep \in Sweep
    /\ flight \in [Orders -> {"", "posted", "ok", "no", "late"}]
    /\ aged \subseteq Orders /\ calm \in BOOLEAN
    /\ up \in BOOLEAN /\ crashes \in 0..MaxCrashes /\ badWrites \in 0..MaxBadWrites
    /\ told \subseteq Orders \X Payments

\* Nobody is ever told of two payments of one order, nor of one payment for
\* two orders: over every rail, crash, prune and hand answer, as long as no
\* save failed.  It is what the one queue and the claims are for.
AnnouncedOnce ==
    badWrites = 0 =>
        \A a, b \in told : a[1] = b[1] <=> a[2] = b[2]

\* An order that the owner answered by hand was told to nobody as paid, and
\* will not be: its buyer hears one answer.
AnsweredIsNotTold ==
    badWrites = 0 =>
        \A o \in Orders : disk.answer[o] # None => \A p \in Payments : <<o, p>> \notin told

\* The resume point never passes an order that the ledger has not got: what
\* a restart no longer reads is in the file, failed saves included.
OrderIsNotLost ==
    \A w \in disk.covered : w.type = "order" => disk.status[w.order] # "absent"

\* A payment that waits for the treasuries stays in sight of the owner until
\* its order is paid or answered, or the payment is another order's.
UnresolvedIsKept ==
    [][\A o \in Orders, p \in Payments :
           p \in disk.unresolved[o] \/ <<o, p>> \in disk.kept
           => \/ p \in disk'.unresolved[o] \/ <<o, p>> \in disk'.kept
              \/ disk'.status[o] = "paid" \/ disk'.answer[o] # None
              \/ disk'.claims[p] # None]_vars

\* A webhook that the backend took is not sent again by the run that sent it.
AckedIsNotResent ==
    [][\A o \in Orders :
           up' /\ (flight[o] = "ok" \/ mem.hook[o] = "sent") => flight'[o] # "posted"]_vars

\* What the file says is paid reaches the buyer's relays and the backend, or
\* the webhook ends as failed in sight of the owner.
PaidIsTold ==
    \A o \in Orders :
        disk.status[o] = "paid" ~> o \in disk.done /\ disk.hook[o] \in {"sent", "failed"}

\* A payment that landed for an open order in its window is credited, unless
\* the order ages out, another payment pays it, or the payment is another's.
LandedIsFound ==
    \A o \in Orders, p \in Payments :
        disk.status[o] = "open" /\ o \in Pays[p]
        ~> disk.status[o] # "open" \/ disk.claims[p] # None \/ o \in aged

\* What the file claims is a Settlement: a payment is spent on one order, and
\* stays spent on it over crashes, failed saves, prunes and hand answers.
claimed == {e \in Payments \X Orders : disk.claims[e[1]] = e[2]}

Claims == INSTANCE Settlement WITH spent <- claimed

ClaimsAreSettled == Claims!Spec
=============================================================================
