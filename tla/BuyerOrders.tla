---------------------------- MODULE BuyerOrders -----------------------------
(***************************************************************************)
(* How the tabs of a buyer pay the orders of one product: the flows of     *)
(* packages/commerce/src/buyer (order-flow.ts, solana-pay.ts, tempo-pay.ts *)
(* and eip3009-pay.ts) over the records of OrderStore, with the wallets,   *)
(* the chain and the store's answers.                                      *)
(*                                                                         *)
(* A wallet prompt on Solana and for an EIP-3009 signature is of use only  *)
(* to the tab that asked; one that sends (Tempo, the EIP-3009 transaction) *)
(* outlives its tab and can be approved at any time.                       *)
(***************************************************************************)
EXTENDS OrderStore

CONSTANTS
    Tabs,     \* tabs or processes that share the records
    Wallets,  \* accounts an authorization can be signed with
    RailSets, \* the rails the orders may be of: a set of [Orders -> Rails]
    Valid     \* how long an attempt can land, in ticks of the clock

ASSUME FlowAssumption ==
    /\ RailSets \subseteq [Orders -> Rails]
    /\ Valid \in Nat
    /\ None \notin Tabs \cup Wallets

VARIABLES
    att,    \* [Attempts -> Attempt]: each attempt, the wallet's and the chain's side of it
    tab     \* [Tabs -> Tab]: where the flow of each tab stands

vars == <<rail, rec, att, tab>>

\* marked: no wallet was asked.  asked: a prompt is open.  signed: bytes in the
\* tab only.  held: an authorization on record, not sent.  sending: a prompt to
\* send it is open.  failed: the wallet failed, nothing was sent.
Stages == {"unused", "marked", "asked", "signed", "failed", "held", "sending", "sent",
           "landed", "guarded", "dead"}

\* age is the time since the marker was set, counted to just past Valid.
Attempt == [order : Orders \cup {None}, payer : Wallets \cup {None}, stage : Stages,
            age : 0..(Valid + 1)]

Unused == [order |-> None, payer |-> None, stage |-> "unused", age |-> 0]

\* "over" is a proof in hand, "handle" one of the objects that ask a wallet again.
Phases == {"idle", "ready", "marked", "asked", "signed", "failed", "held", "handle",
           "sending", "proving", "over"}

\* again: a decline no longer frees the order.  fresh: the record is the version
\* this tab judged.
Tab == [at : Phases, order : Orders \cup {None}, attempt : Attempts \cup {None},
        again : BOOLEAN, fresh : BOOLEAN]

Idle == [at |-> "idle", order |-> None, attempt |-> None, again |-> FALSE, fresh |-> TRUE]

\* The phases in which the tab's next write states the version it judged.
Judging == {"ready", "marked", "proving", "over"}

At(t, phase) == tab[t].at = phase

OnRail(t, r) == tab[t].order # None /\ rail[tab[t].order] = r

\* What a committed write of o leaves of the tabs: who judged o is out of date.
Told(o) ==
    [u \in Tabs |-> IF tab[u].order = o /\ tab[u].at \in Judging
                    THEN [tab[u] EXCEPT !.fresh = FALSE] ELSE tab[u]]

Write(o, r) == rec' = [rec EXCEPT ![o] = r] /\ tab' = Told(o)

\* A write by the flow of tab t, which goes on as v with the record it wrote.
Commit(t, o, r, v) == rec' = [rec EXCEPT ![o] = r] /\ tab' = [Told(o) EXCEPT ![t] = v]

Goes(t, v) == tab' = [tab EXCEPT ![t] = v] /\ UNCHANGED rec

To(t, phase) == [tab[t] EXCEPT !.at = phase]

Becomes(a, stage) == att' = [att EXCEPT ![a].stage = stage]

Unasked == {a \in Attempts : att[a].stage = "unused"}

\* A new attempt, numbered in the order they are made.
NewAttempt(a, o, payer, stage) ==
    /\ a \in Unasked /\ \A b \in Unasked : a <= b
    /\ att' = [att EXCEPT ![a] = [order |-> o, payer |-> payer, stage |-> stage, age |-> 0]]

Of(o) == {a \in Attempts : att[a].order = o}

Landed(o) == {a \in Of(o) : att[a].stage = "landed"}

Payers(o) == IF rail[o] = "eip3009" THEN Wallets ELSE {None}

(***************************************************************************)
(* The order, the store's answers, the clock and the chain.                *)
(***************************************************************************)
placeOrder(o) ==
    /\ rec[o].state = "none"
    /\ Write(o, [rec[o] EXCEPT !.state = "created"])
    /\ UNCHANGED <<rail, att>>

\* settleHeldStatus: an answer that came before the order was acknowledged.
Settled(status) == IF status \in Terminal THEN status ELSE "ordered"

acknowledge(o) ==
    /\ rec[o].state = "created"
    /\ Write(o, [rec[o] EXCEPT !.state = Settled(rec[o].status)])
    /\ UNCHANGED <<rail, att>>

\* Mutant: the state is whatever the store says.
StateFollowsStatus(o, status) ==
    /\ rec[o].state \notin Terminal \cup {"none"}
    /\ status \in NextStatuses[rec[o].status]
    /\ Write(o, [rec[o] EXCEPT !.status = status, !.state = status])
    /\ UNCHANGED <<rail, att>>

\* The answer with the state it settles, or the answer alone.
applyStatus(o, status) ==
    /\ rec[o].state \notin Terminal \cup {"none"}
    /\ status \in NextStatuses[rec[o].status]
    /\ Write(o, [rec[o] EXCEPT !.status = status,
                               !.state = IF status \in NextStates[@] THEN status ELSE @])
    /\ UNCHANGED <<rail, att>>

\* The buyer reads the warning about an older prompt and goes on.
ConfirmOver(o, p) ==
    /\ rec[o].state \in {"ordered", "paying"} /\ p \in unconfirmedOver(o)
    /\ Write(o, [rec[o] EXCEPT !.confirmed = @ \cup {p}])
    /\ UNCHANGED <<rail, att>>

Tick ==
    /\ \E a \in Attempts : att[a].stage # "unused" /\ att[a].age <= Valid
    /\ att' = [a \in Attempts |->
                 IF att[a].stage # "unused" /\ att[a].age <= Valid
                 THEN [att[a] EXCEPT !.age = @ + 1] ELSE att[a]]
    /\ UNCHANGED <<rail, rec, tab>>

\* A blockhash and an authorization end; a Tempo call does not.
Lasts(a) == rail[att[a].order] = "tempo" \/ att[a].age <= Valid

\* The authorizations of one account for one order share a nonce.
NonceUsed(a) ==
    \E b \in Landed(att[a].order) : rail[att[a].order] = "eip3009" /\ att[b].payer = att[a].payer

Land(a) ==
    /\ att[a].stage = "sent" /\ Lasts(a) /\ ~NonceUsed(a)
    /\ Becomes(a, "landed")
    /\ UNCHANGED <<rail, rec, tab>>

\* The money goes to the recipient's transfer policy guard.
Guarded(a) ==
    /\ att[a].stage = "sent" /\ rail[att[a].order] = "tempo"
    /\ Becomes(a, "guarded")
    /\ UNCHANGED <<rail, rec, tab>>

\* The wallet's side of a prompt that outlives its tab.
ApproveSend(a) ==
    /\ \/ att[a].stage = "asked" /\ rail[att[a].order] = "tempo"
       \/ att[a].stage = "sending"
    /\ Becomes(a, "sent")
    /\ UNCHANGED <<rail, rec, tab>>

(***************************************************************************)
(* The first attempt of an order.                                          *)
(***************************************************************************)
\* The checks, and the payment request, which is written once.
StartPay(t, o) ==
    LET ready == [Idle EXCEPT !.at = "ready", !.order = o]
    IN  /\ At(t, "idle")
        /\ rec[o].state = "ordered" /\ rec[o].marker = None
        /\ IF rec[o].request THEN Goes(t, ready)
           ELSE Commit(t, o, [rec[o] EXCEPT !.request = TRUE], ready)
        /\ UNCHANGED <<rail, att>>

\* Solana and EIP-3009 ask the wallet at once, Tempo reads its chain first.
SetMarker(t) ==
    LET o == tab[t].order
        next == IF rail[o] = "tempo" THEN "marked" ELSE "asked"
    IN  /\ At(t, "ready") /\ tab[t].fresh /\ judgeSetMarker(o)
        /\ \E a \in Attempts, w \in Payers(o) :
              /\ NewAttempt(a, o, w, next)
              /\ Commit(t, o, Marked(rec[o], a, "none"), [To(t, next) EXCEPT !.attempt = a])
        /\ UNCHANGED rail

AskTempo(t) ==
    /\ At(t, "marked")
    /\ Becomes(tab[t].attempt, "asked")
    /\ Goes(t, To(t, "asked"))
    /\ UNCHANGED rail

\* clearNotRequested: the wallet is on another chain, or cannot batch.
clearNotRequested(t) ==
    /\ At(t, "marked") /\ tab[t].fresh /\ judgeClear(tab[t].order, tab[t].attempt)
    /\ Becomes(tab[t].attempt, "dead")
    /\ Commit(t, tab[t].order, Unmarked(rec[tab[t].order]), Idle)
    /\ UNCHANGED rail

(***************************************************************************)
(* What the wallet answers.                                                *)
(***************************************************************************)
Approve(t) ==
    /\ At(t, "asked") /\ ~OnRail(t, "tempo")
    /\ Becomes(tab[t].attempt, "signed")
    /\ Goes(t, To(t, "signed"))
    /\ UNCHANGED rail

\* releaseRejected, clearUnsigned: the attempt frees its order if it still holds it.
Release(t) ==
    IF judgeClear(tab[t].order, tab[t].attempt)
    THEN Commit(t, tab[t].order, Unmarked(rec[tab[t].order]), Idle)
    ELSE Goes(t, Idle)

\* endRejected: nothing was signed, and a Tempo order has no second attempt.
endRejected(t) ==
    IF judgeEnd(tab[t].order, tab[t].attempt, FALSE)
    THEN Commit(t, tab[t].order, Ended(rec[tab[t].order], "rejected"), Idle)
    ELSE Goes(t, Idle)

\* The prompt of tab t is declined.  A Solana attempt that was asked again keeps
\* its handle, an authorization that was signed before stays on record.
Decline(t) ==
    /\ At(t, "asked") /\ att[tab[t].attempt].stage = "asked"
    /\ \/ /\ OnRail(t, "solana") /\ tab[t].again
          /\ Becomes(tab[t].attempt, "failed") /\ Goes(t, To(t, "failed"))
       \/ /\ Becomes(tab[t].attempt, "dead")
          /\ \/ OnRail(t, "tempo") /\ endRejected(t)
             \/ OnRail(t, "eip3009") /\ tab[t].again /\ Goes(t, Idle)
             \/ ~OnRail(t, "tempo") /\ ~tab[t].again /\ Release(t)
    /\ UNCHANGED rail

\* The wallet fails.  On Solana nothing was sent, and the tab may ask again; on
\* Tempo nobody knows, and the marker stays.
WalletFails(t) ==
    /\ At(t, "asked")
    /\ \/ /\ OnRail(t, "solana")
          /\ Becomes(tab[t].attempt, "failed") /\ Goes(t, To(t, "failed"))
       \/ OnRail(t, "tempo") /\ Goes(t, Idle) /\ UNCHANGED att
    /\ UNCHANGED rail

\* signAgainWithSolana: the same attempt, well before its blockhash ends.
SignAgain(t) ==
    LET o == tab[t].order
    IN  /\ At(t, "failed")
        /\ HoldsAttempt(o, tab[t].attempt) /\ ~storeClosed(rec[o])
        /\ rec[o].evidence = "none" /\ att[tab[t].attempt].age < Valid
        /\ Becomes(tab[t].attempt, "asked")
        /\ Goes(t, [To(t, "asked") EXCEPT !.again = TRUE])
        /\ UNCHANGED rail

\* Solana: the signed bytes are recorded, then sent.  EIP-3009: the signature is
\* recorded, then the transaction is prepared.  What cannot be recorded is dropped.
SaveSigned(t) ==
    LET o == tab[t].order
        a == tab[t].attempt
    IN  /\ At(t, "signed")
        /\ IF judgeSave(o, a)
           THEN /\ Becomes(a, IF rail[o] = "solana" THEN "sent" ELSE "held")
                /\ Commit(t, o, [rec[o] EXCEPT !.evidence = "signed"],
                          IF rail[o] = "solana" THEN Idle ELSE To(t, "held"))
           ELSE Becomes(a, "dead") /\ Goes(t, Idle)
        /\ UNCHANGED rail

\* Gas, a failed read or another chain: the tab keeps a handle to send later.
HoldBack(t) ==
    /\ At(t, "held") /\ Goes(t, To(t, "handle"))
    /\ UNCHANGED <<rail, att>>

\* resendWithEip3009 reads the record again before it asks.
Resendable(t) ==
    /\ HoldsAttempt(tab[t].order, tab[t].attempt)
    /\ ~storeClosed(rec[tab[t].order]) /\ rec[tab[t].order].evidence = "signed"

send(t) ==
    /\ At(t, "held") \/ (At(t, "handle") /\ Resendable(t))
    /\ att[tab[t].attempt].age < Valid
    /\ Becomes(tab[t].attempt, "sending")
    /\ Goes(t, To(t, "sending"))
    /\ UNCHANGED rail

DeclineSend(t) ==
    /\ At(t, "sending") /\ att[tab[t].attempt].stage = "sending"
    /\ Becomes(tab[t].attempt, "held")
    /\ Goes(t, To(t, "handle"))
    /\ UNCHANGED rail

\* saveHash, saveTempoHash, saveTempoBundle: what a wallet that sent returns.
SaveHash(t) ==
    LET o == tab[t].order
    IN  /\ At(t, "sending") \/ (At(t, "asked") /\ OnRail(t, "tempo"))
        /\ att[tab[t].attempt].stage \in {"sent", "landed", "guarded"}
        /\ IF judgeSave(o, tab[t].attempt)
           THEN \E e \in IF rail[o] = "tempo" THEN {"hash", "bundle"} ELSE {"signed"} :
                   Commit(t, o, [rec[o] EXCEPT !.evidence = e], Idle)
           ELSE Goes(t, Idle)
        /\ UNCHANGED <<rail, att>>

\* followTempoBundle: the wallet names the hash, or gave the bundle up.
followTempoBundle(o) ==
    LET a == rec[o].marker
    IN  /\ rec[o].state = "paying" /\ rec[o].evidence = "bundle"
        /\ \/ /\ att[a].stage = "landed"
              /\ Write(o, [rec[o] EXCEPT !.evidence = "hash"]) /\ UNCHANGED att
           \/ /\ att[a].stage = "sent" /\ Becomes(a, "dead")
              /\ Write(o, [rec[o] EXCEPT !.evidence = "failed"])
        /\ UNCHANGED rail

(***************************************************************************)
(* Watching: a payment is found, or the attempt is proved over.            *)
(***************************************************************************)
\* recordPaid, on whatever version is stored by then.
recordPaid(o) ==
    /\ Landed(o) # {} /\ rec[o].marker # None /\ "paid" \in NextStates[rec[o].state]
    /\ Write(o, [rec[o] EXCEPT !.state = "paid"])
    /\ UNCHANGED <<rail, att>>

recordBlocked(o) ==
    /\ \E a \in Of(o) : att[a].stage = "guarded"
    /\ rec[o].marker # None /\ "blocked" \in NextStates[rec[o].state]
    /\ Write(o, [rec[o] EXCEPT !.state = "blocked"])
    /\ UNCHANGED <<rail, att>>

\* Mutant: an attempt counts as over in the last tick it can land in.
PastAtLast(o) == att[rec[o].marker].age >= Valid

\* The clock of the chain, as finalized, is past what the marker allows.  For an
\* authorization that is the latest validBefore any signature carries.
Past(o) == att[rec[o].marker].age > Valid

\* The expiry is read first, and the chain after it.
StartLook(t, o) ==
    /\ At(t, "idle") /\ rec[o].state = "paying" /\ Past(o)
    /\ Goes(t, [Idle EXCEPT !.at = "proving", !.order = o, !.attempt = rec[o].marker])
    /\ UNCHANGED <<rail, att>>

\* Every signature listed since the marker was read and none pays.
searchPayment(o) == Landed(o) = {}

\* No transfer with the order's memo up to the finalized head.
watchTempoPayment(o) == Landed(o) = {}

\* The token says that the nonce of this payer is unused.
proveAuthorizationOver(o, payer) == \A a \in Landed(o) : att[a].payer # payer

\* The pass finds no payment, by what each chain can be asked.
Look(t) ==
    LET o == tab[t].order
    IN  /\ At(t, "proving")
        /\ CASE rail[o] = "solana"  -> searchPayment(o)
             [] rail[o] = "tempo"   -> watchTempoPayment(o)
             [] rail[o] = "eip3009" -> proveAuthorizationOver(o, att[tab[t].attempt].payer)
        /\ Goes(t, To(t, "over"))
        /\ UNCHANGED <<rail, att>>

\* endSolanaOrder, endTempoOrder, endEip3009Order with a proof in hand.
EndOver(t) ==
    LET o == tab[t].order
    IN  /\ At(t, "over") /\ tab[t].fresh /\ judgeEnd(o, tab[t].attempt, TRUE)
        /\ Commit(t, o, Ended(rec[o], IF rail[o] = "tempo" THEN "over" ELSE "none"), Idle)
        /\ UNCHANGED <<rail, att>>

\* A new attempt of the order replaces the marker; on EIP-3009 what was signed
\* before stays on record.
Replace(t, o, w) ==
    \E a \in Attempts :
        /\ NewAttempt(a, o, w, "asked")
        /\ Commit(t, o, Marked(rec[o], a, IF rail[o] = "solana" THEN "none" ELSE "signed"),
                  [at |-> "asked", order |-> o, attempt |-> a, again |-> rail[o] = "eip3009",
                   fresh |-> TRUE])

\* A proof is in hand, and the record is still the one it was made for.
MayRetryOver(t) == At(t, "over") /\ tab[t].fresh /\ judgeRetry(tab[t].order, tab[t].attempt)

retryWithSolana(t) ==
    /\ OnRail(t, "solana") /\ MayRetryOver(t)
    /\ Replace(t, tab[t].order, None)
    /\ UNCHANGED rail

switchWalletWithEip3009(t) ==
    /\ OnRail(t, "eip3009") /\ MayRetryOver(t)
    /\ \E w \in Wallets : Replace(t, tab[t].order, w)
    /\ UNCHANGED rail

\* retryWithEip3009: the account that signed may sign again at once.
retryWithEip3009(t, o) ==
    /\ At(t, "idle") /\ rail[o] = "eip3009" /\ judgeRetry(o, rec[o].marker)
    /\ Replace(t, o, att[rec[o].marker].payer)
    /\ UNCHANGED rail

\* clearUnsignedEip3009, restartUnsigned: a marker nobody signed for, of no call
\* of this tab, frees its order, whatever another tab still asks.
clearUnsigned(t, o) ==
    /\ At(t, "idle") /\ rail[o] = "eip3009" /\ judgeClear(o, rec[o].marker)
    /\ Write(o, Unmarked(rec[o]))
    /\ UNCHANGED <<rail, att>>

\* The order is given up before anything was signed.
endNothingRequested(o) ==
    /\ \/ rec[o].state = "ordered" /\ rec[o].marker = None
       \/ rail[o] = "eip3009" /\ rec[o].evidence = "none" /\ rec[o].state = "paying"
    /\ Write(o, Ended(rec[o], IF rail[o] = "tempo" THEN "nothing" ELSE "none"))
    /\ UNCHANGED <<rail, att>>

\* The tab is closed, or its flow ends with a refusal: what only it held is lost.
Leave(t) ==
    LET a == tab[t].attempt
    IN  /\ ~At(t, "idle")
        /\ att' = IF \/ tab[t].at \in {"marked", "signed", "failed", "held", "handle"}
                     \/ At(t, "asked") /\ ~OnRail(t, "tempo")
                  THEN [att EXCEPT ![a].stage = "dead"] ELSE att
        /\ Goes(t, Idle)
        /\ UNCHANGED rail

Init ==
    /\ rail \in RailSets
    /\ rec = [o \in Orders |-> NoRecord]
    /\ att = [a \in Attempts |-> Unused]
    /\ tab = [t \in Tabs |-> Idle]

OrderStep(o) ==
    \/ placeOrder(o) \/ acknowledge(o) \/ recordPaid(o) \/ recordBlocked(o)
    \/ followTempoBundle(o) \/ endNothingRequested(o)
    \/ \E status \in Statuses : applyStatus(o, status)
    \/ \E p \in Orders : ConfirmOver(o, p)

TabStep(t) ==
    \/ SetMarker(t) \/ AskTempo(t) \/ clearNotRequested(t) \/ Approve(t) \/ Decline(t)
    \/ WalletFails(t) \/ SignAgain(t) \/ SaveSigned(t) \/ HoldBack(t) \/ send(t)
    \/ DeclineSend(t) \/ SaveHash(t) \/ Look(t) \/ EndOver(t) \/ retryWithSolana(t)
    \/ switchWalletWithEip3009(t) \/ Leave(t)
    \/ \E o \in Orders :
          StartPay(t, o) \/ StartLook(t, o) \/ retryWithEip3009(t, o) \/ clearUnsigned(t, o)

ChainStep(a) == Land(a) \/ Guarded(a) \/ ApproveSend(a)

Next ==
    \/ Tick
    \/ \E o \in Orders : OrderStep(o)
    \/ \E t \in Tabs : TabStep(t)
    \/ \E a \in Attempts : ChainStep(a)

Spec == Init /\ [][Next]_vars

-----------------------------------------------------------------------------
\* Every variable keeps its type.
TypeOK ==
    /\ rail \in [Orders -> Rails]
    /\ rec \in [Orders -> Record]
    /\ att \in [Attempts -> Attempt]
    /\ tab \in [Tabs -> Tab]

\* The money of attempt a can move without another write of the records.
Able(a) ==
    /\ \/ att[a].stage \in {"sent", "sending"}
       \/ att[a].stage = "asked" /\ rail[att[a].order] = "tempo"
    /\ Lasts(a)

\* The buyer was told of order o's open prompt before order p asked, the store
\* has answered o, or its money went to the guard.
Excused(o, p) ==
    \/ rec[o].endedBy = "over" /\ o \in rec[p].confirmed
    \/ rec[o].state \in Terminal

Spends(o) == \E a \in Of(o) : Able(a) \/ att[a].stage = "landed"

\* However many tabs press pay, one order of the product pays: a second one
\* moves money only after the store answered the first, or after the buyer was
\* warned of the first one's open prompt (setMarker, the retry of updateMarker).
OnlyOnePays ==
    \A o, p \in Orders : o # p /\ Spends(o) /\ Spends(p) => Excused(o, p) \/ Excused(p, o)

\* An order is paid once, over retries, declined prompts, other accounts, late
\* answers and closed tabs (the end proof, the nonce, the attempt id).
PaidOncePerOrder == \A o \in Orders : \A a, b \in Landed(o) : a = b

\* What can still land is on record, so that a reload finds it: the attempt of
\* the marker, or, of one authorizer, an earlier one (markerEvidence).
InFlightIsOnRecord ==
    \A a \in Attempts :
        Able(a) =>
            LET r == rec[att[a].order]
            IN  /\ r.marker # None
                /\ rail[att[a].order] # "tempo" =>
                      r.evidence = "signed" /\ att[r.marker].payer = att[a].payer
                /\ rail[att[a].order] # "eip3009" => r.marker = a

\* An order that gave the product back moved no money and cannot, but for a
\* Tempo prompt that outlived its deadline (judgeClearMarker, clearUnsigned).
FreedIsUnpaid ==
    \A o \in Orders :
        rec[o].state \in {"ordered", "ended"} /\ rec[o].endedBy # "over" => ~Spends(o)

\* What the chain took is a Settlement, of which the order is spent: it buys with
\* one attempt and stays bought with it, whatever else the tabs ask and retry.
bought == {x \in Orders \X Attempts : x[2] \in Landed(x[1])}

Purchases == INSTANCE Settlement WITH Payments <- Orders, Orders <- Attempts, spent <- bought

PurchasesAreSettled == Purchases!Spec
=============================================================================
