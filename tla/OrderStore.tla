----------------------------- MODULE OrderStore -----------------------------
(***************************************************************************)
(* The rules of the buyer's order records                                  *)
(* (packages/commerce/src/buyer/order-store.ts, order-record.ts), for the  *)
(* orders of one product: what a record holds, which write may apply to it *)
(* and when it keeps the product's other orders from asking a wallet.      *)
(*                                                                         *)
(* Every rule is judged inside one transaction over all records of the     *)
(* product, so it is an operator over them.  The version a writer judged   *)
(* is kept by the writer: it is out of date once another write committed.  *)
(***************************************************************************)
EXTENDS Naturals

CONSTANTS
    Orders,       \* order ids of one product
    MaxAttempts,  \* bound: payment attempts in all
    None          \* a field that is undefined

ASSUME StoreAssumption == MaxAttempts \in Nat \ {0} /\ None \notin Orders \cup Nat

Attempts == 1..MaxAttempts

Rails == {"solana", "tempo", "eip3009"}

VARIABLES
    rail,    \* [Orders -> Rails], of the payout the order was placed for
    rec      \* [Orders -> Record], the records in the backend

\* OrderState, with "none" for an order that was not placed and "ended" for
\* ended-unpaid.
States == {"none", "created", "ordered", "paying", "paid", "ended", "blocked",
           "completed", "refunded"}

Terminal == {"completed", "refunded"}

\* The store's answer: "open" while there is none that closes the order (none,
\* pending, confirmed); a cancellation that refunds is "refunded".
Statuses == {"open", "cancelled", "refunded", "completed"}

\* marker is the attempt it names (attemptId); evidence is what it proves was
\* requested: a signature, a hash, a bundle, or a bundle the wallet gave up.
Record == [state : States, request : BOOLEAN, marker : Attempts \cup {None},
           evidence : {"none", "signed", "hash", "bundle", "failed"},
           status : Statuses, endedBy : {"none", "rejected", "over", "nothing"},
           confirmed : SUBSET Orders]

NoRecord == [state |-> "none", request |-> FALSE, marker |-> None, evidence |-> "none",
             status |-> "open", endedBy |-> "none", confirmed |-> {}]

\* A record freed for another attempt: the marker is removed.
Unmarked(r) == [r EXCEPT !.state = "ordered", !.marker = None]

\* A record that ended: the marker stays, for later reconciliation.
Ended(r, why) == [r EXCEPT !.state = "ended", !.endedBy = why]

Marked(r, a, evidence) ==
    [r EXCEPT !.state = "paying", !.marker = a, !.evidence = evidence]

\* NEXT_STATES: what a plain update may move a record to.
NextStates ==
    [none      |-> {},
     created   |-> {"ordered"},
     ordered   |-> {"paid", "completed", "refunded", "ended"},
     paying    |-> {"paid", "completed", "refunded", "blocked"},
     paid      |-> {"completed", "refunded"},
     ended     |-> {"paid", "completed", "refunded", "blocked"},
     blocked   |-> {"paid", "completed", "refunded"},
     completed |-> {},
     refunded  |-> {}]

\* STATUS_SUCCESSORS: a refund, once seen, is kept.
NextStatuses ==
    [open      |-> {"cancelled", "refunded", "completed"},
     cancelled |-> {"refunded", "completed"},
     refunded  |-> {},
     completed |-> {}]

\* Mutant: an attempt that was found paid gives the product back.
ExclusionUntilPaid(r) == r.state = "paying" /\ r.marker # None

holdsPayExclusion(r) ==
    /\ r.state \notin Terminal
    /\ \/ r.state = "paid"
       \/ r.state \notin {"ended", "blocked"} /\ r.marker # None

storeClosed(r) == r.status # "open"

exclusionHolder(o) == {p \in Orders \ {o} : holdsPayExclusion(rec[p])}

\* Tempo orders whose prompt may still be approved and that o does not know of.
unconfirmedOver(o) ==
    {p \in Orders \ {o} :
        /\ rail[p] = "tempo" /\ rec[p].state = "ended" /\ rec[p].endedBy = "over"
        /\ p \notin rec[o].confirmed}

\* What every new wallet request needs, the first and a retry alike.
MayAsk(o) ==
    ~storeClosed(rec[o]) /\ exclusionHolder(o) = {} /\ unconfirmedOver(o) = {}

judgeSetMarker(o) ==
    rec[o].state = "ordered" /\ rec[o].marker = None /\ rec[o].request /\ MayAsk(o)

HoldsAttempt(o, a) == rec[o].state = "paying" /\ rec[o].marker = a

\* Mutant: the attempt is not compared.
SaveForAny(o, a) == rec[o].state = "paying"

\* judgeUpdateMarker within an attempt: what the wallet answered is recorded.
judgeSave(o, a) == HoldsAttempt(o, a)

\* judgeUpdateMarker with a new attempt.  Tempo has none.
judgeRetry(o, a) ==
    /\ HoldsAttempt(o, a) /\ MayAsk(o)
    /\ rail[o] # "tempo" /\ (rail[o] = "eip3009" => rec[o].evidence = "signed")

\* Mutant: an attempt is cleared whatever it proves.
ClearAny(o, a) == HoldsAttempt(o, a)

\* judgeClearMarker to "ordered": nothing was requested.
judgeClear(o, a) == HoldsAttempt(o, a) /\ rec[o].evidence = "none"

\* judgeClearMarker to "ended-unpaid".  Tempo ends without a hash or a live
\* bundle; a signed authorization ends by a proof only.
judgeEnd(o, a, proved) ==
    /\ HoldsAttempt(o, a)
    /\ rail[o] = "tempo" => rec[o].evidence \in {"none", "failed"}
    /\ rail[o] = "eip3009" => rec[o].evidence = "none" \/ proved
=============================================================================
