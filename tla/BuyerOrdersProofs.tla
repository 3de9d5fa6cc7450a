------------------------- MODULE BuyerOrdersProofs --------------------------
(***************************************************************************)
(* Proofs about BuyerOrders: one order of a product pays, once, and what   *)
(* the chain took of it implements Settlement, for any number of orders,   *)
(* attempts, tabs, accounts and any validity of an attempt.                *)
(***************************************************************************)
EXTENDS BuyerOrders, TLAPS

Used(a) == att[a].stage # "unused"

Rail(a) == rail[att[a].order]

\* Attempts are numbered as they are made, so an earlier one is not younger.
AttemptsInOrder ==
    /\ \A a \in Attempts : Used(a) <=> att[a].order # None
    /\ \A a, b \in Attempts : Used(a) /\ b < a => Used(b) /\ att[b].age >= att[a].age

\* A marker is the last attempt of its order.
MarkerIsLast ==
    \A o \in Orders : rec[o].marker # None =>
        /\ att[rec[o].marker].order = o
        /\ \A a \in Of(o) : a <= rec[o].marker

\* What the fields of a record say together.
RecordsAgree ==
    \A o \in Orders :
        /\ rec[o].state \in {"none", "created", "ordered"} => rec[o].marker = None
        /\ rec[o].state \in {"paying", "blocked"} => rec[o].marker # None
        /\ rec[o].marker = None => rec[o].evidence = "none"
        /\ rail[o] # "tempo" => rec[o].evidence \in {"none", "signed"}
        /\ rec[o].state \in {"none", "created", "ordered", "paying"} => rec[o].endedBy = "none"
        /\ rec[o].endedBy = "over" => rail[o] = "tempo" /\ rec[o].marker # None
        /\ rec[o].state = "blocked" => rail[o] = "tempo"

\* The phases in which a tab has an attempt of its own, and those of a proof.
Own == {"marked", "asked", "signed", "failed", "held", "handle", "sending"}

Proof == {"proving", "over"}

TabsAgree ==
    /\ \A t \in Tabs : tab[t].at # "idle" => tab[t].order \in Orders
    /\ \A t \in Tabs : tab[t].at \in Own \cup Proof =>
          tab[t].attempt \in Attempts /\ att[tab[t].attempt].order = tab[t].order
    /\ \A t, u \in Tabs :
          tab[t].at \in Own /\ tab[u].at \in Own /\ tab[t].attempt = tab[u].attempt => t = u
    /\ \A t \in Tabs : tab[t].at \in {"signed", "failed"} => ~OnRail(t, "tempo")
    /\ \A t \in Tabs : tab[t].at = "marked" =>
          OnRail(t, "tempo") /\ rec[tab[t].order].marker = tab[t].attempt
    /\ \A t \in Tabs : tab[t].at = "asked" /\ OnRail(t, "tempo") =>
          rec[tab[t].order].marker = tab[t].attempt
    /\ \A t \in Tabs : tab[t].at \in {"held", "handle", "sending"} => OnRail(t, "eip3009")

\* Attempt x is where the flow v of its tab believes it, or further on the chain.
Fits(v, x) ==
    /\ v.at \in {"marked", "signed", "failed"} => x.stage = v.at
    /\ v.at = "asked" /\ rail[v.order] # "tempo" => x.stage = "asked"
    /\ v.at \in {"held", "handle"} => x.stage = "held"
    /\ v.at = "sending" => x.stage \in {"sending", "sent", "landed"}

TabsFit == \A t \in Tabs : tab[t].at \in Own => Fits(tab[t], att[tab[t].attempt])

\* A proof that nothing was written over: its attempt is past, and was not paid.
ProofsHold ==
    \A t \in Tabs : tab[t].at \in Proof /\ tab[t].fresh =>
        /\ rec[tab[t].order].state = "paying" /\ rec[tab[t].order].marker = tab[t].attempt
        /\ att[tab[t].attempt].age > Valid
        /\ tab[t].at = "over" /\ ~OnRail(t, "tempo") => Landed(tab[t].order) = {}

\* The stages each rail has.
StagesOfRail ==
    \A a \in Attempts : Used(a) =>
        /\ Rail(a) = "solana" => att[a].stage \notin {"marked", "held", "sending", "guarded"}
        /\ Rail(a) = "tempo" => att[a].stage \notin {"signed", "failed", "held", "sending"}
        /\ Rail(a) = "eip3009" => att[a].stage \notin {"marked", "failed", "guarded"}

\* A Solana payment that was sent is the marker's, or can no longer land.
SolanaSent ==
    \A a \in Attempts : Used(a) /\ Rail(a) = "solana" /\ att[a].stage \in {"sent", "landed"} =>
        IF rec[att[a].order].marker = a THEN rec[att[a].order].evidence = "signed"
        ELSE att[a].stage = "sent" /\ att[a].age > Valid

\* All that lives of a Tempo order is the attempt of its marker.
TempoMarker ==
    \A a \in Attempts : Used(a) /\ Rail(a) = "tempo" /\ rec[att[a].order].marker # a =>
        att[a].stage = "dead"

\* A signed authorization is on record, of the account of the marker or past.
Eip3009Signed ==
    /\ \A a \in Attempts :
          /\ Used(a) /\ Rail(a) = "eip3009"
          /\ att[a].stage \in {"held", "sending", "sent", "landed"}
          => LET r == rec[att[a].order]
             IN  /\ r.marker # None /\ r.evidence = "signed"
                 /\ \/ att[a].payer = att[r.marker].payer
                    \/ att[a].stage # "landed" /\ att[a].age > Valid
    /\ \A a, b \in Attempts :
          /\ att[a].stage = "landed" /\ att[b].stage = "landed"
          /\ att[a].order = att[b].order /\ Rail(a) = "eip3009" /\ att[a].payer = att[b].payer
          => a = b

\* An order that ended, and one that was blocked, spends nothing any more.
EndedIsOver ==
    \A o \in Orders : \A a \in Of(o) :
        /\ rec[o].state = "ended" /\ rail[o] = "tempo" /\ rec[o].endedBy # "over" =>
              att[a].stage = "dead"
        /\ rec[o].state = "ended" /\ rail[o] # "tempo" =>
              /\ att[a].stage # "landed"
              /\ att[a].stage \in {"held", "sending", "sent"} => att[a].age > Valid
        /\ rec[o].state = "blocked" => att[a].stage \in {"guarded", "dead"}

\* An order that may still take money.
OverEnded(o) == rec[o].state = "ended" /\ rec[o].endedBy = "over"

Live(o) == holdsPayExclusion(rec[o]) \/ OverEnded(o)

\* Of two such orders the buyer was told of one before the other asked.
LiveOnesAreExcused ==
    \A o, p \in Orders : o # p /\ Live(o) /\ Live(p) =>
        \/ rec[o].endedBy = "over" /\ o \in rec[p].confirmed
        \/ rec[p].endedBy = "over" /\ p \in rec[o].confirmed

IInv ==
    /\ TypeOK /\ AttemptsInOrder /\ MarkerIsLast /\ RecordsAgree /\ TabsAgree /\ TabsFit
    /\ ProofsHold /\ StagesOfRail /\ SolanaSent /\ TempoMarker /\ Eip3009Signed /\ EndedIsOver
    /\ LiveOnesAreExcused

-----------------------------------------------------------------------------
(***************************************************************************)
(* What the parts of a step do, without EXCEPT.                            *)
(***************************************************************************)
LEMMA Numbers ==
    /\ MaxAttempts \in Nat /\ Valid \in Nat /\ Attempts \subseteq Nat
    /\ None \notin Orders /\ None \notin Attempts /\ None \notin Wallets
  BY StoreAssumption, FlowAssumption DEF Attempts

LEMMA RecordFields ==
    ASSUME NEW r \in Record
    PROVE  /\ r.state \in States /\ r.request \in BOOLEAN /\ r.marker \in Attempts \cup {None}
           /\ r.evidence \in {"none", "signed", "hash", "bundle", "failed"}
           /\ r.status \in Statuses /\ r.endedBy \in {"none", "rejected", "over", "nothing"}
           /\ r.confirmed \in SUBSET Orders
  BY DEF Record

LEMMA AttemptFields ==
    ASSUME NEW x \in Attempt
    PROVE  /\ x.order \in Orders \cup {None} /\ x.payer \in Wallets \cup {None}
           /\ x.stage \in Stages /\ x.age \in 0..(Valid + 1) /\ x.age \in Nat
  BY Numbers DEF Attempt

LEMMA TabFields ==
    ASSUME NEW v \in Tab
    PROVE  /\ v.at \in Phases /\ v.order \in Orders \cup {None}
           /\ v.attempt \in Attempts \cup {None} /\ v.again \in BOOLEAN /\ v.fresh \in BOOLEAN
  BY DEF Tab

\* The tabs but those of S after a write of o.
TabsTold(S, o) ==
    \A u \in Tabs \ S :
        /\ tab'[u].at = tab[u].at /\ tab'[u].order = tab[u].order
        /\ tab'[u].attempt = tab[u].attempt
        /\ tab'[u].fresh => tab[u].fresh /\ (tab[u].order # o \/ tab[u].at \notin Proof)

LEMMA ToldTabs ==
    ASSUME TypeOK, NEW o
    PROVE  /\ Told(o) \in [Tabs -> Tab]
           /\ \A u \in Tabs :
                /\ Told(o)[u].at = tab[u].at /\ Told(o)[u].order = tab[u].order
                /\ Told(o)[u].attempt = tab[u].attempt
                /\ Told(o)[u].fresh =>
                      tab[u].fresh /\ (tab[u].order # o \/ tab[u].at \notin Proof)
<1>1. ASSUME NEW u \in Tabs
      PROVE  /\ Told(o)[u] \in Tab
             /\ Told(o)[u].at = tab[u].at /\ Told(o)[u].order = tab[u].order
             /\ Told(o)[u].attempt = tab[u].attempt
             /\ Told(o)[u].fresh =>
                   tab[u].fresh /\ (tab[u].order # o \/ tab[u].at \notin Proof)
  <2>1. tab[u] \in Tab
    BY DEF TypeOK
  <2>2. Told(o)[u] = IF tab[u].order = o /\ tab[u].at \in Judging
                     THEN [tab[u] EXCEPT !.fresh = FALSE] ELSE tab[u]
    BY DEF Told
  <2>3. Proof \subseteq Judging
    BY DEF Proof, Judging
  <2>4. CASE tab[u].order = o /\ tab[u].at \in Judging
    BY <2>1, <2>2, <2>4 DEF Tab
  <2>5. CASE ~(tab[u].order = o /\ tab[u].at \in Judging)
    BY <2>1, <2>2, <2>3, <2>5
  <2> QED BY <2>4, <2>5
<1>2. Told(o) = [u \in Tabs |-> Told(o)[u]]
  BY DEF Told
<1> QED BY <1>1, <1>2

LEMMA WriteEffect ==
    ASSUME TypeOK, NEW o \in Orders, NEW r \in Record, Write(o, r)
    PROVE  /\ rec' \in [Orders -> Record] /\ rec'[o] = r
           /\ \A p \in Orders \ {o} : rec'[p] = rec[p]
           /\ tab' \in [Tabs -> Tab] /\ TabsTold({}, o)
  BY ToldTabs DEF Write, TabsTold, TypeOK

LEMMA CommitEffect ==
    ASSUME TypeOK, NEW t \in Tabs, NEW o \in Orders, NEW r \in Record, NEW v \in Tab,
           Commit(t, o, r, v)
    PROVE  /\ rec' \in [Orders -> Record] /\ rec'[o] = r
           /\ \A p \in Orders \ {o} : rec'[p] = rec[p]
           /\ tab' \in [Tabs -> Tab] /\ tab'[t] = v /\ TabsTold({t}, o)
  BY ToldTabs DEF Commit, TabsTold, TypeOK

LEMMA GoesEffect ==
    ASSUME TypeOK, NEW t \in Tabs, NEW v \in Tab, Goes(t, v)
    PROVE  /\ rec' = rec /\ tab' \in [Tabs -> Tab] /\ tab'[t] = v
           /\ \A u \in Tabs \ {t} : tab'[u] = tab[u]
  BY DEF Goes, TypeOK

LEMMA BecomesEffect ==
    ASSUME TypeOK, NEW a \in Attempts, NEW stage \in Stages, Becomes(a, stage)
    PROVE  /\ att' \in [Attempts -> Attempt]
           /\ att'[a].stage = stage /\ att'[a].order = att[a].order
           /\ att'[a].payer = att[a].payer /\ att'[a].age = att[a].age
           /\ \A b \in Attempts \ {a} : att'[b] = att[b]
  BY DEF Becomes, TypeOK, Attempt

LEMMA NewAttemptEffect ==
    ASSUME TypeOK, NEW a \in Attempts, NEW o \in Orders, NEW w \in Wallets \cup {None},
           NEW stage \in Stages, NewAttempt(a, o, w, stage)
    PROVE  /\ att' \in [Attempts -> Attempt]
           /\ att'[a] = [order |-> o, payer |-> w, stage |-> stage, age |-> 0]
           /\ \A b \in Attempts \ {a} : att'[b] = att[b]
           /\ ~Used(a) /\ \A b \in Attempts : b < a => Used(b)
  BY Numbers DEF NewAttempt, TypeOK, Attempt, Unasked, Used

LEMMA Parts ==
    ASSUME IInv
    PROVE  /\ TypeOK /\ AttemptsInOrder /\ MarkerIsLast /\ RecordsAgree /\ TabsAgree /\ TabsFit
           /\ ProofsHold /\ StagesOfRail /\ SolanaSent /\ TempoMarker /\ Eip3009Signed /\ EndedIsOver
           /\ LiveOnesAreExcused
           /\ \A o \in Orders :
                /\ rec[o] \in Record /\ rec[o].marker \in Attempts \cup {None}
                /\ rail[o] \in Rails
           /\ \A a \in Attempts :
                /\ att[a] \in Attempt /\ att[a].age \in Nat
                /\ Used(a) => att[a].order \in Orders
           /\ \A t \in Tabs : tab[t] \in Tab
<1>1. TypeOK /\ AttemptsInOrder
  BY DEF IInv
<1>2. \A a \in Attempts : att[a] \in Attempt
  BY <1>1 DEF TypeOK
<1>3. \A a \in Attempts : att[a].age \in Nat /\ (Used(a) => att[a].order \in Orders)
  BY <1>1, <1>2, AttemptFields DEF AttemptsInOrder
<1>4. /\ \A o \in Orders : rec[o] \in Record /\ rail[o] \in Rails
      /\ \A t \in Tabs : tab[t] \in Tab
  BY <1>1 DEF TypeOK
<1>5. \A o \in Orders : rec[o].marker \in Attempts \cup {None}
  BY <1>4, RecordFields
<1> QED BY <1>2, <1>3, <1>4, <1>5 DEF IInv

\* The attempts but those of D stay as they are, and those of D die.
Die(D) ==
    /\ \A a \in Attempts \ D : att'[a] = att[a]
    /\ \A a \in D :
          /\ Used(a) /\ att'[a].stage = "dead" /\ att'[a].order = att[a].order
          /\ att'[a].payer = att[a].payer /\ att'[a].age = att[a].age

\* The flows of the tabs in S end, or wait for the buyer.
Stop(S) == \A t \in S : tab'[t].at = "idle" \/ (tab'[t].at = "ready" /\ tab'[t].order \in Orders)

\* No flow that goes on has an attempt of D, but for a Tempo prompt.
NotHeld(D, S) ==
    \A t \in Tabs \ S :
        tab[t].at \in Own /\ ~(tab[t].at = "asked" /\ OnRail(t, "tempo")) => tab[t].attempt \notin D

LEMMA ToldFit ==
    ASSUME IInv, NEW o, NEW S \in SUBSET Tabs, NEW D \in SUBSET Attempts, Die(D), NotHeld(D, S),
           TabsTold(S, o), Stop(S), rail' = rail
    PROVE  TabsFit'
<1>1. ASSUME NEW t \in Tabs, tab'[t].at \in Own
      PROVE  /\ t \notin S /\ tab[t].at = tab'[t].at /\ tab[t].order = tab'[t].order
             /\ tab[t].attempt = tab'[t].attempt /\ tab[t].attempt \in Attempts
             /\ tab[t].order \in Orders /\ Fits(tab[t], att[tab[t].attempt])
  BY <1>1, Parts DEF TabsTold, Stop, TabsAgree, TabsFit, Own
<1>2. ASSUME NEW t \in Tabs, tab'[t].at \in Own
      PROVE  \/ att'[tab[t].attempt] = att[tab[t].attempt]
             \/ tab[t].at = "asked" /\ rail[tab[t].order] = "tempo"
  BY <1>1, <1>2 DEF NotHeld, Die, OnRail
<1> QED BY <1>1, <1>2 DEF TabsFit, Fits

\* A record r of o that keeps the marker and agrees with what its attempts are.
MayBecome(o, r) ==
    /\ r.marker = rec[o].marker
    /\ r.evidence = "signed" \/ rail[o] = "tempo" \/ r.evidence = rec[o].evidence
    /\ r.marker = None => r.evidence = "none"
    /\ r.state \in {"none", "created", "ordered"} => r.marker = None
    /\ r.state \in {"none", "created", "ordered", "paying"} => r.endedBy = "none"
    /\ r.state \in {"paying", "blocked"} => r.marker # None
    /\ r.state = "blocked" => rail[o] = "tempo"
    /\ r.endedBy = "over" => rail[o] = "tempo" /\ r.marker # None
    /\ r.state = "ended" /\ rail[o] = "tempo" /\ r.endedBy # "over" =>
          \A a \in Of(o) : att'[a].stage = "dead"
    /\ r.state = "ended" /\ rail[o] # "tempo" =>
          \A a \in Of(o) : /\ att'[a].stage # "landed"
                           /\ att'[a].stage \in {"held", "sending", "sent"} => att[a].age > Valid
    /\ r.state = "blocked" => \A a \in Of(o) : att'[a].stage \in {"guarded", "dead"}
    /\ rec[o].confirmed \subseteq r.confirmed
    /\ holdsPayExclusion(r) \/ (r.state = "ended" /\ r.endedBy = "over") => Live(o)
    /\ rec[o].endedBy = "over" => r.endedBy = "over"

LEMMA RecordKeeps ==
    ASSUME IInv, NEW o \in Orders, NEW r \in Record, NEW S \in SUBSET Tabs,
           NEW D \in SUBSET Attempts,
           rail' = rail, att' \in [Attempts -> Attempt], Die(D),
           rec' \in [Orders -> Record], rec'[o] = r, \A p \in Orders \ {o} : rec'[p] = rec[p],
           tab' \in [Tabs -> Tab], TabsTold(S, o), Stop(S), NotHeld(D, S), MayBecome(o, r)
    PROVE  IInv'
<1> USE DEF MayBecome
<1>1. TypeOK'
  BY Parts DEF TypeOK
<1>2. \A a \in Attempts : /\ att'[a].order = att[a].order /\ att'[a].payer = att[a].payer
                          /\ att'[a].age = att[a].age
                          /\ att'[a].stage = att[a].stage \/ (Used(a) /\ att'[a].stage = "dead")
                          /\ (att'[a].stage # "unused") <=> Used(a)
  BY DEF Die, Used
<1>3. AttemptsInOrder'
  BY <1>2, Parts DEF AttemptsInOrder, Used
<1>m. \A p \in Orders : rec'[p].marker = rec[p].marker
  OBVIOUS
<1>4. MarkerIsLast'
  BY <1>2, <1>m, Parts DEF MarkerIsLast, Of
<1>5. RecordsAgree'
  BY Parts DEF RecordsAgree
<1>6. TabsAgree'
  BY <1>2, Parts, SMTT(30) DEF TabsAgree, TabsTold, OnRail, Stop, NotHeld, Die, Own, Proof
<1>f. TabsFit'
  BY ToldFit
<1>7. ProofsHold'
  BY <1>2, Parts DEF ProofsHold, TabsTold, TabsAgree, OnRail, Landed, Of, Stop, Own, Proof
<1>8. StagesOfRail'
  BY <1>2, Parts DEF StagesOfRail, Used, Rail
<1>9. SolanaSent'
  BY <1>2, Parts DEF SolanaSent, Used, Rail
<1>10. TempoMarker'
  BY <1>2, Parts DEF TempoMarker, Used, Rail
<1>11. Eip3009Signed'
  <2>1. \A a \in Attempts : Rail(a)' = Rail(a) /\ (att'[a].stage = "landed" => att[a].stage = "landed")
    BY <1>2 DEF Rail
  <2>2. ASSUME NEW a \in Attempts, Used(a), Rail(a) = "eip3009",
               att'[a].stage \in {"held", "sending", "sent", "landed"}
        PROVE  LET q == rec'[att[a].order]
               IN  /\ q.marker # None /\ q.evidence = "signed"
                   /\ \/ att[a].payer = att[q.marker].payer
                      \/ att'[a].stage # "landed" /\ att[a].age > Valid
    <3>1. att'[a].stage = att[a].stage /\ att[a].order \in Orders
      BY <1>2, <2>2, Parts
    <3>2. LET q == rec[att[a].order]
          IN  /\ q.marker # None /\ q.evidence = "signed"
              /\ \/ att[a].payer = att[q.marker].payer
                 \/ att'[a].stage # "landed" /\ att[a].age > Valid
      BY <2>2, <3>1, Parts DEF Eip3009Signed
    <3>3. rec'[att[a].order].evidence = "signed"
      BY <2>2, <3>1, <3>2 DEF Rail
    <3> QED BY <1>m, <3>1, <3>2, <3>3
  <2>3. \A p \in Orders : rec'[p].marker # None => rec'[p].marker \in Attempts
    BY <1>m, Parts
  <2>4. \A a, b \in Attempts :
          /\ att'[a].stage = "landed" /\ att'[b].stage = "landed"
          /\ att'[a].order = att'[b].order /\ Rail(a)' = "eip3009" /\ att'[a].payer = att'[b].payer
          => a = b
    BY <1>2, <2>1, Parts DEF Eip3009Signed
  <2>5. \A a \in Attempts : Used(a)' <=> Used(a)
    BY <1>2 DEF Used
  <2>6. \A a \in Attempts : Used(a) => att[a].order \in Orders
    BY Parts
  <2> QED BY <1>2, <2>1, <2>2, <2>3, <2>4, <2>5, <2>6 DEF Eip3009Signed
<1>12. EndedIsOver'
  BY <1>2, Parts DEF EndedIsOver, Of
<1>13. LiveOnesAreExcused'
  BY Parts DEF LiveOnesAreExcused, Live, OverEnded
<1> QED BY <1>1, <1>3, <1>4, <1>5, <1>6, <1>f, <1>7, <1>8, <1>9, <1>10, <1>11, <1>12, <1>13 DEF IInv

LEMMA WriteKeeps ==
    ASSUME IInv, NEW o \in Orders, NEW r \in Record, Write(o, r), UNCHANGED <<rail, att>>,
           MayBecome(o, r)
    PROVE  IInv'
<1>1. TypeOK /\ att' \in [Attempts -> Attempt]
  BY Parts DEF TypeOK
<1>2. Die({}) /\ Stop({}) /\ NotHeld({}, {})
  BY DEF Die, Stop, NotHeld
<1> QED BY <1>1, <1>2, WriteEffect, RecordKeeps

LEMMA PlaceOrderKeeps == ASSUME IInv, NEW o \in Orders, placeOrder(o) PROVE IInv'
<1> DEFINE r == [rec[o] EXCEPT !.state = "created"]
<1>1. rec[o] \in Record /\ rec[o].state = "none" /\ Write(o, r) /\ UNCHANGED <<rail, att>>
  BY Parts DEF placeOrder
<1>2. r \in Record
  BY <1>1 DEF Record, States
<1>3. MayBecome(o, r)
  BY <1>1, Parts DEF MayBecome, RecordsAgree, holdsPayExclusion, Record
<1> QED BY <1>1, <1>2, <1>3, WriteKeeps

LEMMA AcknowledgeKeeps == ASSUME IInv, NEW o \in Orders, acknowledge(o) PROVE IInv'
<1> DEFINE r == [rec[o] EXCEPT !.state = Settled(rec[o].status)]
<1>1. rec[o] \in Record /\ rec[o].state = "created" /\ Write(o, r) /\ UNCHANGED <<rail, att>>
  BY Parts DEF acknowledge
<1>2. r \in Record /\ r.state \in Terminal \cup {"ordered"}
  BY <1>1 DEF Record, States, Settled, Terminal
<1>3. MayBecome(o, r)
  BY <1>1, <1>2, Parts DEF MayBecome, RecordsAgree, holdsPayExclusion, Record, Terminal
<1> QED BY <1>1, <1>2, <1>3, WriteKeeps

LEMMA ApplyStatusKeeps ==
    ASSUME IInv, NEW o \in Orders, NEW status \in Statuses, applyStatus(o, status)
    PROVE  IInv'
<1> DEFINE s == IF status \in NextStates[rec[o].state] THEN status ELSE rec[o].state
           r == [rec[o] EXCEPT !.status = status, !.state = s]
<1>1. rec[o] \in Record /\ Write(o, r) /\ UNCHANGED <<rail, att>>
  BY Parts DEF applyStatus
<1>2. s = rec[o].state \/ (s \in Terminal /\ rec[o].state # "none")
  BY <1>1, RecordFields DEF NextStates, States, Statuses, Terminal, applyStatus
<1> HIDE DEF s
<1>3. r \in Record
  BY <1>1, <1>2 DEF Record, States, Terminal
<1>4. MayBecome(o, r)
  BY <1>1, <1>2, Parts
  DEF MayBecome, RecordsAgree, EndedIsOver, Live, OverEnded, holdsPayExclusion, Record, Terminal
<1> QED BY <1>1, <1>3, <1>4, WriteKeeps

LEMMA ConfirmOverKeeps ==
    ASSUME IInv, NEW o \in Orders, NEW p \in Orders, ConfirmOver(o, p)
    PROVE  IInv'
<1> DEFINE r == [rec[o] EXCEPT !.confirmed = @ \cup {p}]
<1>1. /\ rec[o] \in Record /\ rec[o].state \in {"ordered", "paying"}
      /\ Write(o, r) /\ UNCHANGED <<rail, att>>
  BY Parts DEF ConfirmOver
<1>2. r \in Record
  BY <1>1 DEF Record
<1>3. MayBecome(o, r)
  BY <1>1, Parts DEF MayBecome, RecordsAgree, Live, holdsPayExclusion, Record
<1> QED BY <1>1, <1>2, <1>3, WriteKeeps

LEMMA RecordPaidKeeps == ASSUME IInv, NEW o \in Orders, recordPaid(o) PROVE IInv'
<1> DEFINE r == [rec[o] EXCEPT !.state = "paid"]
<1>1. /\ rec[o] \in Record /\ rec[o].marker # None /\ Landed(o) # {}
      /\ rec[o].state \in {"ordered", "paying", "ended", "blocked"}
      /\ Write(o, r) /\ UNCHANGED <<rail, att>>
  BY Parts, RecordFields DEF recordPaid, NextStates, States
<1>2. r \in Record
  BY <1>1 DEF Record, States
<1>3. Live(o)
  BY <1>1, Parts DEF Landed, RecordsAgree, EndedIsOver, Live, OverEnded, holdsPayExclusion, Terminal
<1>4. MayBecome(o, r)
  BY <1>1, <1>3, Parts DEF MayBecome, RecordsAgree, Record
<1> QED BY <1>1, <1>2, <1>4, WriteKeeps

LEMMA RecordBlockedKeeps == ASSUME IInv, NEW o \in Orders, recordBlocked(o) PROVE IInv'
<1> DEFINE r == [rec[o] EXCEPT !.state = "blocked"]
<1>1. /\ rec[o] \in Record /\ rec[o].marker # None /\ Write(o, r) /\ UNCHANGED <<rail, att>>
  BY Parts DEF recordBlocked
<1>2. r \in Record
  BY <1>1 DEF Record, States
<1>3. PICK a \in Of(o) : att[a].stage = "guarded"
  BY DEF recordBlocked
<1>4. Used(a) /\ Rail(a) = rail[o] /\ rail[o] = "tempo"
  BY <1>3, Parts DEF StagesOfRail, Used, Rail, Of, Rails
<1>5. \A b \in Of(o) : att[b].stage \in {"guarded", "dead"}
  <2>1. a = rec[o].marker
    BY <1>3, <1>4, Parts DEF TempoMarker, Of, Rail
  <2>2. ASSUME NEW b \in Of(o), b # a PROVE att[b].stage = "dead"
    BY <1>4, <2>1, <2>2, Numbers, Parts DEF TempoMarker, AttemptsInOrder, Of, Rail
  <2> QED BY <1>3, <2>2
<1>6. MayBecome(o, r)
  BY <1>1, <1>4, <1>5, Parts DEF MayBecome, RecordsAgree, Record, holdsPayExclusion
<1> QED BY <1>1, <1>2, <1>6, WriteKeeps

LEMMA EndNothingKeeps == ASSUME IInv, NEW o \in Orders, endNothingRequested(o) PROVE IInv'
<1> DEFINE r == Ended(rec[o], IF rail[o] = "tempo" THEN "nothing" ELSE "none")
<1>1. rec[o] \in Record /\ Write(o, r) /\ UNCHANGED <<rail, att>>
  BY Parts DEF endNothingRequested
<1>2. \/ rec[o].state = "ordered" /\ rec[o].marker = None
      \/ rail[o] = "eip3009" /\ rec[o].evidence = "none" /\ rec[o].state = "paying"
  BY DEF endNothingRequested
<1>3. r \in Record /\ r.state = "ended" /\ r.endedBy # "over"
  BY <1>1 DEF Record, States, Ended
<1>4. ASSUME NEW a \in Of(o)
      PROVE  /\ rail[o] = "tempo" => att[a].stage = "dead"
             /\ rail[o] # "tempo" => /\ att[a].stage # "landed"
                                     /\ att[a].stage \in {"held", "sending", "sent"} =>
                                           att[a].age > Valid
  <2>1. Used(a) /\ Rail(a) = rail[o] /\ att[a].order = o
    BY Numbers, Parts DEF Of, AttemptsInOrder, Rail
  <2>2. CASE rail[o] = "tempo"
    BY <1>2, <2>1, <2>2, Numbers, Parts DEF TempoMarker, Of
  <2>3. CASE rail[o] = "solana"
    BY <1>2, <2>1, <2>3, Numbers, Parts DEF SolanaSent, StagesOfRail, Of
  <2>4. CASE rail[o] = "eip3009"
    BY <1>2, <2>1, <2>4, Numbers, Parts DEF Eip3009Signed, RecordsAgree, Of
  <2> QED BY <2>2, <2>3, <2>4, Parts DEF Rails
<1>5. MayBecome(o, r)
  BY <1>1, <1>2, <1>3, <1>4, Parts
  DEF MayBecome, RecordsAgree, Record, Ended, holdsPayExclusion
<1> QED BY <1>1, <1>3, <1>5, WriteKeeps

-----------------------------------------------------------------------------
(***************************************************************************)
(* The steps that write no record.                                         *)
(***************************************************************************)
\* An authorization that is on record.
Signed == {"held", "sending", "sent", "landed"}

\* What the wallets and the chain may make of attempt a.
MayTurn(a, s) ==
    LET from == att[a].stage
    IN  \/ s = from
        \/ /\ Used(a)
           /\ \/ s = "dead"
              \/ from = "marked" /\ s = "asked" /\ Rail(a) = "tempo"
              \/ from = "asked" /\ s = "signed" /\ Rail(a) # "tempo"
              \/ from = "asked" /\ s = "failed" /\ Rail(a) = "solana"
              \/ from = "failed" /\ s = "asked" /\ Rail(a) = "solana"
              \/ from \in {"held", "sending"} /\ s \in {"held", "sending"}
              \/ from = "asked" /\ s = "sent" /\ Rail(a) = "tempo"
              \/ from = "sending" /\ s = "sent" /\ Rail(a) = "eip3009"
              \/ from = "sent" /\ s = "landed" /\ Lasts(a) /\ ~NonceUsed(a)
              \/ from = "sent" /\ s = "guarded" /\ Rail(a) = "tempo"

\* What the flow of tab t may be after it.
MayGo(t, v) ==
    /\ v.at # "idle" => v.order \in Orders
    /\ v.at \in Own =>
          /\ tab[t].at \in Own /\ v.order = tab[t].order /\ v.attempt = tab[t].attempt
          /\ v.at # "marked" /\ (v.at \in {"signed", "failed"} => ~OnRail(t, "tempo"))
          /\ v.at = "asked" => tab[t].at \in {"marked", "asked"} \/ ~OnRail(t, "tempo")
          /\ v.at \in {"held", "handle", "sending"} => OnRail(t, "eip3009")
          /\ Fits(v, att'[v.attempt])
    /\ v.at \in Proof =>
          /\ v.attempt \in Attempts /\ att[v.attempt].order = v.order
          /\ v.fresh =>
                /\ rec[v.order].state = "paying" /\ rec[v.order].marker = v.attempt
                /\ att[v.attempt].age > Valid
                /\ v.at = "over" /\ rail[v.order] # "tempo" => Landed(v.order) = {}

\* Attempt a turns to stage s, no other does.
Turns(a, s) ==
    /\ att' \in [Attempts -> Attempt] /\ att'[a].stage = s /\ att'[a].order = att[a].order
    /\ att'[a].payer = att[a].payer /\ att'[a].age = att[a].age
    /\ \A b \in Attempts \ {a} : att'[b] = att[b]

\* The flows of the tabs in S go on, no other does.
GoOn(S) ==
    /\ tab' \in [Tabs -> Tab]
    /\ \A t \in Tabs \ S : tab'[t] = tab[t]
    /\ \A t \in S : MayGo(t, tab'[t])

\* An attempt that turns but on the chain was of no flow that stays.
NotOwned(a, s, S) ==
    s \notin {att[a].stage, "sent", "landed", "guarded"} =>
        \A t \in Tabs \ S : tab[t].at \in Own => tab[t].attempt # a

LEMMA StageKeeps ==
    ASSUME IInv, UNCHANGED <<rail, rec>>,
           NEW a \in Attempts, NEW s \in Stages, MayTurn(a, s), Turns(a, s),
           NEW S \in SUBSET Tabs, GoOn(S), NotOwned(a, s, S)
    PROVE  IInv'
<1> USE DEF Turns, GoOn, NotOwned
<1>1. TypeOK'
  BY Parts DEF TypeOK
<1>2. \A b \in Attempts : /\ att'[b].order = att[b].order /\ att'[b].payer = att[b].payer
                          /\ att'[b].age = att[b].age
                          /\ (att'[b].stage # "unused") <=> Used(b)
  BY DEF MayTurn, Used
<1>l. s = "landed" /\ Rail(a) # "tempo" => att[a].age <= Valid \/ att[a].stage = "landed"
  BY DEF MayTurn, Lasts, Rail
<1>3. AttemptsInOrder'
  BY <1>2, Parts DEF AttemptsInOrder, Used
<1>4. MarkerIsLast'
  BY <1>2, Parts DEF MarkerIsLast, Of
<1>5. RecordsAgree'
  BY Parts DEF RecordsAgree
<1>6. TabsAgree'
  <2> USE DEF Own, Proof
  <2>1. ASSUME NEW t \in Tabs
        PROVE  tab'[t] = tab[t] \/ (t \in S /\ MayGo(t, tab'[t]))
    OBVIOUS
  <2>o. \A t \in Tabs : tab'[t].at \in Own =>
           tab[t].at \in Own /\ tab'[t].order = tab[t].order /\ tab'[t].attempt = tab[t].attempt
    BY <2>1 DEF MayGo
  <2>2. \A t \in Tabs : tab'[t].at # "idle" => tab'[t].order \in Orders
    BY <2>1, Parts DEF TabsAgree, MayGo
  <2>3. \A t \in Tabs : tab'[t].at \in Own \cup Proof =>
           tab'[t].attempt \in Attempts /\ att'[tab'[t].attempt].order = tab'[t].order
    BY <1>2, <2>1, <2>o, Parts DEF TabsAgree, MayGo
  <2>4. \A t, u \in Tabs :
          tab'[t].at \in Own /\ tab'[u].at \in Own /\ tab'[t].attempt = tab'[u].attempt => t = u
    BY <2>o, Parts DEF TabsAgree
  <2>5. ASSUME NEW t \in Tabs, tab'[t].at \in Own
        PROVE  /\ OnRail(t, "tempo")' = OnRail(t, "tempo")
               /\ OnRail(t, "eip3009")' = OnRail(t, "eip3009")
    BY <2>o, <2>5 DEF OnRail
  <2>6. \A t \in Tabs : tab'[t].at \in {"signed", "failed"} => ~OnRail(t, "tempo")'
    BY <2>1, <2>5, Parts DEF TabsAgree, MayGo
  <2>7. \A t \in Tabs : tab'[t].at = "marked" =>
          OnRail(t, "tempo")' /\ rec[tab'[t].order].marker = tab'[t].attempt
    BY <2>1, <2>5, Parts DEF TabsAgree, MayGo
  <2>8. ASSUME NEW t \in Tabs, tab'[t].at = "asked", OnRail(t, "tempo")'
        PROVE  rec[tab'[t].order].marker = tab'[t].attempt
    BY <2>1, <2>o, <2>5, <2>8, Parts DEF TabsAgree, MayGo
  <2>9. \A t \in Tabs : tab'[t].at \in {"held", "handle", "sending"} => OnRail(t, "eip3009")'
    BY <2>1, <2>5, Parts DEF TabsAgree, MayGo
  <2> QED BY <2>2, <2>3, <2>4, <2>6, <2>7, <2>8, <2>9 DEF TabsAgree
<1>f. TabsFit'
  <2>1. ASSUME NEW t \in Tabs, tab'[t].at \in Own PROVE Fits(tab[t], att[tab[t].attempt])'
    <3>1. CASE t \in S
      BY <2>1, <3>1 DEF MayGo, Fits
    <3>2. CASE t \notin S
      <4>1. tab'[t] = tab[t] /\ Fits(tab[t], att[tab[t].attempt]) /\ tab[t].attempt \in Attempts
        BY <2>1, <3>2, Parts DEF TabsFit, TabsAgree
      <4>2. CASE tab[t].attempt # a
        BY <4>1, <4>2 DEF Fits
      <4>3. CASE tab[t].attempt = a
        <5>1. s \in {att[a].stage, "sent", "landed", "guarded"} /\ Rail(a) = rail[tab[t].order]
          BY <2>1, <3>2, <4>1, <4>3, Parts DEF TabsAgree, Rail
        <5>2. CASE s = att[a].stage
          BY <4>1, <4>3, <5>2 DEF Fits
        <5>3. CASE s # att[a].stage
          <6>1. \/ att[a].stage = "asked" /\ s = "sent" /\ Rail(a) = "tempo"
                \/ att[a].stage = "sending" /\ s = "sent"
                \/ att[a].stage = "sent" /\ s = "landed"
                \/ att[a].stage = "sent" /\ s = "guarded" /\ Rail(a) = "tempo"
            BY <5>1, <5>3 DEF MayTurn
          <6>2. tab[t].at = "sending" => rail[tab[t].order] = "eip3009"
            BY Parts DEF TabsAgree, OnRail
          <6> QED BY <4>1, <4>3, <5>1, <6>1, <6>2 DEF Fits
        <5> QED BY <5>2, <5>3
      <4> QED BY <4>2, <4>3
    <3> QED BY <3>1, <3>2
  <2> QED BY <2>1 DEF TabsFit
<1>7. ProofsHold'
  <2> USE DEF Proof
  <2>1. ASSUME NEW t \in Tabs, tab'[t].at \in Proof, tab'[t].fresh
        PROVE  /\ tab'[t].order \in Orders
               /\ rec[tab'[t].order].state = "paying" /\ rec[tab'[t].order].marker = tab'[t].attempt
               /\ att[tab'[t].attempt].age > Valid /\ tab'[t].attempt \in Attempts
               /\ tab'[t].at = "over" /\ rail[tab'[t].order] # "tempo" =>
                     Landed(tab'[t].order) = {}
    <3>1. CASE t \in S
      BY <2>1, <3>1 DEF MayGo
    <3>2. CASE t \notin S
      <4>1. tab'[t] = tab[t]
        BY <3>2
      <4>2. tab[t].order \in Orders /\ tab[t].attempt \in Attempts
        BY <2>1, <4>1, Parts DEF TabsAgree
        <4>3. ProofsHold /\ tab[t].order # None
          BY <4>2, Numbers, Parts
        <4> QED BY <2>1, <4>1, <4>2, <4>3 DEF ProofsHold, OnRail
    <3> QED BY <3>1, <3>2
  <2>2. ASSUME NEW o \in Orders, rec[o].marker \in Attempts, att[rec[o].marker].age > Valid,
               rail[o] # "tempo", Landed(o) = {}
        PROVE  Landed(o)' = {}
    <3>2. ASSUME att[a].order = o, s = "landed" PROVE FALSE
      <4>1. Used(a) /\ a <= rec[o].marker /\ att[rec[o].marker].order = o
        BY <2>2, <3>2, Numbers, Parts DEF MayTurn, MarkerIsLast, Of, Used
      <4>2. att[a].age > Valid
        <5>1. CASE a = rec[o].marker
          BY <2>2, <5>1
        <5>2. CASE a # rec[o].marker
          <6>1. Used(rec[o].marker) /\ a < rec[o].marker
            BY <2>2, <4>1, <5>2, Numbers, Parts DEF AttemptsInOrder
          <6>2. att[a].age >= att[rec[o].marker].age
            BY <2>2, <6>1, Parts DEF AttemptsInOrder
          <6>3. att[a].age \in Nat /\ att[rec[o].marker].age \in Nat /\ Valid \in Nat
            BY <2>2, Numbers, Parts
          <6> QED BY <2>2, <6>2, <6>3
        <5> QED BY <5>1, <5>2
      <4>3. att[a].stage # "landed"
        BY <2>2, <3>2 DEF Landed, Of
      <4> QED BY <1>l, <2>2, <3>2, <4>2, <4>3, Numbers, Parts DEF Rail
    <3>3. \A b \in Attempts : b # a => (b \in Landed(o)' <=> b \in Landed(o))
      BY <1>2 DEF Landed, Of
    <3>4. a \notin Landed(o)'
      BY <1>2, <3>2 DEF Landed, Of
    <3> QED BY <2>2, <3>3, <3>4 DEF Landed, Of
  <2>3. \A t \in Tabs : tab'[t].attempt \in Attempts =>
           att'[tab'[t].attempt].age = att[tab'[t].attempt].age
    BY <1>2
  <2>4. ASSUME NEW t \in Tabs, tab'[t].at \in Proof, tab'[t].fresh, tab'[t].at = "over",
               rail[tab'[t].order] # "tempo"
        PROVE  \A b \in Attempts :
                  ~(att'[b].order = tab'[t].order /\ att'[b].stage = "landed")
    <3>1. \A o \in Orders : Landed(o)' = {b \in Attempts : /\ att'[b].order = o
                                                         /\ att'[b].stage = "landed"}
      BY DEF Landed, Of
    <3>2. \A o \in Orders : o = tab'[t].order =>
             /\ rec[o].marker \in Attempts /\ att[rec[o].marker].age > Valid
             /\ rail[o] # "tempo" /\ Landed(o) = {}
      BY <2>1, <2>4
    <3>3. \A o \in Orders : o = tab'[t].order => Landed(o)' = {}
      BY <2>2, <3>2
    <3> QED BY <2>1, <2>4, <3>1, <3>3
  <2>5. \A t \in Tabs :
           Landed(tab[t].order)' = {b \in Attempts : /\ att'[b].order = tab'[t].order
                                                    /\ att'[b].stage = "landed"}
    BY DEF Landed, Of
  <2> QED BY <2>1, <2>3, <2>4, <2>5, Numbers DEF ProofsHold, OnRail
<1>8. StagesOfRail'
  BY <1>2, Parts DEF StagesOfRail, MayTurn, Signed, Used, Rail
<1>9. SolanaSent'
  <2>1. ASSUME NEW b \in Attempts, Used(b), Rail(b) = "solana",
               att'[b].stage \in {"sent", "landed"}
        PROVE  IF rec[att[b].order].marker = b THEN rec[att[b].order].evidence = "signed"
               ELSE att'[b].stage = "sent" /\ att[b].age > Valid
    <3>1. att[b].stage \in {"sent", "landed"}
      BY <2>1 DEF MayTurn
    <3>2. IF rec[att[b].order].marker = b THEN rec[att[b].order].evidence = "signed"
          ELSE att[b].stage = "sent" /\ att[b].age > Valid
      BY <2>1, <3>1, Parts DEF SolanaSent
    <3> QED BY <1>l, <2>1, <3>2, Numbers, Parts
  <2> QED BY <1>2, <2>1 DEF SolanaSent, Used, Rail
<1>10. TempoMarker'
  BY <1>2, Parts DEF TempoMarker, MayTurn, Used, Rail
<1>11. Eip3009Signed'
  <2>1. ASSUME NEW b \in Attempts, Used(b), Rail(b) = "eip3009", att'[b].stage \in Signed
        PROVE  LET r == rec[att[b].order]
               IN  /\ r.marker # None /\ r.evidence = "signed"
                   /\ \/ att[b].payer = att[r.marker].payer
                      \/ att'[b].stage # "landed" /\ att[b].age > Valid
    <3>1. att[b].stage \in Signed
      BY <2>1 DEF MayTurn, Signed
    <3>2. LET r == rec[att[b].order]
          IN  /\ r.marker # None /\ r.evidence = "signed"
              /\ \/ att[b].payer = att[r.marker].payer
                 \/ att[b].stage # "landed" /\ att[b].age > Valid
      BY <2>1, <3>1, Parts DEF Eip3009Signed, Signed
    <3> QED BY <1>l, <2>1, <3>2, Numbers, Parts
  <2>2. ASSUME NEW b \in Attempts, NEW c \in Attempts, att'[b].stage = "landed",
               att'[c].stage = "landed", att[b].order = att[c].order, Rail(b) = "eip3009",
               att[b].payer = att[c].payer
        PROVE  b = c
    <3>1. CASE att[b].stage = "landed" /\ att[c].stage = "landed"
      BY <2>2, <3>1, Parts DEF Eip3009Signed
    <3>2. ASSUME att[a].stage # "landed", s = "landed", Rail(a) = "eip3009",
                 NEW d \in Attempts, d # a, att'[d].stage = "landed", att[d].order = att[a].order,
                 att[d].payer = att[a].payer
          PROVE  FALSE
      BY <3>2 DEF MayTurn, NonceUsed, Landed, Of, Rail
    <3> QED BY <2>2, <3>1, <3>2 DEF Rail
  <2>3. \A b \in Attempts : rec[att[b].order].marker # None /\ att[b].order \in Orders =>
           att'[rec[att[b].order].marker].payer = att[rec[att[b].order].marker].payer
    BY <1>2, Parts
  <2> QED BY <1>2, <2>1, <2>2, <2>3, Parts DEF Eip3009Signed, Signed, Used, Rail
<1>12. EndedIsOver'
  <2>1. ASSUME NEW o \in Orders, NEW b \in Of(o)
        PROVE  /\ rec[o].state = "ended" /\ rail[o] = "tempo" /\ rec[o].endedBy # "over" =>
                     att'[b].stage = "dead"
               /\ rec[o].state = "ended" /\ rail[o] # "tempo" =>
                     /\ att'[b].stage # "landed"
                     /\ att'[b].stage \in {"held", "sending", "sent"} => att[b].age > Valid
               /\ rec[o].state = "blocked" => att'[b].stage \in {"guarded", "dead"}
    <3>1. b \in Attempts /\ att[b].order = o /\ Rail(b) = rail[o]
      BY DEF Of, Rail
    <3>2. /\ rec[o].state = "ended" /\ rail[o] = "tempo" /\ rec[o].endedBy # "over" =>
               att[b].stage = "dead"
          /\ rec[o].state = "ended" /\ rail[o] # "tempo" =>
               /\ att[b].stage # "landed"
               /\ att[b].stage \in {"held", "sending", "sent"} => att[b].age > Valid
          /\ rec[o].state = "blocked" => att[b].stage \in {"guarded", "dead"}
      BY Parts DEF EndedIsOver
    <3>3. CASE att'[b] = att[b]
      BY <3>2, <3>3
    <3>4. CASE b = a
      BY <1>l, <3>1, <3>2, <3>4, Numbers, Parts DEF MayTurn, Signed, Rails
    <3> QED BY <3>1, <3>3, <3>4
  <2>2. \A o \in Orders : Of(o)' = Of(o)
    BY <1>2 DEF Of
  <2> QED BY <1>2, <2>1, <2>2 DEF EndedIsOver, Of
<1>13. LiveOnesAreExcused'
  BY Parts DEF LiveOnesAreExcused, Live, OverEnded
<1> QED BY <1>1, <1>3, <1>4, <1>5, <1>6, <1>f, <1>7, <1>8, <1>9, <1>10, <1>11, <1>12, <1>13 DEF IInv

\* A step of the wallet or of the chain only.
LEMMA ChainKeeps ==
    ASSUME IInv, NEW a \in Attempts, NEW s \in {"sent", "landed", "guarded"}, MayTurn(a, s), Becomes(a, s),
           UNCHANGED <<rail, rec, tab>>
    PROVE  IInv'
<1>1. TypeOK /\ {} \in SUBSET Tabs /\ s \in Stages
  BY Parts DEF Stages
<1>2. GoOn({}) /\ NotOwned(a, s, {})
  BY <1>1 DEF GoOn, NotOwned, TypeOK
<1>3. Turns(a, s)
  BY <1>1, BecomesEffect DEF Turns
<1> QED BY <1>1, <1>2, <1>3, StageKeeps

\* A step of the flow of tab t that turns its own attempt.
LEMMA FlowKeeps ==
    ASSUME IInv, NEW t \in Tabs, tab[t].at \in Own, NEW s \in Stages,
           MayTurn(tab[t].attempt, s), Becomes(tab[t].attempt, s), UNCHANGED rail,
           NEW v \in Tab, Goes(t, v), Turns(tab[t].attempt, s) => MayGo(t, v)
    PROVE  IInv'
<1>1. TypeOK /\ tab[t].attempt \in Attempts /\ {t} \in SUBSET Tabs
  BY Parts DEF TabsAgree
<1>2. NotOwned(tab[t].attempt, s, {t})
  BY Parts DEF TabsAgree, NotOwned
<1>3. Turns(tab[t].attempt, s)
  BY <1>1, BecomesEffect DEF Turns
<1>4. GoOn({t}) /\ rec' = rec
  BY <1>1, <1>3, GoesEffect DEF GoOn
<1> QED BY <1>1, <1>2, <1>3, <1>4, StageKeeps

\* A step of the flow of tab t that no attempt sees.
LEMMA QuietKeeps ==
    ASSUME IInv, NEW t \in Tabs, UNCHANGED <<rail, att>>, NEW v \in Tab, Goes(t, v), MayGo(t, v)
    PROVE  IInv'
<1>1. /\ TypeOK /\ 1 \in Attempts /\ att[1].stage \in Stages /\ {t} \in SUBSET Tabs
  BY Parts, AttemptFields, StoreAssumption DEF Attempts
<1>2. Turns(1, att[1].stage) /\ MayTurn(1, att[1].stage) /\ NotOwned(1, att[1].stage, {t})
  BY <1>1 DEF TypeOK, Turns, MayTurn, NotOwned
<1>3. GoOn({t}) /\ rec' = rec
  BY <1>1, GoesEffect DEF GoOn
<1> QED BY <1>1, <1>2, <1>3, StageKeeps

LEMMA LandKeeps == ASSUME IInv, NEW a \in Attempts, Land(a) PROVE IInv'
<1>1. Used(a) /\ att[a].stage = "sent" /\ Lasts(a) /\ ~NonceUsed(a) /\ att[a].order \in Orders
  BY Parts DEF Land, Used
<1>2. MayTurn(a, "landed")
  BY <1>1 DEF MayTurn, Signed, Stages
<1> QED BY <1>2, ChainKeeps DEF Land

LEMMA GuardedKeeps == ASSUME IInv, NEW a \in Attempts, Guarded(a) PROVE IInv'
<1>1. Used(a) /\ att[a].stage = "sent" /\ Rail(a) = "tempo"
  BY DEF Guarded, Used, Rail
<1>2. MayTurn(a, "guarded")
  BY <1>1 DEF MayTurn, Signed, Stages
<1> QED BY <1>2, ChainKeeps DEF Guarded

LEMMA ApproveSendKeeps == ASSUME IInv, NEW a \in Attempts, ApproveSend(a) PROVE IInv'
<1>1. /\ Used(a)
      /\ \/ att[a].stage = "asked" /\ Rail(a) = "tempo"
         \/ att[a].stage = "sending" /\ Rail(a) = "eip3009"
  BY Parts DEF ApproveSend, StagesOfRail, Used, Rail, Rails
<1>2. MayTurn(a, "sent")
  BY <1>1 DEF MayTurn, Signed, Stages
<1> QED BY <1>2, ChainKeeps DEF ApproveSend

\* What a tab that has an attempt knows of it.
LEMMA OwnAttempt ==
    ASSUME IInv, NEW t \in Tabs, tab[t].at \in Own
    PROVE  /\ tab[t] \in Tab /\ tab[t].order \in Orders /\ tab[t].attempt \in Attempts
           /\ Used(tab[t].attempt) /\ att[tab[t].attempt].order = tab[t].order
           /\ Rail(tab[t].attempt) = rail[tab[t].order]
           /\ rail[tab[t].order] \in Rails
           /\ \A r \in Rails : OnRail(t, r) <=> rail[tab[t].order] = r
<1>1. /\ tab[t] \in Tab /\ tab[t].order \in Orders /\ tab[t].attempt \in Attempts
      /\ att[tab[t].attempt].order = tab[t].order
  BY Parts DEF TabsAgree, Own
<1>2. Used(tab[t].attempt)
  BY <1>1, Numbers, Parts DEF AttemptsInOrder
<1> QED BY <1>1, <1>2, Numbers, Parts DEF Rail, OnRail

LEMMA ToTab ==
    ASSUME NEW t \in Tabs, tab[t] \in Tab, NEW phase \in Phases
    PROVE  /\ To(t, phase) \in Tab /\ To(t, phase).at = phase /\ To(t, phase).order = tab[t].order
           /\ To(t, phase).attempt = tab[t].attempt /\ To(t, phase).fresh = tab[t].fresh
  BY DEF To, Tab

LEMMA IdleTab == Idle \in Tab /\ Idle.at = "idle" /\ \A t : MayGo(t, Idle)
  BY DEF Idle, Tab, Phases, MayGo, Own, Proof

\* A flow goes on with its own attempt.
LEMMA AdvanceKeeps ==
    ASSUME IInv, NEW t \in Tabs, tab[t].at \in Own, NEW s \in Stages,
           MayTurn(tab[t].attempt, s), Becomes(tab[t].attempt, s), UNCHANGED rail,
           NEW v \in Tab, Goes(t, v), v.order = tab[t].order, v.attempt = tab[t].attempt,
           v.at \in Own \ {"marked"}, tab[t].at = "marked" \/ rail[tab[t].order] # "tempo",
           v.at \in {"signed", "failed"} => s = v.at /\ rail[tab[t].order] # "tempo",
           v.at = "asked" => s = "asked",
           v.at \in {"held", "handle"} => s = "held" /\ rail[tab[t].order] = "eip3009",
           v.at = "sending" => s = "sending" /\ rail[tab[t].order] = "eip3009"
    PROVE  IInv'
<1>1. Turns(tab[t].attempt, s) => Fits(v, att'[v.attempt])
  BY OwnAttempt DEF Turns, Fits
<1>2. Turns(tab[t].attempt, s) => MayGo(t, v)
  BY <1>1, OwnAttempt DEF MayGo, Own, Proof, Rails
<1> QED BY <1>2, FlowKeeps

LEMMA AskTempoKeeps == ASSUME IInv, NEW t \in Tabs, AskTempo(t) PROVE IInv'
<1>1. /\ tab[t].at = "marked" /\ tab[t].at \in Own /\ OnRail(t, "tempo")
      /\ Becomes(tab[t].attempt, "asked") /\ Goes(t, To(t, "asked")) /\ UNCHANGED rail
  BY Parts DEF AskTempo, At, Own, TabsAgree
<1>2. att[tab[t].attempt].stage = "marked"
  BY <1>1, Parts DEF TabsFit, Fits
<1>3. MayTurn(tab[t].attempt, "asked")
  BY <1>1, <1>2, OwnAttempt DEF MayTurn, Rails
<1>4. /\ "asked" \in Stages /\ To(t, "asked") \in Tab
      /\ To(t, "asked").order = tab[t].order /\ To(t, "asked").attempt = tab[t].attempt
      /\ To(t, "asked").at = "asked"
  BY <1>1, OwnAttempt, ToTab DEF Stages, Phases
<1> QED BY <1>1, <1>3, <1>4, AdvanceKeeps DEF Own

LEMMA ApproveKeeps == ASSUME IInv, NEW t \in Tabs, Approve(t) PROVE IInv'
<1>1. /\ tab[t].at = "asked" /\ tab[t].at \in Own /\ rail[tab[t].order] # "tempo"
      /\ Becomes(tab[t].attempt, "signed") /\ Goes(t, To(t, "signed")) /\ UNCHANGED rail
  BY OwnAttempt DEF Approve, At, Own, Rails
<1>2. att[tab[t].attempt].stage = "asked"
  BY <1>1, Parts DEF TabsFit, Fits
<1>3. MayTurn(tab[t].attempt, "signed")
  BY <1>1, <1>2, OwnAttempt DEF MayTurn
<1>4. /\ "signed" \in Stages /\ To(t, "signed") \in Tab
      /\ To(t, "signed").order = tab[t].order /\ To(t, "signed").attempt = tab[t].attempt
      /\ To(t, "signed").at = "signed"
  BY <1>1, OwnAttempt, ToTab DEF Stages, Phases
<1> QED BY <1>1, <1>3, <1>4, AdvanceKeeps DEF Own

\* A Solana wallet fails, or declines when it was asked again.
LEMMA FailsKeeps ==
    ASSUME IInv, NEW t \in Tabs, At(t, "asked"), OnRail(t, "solana"),
           Becomes(tab[t].attempt, "failed"), Goes(t, To(t, "failed")), UNCHANGED rail
    PROVE  IInv'
<1>1. tab[t].at = "asked" /\ tab[t].at \in Own /\ rail[tab[t].order] = "solana"
  BY OwnAttempt DEF At, Own, Rails
<1>2. att[tab[t].attempt].stage = "asked"
  BY <1>1, Parts DEF TabsFit, Fits
<1>3. MayTurn(tab[t].attempt, "failed")
  BY <1>1, <1>2, OwnAttempt DEF MayTurn
<1>4. /\ "failed" \in Stages /\ To(t, "failed") \in Tab
      /\ To(t, "failed").order = tab[t].order /\ To(t, "failed").attempt = tab[t].attempt
      /\ To(t, "failed").at = "failed"
  BY <1>1, OwnAttempt, ToTab DEF Stages, Phases
<1> QED BY <1>1, <1>3, <1>4, AdvanceKeeps DEF Own

LEMMA WalletFailsKeeps == ASSUME IInv, NEW t \in Tabs, WalletFails(t) PROVE IInv'
<1>1. CASE OnRail(t, "solana") /\ Becomes(tab[t].attempt, "failed") /\ Goes(t, To(t, "failed"))
  BY <1>1, FailsKeeps DEF WalletFails
<1>2. CASE Goes(t, Idle) /\ UNCHANGED att
  BY <1>2, IdleTab, QuietKeeps DEF WalletFails
<1> QED BY <1>1, <1>2 DEF WalletFails

LEMMA SignAgainKeeps == ASSUME IInv, NEW t \in Tabs, SignAgain(t) PROVE IInv'
<1> DEFINE v == [To(t, "asked") EXCEPT !.again = TRUE]
<1>1. /\ tab[t].at = "failed" /\ tab[t].at \in Own /\ rail[tab[t].order] # "tempo"
      /\ Becomes(tab[t].attempt, "asked") /\ Goes(t, v) /\ UNCHANGED rail
  BY OwnAttempt, Parts DEF SignAgain, At, Own, Rails, TabsAgree
<1>2. att[tab[t].attempt].stage = "failed"
  BY <1>1, Parts DEF TabsFit, Fits
<1>3. rail[tab[t].order] = "solana" /\ MayTurn(tab[t].attempt, "asked")
  BY <1>1, <1>2, OwnAttempt, Parts DEF MayTurn, StagesOfRail, Rails
<1>4. /\ "asked" \in Stages /\ v \in Tab /\ v.at = "asked"
      /\ v.order = tab[t].order /\ v.attempt = tab[t].attempt
  BY <1>1, OwnAttempt DEF Stages, Phases, To, Tab
<1> HIDE DEF v
<1> QED BY <1>1, <1>3, <1>4, AdvanceKeeps DEF Own

LEMMA HoldBackKeeps == ASSUME IInv, NEW t \in Tabs, HoldBack(t) PROVE IInv'
<1>1. /\ tab[t].at = "held" /\ tab[t].at \in Own /\ OnRail(t, "eip3009")
      /\ Goes(t, To(t, "handle")) /\ UNCHANGED <<rail, att>>
  BY Parts DEF HoldBack, At, Own, TabsAgree
<1>2. att[tab[t].attempt].stage = "held"
  BY <1>1, Parts DEF TabsFit, Fits
<1>3. /\ To(t, "handle") \in Tab /\ To(t, "handle").at = "handle"
      /\ To(t, "handle").order = tab[t].order /\ To(t, "handle").attempt = tab[t].attempt
  BY <1>1, OwnAttempt, ToTab DEF Phases
<1>4. MayGo(t, To(t, "handle"))
  BY <1>1, <1>2, <1>3, OwnAttempt DEF MayGo, Own, Proof, Fits
<1> QED BY <1>1, <1>3, <1>4, QuietKeeps

LEMMA SendKeeps == ASSUME IInv, NEW t \in Tabs, send(t) PROVE IInv'
<1>1. /\ tab[t].at \in {"held", "handle"} /\ tab[t].at \in Own /\ OnRail(t, "eip3009")
      /\ Becomes(tab[t].attempt, "sending") /\ Goes(t, To(t, "sending")) /\ UNCHANGED rail
  BY Parts DEF send, At, Own, TabsAgree
<1>2. att[tab[t].attempt].stage = "held" /\ rail[tab[t].order] = "eip3009"
  BY <1>1, OwnAttempt, Parts DEF TabsFit, Fits, Rails
<1>3. MayTurn(tab[t].attempt, "sending")
  BY <1>1, <1>2, OwnAttempt DEF MayTurn
<1>4. /\ "sending" \in Stages /\ To(t, "sending") \in Tab
      /\ To(t, "sending").order = tab[t].order /\ To(t, "sending").attempt = tab[t].attempt
      /\ To(t, "sending").at = "sending"
  BY <1>1, OwnAttempt, ToTab DEF Stages, Phases
<1> QED BY <1>1, <1>2, <1>3, <1>4, AdvanceKeeps DEF Own

LEMMA DeclineSendKeeps == ASSUME IInv, NEW t \in Tabs, DeclineSend(t) PROVE IInv'
<1>1. /\ tab[t].at = "sending" /\ tab[t].at \in Own /\ OnRail(t, "eip3009")
      /\ att[tab[t].attempt].stage = "sending"
      /\ Becomes(tab[t].attempt, "held") /\ Goes(t, To(t, "handle")) /\ UNCHANGED rail
  BY Parts DEF DeclineSend, At, Own, TabsAgree
<1>2. rail[tab[t].order] = "eip3009"
  BY <1>1, OwnAttempt DEF Rails
<1>3. MayTurn(tab[t].attempt, "held")
  BY <1>1, OwnAttempt DEF MayTurn
<1>4. /\ "held" \in Stages /\ To(t, "handle") \in Tab
      /\ To(t, "handle").order = tab[t].order /\ To(t, "handle").attempt = tab[t].attempt
      /\ To(t, "handle").at = "handle"
  BY <1>1, OwnAttempt, ToTab DEF Stages, Phases
<1> QED BY <1>1, <1>2, <1>3, <1>4, AdvanceKeeps DEF Own

LEMMA LeaveKeeps == ASSUME IInv, NEW t \in Tabs, Leave(t) PROVE IInv'
<1>1. Goes(t, Idle) /\ UNCHANGED rail
  BY DEF Leave
<1>2. CASE UNCHANGED att
  BY <1>1, <1>2, IdleTab, QuietKeeps
<1>3. CASE tab[t].at \in Own /\ Becomes(tab[t].attempt, "dead")
  <2>1. MayTurn(tab[t].attempt, "dead") /\ "dead" \in Stages
    BY <1>3, OwnAttempt DEF MayTurn, Stages
  <2> QED BY <1>1, <1>3, <2>1, IdleTab, FlowKeeps
<1> QED BY <1>2, <1>3 DEF Leave, At, Own, Becomes

LEMMA StartLookKeeps == ASSUME IInv, NEW t \in Tabs, NEW o \in Orders, StartLook(t, o) PROVE IInv'
<1> DEFINE v == [Idle EXCEPT !.at = "proving", !.order = o, !.attempt = rec[o].marker]
<1>1. rec[o].state = "paying" /\ Past(o) /\ Goes(t, v) /\ UNCHANGED <<rail, att>>
  BY DEF StartLook
<1>2. rec[o].marker \in Attempts /\ att[rec[o].marker].order = o
  BY <1>1, Parts DEF RecordsAgree, MarkerIsLast
<1>3. v \in Tab /\ v.at = "proving" /\ v.order = o /\ v.attempt = rec[o].marker
  BY <1>2 DEF Tab, Phases, Idle
<1> HIDE DEF v
<1>4. MayGo(t, v)
  BY <1>1, <1>2, <1>3 DEF MayGo, Own, Past
<1> QED BY <1>1, <1>3, <1>4, QuietKeeps

LEMMA LookKeeps == ASSUME IInv, NEW t \in Tabs, Look(t) PROVE IInv'
<1> DEFINE o == tab[t].order
           a == tab[t].attempt
<1>1. tab[t].at = "proving" /\ Goes(t, To(t, "over")) /\ UNCHANGED <<rail, att>>
  BY DEF Look, At
<1>2. /\ o \in Orders /\ a \in Attempts /\ att[a].order = o /\ tab[t] \in Tab
      /\ rail[o] \in Rails
  BY <1>1, Parts DEF TabsAgree, Proof
<1>3. /\ To(t, "over") \in Tab /\ To(t, "over").at = "over" /\ To(t, "over").order = o
      /\ To(t, "over").attempt = a /\ To(t, "over").fresh = tab[t].fresh
  BY <1>2, ToTab DEF Phases
<1>4. ASSUME tab[t].fresh
      PROVE  rec[o].state = "paying" /\ rec[o].marker = a /\ att[a].age > Valid
  BY <1>1, <1>4, Parts DEF ProofsHold, Proof
<1>5. ASSUME tab[t].fresh, rail[o] # "tempo" PROVE Landed(o) = {}
  <2>1. CASE rail[o] = "solana"
    BY <1>2, <2>1 DEF Look, searchPayment
  <2>2. CASE rail[o] = "eip3009"
    <3>1. \A b \in Landed(o) : att[b].payer # att[a].payer
      BY <2>2 DEF Look, proveAuthorizationOver
    <3>2. ASSUME NEW b \in Landed(o) PROVE FALSE
      <4>1. Used(b) /\ Rail(b) = "eip3009" /\ att[b].order = o /\ att[b].stage = "landed" /\ b \in Attempts
        BY <2>2 DEF Landed, Of, Used, Rail
      <4> QED BY <1>4, <1>5, <3>1, <4>1, Parts DEF Eip3009Signed
    <3> QED BY <3>2
  <2> QED BY <1>2, <1>5, <2>1, <2>2 DEF Rails
<1>6. MayGo(t, To(t, "over"))
  BY <1>2, <1>3, <1>4, <1>5 DEF MayGo, Own
<1> QED BY <1>1, <1>3, <1>6, QuietKeeps

-----------------------------------------------------------------------------
(***************************************************************************)
(* The steps of a flow that write its order.                               *)
(***************************************************************************)
LEMMA DieEffect ==
    ASSUME IInv, NEW t \in Tabs, tab[t].at \in Own, Becomes(tab[t].attempt, "dead")
    PROVE  /\ att' \in [Attempts -> Attempt] /\ Die({tab[t].attempt})
           /\ NotHeld({tab[t].attempt}, {t})
<1>1. /\ TypeOK /\ tab[t].attempt \in Attempts /\ Used(tab[t].attempt) /\ "dead" \in Stages
  BY Parts, OwnAttempt DEF Stages
<1>2. \A u \in Tabs \ {t} : tab[u].at \in Own => tab[u].attempt # tab[t].attempt
  BY Parts DEF TabsAgree
<1> QED BY <1>1, <1>2, BecomesEffect DEF Die, NotHeld

LEMMA NoneDie ==
    ASSUME IInv, UNCHANGED att, NEW S
    PROVE  att' \in [Attempts -> Attempt] /\ Die({}) /\ NotHeld({}, S)
  BY Parts DEF TypeOK, Die, NotHeld

\* The flow of tab t writes a record that keeps the marker, and ends or is ready.
LEMMA CommitKeeps ==
    ASSUME IInv, NEW t \in Tabs, NEW o \in Orders, NEW r \in Record, NEW v \in Tab,
           Commit(t, o, r, v), v.at = "idle" \/ (v.at = "ready" /\ v.order \in Orders),
           NEW D \in SUBSET Attempts, att' \in [Attempts -> Attempt], Die(D), NotHeld(D, {t}),
           MayBecome(o, r), UNCHANGED rail
    PROVE  IInv'
<1>1. TypeOK /\ {t} \in SUBSET Tabs
  BY Parts
<1>2. /\ rec' \in [Orders -> Record] /\ rec'[o] = r
      /\ \A p \in Orders \ {o} : rec'[p] = rec[p]
      /\ tab' \in [Tabs -> Tab] /\ tab'[t] = v /\ TabsTold({t}, o)
  BY <1>1, CommitEffect
<1>3. Stop({t})
  BY <1>2 DEF Stop
<1> QED BY <1>1, <1>2, <1>3, RecordKeeps

LEMMA StartPayKeeps == ASSUME IInv, NEW t \in Tabs, NEW o \in Orders, StartPay(t, o) PROVE IInv'
<1> DEFINE v == [Idle EXCEPT !.at = "ready", !.order = o]
           r == [rec[o] EXCEPT !.request = TRUE]
<1>1. /\ rec[o] \in Record /\ rec[o].state = "ordered" /\ rec[o].marker = None
      /\ UNCHANGED <<rail, att>> /\ (Goes(t, v) \/ Commit(t, o, r, v))
  BY Parts DEF StartPay
<1>2. v \in Tab /\ v.at = "ready" /\ v.order = o
  BY DEF Idle, Tab, Phases
<1>3. CASE Goes(t, v)
  <2>1. MayGo(t, v)
    BY <1>2 DEF MayGo, Own, Proof
  <2> QED BY <1>1, <1>2, <1>3, <2>1, QuietKeeps
<1>4. CASE Commit(t, o, r, v)
  <2>1. r \in Record
    BY <1>1 DEF Record
  <2>2. MayBecome(o, r)
    BY <1>1, Parts DEF MayBecome, RecordsAgree, Live, holdsPayExclusion, Record
  <2>3. att' \in [Attempts -> Attempt] /\ Die({}) /\ NotHeld({}, {t}) /\ {} \in SUBSET Attempts
    BY <1>1, NoneDie
  <2> HIDE DEF v, r
  <2> QED BY <1>1, <1>2, <1>4, <2>1, <2>2, <2>3, CommitKeeps
<1> QED BY <1>1, <1>3, <1>4

\* When the attempt of the marker is past, every attempt of the order is.
LEMMA Aged ==
    ASSUME IInv, NEW o \in Orders, rec[o].marker \in Attempts, att[rec[o].marker].age > Valid
    PROVE  \A a \in Of(o) : att[a].age > Valid
<1>0. TAKE a \in Of(o)
<1>1. a \in Attempts /\ a <= rec[o].marker /\ att[rec[o].marker].order = o
  BY Numbers, Parts DEF MarkerIsLast, Of
<1>2. Used(rec[o].marker)
  BY <1>1, Numbers, Parts DEF AttemptsInOrder
<1>3. CASE a = rec[o].marker
  BY <1>3
<1>4. CASE a # rec[o].marker
  <2>1. a \in Nat /\ rec[o].marker \in Nat
    BY <1>1, Numbers
  <2>2. a < rec[o].marker
    BY <1>1, <1>4, <2>1
  <2>3. att[a].age >= att[rec[o].marker].age
    BY <1>1, <1>2, <2>2, Parts DEF AttemptsInOrder
  <2>4. att[a].age \in Nat /\ att[rec[o].marker].age \in Nat /\ Valid \in Nat
    BY <1>1, Numbers, Parts
  <2> QED BY <2>3, <2>4
<1> QED BY <1>3, <1>4

LEMMA EndOverKeeps == ASSUME IInv, NEW t \in Tabs, EndOver(t) PROVE IInv'
<1> DEFINE o == tab[t].order
           r == Ended(rec[o], IF rail[o] = "tempo" THEN "over" ELSE "none")
<1>1. /\ tab[t].at = "over" /\ tab[t].fresh /\ Commit(t, o, r, Idle) /\ UNCHANGED <<rail, att>>
  BY DEF EndOver, At
<1>2. /\ o \in Orders /\ rec[o] \in Record /\ rec[o].state = "paying" /\ rec[o].endedBy = "none"
      /\ rec[o].marker \in Attempts /\ att[rec[o].marker].age > Valid
      /\ rail[o] # "tempo" => Landed(o) = {}
  BY <1>1, Numbers, Parts DEF ProofsHold, TabsAgree, RecordsAgree, OnRail, Proof
<1> HIDE DEF o
<1>3. r \in Record /\ r.state = "ended"
  BY <1>2 DEF Record, States, Ended
<1>4. \A a \in Of(o) : att[a].age > Valid
  BY <1>2, Aged
<1>5. MayBecome(o, r)
  BY <1>1, <1>2, <1>3, <1>4, Numbers, Parts
  DEF MayBecome, RecordsAgree, Live, holdsPayExclusion, Record, Ended, Landed, Of, Terminal
<1>6. att' \in [Attempts -> Attempt] /\ Die({}) /\ NotHeld({}, {t}) /\ {} \in SUBSET Attempts
  BY <1>1, NoneDie
<1> HIDE DEF r
<1> QED BY <1>1, <1>2, <1>3, <1>5, <1>6, IdleTab, CommitKeeps

LEMMA SaveHashKeeps == ASSUME IInv, NEW t \in Tabs, SaveHash(t) PROVE IInv'
<1> DEFINE o == tab[t].order
<1>1. /\ tab[t].at \in Own /\ UNCHANGED <<rail, att>>
  BY DEF SaveHash, At, Own
<1>2. CASE Goes(t, Idle)
  BY <1>1, <1>2, IdleTab, QuietKeeps
<1>3. ASSUME HoldsAttempt(o, tab[t].attempt),
             NEW e \in IF rail[o] = "tempo" THEN {"hash", "bundle"} ELSE {"signed"},
             Commit(t, o, [rec[o] EXCEPT !.evidence = e], Idle)
      PROVE  IInv'
  <2> DEFINE r == [rec[o] EXCEPT !.evidence = e]
  <2>1. /\ o \in Orders /\ rec[o] \in Record /\ rec[o].state = "paying" /\ rec[o].marker # None
        /\ rail[o] # "tempo" => e = "signed"
    BY <1>1, <1>3, OwnAttempt, Numbers, Parts DEF HoldsAttempt
  <2>2. r \in Record
    BY <2>1 DEF Record
  <2>3. MayBecome(o, r)
    BY <2>1, Parts DEF MayBecome, RecordsAgree, Live, holdsPayExclusion, Record
  <2>4. att' \in [Attempts -> Attempt] /\ Die({}) /\ NotHeld({}, {t}) /\ {} \in SUBSET Attempts
    BY <1>1, NoneDie
  <2>5. Commit(t, o, r, Idle)
    BY <1>3
  <2> HIDE DEF r, o
  <2> QED BY <1>1, <2>1, <2>2, <2>3, <2>4, <2>5, IdleTab, CommitKeeps
<1> QED BY <1>2, <1>3 DEF SaveHash, judgeSave

LEMMA FollowBundleKeeps == ASSUME IInv, NEW o \in Orders, followTempoBundle(o) PROVE IInv'
<1> DEFINE a == rec[o].marker
           r(e) == [rec[o] EXCEPT !.evidence = e]
<1>1. /\ TypeOK /\ rec[o] \in Record /\ rec[o].state = "paying" /\ rec[o].evidence = "bundle"
      /\ a \in Attempts /\ att[a].order = o /\ rail[o] = "tempo" /\ UNCHANGED rail
  BY Numbers, Parts DEF followTempoBundle, RecordsAgree, MarkerIsLast, Rails
<1>2. ASSUME NEW e \in {"hash", "failed"} PROVE r(e) \in Record /\ MayBecome(o, r(e))
  BY <1>1, Numbers, Parts DEF MayBecome, RecordsAgree, Live, holdsPayExclusion, Record
<1>3. CASE Write(o, r("hash")) /\ UNCHANGED att
  BY <1>1, <1>2, <1>3, WriteKeeps
<1>4. CASE att[a].stage = "sent" /\ Becomes(a, "dead") /\ Write(o, r("failed"))
  <2>1. /\ rec' \in [Orders -> Record] /\ rec'[o] = r("failed")
        /\ \A p \in Orders \ {o} : rec'[p] = rec[p]
        /\ tab' \in [Tabs -> Tab] /\ TabsTold({}, o)
    BY <1>1, <1>2, <1>4, WriteEffect
  <2>2. Used(a) /\ "dead" \in Stages
    BY <1>4 DEF Used, Stages
  <2>3. att' \in [Attempts -> Attempt] /\ Die({a}) /\ {a} \in SUBSET Attempts
    BY <1>1, <1>4, <2>2, BecomesEffect DEF Die
  <2>4. ASSUME NEW t \in Tabs, tab[t].at \in Own, tab[t].attempt = a
        PROVE  tab[t].at = "asked" /\ OnRail(t, "tempo")
    <3>1. rail[tab[t].order] = "tempo" /\ OnRail(t, "tempo") /\ Fits(tab[t], att[a])
      BY <1>1, <2>4, OwnAttempt, Parts DEF TabsFit, Rail, Rails
    <3>2. tab[t].at \notin {"signed", "failed", "held", "handle", "sending", "marked"}
      BY <1>4, <2>4, <3>1, OwnAttempt, Parts DEF TabsAgree, Fits, Rails
    <3> QED BY <2>4, <3>1, <3>2 DEF Own
  <2>5. NotHeld({a}, {}) /\ Stop({}) /\ {} \in SUBSET Tabs
    BY <2>4 DEF NotHeld, Stop
  <2> HIDE DEF a, r
  <2> QED BY <1>1, <1>2, <2>1, <2>3, <2>5, RecordKeeps
<1> QED BY <1>3, <1>4 DEF followTempoBundle

\* A marker that nothing was requested under is removed.
LEMMA UnmarkKeeps ==
    ASSUME IInv, NEW o \in Orders, rec[o].state = "paying", rec[o].evidence = "none",
           NEW S \in SUBSET Tabs, NEW D \in SUBSET Attempts,
           rail' = rail, att' \in [Attempts -> Attempt], Die(D),
           rec' \in [Orders -> Record], rec'[o] = Unmarked(rec[o]),
           \A p \in Orders \ {o} : rec'[p] = rec[p],
           tab' \in [Tabs -> Tab], TabsTold(S, o), Stop(S), NotHeld(D, S),
           rail[o] = "tempo" =>
              /\ rec[o].marker \in D
              /\ \A t \in Tabs \ S : tab[t].at \in Own => tab[t].attempt # rec[o].marker
    PROVE  IInv'
<1>0. /\ rec'[o].state = "ordered" /\ rec'[o].marker = None /\ rec'[o].evidence = "none"
      /\ rec'[o].endedBy = "none" /\ rec'[o].confirmed = rec[o].confirmed
      /\ rec[o].endedBy = "none" /\ rec[o].marker \in Attempts /\ rec[o] \in Record
  BY Parts DEF Unmarked, Record, RecordsAgree
<1>1. TypeOK'
  BY Parts DEF TypeOK
<1>2. \A a \in Attempts : /\ att'[a].order = att[a].order /\ att'[a].payer = att[a].payer
                          /\ att'[a].age = att[a].age
                          /\ att'[a].stage = att[a].stage \/ (Used(a) /\ att'[a].stage = "dead")
                          /\ (att'[a].stage # "unused") <=> Used(a)
  BY DEF Die, Used
<1>3. AttemptsInOrder'
  BY <1>2, Parts DEF AttemptsInOrder, Used
<1>m. \A p \in Orders \ {o} : rec'[p].marker = rec[p].marker
  OBVIOUS
<1>4. MarkerIsLast'
  BY <1>0, <1>2, <1>m, Parts DEF MarkerIsLast, Of
<1>5. RecordsAgree'
  BY <1>0, Parts DEF RecordsAgree
<1>6. TabsAgree'
  BY <1>0, <1>2, Parts DEF TabsAgree, TabsTold, OnRail, Stop, Own, Proof
<1>f. TabsFit'
  BY ToldFit
<1>7. ProofsHold'
  BY <1>0, <1>2, Parts DEF ProofsHold, TabsTold, TabsAgree, OnRail, Landed, Of, Stop, Own, Proof
<1>8. StagesOfRail'
  BY <1>2, Parts DEF StagesOfRail, Used, Rail
<1>9. SolanaSent'
  <2>1. ASSUME NEW a \in Attempts, Used(a), Rail(a) = "solana", att[a].stage \in {"sent", "landed"}
        PROVE  IF rec'[att[a].order].marker = a THEN rec'[att[a].order].evidence = "signed"
               ELSE att[a].stage = "sent" /\ att[a].age > Valid
    <3>1. /\ att[a].order \in Orders
          /\ IF rec[att[a].order].marker = a THEN rec[att[a].order].evidence = "signed"
             ELSE att[a].stage = "sent" /\ att[a].age > Valid
      BY <2>1, Parts DEF SolanaSent
    <3>2. CASE att[a].order = o
      BY <1>0, <3>1, <3>2, Numbers
    <3>3. CASE att[a].order # o
      BY <3>1, <3>3
    <3> QED BY <3>2, <3>3
  <2> QED BY <1>2, <2>1 DEF SolanaSent, Used, Rail
<1>10. TempoMarker'
  BY <1>0, <1>2, Parts DEF TempoMarker, Used, Rail, Die
<1>11. Eip3009Signed'
  BY <1>0, <1>2, <1>m, Parts DEF Eip3009Signed, Used, Rail
<1>12. EndedIsOver'
  BY <1>0, <1>2, Parts DEF EndedIsOver, Of
<1>13. LiveOnesAreExcused'
  BY <1>0, Parts DEF LiveOnesAreExcused, Live, OverEnded, holdsPayExclusion
<1> QED BY <1>1, <1>3, <1>4, <1>5, <1>6, <1>f, <1>7, <1>8, <1>9, <1>10, <1>11, <1>12, <1>13 DEF IInv

\* The flow of tab t frees its order after its attempt died.
LEMMA FreeKeeps ==
    ASSUME IInv, NEW t \in Tabs, tab[t].at \in Own, Becomes(tab[t].attempt, "dead"),
           judgeClear(tab[t].order, tab[t].attempt), UNCHANGED rail,
           Commit(t, tab[t].order, Unmarked(rec[tab[t].order]), Idle)
    PROVE  IInv'
<1> DEFINE o == tab[t].order
           a == tab[t].attempt
<1>1. /\ TypeOK /\ o \in Orders /\ rec[o] \in Record /\ rec[o].state = "paying"
      /\ rec[o].evidence = "none" /\ rec[o].marker = a /\ {t} \in SUBSET Tabs
      /\ {a} \in SUBSET Attempts
  BY OwnAttempt, Parts DEF judgeClear, HoldsAttempt
<1>2. Unmarked(rec[o]) \in Record
  BY <1>1 DEF Record, States, Unmarked
<1> HIDE DEF o
<1>3. /\ rec' \in [Orders -> Record] /\ rec'[o] = Unmarked(rec[o])
      /\ \A p \in Orders \ {o} : rec'[p] = rec[p]
      /\ tab' \in [Tabs -> Tab] /\ tab'[t] = Idle /\ TabsTold({t}, o)
  BY <1>1, <1>2, IdleTab, CommitEffect DEF o
<1>4. Stop({t})
  BY <1>3, IdleTab DEF Stop
<1>5. \A u \in Tabs \ {t} : tab[u].at \in Own => tab[u].attempt # rec[o].marker
  BY <1>1, Parts DEF TabsAgree
<1>6. att' \in [Attempts -> Attempt] /\ Die({a}) /\ NotHeld({a}, {t})
  BY DieEffect
<1> HIDE DEF a
<1> QED BY <1>1, <1>3, <1>4, <1>5, <1>6, UnmarkKeeps

LEMMA ClearNotRequestedKeeps == ASSUME IInv, NEW t \in Tabs, clearNotRequested(t) PROVE IInv'
  BY FreeKeeps DEF clearNotRequested, At, Own

LEMMA ClearUnsignedKeeps ==
    ASSUME IInv, NEW t \in Tabs, NEW o \in Orders, clearUnsigned(t, o)
    PROVE  IInv'
<1>1. /\ TypeOK /\ rec[o] \in Record /\ rec[o].state = "paying" /\ rec[o].evidence = "none"
      /\ rail[o] # "tempo" /\ Write(o, Unmarked(rec[o])) /\ UNCHANGED <<rail, att>>
  BY Parts DEF clearUnsigned, judgeClear, HoldsAttempt
<1>2. Unmarked(rec[o]) \in Record
  BY <1>1 DEF Record, States, Unmarked
<1>3. /\ rec' \in [Orders -> Record] /\ rec'[o] = Unmarked(rec[o])
      /\ \A p \in Orders \ {o} : rec'[p] = rec[p]
      /\ tab' \in [Tabs -> Tab] /\ TabsTold({}, o)
  BY <1>1, <1>2, WriteEffect
<1>4. /\ att' \in [Attempts -> Attempt] /\ Die({}) /\ NotHeld({}, {}) /\ Stop({})
      /\ {} \in SUBSET Attempts /\ {} \in SUBSET Tabs
  BY <1>1, NoneDie DEF Stop
<1> QED BY <1>1, <1>3, <1>4, UnmarkKeeps

\* The flow of tab t ends with its attempt.
LEMMA GiveUpKeeps ==
    ASSUME IInv, NEW t \in Tabs, tab[t].at \in Own, Becomes(tab[t].attempt, "dead"),
           UNCHANGED rail, Goes(t, Idle)
    PROVE  IInv'
<1>1. MayTurn(tab[t].attempt, "dead") /\ "dead" \in Stages
  BY OwnAttempt DEF MayTurn, Stages
<1> QED BY <1>1, IdleTab, FlowKeeps

LEMMA EndRejectedKeeps ==
    ASSUME IInv, NEW t \in Tabs, At(t, "asked"), OnRail(t, "tempo"),
           Becomes(tab[t].attempt, "dead"), endRejected(t), UNCHANGED rail
    PROVE  IInv'
<1> DEFINE o == tab[t].order
           a == tab[t].attempt
           r == Ended(rec[o], "rejected")
<1>1. tab[t].at \in Own
  BY DEF At, Own
<1>2. CASE Goes(t, Idle)
  BY <1>1, <1>2, GiveUpKeeps
<1>3. CASE HoldsAttempt(o, a) /\ Commit(t, o, r, Idle)
  <2>1. /\ o \in Orders /\ rec[o] \in Record /\ rec[o].state = "paying" /\ rec[o].marker = a
        /\ rail[o] = "tempo" /\ rec[o].endedBy = "none"
        /\ a \in Attempts /\ {a} \in SUBSET Attempts
    BY <1>1, <1>3, OwnAttempt, Parts DEF HoldsAttempt, RecordsAgree, Rails
  <2>2. r \in Record /\ r.state = "ended" /\ r.endedBy = "rejected"
    BY <2>1 DEF Record, States, Ended
  <2>3. att' \in [Attempts -> Attempt] /\ Die({a}) /\ NotHeld({a}, {t})
    BY <1>1, DieEffect
  <2>4. \A b \in Of(o) : att'[b].stage = "dead"
    BY <2>1, <2>3, Numbers, Parts DEF Die, Of, TempoMarker, AttemptsInOrder, Rail
  <2>5. MayBecome(o, r)
    BY <2>1, <2>2, <2>4, Parts
    DEF MayBecome, RecordsAgree, Live, holdsPayExclusion, Record, Ended
  <2>6. Commit(t, o, r, Idle)
    BY <1>3
  <2> HIDE DEF o, r, a
  <2> QED BY <2>1, <2>2, <2>3, <2>5, <2>6, IdleTab, CommitKeeps
<1> QED BY <1>2, <1>3 DEF endRejected, judgeEnd

LEMMA DeclineKeeps == ASSUME IInv, NEW t \in Tabs, Decline(t) PROVE IInv'
<1>1. At(t, "asked") /\ tab[t].at \in Own /\ UNCHANGED rail
  BY DEF Decline, At, Own
<1>2. CASE OnRail(t, "solana") /\ Becomes(tab[t].attempt, "failed") /\ Goes(t, To(t, "failed"))
  BY <1>1, <1>2, FailsKeeps
<1>3. CASE Becomes(tab[t].attempt, "dead") /\ OnRail(t, "tempo") /\ endRejected(t)
  BY <1>1, <1>3, EndRejectedKeeps
<1>4. CASE Becomes(tab[t].attempt, "dead") /\ Goes(t, Idle)
  BY <1>1, <1>4, GiveUpKeeps
<1>5. CASE Becomes(tab[t].attempt, "dead") /\ Release(t)
  BY <1>1, <1>4, <1>5, FreeKeeps DEF Release
<1> QED BY <1>2, <1>3, <1>4, <1>5 DEF Decline

LEMMA TickKeeps == ASSUME IInv, Tick PROVE IInv'
<1>1. rail' = rail /\ rec' = rec /\ tab' = tab /\ TypeOK
  BY Parts DEF Tick
<1>2. ASSUME NEW a \in Attempts
      PROVE  /\ att'[a] \in Attempt /\ att'[a].stage = att[a].stage
             /\ att'[a].order = att[a].order /\ att'[a].payer = att[a].payer
             /\ att'[a].age = IF Used(a) /\ att[a].age <= Valid THEN att[a].age + 1 ELSE att[a].age
             /\ att[a].age \in Nat /\ att[a].age <= Valid + 1
  <2>1. att[a] \in Attempt /\ att[a].age \in Nat /\ Valid \in Nat /\ att[a].age \in 0..(Valid + 1)
    BY Parts, Numbers, AttemptFields
  <2>2. att'[a] = IF Used(a) /\ att[a].age <= Valid THEN [att[a] EXCEPT !.age = @ + 1] ELSE att[a]
    BY DEF Tick, Used
  <2>3. CASE Used(a) /\ att[a].age <= Valid
    BY <2>1, <2>2, <2>3 DEF Attempt
  <2>4. CASE ~(Used(a) /\ att[a].age <= Valid)
    BY <2>1, <2>2, <2>4
  <2> QED BY <2>3, <2>4
<1>3. att' = [a \in Attempts |-> att'[a]]
  BY DEF Tick
<1>4. \A a \in Attempts : att'[a].age \in Nat /\ (att[a].age > Valid => att'[a].age > Valid)
  BY <1>2, Numbers
<1>5. TypeOK'
  BY <1>1, <1>2, <1>3 DEF TypeOK
<1>6. AttemptsInOrder'
  <2>1. \A a \in Attempts : Used(a)' <=> Used(a)
    BY <1>2 DEF Used
  <2>2. ASSUME NEW a \in Attempts, NEW b \in Attempts, Used(a), b < a
        PROVE  Used(b) /\ att'[b].age >= att'[a].age
    <3>1. Used(b) /\ att[b].age >= att[a].age
      BY <2>2, Parts DEF AttemptsInOrder
    <3> QED BY <1>2, <2>2, <3>1, Numbers
  <2> QED BY <1>2, <2>1, <2>2, Parts DEF AttemptsInOrder
<1>7. MarkerIsLast'
  BY <1>1, <1>2, Parts DEF MarkerIsLast, Of
<1>8. RecordsAgree'
  BY <1>1, Parts DEF RecordsAgree
<1>9. TabsAgree'
  BY <1>1, <1>2, Parts DEF TabsAgree, OnRail
<1>10. TabsFit'
  BY <1>1, <1>2, Parts DEF TabsFit, TabsAgree, Fits
<1>11. ProofsHold'
  BY <1>1, <1>2, <1>4, Parts DEF ProofsHold, TabsAgree, OnRail, Landed, Of
<1>12. StagesOfRail'
  BY <1>1, <1>2, Parts DEF StagesOfRail, Used, Rail
<1>13. SolanaSent'
  BY <1>1, <1>2, <1>4, Parts DEF SolanaSent, Used, Rail
<1>14. TempoMarker'
  BY <1>1, <1>2, Parts DEF TempoMarker, Used, Rail
<1>15. Eip3009Signed'
  <2>1. \A o \in Orders : rec[o].marker # None => rec[o].marker \in Attempts
    BY Parts
  <2> QED BY <1>1, <1>2, <1>4, <2>1, Parts DEF Eip3009Signed, Used, Rail
<1>16. EndedIsOver'
  BY <1>1, <1>2, <1>4, Parts DEF EndedIsOver, Of
<1>17. LiveOnesAreExcused'
  BY <1>1, Parts DEF LiveOnesAreExcused, Live, OverEnded
<1> QED
  BY <1>5, <1>6, <1>7, <1>8, <1>9, <1>10, <1>11, <1>12, <1>13, <1>14, <1>15, <1>16, <1>17 DEF IInv

LEMMA SaveSignedKeeps == ASSUME IInv, NEW t \in Tabs, SaveSigned(t) PROVE IInv'
<1> DEFINE o == tab[t].order
           a == tab[t].attempt
           r == [rec[o] EXCEPT !.evidence = "signed"]
           s == IF rail[o] = "solana" THEN "sent" ELSE "held"
           v == IF rail[o] = "solana" THEN Idle ELSE To(t, "held")
<1>1. /\ tab[t].at = "signed" /\ tab[t].at \in Own /\ UNCHANGED rail /\ TypeOK
  BY Parts DEF SaveSigned, At, Own
<1>2. CASE Becomes(a, "dead") /\ Goes(t, Idle)
  BY <1>1, <1>2, GiveUpKeeps
<1>3. CASE HoldsAttempt(o, a) /\ Becomes(a, s) /\ Commit(t, o, r, v)
  <2>1. /\ o \in Orders /\ a \in Attempts /\ rec[o] \in Record /\ rec[o].state = "paying"
        /\ rec[o].marker = a /\ rail[o] \in {"solana", "eip3009"} /\ Used(a)
        /\ att[a].order = o /\ Rail(a) = rail[o] /\ tab[t] \in Tab
    BY <1>1, <1>3, OwnAttempt, Parts DEF HoldsAttempt, TabsAgree, Rails
  <2>2. /\ r \in Record /\ r.evidence = "signed" /\ r.state = rec[o].state
        /\ r.marker = rec[o].marker /\ r.endedBy = rec[o].endedBy
        /\ r.confirmed = rec[o].confirmed
    BY <2>1 DEF Record
  <2>3. s \in {"sent", "held"} /\ s \in Stages /\ (s = "held" <=> rail[o] = "eip3009")
    BY <2>1 DEF Stages
  <2>4. /\ v \in Tab /\ v.at \in {"idle", "held"}
        /\ v.at = "held" => /\ rail[o] = "eip3009" /\ s = "held"
                            /\ v.order = o /\ v.attempt = a
    BY <2>1, IdleTab, ToTab DEF Phases
  <2> HIDE DEF r, s, v
  <2>5. att[a].stage = "signed"
    BY <1>1, Parts DEF TabsFit, Fits
  <2>6. \A u \in Tabs \ {t} : tab[u].at \in Own => tab[u].attempt # a
    BY <1>1, Parts DEF TabsAgree
  <2> HIDE DEF o, a
  <2>8. /\ rec' \in [Orders -> Record] /\ rec'[o] = r
        /\ \A p \in Orders \ {o} : rec'[p] = rec[p]
        /\ tab' \in [Tabs -> Tab] /\ tab'[t] = v /\ TabsTold({t}, o)
    BY <1>1, <1>3, <2>1, <2>2, <2>4, CommitEffect
  <2>9. /\ att' \in [Attempts -> Attempt]
        /\ att'[a].stage = s /\ att'[a].order = att[a].order
        /\ att'[a].payer = att[a].payer /\ att'[a].age = att[a].age
        /\ \A b \in Attempts \ {a} : att'[b] = att[b]
    BY <1>1, <1>3, <2>1, <2>3, BecomesEffect
  <2>10. \A b \in Attempts : /\ att'[b].order = att[b].order /\ att'[b].payer = att[b].payer
                             /\ att'[b].age = att[b].age
                             /\ (att'[b].stage # "unused") <=> Used(b)
    BY <2>1, <2>3, <2>9 DEF Used
  <2>11. \A p \in Orders : /\ rec'[p].marker = rec[p].marker /\ rec'[p].state = rec[p].state
                           /\ rec'[p].endedBy = rec[p].endedBy
                           /\ rec'[p].confirmed = rec[p].confirmed
                           /\ rec'[p].evidence = IF p = o THEN "signed" ELSE rec[p].evidence
    BY <2>2, <2>8
  <2>12. ASSUME NEW u \in Tabs, tab'[u].at # "idle"
         PROVE  \/ /\ u # t /\ tab'[u].at = tab[u].at /\ tab'[u].order = tab[u].order
                   /\ tab'[u].attempt = tab[u].attempt
                   /\ tab'[u].fresh => tab[u].fresh /\ (tab[u].order # o \/ tab[u].at \notin Proof)
                \/ /\ u = t /\ tab'[u].at = "held" /\ tab[u].at \in Own /\ tab'[u].order = o
                   /\ tab'[u].attempt = a /\ rail[o] = "eip3009" /\ s = "held"
    BY <1>1, <2>4, <2>8, <2>12 DEF TabsTold
  <2>a. TypeOK'
    BY <1>1, <2>8, <2>9 DEF TypeOK
  <2>b. AttemptsInOrder'
    BY <2>10, Parts DEF AttemptsInOrder, Used
  <2>c. MarkerIsLast'
    BY <2>10, <2>11, Parts DEF MarkerIsLast, Of
  <2>d. RecordsAgree'
    BY <1>1, <2>1, <2>11, Numbers, Parts DEF RecordsAgree
  <2>e. TabsAgree'
    <3> USE DEF Own, Proof
    <3>1. \A u \in Tabs : tab'[u].at # "idle" => tab'[u].order \in Orders
      BY <2>1, <2>12, Parts DEF TabsAgree
    <3>2. \A u \in Tabs : tab'[u].at \in Own \cup Proof =>
             tab'[u].attempt \in Attempts /\ att'[tab'[u].attempt].order = tab'[u].order
      BY <2>1, <2>10, <2>12, Parts DEF TabsAgree
    <3>3. \A u \in Tabs : tab'[u].at \in Own => u = t \/ tab'[u].attempt # a
      BY <2>6, <2>12
    <3>4. \A u, w \in Tabs :
            tab'[u].at \in Own /\ tab'[w].at \in Own /\ tab'[u].attempt = tab'[w].attempt => u = w
      BY <2>12, <3>3, Parts DEF TabsAgree
    <3>5. \A u \in Tabs :
            /\ tab'[u].at \in {"signed", "failed"} => ~OnRail(u, "tempo")'
            /\ tab'[u].at \in {"held", "handle", "sending"} => OnRail(u, "eip3009")'
      BY <1>1, <2>1, <2>12, Numbers, Parts DEF TabsAgree, OnRail
    <3>6. \A u \in Tabs :
            tab'[u].at = "marked" \/ (tab'[u].at = "asked" /\ OnRail(u, "tempo")') =>
               rec'[tab'[u].order].marker = tab'[u].attempt
      BY <1>1, <2>11, <2>12, <3>1, Parts DEF TabsAgree, OnRail
    <3>7. \A u \in Tabs : tab'[u].at = "marked" => OnRail(u, "tempo")'
      BY <1>1, <2>12, Parts DEF TabsAgree, OnRail
    <3> QED BY <3>1, <3>2, <3>4, <3>5, <3>6, <3>7 DEF TabsAgree
  <2>f. TabsFit'
    <3>1. ASSUME NEW u \in Tabs, tab'[u].at \in Own, u # t
          PROVE  Fits(tab[u], att[tab[u].attempt])'
      <4>1. /\ tab'[u].at = tab[u].at /\ tab'[u].order = tab[u].order
            /\ tab'[u].attempt = tab[u].attempt /\ tab[u].attempt # a
            /\ tab[u].attempt \in Attempts /\ Fits(tab[u], att[tab[u].attempt])
        BY <2>6, <2>12, <3>1, Parts DEF TabsFit, TabsAgree, Own
      <4> QED BY <1>1, <2>9, <4>1 DEF Fits
    <3>2. ASSUME tab'[t].at \in Own PROVE Fits(tab[t], att[tab[t].attempt])'
      BY <2>9, <2>12, <3>2 DEF Fits, Own
    <3> QED BY <3>1, <3>2 DEF TabsFit
  <2>g. ProofsHold'
    <3>1. ASSUME NEW u \in Tabs, tab'[u].at \in Proof, tab'[u].fresh
          PROVE  /\ tab'[u].at = tab[u].at /\ tab'[u].order = tab[u].order
                 /\ tab'[u].attempt = tab[u].attempt /\ tab[u].fresh
                 /\ tab[u].attempt \in Attempts /\ tab[u].order \in Orders
      BY <2>12, <3>1, Parts DEF TabsAgree, Proof
    <3>2. \A p \in Orders : Landed(p)' = Landed(p)
      BY <2>3, <2>5, <2>9, <2>10 DEF Landed, Of
    <3> QED BY <1>1, <2>10, <2>11, <3>1, <3>2, Parts DEF ProofsHold, OnRail, Landed, Of
  <2>h. StagesOfRail'
    BY <1>1, <2>1, <2>3, <2>9, <2>10, Parts DEF StagesOfRail, Used, Rail
  <2>i. SolanaSent'
    BY <1>1, <2>1, <2>3, <2>9, <2>10, <2>11, Parts DEF SolanaSent, Used, Rail
  <2>j. TempoMarker'
    BY <1>1, <2>1, <2>9, <2>10, <2>11, Parts DEF TempoMarker, Used, Rail
  <2>k. Eip3009Signed'
    <3>1. ASSUME NEW b \in Attempts, Used(b), Rail(b) = "eip3009",
                 att'[b].stage \in {"held", "sending", "sent", "landed"}
          PROVE  LET q == rec'[att[b].order]
                 IN  /\ q.marker # None /\ q.evidence = "signed"
                     /\ \/ att[b].payer = att[q.marker].payer
                        \/ att'[b].stage # "landed" /\ att[b].age > Valid
      <4>1. CASE b = a
        BY <2>1, <2>11, <4>1, Numbers
      <4>2. CASE b # a
        <5>1. att'[b] = att[b] /\ att[b].order \in Orders
          BY <2>9, <3>1, <4>2, Parts
        <5>2. LET q == rec[att[b].order]
              IN  /\ q.marker # None /\ q.evidence = "signed"
                  /\ \/ att[b].payer = att[q.marker].payer
                     \/ att[b].stage # "landed" /\ att[b].age > Valid
          BY <3>1, <5>1, Parts DEF Eip3009Signed
        <5> QED BY <2>11, <5>1, <5>2
      <4> QED BY <4>1, <4>2
    <3>2. \A b, c \in Attempts :
            /\ att'[b].stage = "landed" /\ att'[c].stage = "landed"
            /\ att[b].order = att[c].order /\ Rail(b) = "eip3009" /\ att[b].payer = att[c].payer
            => b = c
      BY <2>3, <2>9, Parts DEF Eip3009Signed
    <3>3. \A p \in Orders : rec[p].marker # None => rec[p].marker \in Attempts
      BY Parts
    <3>4. \A b \in Attempts : (Used(b)' <=> Used(b)) /\ Rail(b)' = Rail(b)
      BY <1>1, <2>10 DEF Used, Rail
    <3>5. \A b \in Attempts : Used(b) => att[b].order \in Orders
      BY Parts
    <3> QED BY <2>10, <2>11, <3>1, <3>2, <3>3, <3>4, <3>5 DEF Eip3009Signed
  <2>l. EndedIsOver'
    BY <1>1, <2>1, <2>9, <2>10, <2>11, Parts DEF EndedIsOver, Of
  <2>m. LiveOnesAreExcused'
    BY <1>1, <2>11, Parts DEF LiveOnesAreExcused, Live, OverEnded, holdsPayExclusion
  <2> QED BY <2>a, <2>b, <2>c, <2>d, <2>e, <2>f, <2>g, <2>h, <2>i, <2>j, <2>k, <2>l, <2>m DEF IInv
<1> QED BY <1>2, <1>3 DEF SaveSigned, judgeSave

-----------------------------------------------------------------------------
(***************************************************************************)
(* A new attempt, and the theorems.                                        *)
(***************************************************************************)
\* What a new attempt by account w finds of the older ones of order o.
Behind(o, w, e) ==
    \A b \in Of(o) :
        /\ rail[o] = "tempo" => att[b].stage = "dead"
        /\ rail[o] = "solana" /\ att[b].stage \in {"sent", "landed"} =>
              att[b].stage = "sent" /\ att[b].age > Valid
        /\ rail[o] = "eip3009" /\ att[b].stage \in {"held", "sending", "sent", "landed"} =>
              /\ e = "signed"
              /\ att[b].payer = w \/ (att[b].stage # "landed" /\ att[b].age > Valid)

LEMMA NewAttemptKeeps ==
    ASSUME IInv, NEW t \in Tabs, NEW o \in Orders, NEW a \in Attempts,
           NEW w \in Wallets \cup {None}, NEW e \in {"none", "signed"}, NEW v \in Tab,
           MayAsk(o), Behind(o, w, e), rec[o].endedBy = "none",
           rail[o] = "tempo" => rec[o].marker = None /\ e = "none",
           v.at = IF rail[o] = "tempo" THEN "marked" ELSE "asked",
           v.order = o, v.attempt = a, UNCHANGED rail,
           NewAttempt(a, o, w, v.at), Commit(t, o, Marked(rec[o], a, e), v)
    PROVE  IInv'
<1> DEFINE r == Marked(rec[o], a, e)
<1>1. TypeOK /\ rec[o] \in Record /\ v.at \in Stages /\ v.at \in Own /\ rail[o] \in Rails
  BY Parts DEF Stages, Own
<1>2. /\ r \in Record /\ r.evidence = e /\ r.state = "paying" /\ r.marker = a
      /\ r.endedBy = "none" /\ r.confirmed = rec[o].confirmed
  BY <1>1 DEF Record, States, Marked
<1> HIDE DEF r
<1>3. /\ rec' \in [Orders -> Record] /\ rec'[o] = r
      /\ \A p \in Orders \ {o} : rec'[p] = rec[p]
      /\ tab' \in [Tabs -> Tab] /\ tab'[t] = v /\ TabsTold({t}, o)
  BY <1>1, <1>2, CommitEffect DEF r
<1>4. /\ att' \in [Attempts -> Attempt]
      /\ att'[a] = [order |-> o, payer |-> w, stage |-> v.at, age |-> 0]
      /\ \A b \in Attempts \ {a} : att'[b] = att[b]
      /\ ~Used(a) /\ \A b \in Attempts : b < a => Used(b)
  BY <1>1, NewAttemptEffect
<1>5. /\ att'[a].order = o /\ att'[a].payer = w /\ att'[a].stage = v.at /\ att'[a].age = 0
      /\ v.at \in {"marked", "asked"} /\ (v.at = "marked" <=> rail[o] = "tempo")
  BY <1>4
<1>6. att[a].order = None /\ \A b \in Attempts : Used(b) => b < a
  BY <1>4, Numbers, Parts DEF AttemptsInOrder
<1>7. \A b \in Attempts : b # a => /\ att'[b] = att[b] /\ (Used(b)' <=> Used(b))
                                   /\ (Used(b) => att[b].order \in Orders)
  BY <1>4, Parts DEF Used
<1>8. Used(a)' /\ Rail(a)' = rail[o]
  BY <1>5 DEF Used, Rail
<1>9. \A p \in Orders \ {o} : rec'[p] = rec[p] /\ rec[p].marker # a
  BY <1>3, <1>6, Numbers, Parts DEF MarkerIsLast
<1>10. \A u \in Tabs : tab[u].at \in Own \cup Proof => tab[u].attempt # a
  BY <1>6, Numbers, Parts DEF TabsAgree, Own, Proof
<1>11. ASSUME NEW u \in Tabs, tab'[u].at # "idle"
       PROVE  \/ /\ u # t /\ tab'[u].at = tab[u].at /\ tab'[u].order = tab[u].order
                 /\ tab'[u].attempt = tab[u].attempt
                 /\ tab'[u].fresh => tab[u].fresh /\ (tab[u].order # o \/ tab[u].at \notin Proof)
              \/ u = t /\ tab'[u] = v
  BY <1>3, <1>11 DEF TabsTold
<1>a. TypeOK'
  BY <1>1, <1>3, <1>4 DEF TypeOK
<1>b. AttemptsInOrder'
  <2>1. \A b \in Attempts : Used(b)' <=> att'[b].order # None
    BY <1>5, <1>7, <1>8, Numbers, Parts DEF AttemptsInOrder
  <2>2. ASSUME NEW b \in Attempts, NEW c \in Attempts, Used(b)', c < b
        PROVE  Used(c)' /\ att'[c].age >= att'[b].age
    <3>1. CASE b = a
      BY <1>4, <1>5, <1>7, <2>2, <3>1, Numbers, Parts
    <3>2. CASE b # a
      <4>1. Used(b) /\ Used(c) /\ att[c].age >= att[b].age
        BY <1>7, <2>2, <3>2, Parts DEF AttemptsInOrder
      <4> QED BY <1>4, <1>7, <3>2, <4>1
    <3> QED BY <3>1, <3>2
  <2> QED BY <2>1, <2>2 DEF AttemptsInOrder
<1>c. MarkerIsLast'
  <2>1. \A b \in Attempts : b <= a \/ ~Used(b)
    BY <1>6, Numbers
  <2>2. \A b \in Of(o)' : b <= a
    BY <1>7, <2>1, Numbers, Parts DEF Of, AttemptsInOrder
  <2>3. \A p \in Orders \ {o} : Of(p)' = Of(p)
    <3>1. \A b \in Attempts : b # a => att'[b].order = att[b].order
      BY <1>7
    <3>2. att'[a].order = o /\ att[a].order = None
      BY <1>5, <1>6
    <3> QED BY <3>1, <3>2, Numbers DEF Of
  <2>4. ASSUME NEW p \in Orders \ {o}, rec'[p].marker # None
        PROVE  att'[rec[p].marker].order = p /\ \A b \in Of(p)' : b <= rec[p].marker
    BY <1>7, <1>9, <2>3, <2>4, Parts DEF MarkerIsLast
  <2> QED BY <1>2, <1>3, <1>5, <1>9, <2>2, <2>4 DEF MarkerIsLast
<1>d. RecordsAgree'
  BY <1>1, <1>2, <1>3, Numbers, Parts DEF RecordsAgree
<1>e. TabsAgree'
  <2> USE DEF Own, Proof
  <2>1. \A u \in Tabs : tab'[u].at # "idle" => tab'[u].order \in Orders
    BY <1>11, Parts DEF TabsAgree
  <2>2. ASSUME NEW u \in Tabs, tab'[u].at \in Own \cup Proof
        PROVE  /\ tab'[u].attempt \in Attempts /\ att'[tab'[u].attempt].order = tab'[u].order
               /\ u # t => tab'[u].attempt # a /\ tab'[u].attempt = tab[u].attempt
                           /\ tab'[u].order = tab[u].order /\ tab'[u].at = tab[u].at
    BY <1>5, <1>7, <1>10, <1>11, <2>2, Parts DEF TabsAgree
  <2>3. tab'[t].attempt = a
    BY <1>3
  <2>4. \A u, x \in Tabs :
          tab'[u].at \in Own /\ tab'[x].at \in Own /\ tab'[u].attempt = tab'[x].attempt => u = x
    BY <2>2, <2>3, Parts DEF TabsAgree
  <2>5. \A u \in Tabs :
          /\ tab'[u].at \in {"signed", "failed"} => ~OnRail(u, "tempo")'
          /\ tab'[u].at \in {"held", "handle", "sending"} => OnRail(u, "eip3009")'
          /\ tab'[u].at = "marked" => OnRail(u, "tempo")'
    BY <1>5, <1>11, Numbers, Parts DEF TabsAgree, OnRail
  <2>6. ASSUME NEW u \in Tabs,
               tab'[u].at = "marked" \/ (tab'[u].at = "asked" /\ OnRail(u, "tempo")')
        PROVE  rec'[tab'[u].order].marker = tab'[u].attempt
    <3>1. CASE u = t
      BY <1>2, <1>3, <3>1
    <3>2. CASE u # t
      <4>1. /\ rec[tab[u].order].marker = tab[u].attempt /\ tab[u].attempt \in Attempts
            /\ tab[u].order \in Orders /\ rail[tab[u].order] = "tempo"
            /\ tab'[u].order = tab[u].order /\ tab'[u].attempt = tab[u].attempt
        BY <1>11, <2>6, <3>2, Parts DEF TabsAgree, OnRail
      <4> QED BY <1>3, <4>1, Numbers
    <3> QED BY <3>1, <3>2
  <2> QED BY <2>1, <2>2, <2>4, <2>5, <2>6 DEF TabsAgree
<1>f. TabsFit'
  <2>1. ASSUME NEW u \in Tabs, tab'[u].at \in Own, u # t
        PROVE  Fits(tab[u], att[tab[u].attempt])'
    <3>1. /\ tab'[u].at = tab[u].at /\ tab'[u].order = tab[u].order
          /\ tab'[u].attempt = tab[u].attempt /\ tab[u].attempt # a
          /\ tab[u].attempt \in Attempts /\ Fits(tab[u], att[tab[u].attempt])
      BY <1>10, <1>11, <2>1, Parts DEF TabsFit, TabsAgree, Own
    <3> QED BY <1>7, <3>1 DEF Fits
  <2>2. Fits(tab[t], att[tab[t].attempt])'
    BY <1>3, <1>5 DEF Fits
  <2> QED BY <2>1, <2>2 DEF TabsFit
<1>g. ProofsHold'
  <2>1. ASSUME NEW u \in Tabs, tab'[u].at \in Proof, tab'[u].fresh
        PROVE  /\ tab'[u].at = tab[u].at /\ tab'[u].order = tab[u].order
               /\ tab'[u].attempt = tab[u].attempt /\ tab[u].fresh
               /\ tab[u].attempt \in Attempts /\ tab[u].order \in Orders
               /\ tab[u].order # o /\ tab[u].attempt # a
    BY <1>1, <1>10, <1>11, <2>1, Parts DEF TabsAgree, Proof, Own
  <2>2. \A p \in Orders \ {o} : Landed(p)' = Landed(p)
    BY <1>5, <1>6, <1>7, Numbers DEF Landed, Of
  <2> QED BY <1>7, <1>9, <2>1, <2>2, Parts DEF ProofsHold, OnRail, Landed, Of
<1>h. StagesOfRail'
  <2>1. ASSUME NEW b \in Attempts, b # a, Used(b) PROVE Rail(b)' = Rail(b)
    BY <1>7, <2>1 DEF Rail
  <2> QED BY <1>5, <1>7, <1>8, <2>1, Parts DEF StagesOfRail
<1>i. SolanaSent'
  <2>1. ASSUME NEW b \in Attempts, b # a, Used(b), Rail(b) = "solana",
               att[b].stage \in {"sent", "landed"}
        PROVE  IF rec'[att[b].order].marker = b THEN rec'[att[b].order].evidence = "signed"
               ELSE att[b].stage = "sent" /\ att[b].age > Valid
    BY <1>2, <1>3, <1>7, <2>1, Parts DEF SolanaSent, Behind, Of, Rail
  <2> QED BY <1>5, <1>7, <2>1 DEF SolanaSent, Used, Rail
<1>j. TempoMarker'
  <2>1. ASSUME NEW b \in Attempts, b # a, Used(b), Rail(b) = "tempo",
               rec'[att[b].order].marker # b
        PROVE  att[b].stage = "dead"
    BY <1>3, <1>7, <2>1, Parts DEF TempoMarker, Behind, Of, Rail
  <2> QED BY <1>2, <1>3, <1>5, <1>7, <2>1 DEF TempoMarker, Used, Rail
<1>k. Eip3009Signed'
  <2>1. ASSUME NEW b \in Attempts, b # a, Used(b), Rail(b) = "eip3009",
               att[b].stage \in {"held", "sending", "sent", "landed"}
        PROVE  LET q == rec'[att[b].order]
               IN  /\ q.marker # None /\ q.evidence = "signed"
                   /\ \/ att[b].payer = att'[q.marker].payer
                      \/ att[b].stage # "landed" /\ att[b].age > Valid
    <3>1. CASE att[b].order = o
      BY <1>2, <1>3, <1>5, <2>1, <3>1, Numbers DEF Behind, Of, Rail
    <3>2. CASE att[b].order # o
      <4>1. LET q == rec[att[b].order]
            IN  /\ q.marker # None /\ q.evidence = "signed"
                /\ \/ att[b].payer = att[q.marker].payer
                   \/ att[b].stage # "landed" /\ att[b].age > Valid
        BY <2>1, Parts DEF Eip3009Signed
      <4>2. /\ att[b].order \in Orders \ {o}
            /\ rec[att[b].order].marker # None => rec[att[b].order].marker \in Attempts \ {a}
        BY <1>7, <1>9, <2>1, <3>2, Parts
      <4> QED BY <1>7, <1>9, <4>1, <4>2
    <3> QED BY <3>1, <3>2
  <2>2. \A b, c \in Attempts :
          /\ att'[b].stage = "landed" /\ att'[c].stage = "landed"
          /\ att'[b].order = att'[c].order /\ Rail(b)' = "eip3009" /\ att'[b].payer = att'[c].payer
          => b = c
    <3>1. att'[a].stage # "landed"
      BY <1>5
    <3>2. \A b \in Attempts : b # a => Rail(b)' = Rail(b)
      BY <1>7 DEF Rail
    <3> QED BY <1>7, <3>1, <3>2, Parts DEF Eip3009Signed
  <2>3. att'[a].stage \notin {"held", "sending", "sent", "landed"}
    BY <1>5
  <2>4. \A b \in Attempts : b # a => Rail(b)' = Rail(b)
    BY <1>7 DEF Rail
  <2> QED BY <1>7, <2>1, <2>2, <2>3, <2>4 DEF Eip3009Signed
<1>l. EndedIsOver'
  <2>1. \A p \in Orders \ {o} : Of(p)' = Of(p) /\ a \notin Of(p)
    BY <1>5, <1>6, <1>7, Numbers DEF Of
  <2>2. \A p \in Orders \ {o} : \A b \in Of(p) : att'[b] = att[b]
    BY <1>7, <2>1 DEF Of
  <2> QED BY <1>2, <1>3, <2>1, <2>2, Parts DEF EndedIsOver
<1>m. LiveOnesAreExcused'
  <2>1. ASSUME NEW p \in Orders \ {o}, Live(p)
        PROVE  rec[p].endedBy = "over" /\ p \in rec[o].confirmed
    <3>1. ~holdsPayExclusion(rec[p])
      BY DEF MayAsk, exclusionHolder
    <3>2. rec[p].state = "ended" /\ rec[p].endedBy = "over" /\ rail[p] = "tempo"
      BY <2>1, <3>1, Parts DEF Live, OverEnded, RecordsAgree
    <3> QED BY <3>2 DEF MayAsk, unconfirmedOver
  <2>2. \A p \in Orders \ {o} : Live(p)' <=> Live(p)
    BY <1>3 DEF Live, OverEnded
  <2> QED BY <1>2, <1>3, <2>1, <2>2, Parts DEF LiveOnesAreExcused
<1> QED BY <1>a, <1>b, <1>c, <1>d, <1>e, <1>f, <1>g, <1>h, <1>i, <1>j, <1>k, <1>l, <1>m DEF IInv

LEMMA SetMarkerKeeps == ASSUME IInv, NEW t \in Tabs, SetMarker(t) PROVE IInv'
<1> DEFINE o == tab[t].order
           next == IF rail[o] = "tempo" THEN "marked" ELSE "asked"
           v(a) == [To(t, next) EXCEPT !.attempt = a]
<1>1. PICK a \in Attempts, w \in Payers(o) :
         NewAttempt(a, o, w, next) /\ Commit(t, o, Marked(rec[o], a, "none"), v(a))
  BY DEF SetMarker
<1>2. /\ tab[t] \in Tab /\ o \in Orders /\ rec[o].state = "ordered" /\ rec[o].marker = None
      /\ MayAsk(o) /\ UNCHANGED rail /\ w \in Wallets \cup {None}
  BY Parts DEF SetMarker, At, TabsAgree, judgeSetMarker, Payers
<1>3. v(a) \in Tab /\ v(a).at = next /\ v(a).order = o /\ v(a).attempt = a
  BY <1>2 DEF To, Tab, Phases
<1>4. rec[o].endedBy = "none" /\ rec[o].evidence = "none"
  BY <1>2, Parts DEF RecordsAgree
<1> HIDE DEF o, v
<1>5. ASSUME NEW b \in Of(o) PROVE Used(b) /\ Rail(b) = rail[o] /\ att[b].order = o /\ b \in Attempts
  BY <1>2, <1>5, Numbers, Parts DEF Of, Rail, AttemptsInOrder
<1>6. Behind(o, w, "none")
  <2>1. ASSUME NEW b \in Of(o), rail[o] = "tempo" PROVE att[b].stage = "dead"
    BY <1>2, <1>5, <2>1, Numbers, Parts DEF TempoMarker
  <2>2. ASSUME NEW b \in Of(o), rail[o] = "solana", att[b].stage \in {"sent", "landed"}
        PROVE  att[b].stage = "sent" /\ att[b].age > Valid
      <3>1. SolanaSent /\ b # None
        BY <1>5, Numbers, Parts
      <3> QED BY <1>2, <1>5, <2>2, <3>1 DEF SolanaSent
  <2>3. ASSUME NEW b \in Of(o), rail[o] = "eip3009",
               att[b].stage \in {"held", "sending", "sent", "landed"}
        PROVE  FALSE
    BY <1>2, <1>5, <2>3, Numbers, Parts DEF Eip3009Signed
  <2> QED BY <2>1, <2>2, <2>3 DEF Behind
<1>7. NewAttempt(a, o, w, v(a).at)
  BY <1>1, <1>3
<1> QED BY <1>1, <1>2, <1>3, <1>4, <1>6, <1>7, NewAttemptKeeps

LEMMA ReplaceKeeps ==
    ASSUME IInv, NEW t \in Tabs, NEW o \in Orders, NEW w \in Wallets \cup {None},
           Replace(t, o, w), MayAsk(o), rail[o] # "tempo", rec[o].state = "paying",
           Behind(o, w, IF rail[o] = "solana" THEN "none" ELSE "signed"), UNCHANGED rail
    PROVE  IInv'
<1> DEFINE e == IF rail[o] = "solana" THEN "none" ELSE "signed"
           v(a) == [at |-> "asked", order |-> o, attempt |-> a, again |-> rail[o] = "eip3009",
                    fresh |-> TRUE]
<1>1. PICK a \in Attempts : NewAttempt(a, o, w, "asked") /\ Commit(t, o, Marked(rec[o], a, e), v(a))
  BY DEF Replace
<1>2. /\ v(a) \in Tab /\ v(a).at = "asked" /\ v(a).order = o /\ v(a).attempt = a
      /\ e \in {"none", "signed"}
  BY DEF Tab, Phases
<1>3. rec[o].endedBy = "none" /\ Behind(o, w, e)
  BY Parts DEF RecordsAgree
<1>4. NewAttempt(a, o, w, v(a).at) /\ v(a).at = IF rail[o] = "tempo" THEN "marked" ELSE "asked"
  BY <1>1, <1>2
<1> HIDE DEF e, v
<1> QED BY <1>1, <1>2, <1>3, <1>4, NewAttemptKeeps

\* A proof in hand: no attempt of the order landed, and none can.
LEMMA ProvedOver ==
    ASSUME IInv, NEW t \in Tabs, MayRetryOver(t), ~OnRail(t, "tempo")
    PROVE  LET o == tab[t].order
           IN  /\ o \in Orders /\ rec[o].state = "paying" /\ MayAsk(o) /\ rail[o] # "tempo"
               /\ rail[o] = "eip3009" => rec[o].evidence = "signed"
               /\ \A b \in Of(o) : att[b].stage # "landed" /\ att[b].age > Valid
<1> DEFINE o == tab[t].order
<1>1. /\ tab[t].at = "over" /\ tab[t].fresh /\ MayAsk(o)
      /\ rail[o] = "eip3009" => rec[o].evidence = "signed"
  BY DEF MayRetryOver, judgeRetry, At
<1>2. /\ o \in Orders /\ rec[o].state = "paying"
      /\ rec[o].marker \in Attempts /\ att[rec[o].marker].age > Valid
      /\ Landed(o) = {} /\ rail[o] # "tempo"
  BY <1>1, Numbers, Parts DEF ProofsHold, TabsAgree, OnRail, Proof
<1> HIDE DEF o
<1>3. \A b \in Of(o) : att[b].age > Valid
  BY <1>2, Aged
<1>4. \A b \in Of(o) : att[b].stage # "landed"
  BY <1>2 DEF Landed
<1> QED BY <1>1, <1>2, <1>3, <1>4 DEF o

LEMMA RetrySolanaKeeps == ASSUME IInv, NEW t \in Tabs, retryWithSolana(t) PROVE IInv'
<1> DEFINE o == tab[t].order
<1>1. /\ rail[o] = "solana" /\ MayRetryOver(t) /\ ~OnRail(t, "tempo") /\ Replace(t, o, None)
      /\ UNCHANGED rail
  BY DEF retryWithSolana, OnRail
<1>2. /\ o \in Orders /\ rec[o].state = "paying" /\ MayAsk(o)
      /\ \A b \in Of(o) : att[b].stage # "landed" /\ att[b].age > Valid
  BY <1>1, ProvedOver
<1> HIDE DEF o
<1>3. Behind(o, None, "none")
  BY <1>1, <1>2 DEF Behind
<1> QED BY <1>1, <1>2, <1>3, ReplaceKeeps

LEMMA SwitchWalletKeeps == ASSUME IInv, NEW t \in Tabs, switchWalletWithEip3009(t) PROVE IInv'
<1> DEFINE o == tab[t].order
<1>1. /\ rail[o] = "eip3009" /\ MayRetryOver(t) /\ ~OnRail(t, "tempo") /\ UNCHANGED rail
  BY DEF switchWalletWithEip3009, OnRail
<1>2. PICK w \in Wallets : Replace(t, o, w)
  BY DEF switchWalletWithEip3009
<1>3. /\ o \in Orders /\ rec[o].state = "paying" /\ MayAsk(o)
      /\ \A b \in Of(o) : att[b].stage # "landed" /\ att[b].age > Valid
  BY <1>1, ProvedOver
<1> HIDE DEF o
<1>4. Behind(o, w, "signed")
  BY <1>1, <1>3 DEF Behind
<1> QED BY <1>1, <1>2, <1>3, <1>4, ReplaceKeeps

LEMMA RetryEip3009Keeps ==
    ASSUME IInv, NEW t \in Tabs, NEW o \in Orders, retryWithEip3009(t, o)
    PROVE  IInv'
<1> DEFINE w == att[rec[o].marker].payer
<1>1. /\ rail[o] = "eip3009" /\ rec[o].state = "paying" /\ rec[o].evidence = "signed"
      /\ MayAsk(o) /\ Replace(t, o, w) /\ UNCHANGED rail
  BY DEF retryWithEip3009, judgeRetry, HoldsAttempt
<1>2. rec[o].marker \in Attempts /\ w \in Wallets \cup {None}
  BY <1>1, Parts, AttemptFields DEF RecordsAgree
<1>3. Behind(o, w, "signed")
  <2>1. ASSUME NEW b \in Of(o) PROVE b \in Attempts /\ att[b].order = o /\ Used(b) /\ Rail(b) = "eip3009"
    BY <1>1, Numbers, Parts DEF Of, Rail, AttemptsInOrder
  <2> QED BY <1>1, <2>1, Parts DEF Behind, Eip3009Signed
<1> HIDE DEF w
<1> QED BY <1>1, <1>2, <1>3, ReplaceKeeps

LEMMA InitHolds == ASSUME Init PROVE IInv
<1>1. /\ rail \in [Orders -> Rails]
      /\ rec = [o \in Orders |-> NoRecord] /\ att = [a \in Attempts |-> Unused]
      /\ tab = [t \in Tabs |-> Idle]
  BY FlowAssumption DEF Init
<1>2. NoRecord \in Record /\ Unused \in Attempt /\ Idle \in Tab
  BY IdleTab, Numbers
  DEF Record, States, Statuses, NoRecord, Attempt, Stages, Unused
<1>3. TypeOK
  BY <1>1, <1>2 DEF TypeOK
<1>4. /\ \A o \in Orders : rec[o].state = "none" /\ rec[o].marker = None
                           /\ rec[o].evidence = "none" /\ rec[o].endedBy = "none"
      /\ \A a \in Attempts : att[a].order = None /\ att[a].stage = "unused" /\ ~Used(a)
      /\ \A t \in Tabs : tab[t].at = "idle"
  BY <1>1 DEF NoRecord, Unused, Idle, Used
<1>5. AttemptsInOrder /\ MarkerIsLast /\ RecordsAgree /\ TabsAgree /\ TabsFit /\ ProofsHold
  BY <1>4 DEF AttemptsInOrder, MarkerIsLast, RecordsAgree, TabsAgree, TabsFit, ProofsHold, Own, Proof
<1>6. StagesOfRail /\ SolanaSent /\ TempoMarker /\ Eip3009Signed /\ EndedIsOver
  BY <1>4 DEF StagesOfRail, SolanaSent, TempoMarker, Eip3009Signed, EndedIsOver
<1>7. LiveOnesAreExcused
  BY <1>4 DEF LiveOnesAreExcused, Live, OverEnded, holdsPayExclusion
<1> QED BY <1>3, <1>5, <1>6, <1>7 DEF IInv

LEMMA NextKeeps == ASSUME IInv, [Next]_vars PROVE IInv'
<1>1. CASE Tick
  BY <1>1, TickKeeps
<1>2. ASSUME NEW o \in Orders, OrderStep(o) PROVE IInv'
  BY <1>2, PlaceOrderKeeps, AcknowledgeKeeps, RecordPaidKeeps, RecordBlockedKeeps,
     FollowBundleKeeps, EndNothingKeeps, ApplyStatusKeeps, ConfirmOverKeeps
  DEF OrderStep
<1>3. ASSUME NEW t \in Tabs, TabStep(t) PROVE IInv'
  BY <1>3, SetMarkerKeeps, AskTempoKeeps, ClearNotRequestedKeeps, ApproveKeeps, DeclineKeeps,
     WalletFailsKeeps, SignAgainKeeps, SaveSignedKeeps, HoldBackKeeps, SendKeeps, DeclineSendKeeps,
     SaveHashKeeps, LookKeeps, EndOverKeeps, RetrySolanaKeeps, SwitchWalletKeeps, LeaveKeeps,
     StartPayKeeps, StartLookKeeps, RetryEip3009Keeps, ClearUnsignedKeeps
  DEF TabStep
<1>4. ASSUME NEW a \in Attempts, ChainStep(a) PROVE IInv'
  BY <1>4, LandKeeps, GuardedKeeps, ApproveSendKeeps DEF ChainStep
<1>5. CASE UNCHANGED vars
  BY <1>5 DEF vars, IInv, TypeOK, AttemptsInOrder, MarkerIsLast, RecordsAgree, TabsAgree, TabsFit,
     Fits, ProofsHold, StagesOfRail, SolanaSent, TempoMarker, Eip3009Signed, EndedIsOver,
     LiveOnesAreExcused, Live, OverEnded, OnRail, Landed, Of, Used, Rail
<1> QED BY <1>1, <1>2, <1>3, <1>4, <1>5 DEF Next

\* What is true of the records, the attempts and the tabs after any steps of the
\* flows of order-flow.ts over the records of order-store.ts.
THEOREM InductiveInvariant == Spec => []IInv
  BY InitHolds, NextKeeps, PTL DEF Spec

\* Every record, attempt and flow keeps its type, whatever the flows write.
THEOREM TypeCorrect == Spec => []TypeOK
<1>1. IInv => TypeOK
  BY DEF IInv
<1> QED BY <1>1, InductiveInvariant, PTL

-----------------------------------------------------------------------------
(***************************************************************************)
(* What the invariant says of the buyer's money.                           *)
(***************************************************************************)
LEMMA OfOrder ==
    ASSUME IInv, NEW o \in Orders, NEW a \in Of(o)
    PROVE  a \in Attempts /\ Used(a) /\ att[a].order = o /\ Rail(a) = rail[o] /\ rail[o] \in Rails
  BY Numbers, Parts DEF Of, Rail, AttemptsInOrder

LEMMA PaidAtMostOnce == ASSUME IInv PROVE PaidOncePerOrder
<1>1. ASSUME NEW o \in Orders, NEW a \in Landed(o), NEW b \in Landed(o) PROVE a = b
  <2>1. ASSUME NEW c \in Landed(o)
        PROVE  /\ c \in Attempts /\ Used(c) /\ att[c].order = o /\ Rail(c) = rail[o]
               /\ rail[o] \in Rails /\ att[c].stage = "landed"
    BY OfOrder DEF Landed
  <2>2. CASE rail[o] = "solana"
    BY <2>1, <2>2, Parts DEF SolanaSent
  <2>3. CASE rail[o] = "tempo"
    BY <2>1, <2>3, Parts DEF TempoMarker
  <2>4. CASE rail[o] = "eip3009"
    <3>1. att[a].payer = att[b].payer
      BY <2>1, <2>4, Parts DEF Eip3009Signed
    <3> QED BY <2>1, <2>4, <3>1, Parts DEF Eip3009Signed
  <2> QED BY <2>1, <2>2, <2>3, <2>4 DEF Rails
<1> QED BY <1>1 DEF PaidOncePerOrder

LEMMA AbleIsOnRecord ==
    ASSUME IInv, NEW a \in Attempts, Able(a)
    PROVE  LET r == rec[att[a].order]
           IN  /\ att[a].order \in Orders /\ r.marker # None
               /\ rail[att[a].order] # "tempo" =>
                     r.evidence = "signed" /\ att[r.marker].payer = att[a].payer
               /\ rail[att[a].order] # "eip3009" => r.marker = a
<1> DEFINE o == att[a].order
<1>1. /\ Used(a) /\ o \in Orders /\ rail[o] \in Rails /\ Rail(a) = rail[o]
      /\ \/ att[a].stage \in {"sent", "sending"}
         \/ att[a].stage = "asked" /\ rail[o] = "tempo"
      /\ rail[o] = "tempo" \/ att[a].age <= Valid
  BY Parts DEF Able, Lasts, Used, Rail
<1>a. att[a].age \in Nat /\ Valid \in Nat
  BY Numbers, Parts
<1>2. CASE rail[o] = "solana"
  <2>1. att[a].stage = "sent"
    BY <1>1, <1>2, Parts DEF StagesOfRail
  <2>2. rec[o].marker = a /\ rec[o].evidence = "signed"
    BY <1>1, <1>2, <1>a, <2>1, Parts DEF SolanaSent
  <2> QED BY <1>1, <1>2, <2>2, Numbers
<1>3. CASE rail[o] = "tempo"
  <2>1. rec[o].marker = a
    BY <1>1, <1>3, Parts DEF TempoMarker
  <2> QED BY <1>1, <1>3, <2>1, Numbers
<1>4. CASE rail[o] = "eip3009"
  <2>1. LET r == rec[o]
        IN  /\ r.marker # None /\ r.evidence = "signed"
            /\ \/ att[a].payer = att[r.marker].payer
               \/ att[a].stage # "landed" /\ att[a].age > Valid
    BY <1>1, <1>4, Parts DEF Eip3009Signed
  <2> QED BY <1>1, <1>4, <1>a, <2>1
<1> QED BY <1>1, <1>2, <1>3, <1>4 DEF Rails

\* An order that spends money holds the product, or is known to the store.
LEMMA SpendingHolds ==
    ASSUME IInv, NEW o \in Orders, Spends(o)
    PROVE  Live(o) \/ rec[o].state \in Terminal
<1>1. PICK a \in Of(o) : Able(a) \/ att[a].stage = "landed"
  BY DEF Spends
<1>2. a \in Attempts /\ Used(a) /\ att[a].order = o /\ Rail(a) = rail[o] /\ rail[o] \in Rails
  BY OfOrder
<1>3. rec[o].marker # None
  <2>1. CASE Able(a)
    BY <1>2, <2>1, AbleIsOnRecord
  <2>2. CASE att[a].stage = "landed"
    BY <1>2, <2>2, Numbers, Parts DEF SolanaSent, TempoMarker, Eip3009Signed, Rails
  <2> QED BY <1>1, <2>1, <2>2
<1>4. rec[o].state \in States \ {"none", "created", "ordered"}
  BY <1>3, RecordFields, Parts DEF RecordsAgree
<1>5. ASSUME rec[o].state = "ended", rec[o].endedBy # "over" PROVE FALSE
  <2>1. /\ rail[o] = "tempo" => att[a].stage = "dead"
        /\ rail[o] # "tempo" => /\ att[a].stage # "landed"
                                /\ att[a].stage \in {"held", "sending", "sent"} => att[a].age > Valid
    BY <1>5, Parts DEF EndedIsOver
  <2>2. att[a].age \in Nat /\ Valid \in Nat
    BY <1>2, Numbers, Parts
  <2> QED BY <1>1, <1>2, <2>1, <2>2 DEF Able, Lasts
<1>6. ASSUME rec[o].state = "blocked" PROVE FALSE
  BY <1>1, <1>6, Parts DEF EndedIsOver, Able
<1>7. CASE rec[o].state \in {"paying", "paid"}
  BY <1>3, <1>7 DEF Live, holdsPayExclusion, Terminal
<1>8. CASE rec[o].state = "ended"
  BY <1>5, <1>8 DEF Live, OverEnded
<1> QED BY <1>4, <1>6, <1>7, <1>8 DEF States, Terminal

LEMMA FreedSpendsNothing == ASSUME IInv PROVE FreedIsUnpaid
<1>1. ASSUME NEW o \in Orders, rec[o].state \in {"ordered", "ended"}, rec[o].endedBy # "over",
             Spends(o)
      PROVE  FALSE
  <2>1. Live(o)
    BY <1>1, SpendingHolds DEF Terminal
  <2> QED BY <1>1, <2>1, Parts DEF Live, OverEnded, holdsPayExclusion, RecordsAgree
<1> QED BY <1>1 DEF FreedIsUnpaid

LEMMA OthersAreExcused == ASSUME IInv PROVE OnlyOnePays
<1>1. ASSUME NEW o \in Orders, NEW p \in Orders, o # p, Spends(o), Spends(p)
      PROVE  Excused(o, p) \/ Excused(p, o)
  BY <1>1, SpendingHolds, Parts DEF LiveOnesAreExcused, Excused
<1> QED BY <1>1 DEF OnlyOnePays

\* An order is paid once, over retries, declined prompts, other accounts, late
\* answers and closed tabs: the proof of endSolanaOrder and endEip3009Order, the
\* nonce of an account and the attempt id of judgeUpdateMarker together.
THEOREM PaidOnce == Spec => []PaidOncePerOrder
<1>1. IInv => PaidOncePerOrder
  BY PaidAtMostOnce
<1> QED BY <1>1, InductiveInvariant, PTL

\* What can still land is on record, so that a reload finds it (markerEvidence,
\* which judgeClearMarker asks before it frees an order).
THEOREM InFlightFound == Spec => []InFlightIsOnRecord
<1>1. IInv => InFlightIsOnRecord
  BY AbleIsOnRecord DEF InFlightIsOnRecord
<1> QED BY <1>1, InductiveInvariant, PTL

\* An order that gave the product back moved no money, and cannot (judgeClearMarker,
\* clearUnsignedEip3009, endNothingRequested).
THEOREM FreedForGood == Spec => []FreedIsUnpaid
<1>1. IInv => FreedIsUnpaid
  BY FreedSpendsNothing
<1> QED BY <1>1, InductiveInvariant, PTL

\* One order of a product pays, unless the buyer was warned or the store answered
\* (judgeSetMarker and the retries of judgeUpdateMarker, exclusionHolder,
\* unconfirmedOver).
THEOREM OneOrderPays == Spec => []OnlyOnePays
<1>1. IInv => OnlyOnePays
  BY OthersAreExcused
<1> QED BY <1>1, InductiveInvariant, PTL

-----------------------------------------------------------------------------
(***************************************************************************)
(* An attempt that landed stays as it is: the refinement of Settlement.    *)
(***************************************************************************)
Keeps(a) == att'[a].stage = "landed" /\ att'[a].order = att[a].order

\* A stage is only ever set of an attempt that has not landed.
LEMMA OthersKeep ==
    ASSUME TypeOK, NEW x \in Attempts, att[x].stage # "landed",
           NEW s \in Stages, Becomes(x, s), NEW a \in Attempts, att[a].stage = "landed"
    PROVE  Keeps(a)
  BY BecomesEffect DEF Keeps

\* The attempt of a flow has not landed, but for one a wallet sends.
LEMMA FlowHasNotLanded ==
    ASSUME IInv, NEW t \in Tabs, tab[t].at \in Own,
           tab[t].at # "sending", tab[t].at # "asked" \/ ~OnRail(t, "tempo")
    PROVE  att[tab[t].attempt].stage # "landed"
<1>1. Fits(tab[t], att[tab[t].attempt])
  BY Parts DEF TabsFit
<1>2. OnRail(t, "tempo") <=> rail[tab[t].order] = "tempo"
  BY OwnAttempt DEF Rails
<1> QED BY <1>1, <1>2 DEF Fits, Own

LEMMA FlowKeepsLanded ==
    ASSUME IInv, NEW t \in Tabs, tab[t].at \in Own, att[tab[t].attempt].stage # "landed",
           NEW s \in Stages, Becomes(tab[t].attempt, s), NEW a \in Attempts, att[a].stage = "landed"
    PROVE  Keeps(a)
  BY Parts, OwnAttempt, OthersKeep

LEMMA NewKeepsLanded ==
    ASSUME IInv, NEW x \in Attempts, NEW o \in Orders, NEW w \in Wallets \cup {None},
           NEW s \in Stages, NewAttempt(x, o, w, s), NEW a \in Attempts, att[a].stage = "landed"
    PROVE  Keeps(a)
  BY Parts, NewAttemptEffect DEF Keeps, Used

LEMMA ReplaceKeepsLanded ==
    ASSUME IInv, NEW t \in Tabs, NEW o \in Orders, NEW w \in Wallets \cup {None},
           Replace(t, o, w), NEW a \in Attempts, att[a].stage = "landed"
    PROVE  Keeps(a)
<1>1. PICK x \in Attempts : NewAttempt(x, o, w, "asked")
  BY DEF Replace
<1> QED BY <1>1, NewKeepsLanded DEF Stages

LEMMA LandedStays ==
    ASSUME IInv, [Next]_vars, NEW a \in Attempts, att[a].stage = "landed"
    PROVE  Keeps(a)
<1>1. CASE Tick
  <2>1. att[a] \in Attempt
    BY Parts
  <2> QED BY <1>1, <2>1 DEF Tick, Keeps, Attempt
<1>2. ASSUME NEW o \in Orders, OrderStep(o) PROVE Keeps(a)
  <2>1. CASE att' = att
    BY <2>1 DEF Keeps
  <2>2. CASE rec[o].state = "paying" /\ att[rec[o].marker].stage = "sent" /\ Becomes(rec[o].marker, "dead")
    <3>1. rec[o].marker \in Attempts
      BY <2>2, Parts DEF RecordsAgree
    <3> QED BY <2>2, <3>1, Parts, OthersKeep DEF Stages
  <2> QED BY <1>2, <2>1, <2>2 DEF OrderStep, placeOrder, acknowledge, recordPaid, recordBlocked,
              followTempoBundle, endNothingRequested, applyStatus, ConfirmOver
<1>3. ASSUME NEW t \in Tabs, TabStep(t) PROVE Keeps(a)
  <2>1. CASE att' = att
    BY <2>1 DEF Keeps
  <2>2. CASE tab[t].at \in Own /\ (tab[t].at # "asked" \/ ~OnRail(t, "tempo"))
             /\ tab[t].at # "sending" /\ \E s \in Stages : Becomes(tab[t].attempt, s)
    BY <2>2, FlowHasNotLanded, FlowKeepsLanded
  <2>3. CASE tab[t].at \in Own /\ att[tab[t].attempt].stage # "landed"
             /\ \E s \in Stages : Becomes(tab[t].attempt, s)
    BY <2>3, FlowKeepsLanded
  <2>4. CASE SetMarker(t)
    <3>1. tab[t].order \in Orders
      BY <2>4, Parts DEF SetMarker, At, TabsAgree
    <3>2. PICK x \in Attempts, w \in Payers(tab[t].order) :
              NewAttempt(x, tab[t].order, w, IF rail[tab[t].order] = "tempo" THEN "marked" ELSE "asked")
      BY <2>4 DEF SetMarker
    <3>3. w \in Wallets \cup {None}
      BY DEF Payers
    <3>4. (IF rail[tab[t].order] = "tempo" THEN "marked" ELSE "asked") \in Stages
      BY DEF Stages
    <3> QED BY <3>1, <3>2, <3>3, <3>4, NewKeepsLanded
  <2>5. CASE retryWithSolana(t) \/ switchWalletWithEip3009(t)
    <3>1. tab[t].order \in Orders
      BY <2>5, Parts DEF retryWithSolana, switchWalletWithEip3009, MayRetryOver, At, TabsAgree
    <3>2. PICK w \in Wallets \cup {None} : Replace(t, tab[t].order, w)
      BY <2>5 DEF retryWithSolana, switchWalletWithEip3009
    <3> QED BY <3>1, <3>2, ReplaceKeepsLanded
  <2>6. CASE \E o \in Orders : retryWithEip3009(t, o)
    <3>1. PICK o \in Orders : Replace(t, o, att[rec[o].marker].payer) /\ judgeRetry(o, rec[o].marker)
      BY <2>6 DEF retryWithEip3009
    <3>2. rec[o].marker \in Attempts
      BY <3>1, Parts DEF judgeRetry, HoldsAttempt, RecordsAgree
    <3>3. att[rec[o].marker].payer \in Wallets \cup {None}
      BY <3>2, Parts, AttemptFields
    <3> QED BY <3>1, <3>3, ReplaceKeepsLanded
  <2>7. CASE AskTempo(t) \/ clearNotRequested(t) \/ Approve(t) \/ SignAgain(t) \/ SaveSigned(t)
    BY <2>2, <2>7 DEF AskTempo, clearNotRequested, Approve, SignAgain, SaveSigned, At, Own, Stages
  <2>8. CASE Decline(t) \/ WalletFails(t)
    BY <2>1, <2>3, <2>8, FlowHasNotLanded DEF Decline, WalletFails, At, Own, Stages, OnRail
  <2>9. CASE send(t) \/ DeclineSend(t)
    BY <2>2, <2>3, <2>9 DEF send, DeclineSend, At, Own, Stages
  <2>10. CASE Leave(t)
    BY <2>1, <2>2, <2>10 DEF Leave, Becomes, At, Own, Stages
  <2>11. CASE \/ HoldBack(t) \/ SaveHash(t) \/ Look(t) \/ EndOver(t)
              \/ \E o \in Orders : StartPay(t, o) \/ StartLook(t, o) \/ clearUnsigned(t, o)
    BY <2>1, <2>11 DEF HoldBack, SaveHash, Look, EndOver, StartPay, StartLook, clearUnsigned
  <2> QED BY <1>3, <2>4, <2>5, <2>6, <2>7, <2>8, <2>9, <2>10, <2>11 DEF TabStep
<1>4. ASSUME NEW b \in Attempts, ChainStep(b) PROVE Keeps(a)
  BY <1>4, Parts, OthersKeep DEF ChainStep, Land, Guarded, ApproveSend, Stages
<1>5. CASE UNCHANGED vars
  BY <1>5 DEF vars, Keeps
<1> QED BY <1>1, <1>2, <1>3, <1>4, <1>5 DEF Next

\* What the chain took implements Settlement: an order buys with one attempt and
\* stays bought with it, over retries, other accounts, late answers of wallets and
\* closed tabs (judgeUpdateMarker, endSolanaOrder, endEip3009Order).
THEOREM OrdersSettle == Spec => PurchasesAreSettled
<1>1. IInv => Purchases!Once(bought) /\ bought \subseteq Orders \X Attempts
  <2> SUFFICES ASSUME IInv PROVE Purchases!Once(bought) /\ bought \subseteq Orders \X Attempts
    OBVIOUS
  <2>1. ASSUME NEW x \in bought, NEW y \in bought, x[1] = y[1] PROVE x = y
    <3>1. /\ x = <<x[1], x[2]>> /\ x[1] \in Orders /\ x[2] \in Landed(x[1])
          /\ y = <<y[1], y[2]>> /\ y[2] \in Landed(x[1])
      BY <2>1 DEF bought
    <3>2. x[2] = y[2]
      BY <3>1, PaidAtMostOnce DEF PaidOncePerOrder
    <3> QED BY <2>1, <3>1, <3>2
  <2> QED BY <2>1 DEF Purchases!Once, bought
<1>2. IInv => Purchases!Init
  BY <1>1 DEF Purchases!Init
<1>3. IInv /\ IInv' /\ [Next]_vars => [Purchases!Spend]_bought
  <2> SUFFICES ASSUME IInv, IInv', [Next]_vars PROVE Purchases!Spend
    OBVIOUS
  <2>1. Purchases!Once(bought') /\ bought' \subseteq Orders \X Attempts
    <3>1. (Purchases!Once(bought) /\ bought \subseteq Orders \X Attempts)'
      BY <1>1, PTL
    <3> QED BY <3>1
  <2>2. bought \subseteq bought'
    BY LandedStays DEF bought, Landed, Of, Keeps
  <2> QED BY <2>1, <2>2 DEF Purchases!Spend
<1> QED BY <1>2, <1>3, InductiveInvariant, PTL DEF PurchasesAreSettled, Purchases!Spec, Spec
=============================================================================
