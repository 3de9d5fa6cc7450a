------------------------- MODULE MerchantNodeProofs -------------------------
(***************************************************************************)
(* Proofs about MerchantNode, for any orders, payments, rails, relays and  *)
(* bounds: a payment is announced for one order, once, over every order of *)
(* checks, sweeps, webhooks, crashes and commands of the owner; one that   *)
(* waits for the treasuries stays in sight; and a webhook that was taken   *)
(* is not sent again.                                                      *)
(***************************************************************************)
EXTENDS MerchantNode, TLAPS

USE MerchantAssumption

(***************************************************************************)
(* What holds of a ledger, in memory as in the file.                       *)
(***************************************************************************)
Paid(L, o) == L.status[o] = "paid"

LedgerOK(L) ==
    /\ L \in LedgerState
    /\ \A o \in Orders : L.by[o] # None <=> Paid(L, o)
    /\ \A o \in Orders, p \in Payments : L.by[o] = p <=> L.claims[p] = o
    /\ \A o \in Orders : L.hook[o] # "none" => Paid(L, o)
    /\ \A o \in L.done : Paid(L, o)
    /\ \A o \in Orders : L.answer[o] # None => L.status[o] = "closed"
    /\ \A w \in L.rumors \cup L.covered :
           w.type = "order" => L.status[w.order] # "absent"

\* M has every payment of L.
Extends(M, L) == \A o \in Orders : L.by[o] # None => M.by[o] = L.by[o]

\* An order that is open or paid in L is not closed in M, and a paid one is paid.
Onward(M, L) ==
    \A o \in Orders : /\ L.status[o] \in {"open", "paid"} => M.status[o] \in {"open", "paid"}
                      /\ Paid(L, o) => Paid(M, o)

-----------------------------------------------------------------------------
\* Recording an unclaimed payment of an open order.
LEMMA RecordKeeps ==
    ASSUME NEW L, LedgerOK(L), NEW o \in Orders, NEW p \in Payments,
           L.status[o] = "open", L.claims[p] = None
    PROVE  LET M == recordPayment(L, o, p)
           IN  LedgerOK(M) /\ Extends(M, L) /\ Onward(M, L) /\ M.by[o] = p
<1> DEFINE M == recordPayment(L, o, p)
<1>1. L \in LedgerState
  BY DEF LedgerOK
<1>2. M \in LedgerState
  BY <1>1 DEF LedgerState, recordPayment
<1>3. /\ M.status = [L.status EXCEPT ![o] = "paid"] /\ M.by = [L.by EXCEPT ![o] = p]
      /\ M.claims = [L.claims EXCEPT ![p] = o] /\ M.hook = [L.hook EXCEPT ![o] = "pending"]
      /\ M.done = L.done /\ M.answer = L.answer
      /\ M.rumors = L.rumors /\ M.covered = L.covered
  BY <1>1 DEF LedgerState, recordPayment
<1>4. /\ L.status \in [Orders -> {"absent", "open", "paid", "closed"}]
      /\ L.by \in [Orders -> Payments \cup {None}]
      /\ L.claims \in [Payments -> Orders \cup {None}]
      /\ L.hook \in [Orders -> {"none", "pending", "sent", "failed"}]
      /\ L.rumors \subseteq Wraps /\ L.covered \subseteq Wraps
  BY <1>1 DEF LedgerState
<1>5. L.by[o] = None
  BY <1>4 DEF LedgerOK, Paid
<1>6. \A w \in Wraps : w.order \in Orders
  OBVIOUS
<1> HIDE DEF M
<1>7. \A q \in Orders : M.by[q] # None <=> Paid(M, q)
  BY <1>3, <1>4 DEF LedgerOK, Paid
<1>8. \A q \in Orders, r \in Payments : M.by[q] = r <=> M.claims[r] = q
  BY <1>3, <1>4, <1>5 DEF LedgerOK, Paid
<1>9. LedgerOK(M)
  BY <1>2, <1>3, <1>4, <1>6, <1>7, <1>8 DEF LedgerOK, Paid
<1>10. Extends(M, L) /\ Onward(M, L) /\ M.by[o] = p
  BY <1>3, <1>4, <1>5 DEF Extends, Onward, Paid
<1> QED BY <1>9, <1>10 DEF M

\* A change that pays nothing.
LEMMA QuietKeeps ==
    ASSUME NEW L, LedgerOK(L), NEW M \in LedgerState, M.by = L.by, M.claims = L.claims,
           \A o \in Orders : Paid(M, o) <=> Paid(L, o),
           \A o \in Orders : M.hook[o] # "none" => Paid(L, o),
           \A o \in M.done : Paid(L, o),
           \A o \in Orders : M.answer[o] # None => M.status[o] = "closed",
           \A w \in M.rumors \cup M.covered :
               w.type = "order" => M.status[w.order] # "absent"
    PROVE  LedgerOK(M) /\ Extends(M, L)
<1>1. M.done \subseteq Orders
  BY DEF LedgerState
<1> QED BY <1>1 DEF LedgerOK, Extends, Paid

\* One lemma for each change of a ledger: what it does to the fields that count.
LEMMA JudgeKeeps ==
    ASSUME NEW L, LedgerOK(L), NEW o \in Orders, NEW p \in Payments, NEW verdict,
           verdict = "paid" => L.by[o] = p \/ (L.status[o] = "open" /\ L.claims[p] = None)
    PROVE  LET M == Judge(L, o, p, verdict)
           IN  LedgerOK(M) /\ Extends(M, L) /\ Onward(M, L)
               /\ (verdict # "paid" => M.by = L.by)
<1> DEFINE M == Judge(L, o, p, verdict)
<1>0. L \in LedgerState
  BY DEF LedgerOK
<1>1. CASE verdict = "paid" /\ L.by[o] # p
  <2>1. M = recordPayment(L, o, p)
    BY <1>1 DEF Judge
  <2> QED BY <1>1, <2>1, RecordKeeps
<1>2. CASE ~(verdict = "paid" /\ L.by[o] # p)
  <2>1. /\ M \in LedgerState
        /\ M.by = L.by /\ M.claims = L.claims /\ M.status = L.status /\ M.hook = L.hook
        /\ M.done = L.done /\ M.answer = L.answer /\ M.rumors = L.rumors
        /\ M.covered = L.covered
    <3>1. CASE verdict = "paid"
      BY <1>0, <1>2, <3>1 DEF Judge, LedgerState
    <3>2. CASE verdict = "refused"
      <4>1. M = [L EXCEPT !.judged[o] = @ \cup {p}, !.unresolved[o] = @ \ {p}]
        BY <3>2 DEF Judge
      <4>2. L.judged \in [Orders -> SUBSET Payments] /\ L.unresolved \in [Orders -> SUBSET Payments]
        BY <1>0 DEF LedgerState
      <4>3. /\ [L.judged EXCEPT ![o] = @ \cup {p}] \in [Orders -> SUBSET Payments]
            /\ [L.unresolved EXCEPT ![o] = @ \ {p}] \in [Orders -> SUBSET Payments]
        BY <4>2
      <4> HIDE DEF M
      <4> QED BY <1>0, <4>1, <4>3 DEF LedgerState
    <3>3. CASE verdict = "unresolved"
      <4>1. M = [L EXCEPT !.unresolved[o] = @ \cup {p}]
        BY <3>3 DEF Judge
      <4>2. L.unresolved \in [Orders -> SUBSET Payments]
        BY <1>0 DEF LedgerState
      <4>3. [L.unresolved EXCEPT ![o] = @ \cup {p}] \in [Orders -> SUBSET Payments]
        BY <4>2
      <4> HIDE DEF M
      <4> QED BY <1>0, <4>1, <4>3 DEF LedgerState
    <3>4. CASE verdict \notin {"paid", "refused", "unresolved"}
      BY <1>0, <1>2, <3>4 DEF Judge, LedgerState
    <3> QED BY <3>1, <3>2, <3>3, <3>4
  <2> HIDE DEF M
  <2>2. LedgerOK(M) /\ Extends(M, L) /\ Onward(M, L)
    BY <2>1 DEF LedgerOK, Extends, Onward, Paid
  <2> QED BY <2>1, <2>2 DEF M
<1> QED BY <1>1, <1>2

LEMMA OrderKeeps ==
    ASSUME NEW L, LedgerOK(L), NEW w \in Wraps, L.status[w.order] = "absent"
    PROVE  LET M == [[L EXCEPT !.rumors = @ \cup {w}] EXCEPT !.status[w.order] = "open"]
           IN  LedgerOK(M) /\ Extends(M, L) /\ M.by = L.by /\ Onward(M, L)
               /\ M.rumors = L.rumors \cup {w}
<1> DEFINE M == [[L EXCEPT !.rumors = @ \cup {w}] EXCEPT !.status[w.order] = "open"]
<1>0. L \in LedgerState /\ w.order \in Orders
  BY DEF LedgerOK
<1>1. /\ M \in LedgerState
      /\ M.by = L.by /\ M.claims = L.claims /\ M.status = [L.status EXCEPT ![w.order] = "open"]
      /\ M.hook = L.hook /\ M.done = L.done /\ M.answer = L.answer
      /\ M.rumors = L.rumors \cup {w} /\ M.covered = L.covered
  BY <1>0 DEF LedgerState
<1>2. /\ L.status \in [Orders -> {"absent", "open", "paid", "closed"}]
      /\ L.rumors \subseteq Wraps /\ L.covered \subseteq Wraps
      /\ \A v \in Wraps : v.order \in Orders
  BY <1>0 DEF LedgerState
<1> HIDE DEF M
<1>3. LedgerOK(M)
  BY <1>0, <1>1, <1>2 DEF LedgerOK, Paid
<1>4. Extends(M, L) /\ Onward(M, L)
  BY <1>0, <1>1, <1>2 DEF Extends, Onward, Paid
<1> QED BY <1>1, <1>3, <1>4 DEF M

LEMMA RumorKeeps ==
    ASSUME NEW L, LedgerOK(L), NEW w \in Wraps,
           w.type = "order" => L.status[w.order] # "absent"
    PROVE  LET M == [L EXCEPT !.rumors = @ \cup {w}]
           IN  LedgerOK(M) /\ Extends(M, L) /\ M.by = L.by /\ Onward(M, L)
               /\ M.rumors = L.rumors \cup {w}
<1> DEFINE M == [L EXCEPT !.rumors = @ \cup {w}]
<1>0. L \in LedgerState
  BY DEF LedgerOK
<1>1. /\ M \in LedgerState
      /\ M.by = L.by /\ M.claims = L.claims /\ M.status = L.status
      /\ M.hook = L.hook /\ M.done = L.done /\ M.answer = L.answer
      /\ M.rumors = L.rumors \cup {w} /\ M.covered = L.covered
  BY <1>0 DEF LedgerState
<1> HIDE DEF M
<1>3. LedgerOK(M) /\ Extends(M, L) /\ Onward(M, L)
  BY <1>1 DEF LedgerOK, Extends, Onward, Paid
<1> QED BY <1>1, <1>3 DEF M

LEMMA ReportKeeps ==
    ASSUME NEW L, LedgerOK(L), NEW w \in Wraps, w.type = "receipt"
    PROVE  LET M == [L EXCEPT !.rumors = @ \cup {w}, !.reported[w.order] = @ \cup {w.tx}]
           IN  LedgerOK(M) /\ Extends(M, L) /\ M.by = L.by /\ Onward(M, L)
               /\ M.status = L.status /\ M.claims = L.claims
               /\ M.rumors = L.rumors \cup {w}
<1> DEFINE M == [L EXCEPT !.rumors = @ \cup {w}, !.reported[w.order] = @ \cup {w.tx}]
<1>0. L \in LedgerState /\ w.order \in Orders /\ w.tx \in Payments
  BY DEF LedgerOK
<1>1. /\ M \in LedgerState
      /\ M.by = L.by /\ M.claims = L.claims /\ M.status = L.status
      /\ M.hook = L.hook /\ M.done = L.done /\ M.answer = L.answer
      /\ M.rumors = L.rumors \cup {w} /\ M.covered = L.covered
  <2>1. L.reported \in [Orders -> SUBSET Payments] /\ L.rumors \cup {w} \in SUBSET Wraps
    BY <1>0 DEF LedgerState
  <2>2. [L.reported EXCEPT ![w.order] = @ \cup {w.tx}] \in [Orders -> SUBSET Payments]
    BY <1>0, <2>1
  <2> QED BY <1>0, <2>1, <2>2 DEF LedgerState
<1> HIDE DEF M
<1>3. LedgerOK(M) /\ Extends(M, L) /\ Onward(M, L)
  BY <1>1 DEF LedgerOK, Extends, Onward, Paid
<1> QED BY <1>1, <1>3 DEF M

LEMMA SweepStartKeeps ==
    ASSUME NEW L, LedgerOK(L), NEW gone \in SUBSET {o \in Orders : L.status[o] = "open"},
           NEW covered \in SUBSET Wraps,
           \A w \in covered : w.type = "order" => L.status[w.order] # "absent"
    PROVE  LET M == [Pruned(L, gone) EXCEPT !.covered = covered]
           IN  LedgerOK(M) /\ Extends(M, L) /\ M.by = L.by /\ M.rumors = L.rumors
               /\ \A o \in Orders : Paid(M, o) <=> Paid(L, o)
<1> DEFINE M == [Pruned(L, gone) EXCEPT !.covered = covered]
<1>0. L \in LedgerState /\ \A w \in Wraps : w.order \in Orders
  BY DEF LedgerOK
<1>1. /\ M \in LedgerState
      /\ M.by = L.by /\ M.claims = L.claims
      /\ M.status = [o \in Orders |-> IF o \in gone THEN "closed" ELSE L.status[o]]
      /\ M.hook = L.hook /\ M.done = L.done /\ M.answer = L.answer
      /\ M.rumors = L.rumors /\ M.covered = covered
  <2> DEFINE P == Pruned(L, gone)
  <2>1. P \in LedgerState
    <3> DEFINE closed == [o \in Orders |-> IF o \in gone THEN "closed" ELSE L.status[o]]
               Without(f) == [o \in Orders |-> IF o \in gone THEN {} ELSE f[o]]
               kept == L.kept \cup {e \in gone \X Payments : e[2] \in L.unresolved[e[1]]}
    <3>1. /\ closed \in [Orders -> {"absent", "open", "paid", "closed"}]
          /\ kept \in SUBSET (Orders \X Payments)
      BY <1>0 DEF LedgerState
    <3>2. /\ Without(L.reported) \in [Orders -> SUBSET Payments]
          /\ Without(L.judged) \in [Orders -> SUBSET Payments]
          /\ Without(L.unresolved) \in [Orders -> SUBSET Payments]
      BY <1>0 DEF LedgerState
    <3>3. P = [L EXCEPT !.status = closed, !.kept = kept, !.reported = Without(L.reported),
                        !.judged = Without(L.judged), !.unresolved = Without(L.unresolved)]
      BY <1>0 DEF Pruned, LedgerState
    <3> HIDE DEF P, closed, kept, Without
    <3> QED BY <1>0, <3>1, <3>2, <3>3 DEF LedgerState
  <2>2. /\ P.by = L.by /\ P.claims = L.claims /\ P.hook = L.hook /\ P.done = L.done
        /\ P.answer = L.answer /\ P.rumors = L.rumors
    BY <1>0 DEF LedgerState, Pruned
  <2>3. P.status = [o \in Orders |-> IF o \in gone THEN "closed" ELSE L.status[o]]
    BY <1>0 DEF LedgerState, Pruned
  <2> HIDE DEF P
  <2>4. M = [P EXCEPT !.covered = covered]
    BY DEF P
  <2> HIDE DEF M
  <2> QED BY <2>1, <2>2, <2>3, <2>4 DEF LedgerState
<1>2. L.rumors \subseteq Wraps
  BY <1>0 DEF LedgerState
<1> HIDE DEF M
<1>3. \A o \in Orders : Paid(M, o) <=> Paid(L, o)
  BY <1>1 DEF Paid
<1>4. LedgerOK(M) /\ Extends(M, L)
  <2>1. \A w \in M.rumors \cup M.covered :
            w.type = "order" => M.status[w.order] # "absent"
    BY <1>0, <1>1, <1>2 DEF LedgerOK
  <2>2. \A o \in Orders : M.answer[o] # None => M.status[o] = "closed"
    BY <1>1 DEF LedgerOK
  <2> QED BY <1>1, <1>3, <2>1, <2>2, QuietKeeps DEF LedgerOK
<1> QED BY <1>1, <1>3, <1>4 DEF M

LEMMA HookKeeps ==
    ASSUME NEW L, LedgerOK(L), NEW o \in Orders, Paid(L, o),
           NEW state \in {"pending", "sent", "failed"}
    PROVE  LET M == [L EXCEPT !.hook[o] = state]
           IN  LedgerOK(M) /\ Extends(M, L) /\ M.by = L.by /\ Onward(M, L)
               /\ M.rumors = L.rumors
<1> DEFINE M == [L EXCEPT !.hook[o] = state]
<1>0. L \in LedgerState
  BY DEF LedgerOK
<1>1. /\ M \in LedgerState
      /\ M.by = L.by /\ M.claims = L.claims /\ M.status = L.status
      /\ M.hook = [L.hook EXCEPT ![o] = state] /\ M.done = L.done /\ M.answer = L.answer
      /\ M.rumors = L.rumors /\ M.covered = L.covered
      /\ L.hook \in [Orders -> {"none", "pending", "sent", "failed"}]
  BY <1>0 DEF LedgerState
<1> HIDE DEF M
<1>3. LedgerOK(M) /\ Extends(M, L) /\ Onward(M, L)
  BY <1>1 DEF LedgerOK, Extends, Onward, Paid
<1> QED BY <1>1, <1>3 DEF M

LEMMA AnswerKeeps ==
    ASSUME NEW L, LedgerOK(L), NEW o \in Orders, L.status[o] \in {"open", "closed"},
           NEW kind \in {"complete", "refund"}
    PROVE  LET M == applyHandAnswer(L, o, kind)
           IN  LedgerOK(M) /\ Extends(M, L) /\ M.by = L.by
<1> DEFINE M == applyHandAnswer(L, o, kind)
<1>0. L \in LedgerState /\ \A w \in Wraps : w.order \in Orders
  BY DEF LedgerOK
<1>1. /\ M \in LedgerState
      /\ M.by = L.by /\ M.claims = L.claims /\ M.status = [L.status EXCEPT ![o] = "closed"]
      /\ M.hook = L.hook /\ M.done = L.done /\ M.answer = [L.answer EXCEPT ![o] = kind]
      /\ M.rumors = L.rumors /\ M.covered = L.covered
      /\ L.status \in [Orders -> {"absent", "open", "paid", "closed"}]
      /\ L.rumors \subseteq Wraps /\ L.covered \subseteq Wraps
      /\ L.answer \in [Orders -> {"complete", "refund", None}]
  <2>1. M \in LedgerState
    <3> DEFINE closed == [L.status EXCEPT ![o] = "closed"]
               Without(f) == [f EXCEPT ![o] = {}]
               kept == {e \in L.kept : e[1] # o}
    <3>1. /\ closed \in [Orders -> {"absent", "open", "paid", "closed"}]
          /\ [L.answer EXCEPT ![o] = kind] \in [Orders -> {"complete", "refund", None}]
          /\ kept \in SUBSET (Orders \X Payments)
      BY <1>0 DEF LedgerState
    <3>2. /\ Without(L.reported) \in [Orders -> SUBSET Payments]
          /\ Without(L.judged) \in [Orders -> SUBSET Payments]
          /\ Without(L.unresolved) \in [Orders -> SUBSET Payments]
      BY <1>0 DEF LedgerState
    <3>3. M = [L EXCEPT !.status = closed, !.answer = [L.answer EXCEPT ![o] = kind],
                        !.reported = Without(L.reported), !.judged = Without(L.judged),
                        !.unresolved = Without(L.unresolved), !.kept = kept]
      BY <1>0 DEF applyHandAnswer, LedgerState
    <3> HIDE DEF M, closed, kept, Without
    <3> QED BY <1>0, <3>1, <3>2, <3>3 DEF LedgerState
  <2>2. /\ M.by = L.by /\ M.claims = L.claims /\ M.status = [L.status EXCEPT ![o] = "closed"]
        /\ M.hook = L.hook /\ M.done = L.done /\ M.answer = [L.answer EXCEPT ![o] = kind]
        /\ M.rumors = L.rumors /\ M.covered = L.covered
    BY <1>0 DEF LedgerState, applyHandAnswer
  <2>3. /\ L.status \in [Orders -> {"absent", "open", "paid", "closed"}]
        /\ L.rumors \subseteq Wraps /\ L.covered \subseteq Wraps
        /\ L.answer \in [Orders -> {"complete", "refund", None}]
    BY <1>0 DEF LedgerState
  <2> QED BY <2>1, <2>2, <2>3
<1> HIDE DEF M
<1>2. \A q \in Orders : Paid(M, q) <=> Paid(L, q)
  BY <1>1 DEF Paid
<1>3. \A q \in Orders : M.answer[q] # None => M.status[q] = "closed"
  BY <1>1 DEF LedgerOK
<1>4. \A w \in M.rumors \cup M.covered : w.type = "order" => M.status[w.order] # "absent"
  BY <1>0, <1>1 DEF LedgerOK
<1>5. LedgerOK(M) /\ Extends(M, L)
  <2>1. (\A q \in Orders : M.hook[q] # "none" => Paid(L, q)) /\ \A q \in M.done : Paid(L, q)
    BY <1>1 DEF LedgerOK
  <2> QED BY <1>1, <1>2, <1>3, <1>4, <2>1, QuietKeeps
<1> QED BY <1>1, <1>5 DEF M

LEMMA DeliverKeeps ==
    ASSUME NEW L, LedgerOK(L), NEW new \in [Orders -> SUBSET Relays],
           NEW delivered \in SUBSET Orders, \A o \in delivered : Paid(L, o)
    PROVE  LET M == [L EXCEPT !.to = new, !.done = @ \cup delivered]
           IN  LedgerOK(M) /\ Extends(M, L) /\ M.by = L.by /\ Onward(M, L)
               /\ M.rumors = L.rumors
<1> DEFINE M == [L EXCEPT !.to = new, !.done = @ \cup delivered]
<1>0. L \in LedgerState
  BY DEF LedgerOK
<1>1. /\ M \in LedgerState
      /\ M.by = L.by /\ M.claims = L.claims /\ M.status = L.status
      /\ M.hook = L.hook /\ M.done = L.done \cup delivered /\ M.answer = L.answer
      /\ M.rumors = L.rumors /\ M.covered = L.covered
  BY <1>0 DEF LedgerState
<1> HIDE DEF M
<1>3. LedgerOK(M) /\ Extends(M, L) /\ Onward(M, L)
  BY <1>1 DEF LedgerOK, Extends, Onward, Paid
<1> QED BY <1>1, <1>3 DEF M

LEMMA KnownKeeps ==
    ASSUME NEW L, LedgerOK(L), NEW known \in BOOLEAN
    PROVE  LET M == [L EXCEPT !.known = known]
           IN  LedgerOK(M) /\ Extends(M, L) /\ M.by = L.by /\ Onward(M, L)
               /\ M.rumors = L.rumors
<1> DEFINE M == [L EXCEPT !.known = known]
<1>0. L \in LedgerState
  BY DEF LedgerOK
<1>1. /\ M \in LedgerState
      /\ M.by = L.by /\ M.claims = L.claims /\ M.status = L.status
      /\ M.hook = L.hook /\ M.done = L.done /\ M.answer = L.answer
      /\ M.rumors = L.rumors /\ M.covered = L.covered
  BY <1>0 DEF LedgerState
<1> HIDE DEF M
<1>3. LedgerOK(M) /\ Extends(M, L) /\ Onward(M, L)
  BY <1>1 DEF LedgerOK, Extends, Onward, Paid
<1> QED BY <1>1, <1>3 DEF M

-----------------------------------------------------------------------------
(***************************************************************************)
(* The invariant.  Memory may be ahead of the file, and only a sweep under *)
(* way makes it so; what was told is in the file.                          *)
(***************************************************************************)
TaskOK(t) ==
    /\ t.at = "check" => /\ t.early = None => mem.status[t.order] = "open"
                         /\ t.early = "paid" => mem.by[t.order] = t.tx
    /\ t.at = "rail" => \A e \in t.todo : mem.status[e[1]] \in {"open", "paid"}
    /\ t.at = "deliver" => \A o \in t.pending : Paid(mem, o)

Synced ==
    badWrites = 0 /\ (\A t \in tasks : t.at # "rail") => mem.by = disk.by

ToldIsSaved ==
    badWrites = 0 => \A e \in told : disk.by[e[1]] = e[2]

SweepCovers ==
    sweep.live => \A w \in sweep.upTo :
                      w.type = "order" => w \in sweep.ahead \/ w \in mem.rumors

IInv ==
    /\ TypeOK
    /\ LedgerOK(mem) /\ LedgerOK(disk) /\ Extends(mem, disk)
    /\ ~up => mem = disk /\ tasks = {}
    /\ \A t \in tasks : TaskOK(t)
    /\ Synced /\ ToldIsSaved /\ SweepCovers
    /\ \A o \in Orders : flight[o] # "" => Paid(mem, o)

\* A save, or a failed one, of a ledger that has all that memory has.
LEMMA SaveKeeps ==
    ASSUME IInv, NEW L, LedgerOK(L), Extends(L, mem), NEW ok \in BOOLEAN, Save(L, ok)
    PROVE  /\ mem' = L /\ (ok => disk' = L)
           /\ LedgerOK(disk') /\ Extends(L, disk')
           /\ badWrites' \in 0..MaxBadWrites
           /\ badWrites' = 0 => ok /\ badWrites = 0
           /\ badWrites' = 0 => \A e \in told : disk'.by[e[1]] = e[2]
           /\ Extends(disk', disk)
<1>1. mem' = L /\ badWrites \in 0..MaxBadWrites /\ MaxBadWrites \in Nat
  BY DEF Save, IInv, TypeOK
<1>2. CASE ok
  <2>1. disk' = L /\ badWrites' = badWrites
    BY <1>2 DEF Save
  <2>2. Extends(L, L) /\ Extends(L, disk)
    <3>1. Extends(mem, disk)
      BY DEF IInv
    <3> QED BY <3>1 DEF Extends
  <2>3. badWrites = 0 => \A e \in told : L.by[e[1]] = e[2]
    <3>1. \A e \in told : e[1] \in Orders /\ e[2] \in Payments
      BY DEF IInv, TypeOK
    <3> QED BY <2>2, <3>1 DEF IInv, ToldIsSaved, Extends
  <2> QED BY <1>1, <1>2, <2>1, <2>2, <2>3
<1>3. CASE ~ok
  <2>1. disk' = disk /\ badWrites' = badWrites + 1 /\ badWrites < MaxBadWrites
    BY <1>3 DEF Save
  <2>2. Extends(L, disk) /\ Extends(disk, disk)
    BY DEF Extends, IInv
  <2>3. badWrites' \in 0..MaxBadWrites /\ badWrites' # 0
    BY <1>1, <2>1
  <2> QED BY <1>1, <1>3, <2>1, <2>2, <2>3 DEF IInv
<1> QED BY <1>2, <1>3

\* Orders of a saved ledger may be told of.
LEMMA SavedMayBeTold ==
    ASSUME IInv, NEW os \in SUBSET Orders, \A o \in os : Paid(disk', o),
           disk' \in LedgerState, LedgerOK(disk'),
           badWrites' = 0 => \A e \in told : disk'.by[e[1]] = e[2],
           told' = told \cup ToldOf(disk', os)
    PROVE  told' \subseteq Orders \X Payments /\ ToldIsSaved'
<1>1. \A o \in os : disk'.by[o] \in Payments
  BY DEF LedgerState, LedgerOK
<1>2. told \subseteq Orders \X Payments
  BY DEF IInv, TypeOK
<1>3. \A e \in ToldOf(disk', os) : e \in Orders \X Payments /\ disk'.by[e[1]] = e[2]
  BY <1>1 DEF ToldOf
<1> QED BY <1>2, <1>3 DEF ToldIsSaved

-----------------------------------------------------------------------------
(***************************************************************************)
(* One lemma per action.                                                   *)
(***************************************************************************)
LEMMA SameLedgers ==
    ASSUME LedgerOK(mem), LedgerOK(disk), Extends(mem, disk), UNCHANGED <<mem, disk>>
    PROVE  (LedgerOK(mem) /\ LedgerOK(disk) /\ Extends(mem, disk))'
<1>1. mem' = mem /\ disk' = disk
  OBVIOUS
<1> QED BY <1>1 DEF LedgerOK, LedgerState, Extends, Paid

LEMMA SelfExtends ==
    ASSUME NEW L
    PROVE  Extends(L, L) /\ Onward(L, L)
BY DEF Extends, Onward, Paid

\* What every step keeps: the invariant, and the payments that the file has.
Kept == IInv' /\ Extends(disk', disk)

LEMMA PrimedLedgers ==
    ASSUME LedgerOK(mem'), LedgerOK(disk'), Extends(mem', disk')
    PROVE  (LedgerOK(mem) /\ LedgerOK(disk) /\ Extends(mem, disk))'
BY DEF LedgerOK, LedgerState, Extends, Paid

\* Actions that leave both ledgers, the tasks and what was told alone.
LEMMA AsideKeeps ==
    ASSUME IInv, UNCHANGED <<mem, disk, badWrites, tasks, told, crashes>>,
           timers' \subseteq [order : Orders, tx : Payments, attempt : 1..Repeats],
           waiting' \subseteq Wraps, sweep' \in Sweep, SweepCovers',
           flight' \in [Orders -> {"", "posted", "ok", "no", "late"}],
           \A o \in Orders : flight'[o] # "" => Paid(mem, o),
           aged' \subseteq Orders, calm' \in BOOLEAN, up' \in BOOLEAN, ~up' => ~up
    PROVE  Kept
<1>1. TypeOK'
  BY DEF IInv, TypeOK
<1>2. (\A t \in tasks : TaskOK(t))'
  BY DEF IInv, TaskOK, Paid
<1>3. Synced' /\ ToldIsSaved' /\ (~up => mem = disk /\ tasks = {})'
  BY DEF IInv, Synced, ToldIsSaved
<1>4. (LedgerOK(mem) /\ LedgerOK(disk) /\ Extends(mem, disk))'
  BY SameLedgers DEF IInv
<1>20. Extends(disk', disk)
  BY SelfExtends
<1> QED BY <1>20, <1>1, <1>2, <1>3, <1>4 DEF Kept, IInv, Paid

LEMMA ReceiveKeeps == ASSUME IInv, NEW w \in Wraps, Receive(w) PROVE Kept
<1>1. /\ waiting' \subseteq Wraps /\ sweep' \in Sweep /\ SweepCovers' /\ up'
      /\ UNCHANGED <<mem, disk, badWrites, tasks, timers, told, crashes, flight, aged, calm, up>>
  BY DEF Receive, IInv, TypeOK, SweepCovers, ledger, queue, world, process
<1> QED BY <1>1, AsideKeeps DEF IInv, TypeOK

LEMMA QueueSweepKeeps == ASSUME IInv, NEW live \in BOOLEAN, QueueSweep(live) PROVE Kept
<1>1. UNCHANGED <<mem, disk, badWrites, tasks, timers, told, crashes, flight, aged, calm, up, waiting>>
  BY DEF QueueSweep, ledger, queue, world, process
<1>2. mem.rumors \subseteq Wraps /\ waiting \subseteq Wraps
  BY DEF IInv, TypeOK, LedgerState
<1>3. sweep' \in Sweep /\ SweepCovers'
  BY <1>1, <1>2 DEF QueueSweep, Sweep, SweepCovers
<1> QED BY <1>1, <1>2, <1>3, AsideKeeps DEF IInv, TypeOK

LEMMA WebhookAnswerKeeps ==
    ASSUME IInv, NEW o \in Orders, NEW answer \in {"ok", "no"}, WebhookAnswer(o, answer)
    PROVE  Kept
<1>1. UNCHANGED <<mem, disk, badWrites, tasks, timers, told, crashes, aged, calm, up, waiting, sweep>>
  BY DEF WebhookAnswer, ledger, queue, inbox, world, process
<1>2. flight' \in [Orders -> {"", "posted", "ok", "no", "late"}]
  BY DEF WebhookAnswer, IInv, TypeOK
<1>3. \A q \in Orders : flight'[q] # "" => Paid(mem, q)
  BY DEF WebhookAnswer, IInv, TypeOK
<1> QED BY <1>1, <1>2, <1>3, AsideKeeps DEF IInv, TypeOK, SweepCovers

LEMMA WorldKeeps ==
    ASSUME IInv, Start \/ Calm \/ \E o \in Orders : GrowOld(o)
    PROVE  Kept
<1>1. /\ UNCHANGED <<mem, disk, badWrites, tasks, timers, told, crashes, waiting, sweep, flight>>
      /\ aged' \subseteq Orders /\ calm' \in BOOLEAN /\ up' \in BOOLEAN /\ (~up' => ~up)
  BY DEF Start, Calm, GrowOld, ledger, queue, inbox, world, process, IInv, TypeOK
<1> QED BY <1>1, AsideKeeps DEF IInv, TypeOK, SweepCovers

\* What an idle node tells is in the file.
LEMMA IdleTells ==
    ASSUME IInv, Idle, UNCHANGED <<disk, badWrites>>, NEW os \in SUBSET Orders,
           \A o \in os : Paid(mem, o), told' = told \cup ToldOf(mem, os)
    PROVE  told' \subseteq Orders \X Payments /\ ToldIsSaved'
<1>1. told \subseteq Orders \X Payments
  BY DEF IInv, TypeOK
<1>2. \A o \in os : mem.by[o] \in Payments
  <2>1. mem.by \in [Orders -> Payments \cup {None}] /\ LedgerOK(mem)
    BY DEF IInv, LedgerOK, LedgerState
  <2>2. \A o \in os : mem.by[o] # None
    BY <2>1 DEF LedgerOK
  <2> QED BY <2>1, <2>2
<1>3. badWrites = 0 => mem.by = disk.by
  BY DEF IInv, Synced, Idle
<1>4. \A e \in ToldOf(mem, os) :
          e \in Orders \X Payments /\ (badWrites = 0 => disk.by[e[1]] = e[2])
  BY <1>2, <1>3 DEF ToldOf
<1> QED BY <1>1, <1>4 DEF ToldIsSaved, IInv

LEMMA ReadAgainKeeps == ASSUME IInv, NEW w \in Wraps, ReadAgain(w) PROVE Kept
<1>1. /\ Idle /\ told' = told \cup ToldOf(mem, {w.order} \cap mem.done)
      /\ UNCHANGED <<ledger, queue, inbox, flight, world, process>>
  BY DEF ReadAgain, resend
<1>2. {w.order} \cap mem.done \subseteq Orders /\ \A o \in {w.order} \cap mem.done : Paid(mem, o)
  BY DEF IInv, LedgerOK, LedgerState
<1>3. told' \subseteq Orders \X Payments /\ ToldIsSaved'
  BY <1>1, <1>2, IdleTells DEF ledger
<1>4. TypeOK'
  BY <1>1, <1>3 DEF ledger, queue, inbox, world, process, IInv, TypeOK
<1>5. /\ (\A t \in tasks : TaskOK(t))' /\ Synced' /\ SweepCovers'
      /\ (~up => mem = disk /\ tasks = {})'
      /\ (\A o \in Orders : flight[o] # "" => Paid(mem, o))'
  BY <1>1 DEF ledger, queue, inbox, world, process, IInv, TaskOK, Paid, Synced, SweepCovers
<1>6. (LedgerOK(mem) /\ LedgerOK(disk) /\ Extends(mem, disk))'
  BY <1>1, SameLedgers DEF ledger, IInv
<1>20. Extends(disk', disk)
  BY <1>1, SelfExtends DEF ledger
<1> QED BY <1>20, <1>3, <1>4, <1>5, <1>6 DEF Kept, IInv

LEMMA WebhookTickKeeps ==
    ASSUME IInv, NEW picked \in SUBSET Orders, NEW late \in SUBSET Orders,
           WebhookTick(picked, late)
    PROVE  Kept
<1>1. /\ Idle /\ told' = told \cup ToldOf(mem, picked \ late)
      /\ UNCHANGED <<ledger, queue, inbox, world, process>>
      /\ flight' = [o \in Orders |-> IF o \notin picked THEN flight[o]
                                     ELSE IF o \in late THEN "late" ELSE "posted"]
  BY DEF WebhookTick
<1>2. \A o \in picked : Paid(mem, o)
  BY DEF WebhookTick, dueWebhooks, IInv, LedgerOK
<1>3. told' \subseteq Orders \X Payments /\ ToldIsSaved'
  <2>1. picked \ late \in SUBSET Orders /\ \A o \in picked \ late : Paid(mem, o)
    BY <1>2
  <2>2. UNCHANGED <<disk, badWrites>>
    BY <1>1 DEF ledger
  <2> QED BY <1>1, <2>1, <2>2, IdleTells
<1>4. TypeOK'
  BY <1>1, <1>3 DEF ledger, queue, inbox, world, process, IInv, TypeOK
<1>5. /\ (\A t \in tasks : TaskOK(t))' /\ Synced' /\ SweepCovers'
      /\ (~up => mem = disk /\ tasks = {})'
  BY <1>1 DEF ledger, queue, inbox, world, process, IInv, TaskOK, Paid, Synced, SweepCovers
<1>6. (LedgerOK(mem) /\ LedgerOK(disk) /\ Extends(mem, disk))'
  BY <1>1, SameLedgers DEF ledger, IInv
<1>7. (\A o \in Orders : flight[o] # "" => Paid(mem, o))'
  BY <1>1, <1>2 DEF ledger, IInv, Paid
<1>20. Extends(disk', disk)
  BY <1>1, SelfExtends DEF ledger
<1> QED BY <1>20, <1>3, <1>4, <1>5, <1>6, <1>7 DEF Kept, IInv
-----------------------------------------------------------------------------
\* A task that leaves the inbox, or the queue's timers, and saves what it does.
LEMMA SavesAside ==
    ASSUME IInv, Idle, NEW L, LedgerOK(L), Extends(L, mem), NEW ok \in BOOLEAN, Save(L, ok),
           Onward(L, mem) \/ (tasks' = {} /\ \A o \in Orders : Paid(mem, o) => Paid(L, o)),
           L.by = mem.by, mem.rumors \subseteq L.rumors,
           tasks' \subseteq Task, \A t, u \in tasks' : t = u,
           \A t \in tasks' : t.at = "check",
           (\A t \in tasks : TaskOK(t))',
           waiting' \subseteq Wraps, sweep' \in Sweep, SweepCovers',
           timers' \subseteq [order : Orders, tx : Payments, attempt : 1..Repeats],
           flight' \in [Orders -> {"", "posted", "ok", "no", "late"}],
           \A o \in Orders : flight'[o] # "" => flight[o] # "",
           told' \subseteq Orders \X Payments, ToldIsSaved',
           UNCHANGED <<world, process>>
    PROVE  Kept
<1>1. /\ mem' = L /\ LedgerOK(disk') /\ Extends(L, disk') /\ badWrites' \in 0..MaxBadWrites
      /\ badWrites' = 0 => ok /\ badWrites = 0
      /\ ok => disk' = L
  BY SaveKeeps, ZenonT(30)
<1>2. (LedgerOK(mem) /\ LedgerOK(disk) /\ Extends(mem, disk))'
  BY <1>1, PrimedLedgers
<1>3. TypeOK'
  BY <1>1 DEF IInv, TypeOK, LedgerOK, world, process
<1>4. Synced'
  BY <1>1 DEF Synced
<1>5. (~up => mem = disk /\ tasks = {})'
  BY DEF Idle, process
<1>6. (\A o \in Orders : flight[o] # "" => Paid(mem, o))'
  BY <1>1 DEF IInv, Paid, Onward
<1>20. Extends(disk', disk)
  BY SaveKeeps, ZenonT(30)
<1> QED BY <1>20, <1>2, <1>3, <1>4, <1>5, <1>6 DEF Kept, IInv

LEMMA TakeOrderKeeps ==
    ASSUME IInv, NEW w \in waiting, NEW ok \in BOOLEAN, TakeOrder(w, ok)
    PROVE  Kept
<1> DEFINE L == [mem EXCEPT !.rumors = @ \cup {w}]
           M == [L EXCEPT !.status[w.order] = "open"]
<1>1. /\ Idle /\ w \in Wraps /\ w.order \in Orders /\ w.type = "order"
      /\ UNCHANGED <<tasks, timers, flight, world, process, told>> /\ tasks = {}
      /\ waiting' \subseteq Wraps
      /\ sweep' = [sweep EXCEPT !.ahead = @ \ {w}] /\ sweep' \in Sweep
  BY DEF TakeOrder, Taken, Idle, queue, IInv, TypeOK, Sweep
<1>2. sweep.live = sweep'.live /\ sweep'.upTo = sweep.upTo /\ sweep'.ahead = sweep.ahead \ {w}
  BY <1>1 DEF IInv, TypeOK, Sweep
<1>3. CASE mem.status[w.order] = "absent"
  <2>1. Save(M, ok)
    BY <1>3 DEF TakeOrder
  <2>2. LedgerOK(M) /\ Extends(M, mem) /\ M.by = mem.by /\ Onward(M, mem)
        /\ M.rumors = mem.rumors \cup {w}
    BY <1>1, <1>3, OrderKeeps DEF IInv
  <2> HIDE DEF M
  <2>3. mem' = M /\ ToldIsSaved'
    BY <1>1, <2>1, <2>2, SaveKeeps DEF ToldIsSaved
  <2>4. SweepCovers'
    BY <1>2, <2>2, <2>3 DEF SweepCovers, IInv
  <2>5. (\A t \in tasks : TaskOK(t))'
    BY <1>1
  <2>6. /\ tasks' \subseteq Task /\ (\A t, u \in tasks' : t = u) /\ \A t \in tasks' : t.at = "check"
        /\ told' \subseteq Orders \X Payments
        /\ timers' \subseteq [order : Orders, tx : Payments, attempt : 1..Repeats]
        /\ flight' \in [Orders -> {"", "posted", "ok", "no", "late"}]
        /\ \A o \in Orders : flight'[o] # "" => flight[o] # ""
    BY <1>1 DEF IInv, TypeOK
  <2> QED BY <1>1, <2>1, <2>2, <2>3, <2>4, <2>5, <2>6, SavesAside
<1>4. CASE mem.status[w.order] # "absent"
  <2>1. mem' = L /\ UNCHANGED <<disk, badWrites>>
    BY <1>4 DEF TakeOrder
  <2>2. LedgerOK(L) /\ Extends(L, mem) /\ L.by = mem.by /\ Onward(L, mem)
        /\ L.rumors = mem.rumors \cup {w}
    BY <1>1, <1>4, RumorKeeps DEF IInv
  <2> HIDE DEF L
  <2>3. SweepCovers'
    BY <1>2, <2>1, <2>2 DEF SweepCovers, IInv
  <2>4. (LedgerOK(mem) /\ LedgerOK(disk) /\ Extends(mem, disk))'
    <3>1. Extends(L, disk)
      BY <2>2 DEF IInv, Extends
    <3> QED BY <2>1, <2>2, <3>1, PrimedLedgers DEF IInv
  <2>5. TypeOK'
    BY <1>1, <2>1, <2>2 DEF IInv, TypeOK, LedgerOK, world, process
  <2>6. Synced' /\ ToldIsSaved' /\ (~up => mem = disk /\ tasks = {})'
    BY <1>1, <2>1, <2>2 DEF IInv, Synced, ToldIsSaved, Idle, process
  <2>7. (\A o \in Orders : flight[o] # "" => Paid(mem, o))'
    BY <1>1, <2>1, <2>2 DEF IInv, Onward, Paid
  <2>20. Extends(disk', disk)
    BY <2>1, SelfExtends
  <2> QED BY <2>20, <1>1, <2>3, <2>4, <2>5, <2>6, <2>7 DEF Kept, IInv
<1> QED BY <1>3, <1>4

LEMMA TakeEarlyReceiptKeeps ==
    ASSUME IInv, NEW w \in waiting, TakeEarlyReceipt(w)
    PROVE  Kept
<1>1. /\ w.type = "receipt" /\ waiting' \subseteq Wraps
      /\ UNCHANGED <<mem, disk, badWrites, tasks, timers, told, crashes, flight, aged, calm, up>>
      /\ sweep' = [sweep EXCEPT !.ahead = @ \ {w}]
  BY DEF TakeEarlyReceipt, Taken, ledger, queue, world, process, IInv, TypeOK
<1>2. sweep' \in Sweep /\ SweepCovers'
  BY <1>1 DEF IInv, TypeOK, Sweep, SweepCovers
<1> QED BY <1>1, <1>2, AsideKeeps DEF IInv, TypeOK

\* A check starts on an order that is open, or names its verdict.
LEMMA StartCheckKeeps ==
    ASSUME IInv, Idle, NEW o \in Orders, NEW p \in Payments, NEW n \in 0..Repeats,
           mem.status[o] \in {"open", "paid"}, StartCheck(o, p, n),
           LedgerOK(mem'), mem'.status = mem.status, mem'.by = mem.by
    PROVE  /\ tasks' \subseteq Task /\ (\A t, u \in tasks' : t = u)
           /\ \A t \in tasks' : t.at = "check"
           /\ (\A t \in tasks : TaskOK(t))'
<1> DEFINE new == [at |-> "check", order |-> o, tx |-> p, attempt |-> n, early |-> EarlyVerdict(o, p)]
<1>1. tasks' = {new}
  BY DEF StartCheck, Idle
<1>2. EarlyVerdict(o, p) \in {"refused", "paid", None}
  BY DEF EarlyVerdict
<1>3. new \in Task
  BY <1>2 DEF Task
<1>4. /\ EarlyVerdict(o, p) = "paid" => mem.by[o] = p
      /\ EarlyVerdict(o, p) = None => mem.by[o] = None
  BY DEF EarlyVerdict
<1>5. mem.by[o] = None => mem.status[o] = "open"
  BY DEF IInv, LedgerOK, Paid
<1>6. ASSUME NEW t \in tasks' PROVE TaskOK(t)'
  <2>1. t = new
    BY <1>1
  <2>2. t.at = "check" /\ t.order = o /\ t.tx = p /\ t.early = EarlyVerdict(o, p)
    BY <2>1
  <2> QED BY <1>4, <1>5, <2>2 DEF TaskOK
<1>7. \A t \in tasks' : t \in Task /\ t.at = "check" /\ t = new
  BY <1>1, <1>3
<1> HIDE DEF new
<1> QED BY <1>6, <1>7

LEMMA TakeReceiptKeeps ==
    ASSUME IInv, NEW w \in waiting, NEW live \in BOOLEAN, NEW ok \in BOOLEAN,
           TakeReceipt(w, live, ok)
    PROVE  Kept
<1> DEFINE o == w.order
           L == [mem EXCEPT !.rumors = @ \cup {w}, !.reported[o] = @ \cup {w.tx}]
           isNew == w.tx \notin mem.reported[o]
           full == isNew /\ Cardinality(mem.reported[o]) >= MaxReceipts
           started == ok /\ live /\ isNew /\ o \notin mem.done /\ w.tx \notin mem.judged[o]
<1>1. /\ Idle /\ w \in Wraps /\ o \in Orders /\ w.type = "receipt" /\ w.tx \in Payments
      /\ UNCHANGED <<timers, flight, world, process>> /\ tasks = {}
      /\ waiting' \subseteq Wraps
      /\ sweep' = [sweep EXCEPT !.ahead = @ \ {w}] /\ sweep' \in Sweep
      /\ mem.status[o] \in {"open", "paid"}
  <2>1. w \in Wraps /\ waiting \subseteq Wraps /\ sweep \in Sweep
    BY DEF IInv, TypeOK
  <2>2. /\ Idle /\ w.type = "receipt" /\ UNCHANGED <<timers, flight, world, process>> /\ tasks = {}
        /\ waiting' = waiting \ {w} /\ sweep' = [sweep EXCEPT !.ahead = @ \ {w}]
        /\ mem.status[o] \in {"open", "paid"}
    BY DEF TakeReceipt, Taken, Idle, queue
  <2>3. o \in Orders /\ w.tx \in Payments
    BY <2>1, <2>2
  <2>4. sweep' \in Sweep
    BY <2>1, <2>2 DEF Sweep
  <2> QED BY <2>1, <2>2, <2>3, <2>4
<1>2. sweep.live = sweep'.live /\ sweep'.upTo = sweep.upTo /\ sweep'.ahead = sweep.ahead \ {w}
  BY <1>1 DEF IInv, TypeOK, Sweep
<1>3. CASE full
  <2>1. UNCHANGED <<mem, disk, badWrites, tasks, told>>
    BY <1>3 DEF TakeReceipt, ledger
  <2>2. SweepCovers'
    BY <1>1, <1>2, <2>1 DEF IInv, SweepCovers
  <2> QED BY <1>1, <2>1, <2>2, AsideKeeps DEF IInv, TypeOK, world, process
<1>4. CASE ~full
  <2>1. /\ Save(L, ok)
        /\ IF ok THEN resend(o) ELSE UNCHANGED told
        /\ IF started THEN StartCheck(o, w.tx, 0) ELSE UNCHANGED tasks
    BY <1>4 DEF TakeReceipt
  <2>2. LedgerOK(L) /\ Extends(L, mem) /\ L.by = mem.by /\ Onward(L, mem)
        /\ L.status = mem.status /\ L.claims = mem.claims /\ L.rumors = mem.rumors \cup {w}
    BY <1>1, ReportKeeps DEF IInv
  <2> HIDE DEF L, started, full
  <2>3. /\ mem' = L /\ (ok => disk' = L) /\ LedgerOK(disk')
        /\ badWrites' = 0 => ok
        /\ badWrites' = 0 => \A e \in told : disk'.by[e[1]] = e[2]
    BY <2>1, <2>2, SaveKeeps
  <2>4. told' \subseteq Orders \X Payments /\ ToldIsSaved'
    <3>1. CASE ok
      <4>1. {o} \cap mem.done \in SUBSET Orders
        BY <1>1
      <4>2. \A q \in {o} \cap mem.done : Paid(disk', q)
        <5>1. \A q \in mem.done : Paid(mem, q)
          BY DEF IInv, LedgerOK
        <5>2. disk'.status = mem.status
          BY <2>2, <2>3, <3>1
        <5> QED BY <5>1, <5>2 DEF Paid
      <4>3. told' = told \cup ToldOf(disk', {o} \cap mem.done)
        BY <2>1, <2>2, <2>3, <3>1 DEF resend, ToldOf
      <4>4. disk' \in LedgerState
        BY <2>3 DEF LedgerOK
      <4> QED BY <2>3, <4>1, <4>2, <4>3, <4>4, SavedMayBeTold
    <3>2. CASE ~ok
      BY <2>1, <2>3, <3>2 DEF ToldIsSaved, IInv, TypeOK
    <3> QED BY <3>1, <3>2
  <2>5. SweepCovers'
    BY <1>2, <2>2, <2>3, <1>1 DEF SweepCovers, IInv
  <2>6. /\ tasks' \subseteq Task /\ (\A t, u \in tasks' : t = u) /\ \A t \in tasks' : t.at = "check"
        /\ (\A t \in tasks : TaskOK(t))'
    <3>1. CASE started
      <4>1. StartCheck(o, w.tx, 0) /\ LedgerOK(mem') /\ mem'.status = mem.status /\ mem'.by = mem.by
            /\ 0 \in 0..Repeats
        BY <2>1, <2>2, <2>3, <3>1
      <4> HIDE DEF o
      <4> QED BY <1>1, <4>1, StartCheckKeeps
    <3>2. CASE ~started
      BY <1>1, <2>1, <3>2
    <3> QED BY <3>1, <3>2
  <2>7. /\ timers' \subseteq [order : Orders, tx : Payments, attempt : 1..Repeats]
        /\ flight' \in [Orders -> {"", "posted", "ok", "no", "late"}]
        /\ \A q \in Orders : flight'[q] # "" => flight[q] # ""
    BY <1>1 DEF IInv, TypeOK
  <2>8. /\ Save(L, ok) /\ mem.rumors \subseteq L.rumors
        /\ UNCHANGED <<world, process>>
    BY <1>1, <2>1, <2>2
  <2>9. /\ Idle /\ LedgerOK(L) /\ Extends(L, mem) /\ Onward(L, mem) /\ L.by = mem.by
        /\ waiting' \subseteq Wraps /\ sweep' \in Sweep
    BY <1>1, <2>2
  <2> HIDE DEF o, isNew
  <2> QED BY <2>4, <2>5, <2>6, <2>7, <2>8, <2>9, SavesAside
<1> QED BY <1>3, <1>4

LEMMA AskAgainKeeps ==
    ASSUME IInv, NEW r \in timers, NEW live \in BOOLEAN, AskAgain(r, live)
    PROVE  Kept
<1>0. r \in [order : Orders, tx : Payments, attempt : 1..Repeats]
  BY DEF IInv, TypeOK
<1>1. /\ Idle /\ UNCHANGED <<ledger, inbox, flight, world, process, told>>
      /\ timers' \subseteq timers /\ tasks = {}
      /\ r.order \in Orders /\ r.tx \in Payments /\ r.attempt \in 0..Repeats
      /\ mem' = mem /\ disk' = disk
  BY <1>0 DEF AskAgain, Idle, ledger
<1>2. /\ tasks' \subseteq Task /\ (\A t, u \in tasks' : t = u) /\ (\A t \in tasks' : t.at = "check")
      /\ (\A t \in tasks : TaskOK(t))'
  <2>1. CASE tasks' = tasks
    BY <1>1, <2>1
  <2>2. CASE tasks' # tasks
    <3>1. StartCheck(r.order, r.tx, r.attempt) /\ mem.status[r.order] = "open"
      BY <2>2 DEF AskAgain
    <3>2. LedgerOK(mem') /\ mem'.status = mem.status /\ mem'.by = mem.by
      BY <1>1 DEF IInv
    <3> QED BY <1>1, <3>1, <3>2, StartCheckKeeps
  <2> QED BY <2>1, <2>2
<1>3. TypeOK'
  BY <1>1, <1>2 DEF ledger, inbox, world, process, IInv, TypeOK
<1>4. (LedgerOK(mem) /\ LedgerOK(disk) /\ Extends(mem, disk))'
  BY <1>1, SameLedgers DEF IInv
<1>5. /\ Synced' /\ ToldIsSaved' /\ SweepCovers' /\ (~up => mem = disk /\ tasks = {})'
      /\ (\A o \in Orders : flight[o] # "" => Paid(mem, o))'
  BY <1>1, <1>2 DEF ledger, inbox, process, IInv, Synced, ToldIsSaved, SweepCovers, Paid, Idle
<1>20. Extends(disk', disk)
  BY <1>1, SelfExtends
<1> QED BY <1>20, <1>2, <1>3, <1>4, <1>5 DEF Kept, IInv

LEMMA StartSweepKeeps ==
    ASSUME IInv, NEW gone \in SUBSET Orders, StartSweep(gone)
    PROVE  Kept
<1> DEFINE covered == IF sweep.live THEN sweep.upTo ELSE mem.covered
           M == [Pruned(mem, gone) EXCEPT !.covered = covered]
<1>1. /\ Idle /\ tasks = {} /\ sweep.ahead = {}
      /\ gone \in SUBSET {o \in Orders : mem.status[o] = "open"}
      /\ tasks' = {[at |-> "refresh"]} /\ sweep' = NoSweep
      /\ UNCHANGED <<disk, badWrites, timers, waiting, flight, world, process, told>>
  BY DEF StartSweep, Idle
<1>2. mem' = M
  BY DEF StartSweep, Pruned
<1>3. covered \in SUBSET Wraps /\ \A w \in covered : w.type = "order" => mem.status[w.order] # "absent"
  <2>1. CASE sweep.live
    BY <1>1, <2>1 DEF IInv, SweepCovers, LedgerOK, TypeOK, Sweep
  <2>2. CASE ~sweep.live
    BY <2>2 DEF IInv, LedgerOK, LedgerState
  <2> QED BY <2>1, <2>2
<1>4. LedgerOK(M) /\ Extends(M, mem) /\ M.by = mem.by /\ \A o \in Orders : Paid(M, o) <=> Paid(mem, o)
  <2> HIDE DEF covered
  <2>1. LedgerOK(mem)
    BY DEF IInv
  <2> QED BY <1>1, <1>3, <2>1, SweepStartKeeps, ZenonT(60)
<1> HIDE DEF M
<1>5. (LedgerOK(mem) /\ LedgerOK(disk) /\ Extends(mem, disk))'
  <2>1. Extends(M, disk)
    BY <1>4 DEF IInv, Extends
  <2> QED BY <1>1, <1>2, <1>4, <2>1, PrimedLedgers DEF IInv
<1>6. TypeOK'
  <2>1. tasks' \subseteq Task /\ (\A t, u \in tasks' : t = u)
    BY <1>1 DEF Task
  <2>2. sweep' \in Sweep
    BY <1>1 DEF NoSweep, Sweep
  <2> QED BY <1>1, <1>2, <1>4, <2>1, <2>2 DEF IInv, TypeOK, LedgerOK, world, process
<1>7. (\A t \in tasks : TaskOK(t))'
  BY <1>1 DEF TaskOK
<1>8. Synced' /\ ToldIsSaved' /\ SweepCovers' /\ (~up => mem = disk /\ tasks = {})'
  BY <1>1, <1>2, <1>4 DEF IInv, Synced, ToldIsSaved, SweepCovers, NoSweep, Idle, process
<1>9. (\A o \in Orders : flight[o] # "" => Paid(mem, o))'
  BY <1>1, <1>2, <1>4 DEF IInv, Paid
<1>20. Extends(disk', disk)
  BY <1>1, SelfExtends
<1> QED BY <1>20, <1>5, <1>6, <1>7, <1>8, <1>9 DEF Kept, IInv

LEMMA WebhookCommitKeeps ==
    ASSUME IInv, NEW o \in Orders, NEW state \in {"sent", "failed", "pending"}, NEW ok \in BOOLEAN,
           WebhookCommit(o, state, ok)
    PROVE  Kept
<1> DEFINE M == [mem EXCEPT !.hook[o] = state]
<1>1. /\ Idle /\ tasks = {} /\ UNCHANGED <<tasks, timers, waiting, sweep, world, process, told>>
      /\ flight' = [flight EXCEPT ![o] = ""] /\ Save(M, ok) /\ Paid(mem, o)
  BY DEF WebhookCommit, Idle, queue, inbox, IInv
<1>0. LedgerOK(mem) /\ state \in {"pending", "sent", "failed"}
  BY DEF IInv
<1>2. LedgerOK(M) /\ Extends(M, mem) /\ M.by = mem.by /\ Onward(M, mem) /\ M.rumors = mem.rumors
  BY <1>0, <1>1, HookKeeps
<1> HIDE DEF M
<1>3. mem' = M /\ ToldIsSaved'
  BY <1>1, <1>2, SaveKeeps DEF ToldIsSaved
<1>4. SweepCovers'
  BY <1>1, <1>2, <1>3 DEF IInv, SweepCovers
<1>5. /\ tasks' \subseteq Task /\ (\A t, u \in tasks' : t = u) /\ (\A t \in tasks' : t.at = "check")
      /\ (\A t \in tasks : TaskOK(t))'
  BY <1>1
<1>6. /\ told' \subseteq Orders \X Payments /\ waiting' \subseteq Wraps /\ sweep' \in Sweep
      /\ timers' \subseteq [order : Orders, tx : Payments, attempt : 1..Repeats]
      /\ flight' \in [Orders -> {"", "posted", "ok", "no", "late"}]
      /\ \A q \in Orders : flight'[q] # "" => flight[q] # ""
  BY <1>1 DEF IInv, TypeOK
<1> QED BY <1>1, <1>2, <1>3, <1>4, <1>5, <1>6, SavesAside

-----------------------------------------------------------------------------
(***************************************************************************)
(* The suspended task goes on.                                             *)
(***************************************************************************)
LEMMA OneTask ==
    ASSUME IInv, NEW t \in tasks
    PROVE  /\ tasks = {t} /\ t \in Task /\ TaskOK(t) /\ up
           /\ t.at = "check" => t.order \in Orders /\ t.tx \in Payments /\ t.attempt \in 0..Repeats
                                /\ t.early \in {"refused", "paid", None}
           /\ t.at = "rail" => t.rail \in 1..Rails /\ t.todo \subseteq Orders \X Payments
                               /\ t = [at |-> "rail", rail |-> t.rail, todo |-> t.todo]
           /\ t.at = "deliver" => t.pending \subseteq Orders
<1>1. tasks = {t} /\ t \in Task /\ TaskOK(t) /\ up
  BY DEF IInv, TypeOK
<1>2. CASE t \in [at : {"deliver"}, pending : SUBSET Orders]
  BY <1>1, <1>2
<1>3. CASE t \in [at : {"refresh"}]
  BY <1>1, <1>3
<1>4. CASE t \in [at : {"rail"}, rail : 1..Rails, todo : SUBSET (Orders \X Payments)]
  BY <1>1, <1>4
<1>5. CASE t \in [at : {"check"}, order : Orders, tx : Payments, attempt : 0..Repeats,
                  early : {"refused", "paid", None}]
  BY <1>1, <1>5
<1> QED BY <1>1, <1>2, <1>3, <1>4, <1>5 DEF Task

LEMMA DeliverTasksOK ==
    ASSUME NEW L, LedgerOK(L)
    PROVE  /\ DeliverTasks(L) \subseteq Task
           /\ \A t, u \in DeliverTasks(L) : t = u
           /\ \A t \in DeliverTasks(L) : t.at = "deliver" /\ t.pending = undeliveredOrders(L)
           /\ undeliveredOrders(L) \subseteq Orders
           /\ \A o \in undeliveredOrders(L) : Paid(L, o)
<1>1. undeliveredOrders(L) \subseteq Orders /\ \A o \in undeliveredOrders(L) : Paid(L, o)
  BY DEF undeliveredOrders, Paid
<1>2. \A t \in DeliverTasks(L) : t = [at |-> "deliver", pending |-> undeliveredOrders(L)]
  BY DEF DeliverTasks
<1> QED BY <1>1, <1>2 DEF Task

\* A task ends with a save; when that worked, what is paid may be told.
LEMMA TaskEnds ==
    ASSUME IInv, NEW t \in tasks, NEW L, LedgerOK(L), Extends(L, mem), Onward(L, mem),
           L.rumors = mem.rumors, NEW ok \in BOOLEAN, Save(L, ok),
           tasks' \subseteq DeliverTasks(L),
           told' = told \/ (ok /\ told' = told \cup ToldOf(L, undeliveredOrders(L))),
           timers' \subseteq [order : Orders, tx : Payments, attempt : 1..Repeats],
           UNCHANGED <<inbox, flight, world, process>>
    PROVE  Kept
<1>1. /\ mem' = L /\ (ok => disk' = L) /\ LedgerOK(disk') /\ Extends(L, disk')
      /\ badWrites' \in 0..MaxBadWrites
      /\ badWrites' = 0 => ok
      /\ badWrites' = 0 => \A e \in told : disk'.by[e[1]] = e[2]
  BY SaveKeeps, ZenonT(30)
<1>2. (LedgerOK(mem) /\ LedgerOK(disk) /\ Extends(mem, disk))'
  BY <1>1, PrimedLedgers
<1>3. told' \subseteq Orders \X Payments /\ ToldIsSaved'
  <2>1. CASE told' = told
    BY <1>1, <2>1 DEF ToldIsSaved, IInv, TypeOK
  <2>2. CASE told' # told
    <3>1. /\ told' = told \cup ToldOf(disk', undeliveredOrders(L)) /\ disk' = L
          /\ undeliveredOrders(L) \in SUBSET Orders
      BY <1>1, <2>2, DeliverTasksOK
    <3>2. (\A o \in undeliveredOrders(L) : Paid(disk', o)) /\ disk' \in LedgerState
      BY <3>1, DeliverTasksOK DEF LedgerOK
    <3> QED BY <1>1, <3>1, <3>2, SavedMayBeTold
  <2> QED BY <2>1, <2>2
<1>4. tasks' \subseteq Task /\ (\A u, v \in tasks' : u = v)
      /\ \A u \in tasks' : u.at = "deliver" /\ \A o \in u.pending : Paid(L, o)
  BY DeliverTasksOK
<1>5. TypeOK'
  BY <1>1, <1>3, <1>4 DEF IInv, TypeOK, LedgerOK, world, process, inbox
<1>6. (\A u \in tasks : TaskOK(u))'
  <2> SUFFICES ASSUME NEW u \in tasks' PROVE TaskOK(u)'
    OBVIOUS
  <2>1. u.at = "deliver" /\ \A o \in u.pending : Paid(mem', o)
    BY <1>1, <1>4
  <2> QED BY <2>1 DEF TaskOK, Paid
<1>7. up' /\ Synced' /\ SweepCovers'
  BY <1>1, OneTask DEF Synced, SweepCovers, IInv, process, inbox
<1>8. (\A o \in Orders : flight[o] # "" => Paid(mem, o))'
  BY <1>1 DEF IInv, Paid, Onward
<1>20. Extends(disk', disk)
  BY SaveKeeps, ZenonT(30)
<1> QED BY <1>20, <1>2, <1>3, <1>5, <1>6, <1>7, <1>8 DEF Kept, IInv

LEMMA CheckReportedKeeps ==
    ASSUME IInv, NEW t \in tasks, NEW verdict \in {"paid", "refused", "unresolved", "ask"},
           NEW ok \in BOOLEAN, CheckReported(t, verdict, ok)
    PROVE  Kept
<1> DEFINE L == Judge(mem, t.order, t.tx, verdict)
<1>1. /\ t.at = "check" /\ Save(L, ok)
      /\ verdict \in IF t.early = None THEN Verdicts(t.order, t.tx) ELSE {t.early}
      /\ tasks' \subseteq (tasks \ {t}) \cup DeliverTasks(L)
      /\ told' = told \/ (ok /\ told' = told \cup ToldOf(L, undeliveredOrders(L)))
      /\ UNCHANGED <<inbox, flight, world, process>>
  BY DEF CheckReported
<1>2. /\ tasks = {t} /\ TaskOK(t) /\ t.order \in Orders /\ t.tx \in Payments
      /\ t.attempt \in 0..Repeats
  BY <1>1, OneTask
<1>3. LedgerOK(mem) /\ mem.claims \in [Payments -> Orders \cup {None}]
  BY DEF IInv, LedgerOK, LedgerState
<1>4. verdict = "paid" => mem.by[t.order] = t.tx
                          \/ (mem.status[t.order] = "open" /\ mem.claims[t.tx] = None)
  <2> SUFFICES ASSUME verdict = "paid" PROVE mem.by[t.order] = t.tx
                          \/ (mem.status[t.order] = "open" /\ mem.claims[t.tx] = None)
    OBVIOUS
  <2>1. CASE t.early = None
    <3>1. mem.claims[t.tx] \in {None, t.order}
      BY <1>1, <2>1 DEF Verdicts
    <3>2. mem.status[t.order] = "open"
      BY <1>1, <1>2, <2>1 DEF TaskOK
    <3>3. mem.claims[t.tx] = t.order => mem.by[t.order] = t.tx
      BY <1>2, <1>3 DEF LedgerOK
    <3> QED BY <3>1, <3>2, <3>3
  <2>2. CASE t.early # None
    BY <1>1, <1>2, <2>2 DEF TaskOK
  <2> QED BY <2>1, <2>2
<1>5. LedgerOK(L) /\ Extends(L, mem) /\ Onward(L, mem)
  BY <1>2, <1>3, <1>4, JudgeKeeps
<1>6. L.rumors = mem.rumors
  BY <1>3 DEF Judge, recordPayment, LedgerOK, LedgerState
<1>7. timers' \subseteq [order : Orders, tx : Payments, attempt : 1..Repeats]
  <2>1. timers' = timers \/ (t.attempt < Repeats /\ timers' = timers \cup
            {[order |-> t.order, tx |-> t.tx, attempt |-> t.attempt + 1]})
    BY DEF CheckReported
  <2>2. timers \subseteq [order : Orders, tx : Payments, attempt : 1..Repeats]
    BY DEF IInv, TypeOK
  <2>3. Repeats \in Nat
    OBVIOUS
  <2>4. t.attempt < Repeats => t.attempt + 1 \in 1..Repeats
    BY <1>2, <2>3
  <2> QED BY <1>2, <2>1, <2>2, <2>4
<1>8. tasks' \subseteq DeliverTasks(L)
  BY <1>1, <1>2
<1> HIDE DEF L
<1> QED BY <1>1, <1>5, <1>6, <1>7, <1>8, TaskEnds

LEMMA EndSweepKeeps ==
    ASSUME IInv, NEW t \in tasks, NEW ok \in BOOLEAN, EndSweep(t, ok)
    PROVE  Kept
<1>1. /\ Save(mem, ok) /\ tasks' \subseteq (tasks \ {t}) \cup DeliverTasks(mem)
      /\ told' = told \/ (ok /\ told' = told \cup ToldOf(mem, undeliveredOrders(mem)))
      /\ UNCHANGED <<timers, inbox, flight, world, process>>
  BY DEF EndSweep
<1>2. tasks' \subseteq DeliverTasks(mem)
  BY <1>1, OneTask
<1>3. LedgerOK(mem) /\ timers' \subseteq [order : Orders, tx : Payments, attempt : 1..Repeats]
  BY <1>1 DEF IInv, TypeOK
<1> QED BY <1>1, <1>2, <1>3, SelfExtends, TaskEnds

LEMMA DeliverStepKeeps ==
    ASSUME IInv, NEW t \in tasks, NEW got \in [Orders -> SUBSET Relays],
           NEW old \in SUBSET Orders, NEW ok \in BOOLEAN, Deliver(t, got, old, ok)
    PROVE  Kept
<1> DEFINE new == [o \in Orders |-> IF o \in t.pending THEN mem.to[o] \cup got[o] ELSE mem.to[o]]
           delivered == {o \in t.pending : deliveryDone(mem.to[o] \cup got[o], o \in old)}
           L == [mem EXCEPT !.to = new, !.done = @ \cup delivered]
<1>1. /\ t.at = "deliver" /\ tasks' = tasks \ {t}
      /\ UNCHANGED <<timers, inbox, flight, world, process, told>>
      /\ IF L = mem THEN ok /\ UNCHANGED ledger ELSE Save(L, ok)
  BY DEF Deliver
<1>2. tasks = {t} /\ t.pending \subseteq Orders /\ \A o \in t.pending : Paid(mem, o)
  BY <1>1, OneTask DEF TaskOK
<1>3. new \in [Orders -> SUBSET Relays]
  <2>1. mem.to \in [Orders -> SUBSET Relays]
    BY DEF IInv, TypeOK, LedgerState
  <2> QED BY <2>1
<1>4. delivered \in SUBSET Orders /\ \A o \in delivered : Paid(mem, o)
  BY <1>2
<1>5. LedgerOK(L) /\ Extends(L, mem) /\ Onward(L, mem) /\ L.rumors = mem.rumors
  <2>1. LedgerOK(mem)
    BY DEF IInv
  <2> HIDE DEF new, delivered
  <2> QED BY <1>3, <1>4, <2>1, DeliverKeeps, ZenonT(60)
<1> HIDE DEF L
<1>6. CASE L = mem
  <2>1. UNCHANGED <<ledger, timers, inbox, flight, world, process, told>> /\ tasks' = {}
    BY <1>1, <1>2, <1>6
  <2>2. (LedgerOK(mem) /\ LedgerOK(disk) /\ Extends(mem, disk))'
    BY <2>1, SameLedgers DEF IInv, ledger
  <2>3. TypeOK'
    BY <2>1 DEF ledger, inbox, world, process, IInv, TypeOK
  <2>4. (\A u \in tasks : TaskOK(u))' /\ up'
    BY <2>1, OneTask DEF process
  <2>5. Synced'
    BY <1>1, <1>2, <2>1 DEF ledger, IInv, Synced
  <2>6. /\ ToldIsSaved' /\ SweepCovers'
        /\ (\A o \in Orders : flight[o] # "" => Paid(mem, o))'
    BY <2>1 DEF ledger, inbox, IInv, ToldIsSaved, SweepCovers, Paid
  <2>20. Extends(disk', disk)
    BY <2>1, SelfExtends DEF ledger
  <2> QED BY <2>20, <2>2, <2>3, <2>4, <2>5, <2>6 DEF Kept, IInv
<1>7. CASE L # mem
  <2>1. tasks' \subseteq DeliverTasks(L) /\ Save(L, ok)
    BY <1>1, <1>2, <1>7
  <2>2. timers' \subseteq [order : Orders, tx : Payments, attempt : 1..Repeats]
    BY <1>1 DEF IInv, TypeOK
  <2> QED BY <1>1, <1>5, <2>1, <2>2, TaskEnds
<1> QED BY <1>6, <1>7

\* The sweep goes on in memory: nothing is saved, and the next task is a rail.
LEMMA SweepGoesOn ==
    ASSUME IInv, NEW t \in tasks, NEW L, LedgerOK(L), Extends(L, mem), Onward(L, mem),
           L.rumors = mem.rumors, mem' = L, NEW rail \in 1..Rails,
           NEW todo \in SUBSET (Orders \X Payments),
           \A e \in todo : L.status[e[1]] \in {"open", "paid"},
           tasks' = (tasks \ {t}) \cup {[at |-> "rail", rail |-> rail, todo |-> todo]},
           UNCHANGED <<disk, badWrites, timers, inbox, flight, world, process, told>>
    PROVE  Kept
<1> DEFINE new == [at |-> "rail", rail |-> rail, todo |-> todo]
<1>1. tasks' = {new} /\ up
  BY OneTask
<1>2. (LedgerOK(mem) /\ LedgerOK(disk) /\ Extends(mem, disk))'
  <2>1. Extends(L, disk)
    BY DEF IInv, Extends
  <2>2. disk' = disk
    OBVIOUS
  <2> QED BY <2>1, <2>2, PrimedLedgers DEF IInv
<1>3. tasks' \subseteq Task /\ (\A u, v \in tasks' : u = v)
  BY <1>1 DEF Task
<1>4. TypeOK'
  BY <1>3 DEF IInv, TypeOK, LedgerOK, world, process, inbox
<1>5. (\A u \in tasks : TaskOK(u))'
  <2> SUFFICES ASSUME NEW u \in tasks' PROVE TaskOK(u)'
    OBVIOUS
  <2>1. u.at = "rail" /\ u.todo = todo
    BY <1>1
  <2> QED BY <2>1 DEF TaskOK
<1>6. up' /\ Synced' /\ ToldIsSaved' /\ SweepCovers'
  <2>1. new \in tasks' /\ new.at = "rail"
    BY <1>1
  <2> QED BY <1>1, <2>1 DEF IInv, Synced, ToldIsSaved, SweepCovers, inbox, process
<1>7. (\A o \in Orders : flight[o] # "" => Paid(mem, o))'
  BY DEF IInv, Onward, Paid
<1>20. Extends(disk', disk)
  BY SelfExtends
<1> QED BY <1>20, <1>2, <1>4, <1>5, <1>6, <1>7 DEF Kept, IInv

LEMMA CandidatesOK ==
    ASSUME NEW L, NEW rail
    PROVE  /\ Candidates(L, rail) \in SUBSET (Orders \X Payments)
           /\ \A e \in Candidates(L, rail) : L.status[e[1]] \in {"open", "paid"}
BY DEF Candidates, openOrders

LEMMA RefreshKeeps ==
    ASSUME IInv, NEW t \in tasks, NEW known \in BOOLEAN, Refresh(t, known)
    PROVE  Kept
<1> DEFINE L == [mem EXCEPT !.known = known]
<1>1. /\ mem' = L /\ tasks' = (tasks \ {t}) \cup {RailTask(L, 1)}
      /\ UNCHANGED <<disk, badWrites, timers, inbox, flight, world, process, told>>
  BY DEF Refresh
<1>2. LedgerOK(L) /\ Extends(L, mem) /\ Onward(L, mem) /\ L.rumors = mem.rumors
  <2>1. LedgerOK(mem)
    BY DEF IInv
  <2> QED BY <2>1, KnownKeeps
<1> HIDE DEF L
<1>3. 1 \in 1..Rails
  OBVIOUS
<1> QED BY <1>1, <1>2, <1>3, CandidatesOK, SweepGoesOn DEF RailTask

LEMMA NextRailKeeps ==
    ASSUME IInv, NEW t \in tasks, NextRail(t)
    PROVE  Kept
<1>1. /\ t.at = "rail" /\ t.rail < Rails /\ tasks' = (tasks \ {t}) \cup {RailTask(mem, t.rail + 1)}
      /\ UNCHANGED <<ledger, timers, inbox, flight, world, process, told>>
  BY DEF NextRail, RailOver
<1>2. t.rail \in 1..Rails
  BY <1>1, OneTask
<1>3. t.rail + 1 \in 1..Rails
  BY <1>1, <1>2
<1>4. LedgerOK(mem)
  BY DEF IInv
<1>5. mem' = mem /\ UNCHANGED <<disk, badWrites, timers, inbox, flight, world, process, told>>
  BY <1>1 DEF ledger
<1> QED BY <1>1, <1>3, <1>4, <1>5, SelfExtends, CandidatesOK, SweepGoesOn DEF RailTask

LEMMA RailStepKeeps ==
    ASSUME IInv, NEW t \in tasks, NEW o \in Orders, NEW p \in Payments,
           NEW verdict \in {"paid", "refused", "unresolved", "ask"}, RailStep(t, o, p, verdict)
    PROVE  Kept
<1> DEFINE L == Judge(mem, o, p, verdict)
<1>1. /\ t.at = "rail" /\ <<o, p>> \in t.todo
      /\ tasks' = (tasks \ {t}) \cup {RailGoesOn(t, <<o, p>>)}
      /\ UNCHANGED <<disk, badWrites, timers, inbox, flight, world, process, told>>
  BY DEF RailStep
<1>2. /\ t.rail \in 1..Rails /\ t.todo \subseteq Orders \X Payments /\ TaskOK(t)
      /\ t = [at |-> "rail", rail |-> t.rail, todo |-> t.todo]
  BY <1>1, OneTask
<1>4. \A e \in t.todo : mem.status[e[1]] \in {"open", "paid"}
  BY <1>1, <1>2 DEF TaskOK
<1>5. LedgerOK(mem) /\ Extends(mem, mem) /\ Onward(mem, mem)
  BY SelfExtends DEF IInv
<1> DEFINE todo == t.todo \ {<<o, p>>}
<1>8. /\ tasks' = (tasks \ {t}) \cup {[at |-> "rail", rail |-> t.rail, todo |-> todo]}
      /\ t.rail \in 1..Rails /\ todo \in SUBSET (Orders \X Payments)
      /\ \A e \in todo : e[1] \in Orders /\ mem.status[e[1]] \in {"open", "paid"}
      /\ UNCHANGED <<disk, badWrites, timers, inbox, flight, world, process, told>>
  BY <1>1, <1>2, <1>4 DEF RailGoesOn
<1>6. CASE mem' = mem
  <2> HIDE DEF todo
  <2> QED BY <1>5, <1>6, <1>8, SweepGoesOn
<1>7. CASE mem' # mem
  <2>1. mem' = L /\ mem.by[o] = None /\ mem.claims[p] = None
    BY <1>7 DEF RailStep
  <2>2. mem.status[o] = "open"
    <3>1. mem.status[o] \in {"open", "paid"}
      BY <1>1, <1>4
    <3> QED BY <1>5, <2>1, <3>1 DEF LedgerOK, Paid
  <2>3. LedgerOK(L) /\ Extends(L, mem) /\ Onward(L, mem)
    BY <1>5, <2>1, <2>2, JudgeKeeps
  <2>4. L.rumors = mem.rumors
    BY <1>5 DEF Judge, recordPayment, LedgerOK, LedgerState
  <2> HIDE DEF L
  <2> HIDE DEF todo
  <2>5. \A e \in todo : L.status[e[1]] \in {"open", "paid"}
    BY <1>8, <2>3 DEF Onward
  <2> QED BY <1>8, <2>1, <2>3, <2>4, <2>5, SweepGoesOn
<1> QED BY <1>6, <1>7

-----------------------------------------------------------------------------
(***************************************************************************)
(* The process stops; the owner's commands run while it is down.           *)
(***************************************************************************)
LEMMA DownKeeps ==
    ASSUME IInv, NEW saved, LedgerOK(saved), Extends(saved, disk), Down(saved)
    PROVE  Kept
<1>1. /\ mem' = saved /\ disk' = saved /\ tasks' = {} /\ timers' = {} /\ waiting' = {}
      /\ up' = FALSE /\ crashes' = crashes + 1 /\ crashes < MaxCrashes
      /\ sweep' = NoSweep /\ flight' = [o \in Orders |-> ""]
      /\ aged' \subseteq aged /\ UNCHANGED <<badWrites, calm, told>>
  BY DEF Down
<1>2. (LedgerOK(mem) /\ LedgerOK(disk) /\ Extends(mem, disk))'
  BY <1>1, SelfExtends, PrimedLedgers
<1>3. crashes' \in 0..MaxCrashes
  <2>1. crashes \in 0..MaxCrashes /\ MaxCrashes \in Nat
    BY DEF IInv, TypeOK
  <2>2. crashes' = crashes + 1 /\ crashes < MaxCrashes
    BY <1>1
  <2> QED BY <2>1, <2>2
<1>4. sweep' \in Sweep
  BY <1>1 DEF NoSweep, Sweep
<1>5. TypeOK'
  BY <1>1, <1>3, <1>4 DEF IInv, TypeOK, LedgerOK
<1>6. ToldIsSaved'
  <2>1. told \subseteq Orders \X Payments
    BY DEF IInv, TypeOK
  <2> QED BY <1>1, <2>1 DEF IInv, ToldIsSaved, Extends
<1>7. Synced' /\ SweepCovers' /\ (\A u \in tasks : TaskOK(u))' /\ (~up => mem = disk /\ tasks = {})'
  BY <1>1 DEF Synced, SweepCovers, NoSweep
<1>8. (\A o \in Orders : flight[o] # "" => Paid(mem, o))'
  BY <1>1
<1>20. Extends(disk', disk)
  BY <1>1
<1> QED BY <1>20, <1>2, <1>5, <1>6, <1>7, <1>8 DEF Kept, IInv

LEMMA CrashKeeps == ASSUME IInv, Crash PROVE Kept
<1>1. LedgerOK(disk) /\ Extends(disk, disk)
  BY SelfExtends DEF IInv
<1> QED BY <1>1, DownKeeps DEF Crash

LEMMA WrongClusterKeeps ==
    ASSUME IInv, NEW t \in tasks, NEW ok \in BOOLEAN, WrongCluster(t, ok)
    PROVE  Kept
<1>1. CASE ok
  BY <1>1, DownKeeps DEF WrongCluster, IInv
<1>2. CASE ~ok
  <2>1. /\ Save(mem, FALSE) /\ tasks' = tasks \ {t} /\ told' = told
        /\ UNCHANGED <<timers, inbox, flight, world, process>>
    BY <1>2 DEF WrongCluster
  <2>2. tasks' \subseteq DeliverTasks(mem)
    BY <2>1, OneTask
  <2>3. LedgerOK(mem) /\ timers' \subseteq [order : Orders, tx : Payments, attempt : 1..Repeats]
    BY <2>1 DEF IInv, TypeOK
  <2> QED BY <2>1, <2>2, <2>3, SelfExtends, TaskEnds
<1> QED BY <1>1, <1>2

LEMMA OwnerKeeps ==
    ASSUME IInv, ~up, UNCHANGED <<badWrites, queue, inbox, flight, world, process>>,
           NEW L, mem' = L, disk' = L, LedgerOK(L), L.by = disk.by, L.rumors = disk.rumors,
           \A o \in Orders : Paid(disk, o) => Paid(L, o),
           NEW os \in SUBSET Orders, \A o \in os : Paid(disk, o),
           told' = told \cup ToldOf(L, os)
    PROVE  Kept
<1>1. mem = disk /\ tasks = {}
  BY DEF IInv
<1>2. (LedgerOK(mem) /\ LedgerOK(disk) /\ Extends(mem, disk))'
  BY SelfExtends, PrimedLedgers
<1>3. told' \subseteq Orders \X Payments /\ ToldIsSaved'
  <2>1. badWrites' = 0 => \A e \in told : disk'.by[e[1]] = e[2]
    BY DEF IInv, ToldIsSaved
  <2>2. disk' \in LedgerState /\ \A o \in os : Paid(disk', o)
    BY DEF LedgerOK
  <2> QED BY <2>1, <2>2, SavedMayBeTold
<1>4. TypeOK'
  BY <1>3 DEF IInv, TypeOK, LedgerOK, queue, inbox, world, process
<1>5. /\ Synced' /\ SweepCovers' /\ (\A u \in tasks : TaskOK(u))'
      /\ (~up => mem = disk /\ tasks = {})'
  BY <1>1 DEF IInv, Synced, SweepCovers, queue, inbox, process
<1>6. (\A o \in Orders : flight[o] # "" => Paid(mem, o))'
  BY <1>1 DEF IInv, Paid
<1>20. Extends(disk', disk)
  BY DEF Extends
<1> QED BY <1>20, <1>2, <1>3, <1>4, <1>5, <1>6 DEF Kept, IInv

LEMMA HandAnswerKeeps ==
    ASSUME IInv, NEW o \in Orders, NEW kind \in {"complete", "refund"}, HandAnswer(o, kind)
    PROVE  Kept
<1> DEFINE L == applyHandAnswer(disk, o, kind)
<1>1. /\ ~up /\ disk.status[o] \in {"open", "closed"} /\ mem' = L /\ disk' = L
      /\ UNCHANGED <<badWrites, queue, inbox, flight, world, process>> /\ told' = told
  BY DEF HandAnswer, planHandAnswer
<1>2. LedgerOK(disk)
  BY DEF IInv
<1>3. LedgerOK(L) /\ L.by = disk.by
  BY <1>1, <1>2, AnswerKeeps
<1>4. L.rumors = disk.rumors /\ L.status = [disk.status EXCEPT ![o] = "closed"]
  BY <1>2 DEF applyHandAnswer, LedgerOK, LedgerState
<1>5. \A q \in Orders : Paid(disk, q) => Paid(L, q)
  BY <1>1, <1>2, <1>4 DEF Paid, LedgerOK, LedgerState
<1> HIDE DEF L
<1>6. told' = told \cup ToldOf(L, {})
  BY <1>1 DEF ToldOf
<1> QED BY <1>1, <1>3, <1>4, <1>5, <1>6, OwnerKeeps

LEMMA WebhookAgainKeeps ==
    ASSUME IInv, NEW o \in Orders, NEW kind \in {"retry", "resend"},
           NEW result \in {"pending", "sent"}, WebhookAgain(o, kind, result)
    PROVE  Kept
<1> DEFINE L == [disk EXCEPT !.hook[o] = result]
<1>1. /\ ~up /\ Paid(disk, o) /\ mem' = L /\ disk' = L
      /\ UNCHANGED <<badWrites, queue, inbox, flight, world, process>>
      /\ told' = told \cup ToldOf(disk, {o})
  BY DEF WebhookAgain, rearmWebhook, Paid
<1>2. LedgerOK(disk) /\ result \in {"pending", "sent", "failed"}
  BY DEF IInv
<1>3. LedgerOK(L) /\ L.by = disk.by /\ Onward(L, disk) /\ L.rumors = disk.rumors
  BY <1>1, <1>2, HookKeeps
<1> HIDE DEF L
<1>4. told' = told \cup ToldOf(L, {o})
  BY <1>1, <1>3 DEF ToldOf
<1>5. \A q \in Orders : Paid(disk, q) => Paid(L, q)
  BY <1>3 DEF Onward
<1>6. {o} \in SUBSET Orders /\ \A q \in {o} : Paid(disk, q)
  BY <1>1
<1> QED BY <1>1, <1>3, <1>4, <1>5, <1>6, OwnerKeeps

-----------------------------------------------------------------------------
LEMMA InitHolds == Init => IInv
<1> SUFFICES ASSUME Init PROVE IInv
  OBVIOUS
<1>1. emptyLedger \in LedgerState
  BY DEF emptyLedger, LedgerState
<1>2. LedgerOK(emptyLedger)
  BY <1>1 DEF LedgerOK, emptyLedger, Paid
<1>3. TypeOK
  <2>1. MaxCrashes \in Nat /\ MaxBadWrites \in Nat
    OBVIOUS
  <2>2. 0 \in 0..MaxCrashes /\ 0 \in 0..MaxBadWrites
    BY <2>1
  <2>3. NoSweep \in Sweep
    BY DEF NoSweep, Sweep
  <2>4. [o \in Orders |-> ""] \in [Orders -> {"", "posted", "ok", "no", "late"}]
    OBVIOUS
  <2> QED BY <1>1, <2>2, <2>3, <2>4 DEF Init, TypeOK
<1> QED BY <1>2, <1>3, SelfExtends DEF Init, IInv, Synced, ToldIsSaved, SweepCovers, NoSweep

LEMMA StepKeeps == IInv /\ [Next]_vars => Kept
<1> SUFFICES ASSUME IInv, [Next]_vars PROVE Kept
  OBVIOUS
<1>0. waiting \subseteq Wraps
  BY DEF IInv, TypeOK
<1>1. CASE TakeWrap
  BY <1>1, TakeEarlyReceiptKeeps, TakeOrderKeeps, TakeReceiptKeeps DEF TakeWrap
<1>2. CASE TakeTimer
  BY <1>2, AskAgainKeeps DEF TakeTimer
<1>3. CASE TakeSweep
  BY <1>3, StartSweepKeeps DEF TakeSweep
<1>4. CASE Resume
  <2> PICK t \in tasks :
        \/ \E v \in {"paid", "refused", "unresolved", "ask"}, ok \in BOOLEAN :
              CheckReported(t, v, ok)
        \/ \E known \in BOOLEAN : Refresh(t, known)
        \/ \E e \in Orders \X Payments, v \in {"paid", "refused", "unresolved", "ask"} :
              RailStep(t, e[1], e[2], v)
        \/ NextRail(t)
        \/ \E ok \in BOOLEAN : EndSweep(t, ok)
        \/ \E got \in [Orders -> SUBSET Relays], old \in SUBSET Orders, ok \in BOOLEAN :
              Deliver(t, got, old, ok)
    BY <1>4 DEF Resume
  <2> QED BY CheckReportedKeeps, RefreshKeeps, RailStepKeeps, NextRailKeeps, EndSweepKeeps,
             DeliverStepKeeps
<1>5. CASE \E o \in Orders : TakeTick(o) \/ TakeOutcome(o)
  BY <1>5, WebhookTickKeeps, WebhookCommitKeeps DEF TakeTick, TakeOutcome
<1>6. CASE \E o \in Orders, answer \in {"ok", "no"} : WebhookAnswer(o, answer)
  BY <1>6, WebhookAnswerKeeps
<1>7. CASE \E live \in BOOLEAN : QueueSweep(live)
  BY <1>7, QueueSweepKeeps
<1>8. CASE \E w \in Wraps : Receive(w) \/ ReadAgain(w)
  BY <1>8, ReceiveKeeps, ReadAgainKeeps
<1>9. CASE Owner
  BY <1>9, HandAnswerKeeps, WebhookAgainKeeps DEF Owner
<1>10. CASE World \/ Start
  BY <1>10, WorldKeeps DEF World
<1>11. CASE Crash
  BY <1>11, CrashKeeps
<1>12. CASE \E t \in tasks, ok \in BOOLEAN : WrongCluster(t, ok)
  BY <1>12, WrongClusterKeeps
<1>13. CASE UNCHANGED vars
  <2>1. UNCHANGED <<mem, disk, badWrites, tasks, timers, told, crashes, waiting, sweep, flight,
                    aged, calm, up>>
    BY <1>13 DEF vars, ledger, queue, inbox, world, process
  <2> QED BY <2>1, AsideKeeps DEF IInv, TypeOK, SweepCovers
<1> QED BY <1>1, <1>2, <1>3, <1>4, <1>5, <1>6, <1>7, <1>8, <1>9, <1>10, <1>11, <1>12, <1>13
        DEF Next, Node

-----------------------------------------------------------------------------
\* The invariant holds in every state of the store: memory extends the file,
\* and what was told of is in the file.
THEOREM InductiveInvariant == Spec => []IInv
<1>1. IInv /\ [Next]_vars => IInv'
  BY StepKeeps DEF Kept
<1> QED BY <1>1, InitHolds, PTL DEF Spec

\* Every variable has its type, and at most one task is under way.
THEOREM TypeCorrect == Spec => []TypeOK
<1>1. IInv => TypeOK
  BY DEF IInv
<1> QED BY <1>1, InductiveInvariant, PTL

\* Nobody is told of two payments of one order, nor of one payment for two
\* orders, over every crash, sweep and command: told is in the file, and in the
\* file by and claims are each other's inverse.
THEOREM ToldOnce == Spec => []AnnouncedOnce
<1>1. IInv => AnnouncedOnce
  <2> SUFFICES ASSUME IInv, badWrites = 0, NEW a \in told, NEW b \in told
               PROVE a[1] = b[1] <=> a[2] = b[2]
    BY DEF AnnouncedOnce
  <2>1. a \in Orders \X Payments /\ b \in Orders \X Payments
    BY DEF IInv, TypeOK
  <2>2. disk.by[a[1]] = a[2] /\ disk.by[b[1]] = b[2]
    BY DEF IInv, ToldIsSaved
  <2>3. disk.claims[a[2]] = a[1] /\ disk.claims[b[2]] = b[1]
    <3>1. \A o \in Orders, p \in Payments : disk.by[o] = p <=> disk.claims[p] = o
      BY DEF IInv, LedgerOK
    <3>2. a[1] \in Orders /\ a[2] \in Payments /\ b[1] \in Orders /\ b[2] \in Payments
      BY <2>1
    <3> QED BY <2>2, <3>1, <3>2
  <2>4. a[2] = b[2] => a[1] = b[1]
    BY <2>3
  <2>5. a[1] = b[1] => a[2] = b[2]
    BY <2>2
  <2> QED BY <2>4, <2>5
<1> QED BY <1>1, InductiveInvariant, PTL

\* An order answered by hand is closed, so it has no payment and was told to nobody.
THEOREM AnsweredOnce == Spec => []AnsweredIsNotTold
<1>1. IInv => AnsweredIsNotTold
  <2> SUFFICES ASSUME IInv, badWrites = 0, NEW o \in Orders, disk.answer[o] # None,
                      NEW p \in Payments, <<o, p>> \in told
               PROVE FALSE
    BY DEF AnsweredIsNotTold
  <2>1. disk.by[o] = p /\ p # None
    BY DEF IInv, ToldIsSaved
  <2>2. disk.status[o] = "paid" /\ disk.status[o] = "closed"
    BY <2>1 DEF IInv, LedgerOK, Paid
  <2> QED BY <2>2
<1> QED BY <1>1, InductiveInvariant, PTL

\* What the resume point covers is in the file: no order is lost to a restart.
THEOREM OrdersAreKept == Spec => []OrderIsNotLost
<1>1. IInv => OrderIsNotLost
  BY DEF IInv, LedgerOK, OrderIsNotLost
<1> QED BY <1>1, InductiveInvariant, PTL
-----------------------------------------------------------------------------
\* The claims of a ledger, as the set of what Settlement calls spent.
ClaimsOf(L) == {e \in Payments \X Orders : L.claims[e[1]] = e[2]}

LEMMA ClaimsGrow ==
    ASSUME NEW L, LedgerOK(L), NEW M, LedgerOK(M), Extends(M, L)
    PROVE  ClaimsOf(L) \subseteq ClaimsOf(M) /\ \A a, b \in ClaimsOf(M) : a[1] = b[1] => a = b
<1>1. \A e \in Payments \X Orders : L.claims[e[1]] = e[2] => M.claims[e[1]] = e[2]
  <2> SUFFICES ASSUME NEW p \in Payments, NEW o \in Orders, L.claims[p] = o
               PROVE  M.claims[p] = o
    OBVIOUS
  <2>1. L.by[o] = p /\ L.by[o] # None
    BY DEF LedgerOK
  <2>2. M.by[o] = p
    BY <2>1 DEF Extends
  <2> QED BY <2>2 DEF LedgerOK
<1>2. \A a, b \in ClaimsOf(M) : a[1] = b[1] => a = b
  BY DEF ClaimsOf
<1> QED BY <1>1, <1>2 DEF ClaimsOf

\* The claims in the file implement Settlement: no step takes a payment back or
\* spends it twice, the crashes, the failed saves and the commands included.
THEOREM StoreSettles == Spec => ClaimsAreSettled
<1>1. Init => Claims!Init
  <2> SUFFICES ASSUME Init PROVE Claims!Init
    OBVIOUS
  <2>1. claimed = {}
    BY DEF Init, emptyLedger, claimed
  <2> QED BY <2>1 DEF Claims!Init, Claims!Once
<1>2. IInv /\ [Next]_vars => [Claims!Spend]_claimed
  <2> SUFFICES ASSUME IInv, [Next]_vars PROVE Claims!Spend
    OBVIOUS
  <2>1. Extends(disk', disk) /\ LedgerOK(disk) /\ IInv'
    BY StepKeeps DEF IInv, Kept
  <2>2. LedgerOK(disk')
    BY <2>1 DEF IInv, LedgerOK, LedgerState, Paid
  <2>3. claimed = ClaimsOf(disk) /\ claimed' = ClaimsOf(disk')
    BY DEF claimed, ClaimsOf
  <2>4. claimed' \subseteq Payments \X Orders
    BY DEF claimed
  <2> QED BY <2>1, <2>2, <2>3, <2>4, ClaimsGrow DEF Claims!Spend, Claims!Once
<1> QED BY <1>1, <1>2, InductiveInvariant, PTL DEF ClaimsAreSettled, Claims!Spec, Spec
-----------------------------------------------------------------------------
(***************************************************************************)
(* A payment that waits for the treasuries.  It leaves the ledger only as  *)
(* its order is paid or answered, or the payment is claimed: Over, which   *)
(* no change of the ledger takes back.                                     *)
(***************************************************************************)
InSight(L, o, p) == p \in L.unresolved[o] \/ <<o, p>> \in L.kept

Over(L, o, p) == Paid(L, o) \/ L.answer[o] # None \/ L.claims[p] # None

\* A payment waits only for an order that it verifies for.
Verified(L) == \A o \in Orders, p \in Payments : p \in L.unresolved[o] => o \in Pays[p]

\* M is what a change of L leaves.
Follows(M, L) ==
    /\ \A o \in Orders, p \in Payments : Over(L, o, p) => Over(M, o, p)
    /\ \A o \in Orders, p \in Payments : InSight(L, o, p) => InSight(M, o, p) \/ Over(M, o, p)
    /\ Verified(L) => Verified(M)

HookStays(M, L) == \A o \in Orders : L.hook[o] = "pending" => M.hook[o] = "pending"

LEMMA SelfFollows ==
    ASSUME NEW L
    PROVE  Follows(L, L) /\ HookStays(L, L)
BY DEF Follows, HookStays

LEMMA AsideFollows ==
    ASSUME NEW L, NEW M, M.unresolved = L.unresolved, M.kept = L.kept, M.claims = L.claims,
           M.answer = L.answer, \A o \in Orders : Paid(L, o) => Paid(M, o)
    PROVE  Follows(M, L)
BY DEF Follows, InSight, Over, Verified

LEMMA RecordFollows ==
    ASSUME NEW L, LedgerOK(L), NEW o \in Orders, NEW p \in Payments
    PROVE  LET M == recordPayment(L, o, p) IN Follows(M, L) /\ HookStays(M, L)
<1> DEFINE M == recordPayment(L, o, p)
<1>1. /\ L.status \in [Orders -> {"absent", "open", "paid", "closed"}]
      /\ L.claims \in [Payments -> Orders \cup {None}]
      /\ L.hook \in [Orders -> {"none", "pending", "sent", "failed"}]
      /\ L.unresolved \in [Orders -> SUBSET Payments]
  BY DEF LedgerOK, LedgerState
<1>2. /\ M.status = [L.status EXCEPT ![o] = "paid"] /\ M.claims = [L.claims EXCEPT ![p] = o]
      /\ M.hook = [L.hook EXCEPT ![o] = "pending"] /\ M.answer = L.answer
      /\ M.unresolved = [L.unresolved EXCEPT ![o] = {}] /\ M.kept = L.kept
  BY DEF LedgerOK, LedgerState, recordPayment
<1> HIDE DEF M
<1>3. Paid(M, o) /\ \A q \in Orders : q # o => (Paid(M, q) <=> Paid(L, q))
  BY <1>1, <1>2 DEF Paid
<1>4. \A r \in Payments : L.claims[r] # None => M.claims[r] # None
  BY <1>1, <1>2
<1>5. \A q \in Orders : q # o => M.unresolved[q] = L.unresolved[q]
  BY <1>1, <1>2
<1>6. \A q \in Orders, r \in Payments : Over(L, q, r) => Over(M, q, r)
  BY <1>2, <1>3, <1>4 DEF Over
<1>7. \A q \in Orders, r \in Payments : InSight(L, q, r) => InSight(M, q, r) \/ Over(M, q, r)
  BY <1>2, <1>3, <1>5 DEF InSight, Over
<1>8. Verified(L) => Verified(M)
  BY <1>1, <1>2, <1>5 DEF Verified
<1>9. HookStays(M, L)
  BY <1>1, <1>2 DEF HookStays
<1> QED BY <1>6, <1>7, <1>8, <1>9 DEF Follows, M

\* A refusal drops the payment: it is over, or was never one for this order.
LEMMA JudgeFollows ==
    ASSUME NEW L, LedgerOK(L), NEW o \in Orders, NEW p \in Payments, NEW verdict,
           verdict = "refused" => o \notin Pays[p] \/ Over(L, o, p),
           verdict = "unresolved" => o \in Pays[p],
           Verified(L)
    PROVE  LET M == Judge(L, o, p, verdict) IN Follows(M, L) /\ HookStays(M, L)
<1> DEFINE M == Judge(L, o, p, verdict)
<1>1. L \in LedgerState /\ L.unresolved \in [Orders -> SUBSET Payments]
  BY DEF LedgerOK, LedgerState
<1>2. CASE M = L
  <2> HIDE DEF M
  <2>1. Follows(M, L) /\ HookStays(M, L)
    BY <1>2, SelfFollows
  <2> QED BY <2>1 DEF M
<1>3. CASE verdict = "paid" /\ M # L
  <2>1. M = recordPayment(L, o, p)
    BY <1>3 DEF Judge
  <2> QED BY <2>1, RecordFollows
<1>4. CASE verdict \in {"refused", "unresolved"}
  <2>1. /\ M.status = L.status /\ M.claims = L.claims /\ M.hook = L.hook
        /\ M.answer = L.answer /\ M.kept = L.kept
        /\ M.unresolved = [L.unresolved EXCEPT ![o] = IF verdict = "refused" THEN L.unresolved[o] \ {p}
                                                      ELSE L.unresolved[o] \cup {p}]
    BY <1>1, <1>4 DEF Judge, LedgerState
  <2> HIDE DEF M
  <2>2. \A q \in Orders, r \in Payments : Over(L, q, r) <=> Over(M, q, r)
    BY <2>1 DEF Over, Paid
  <2>3. \A q \in Orders, r \in Payments :
            r \in L.unresolved[q] => r \in M.unresolved[q] \/ Over(M, q, r)
    BY <1>1, <1>4, <2>1, <2>2 DEF Verified
  <2>4. \A q \in Orders, r \in Payments : InSight(L, q, r) => InSight(M, q, r) \/ Over(M, q, r)
    BY <2>1, <2>3 DEF InSight
  <2>5. Verified(M)
    BY <1>1, <1>4, <2>1 DEF Verified
  <2>6. HookStays(M, L)
    BY <2>1 DEF HookStays
  <2> QED BY <2>2, <2>4, <2>5, <2>6 DEF Follows, M
<1> QED BY <1>2, <1>3, <1>4 DEF Judge

LEMMA PrunedFollows ==
    ASSUME NEW L, LedgerOK(L), NEW gone \in SUBSET {o \in Orders : L.status[o] = "open"},
           NEW covered
    PROVE  LET M == [Pruned(L, gone) EXCEPT !.covered = covered]
           IN  Follows(M, L) /\ HookStays(M, L)
<1> DEFINE M == [Pruned(L, gone) EXCEPT !.covered = covered]
<1>1. L \in LedgerState
  BY DEF LedgerOK
<1>2. /\ M.status = [o \in Orders |-> IF o \in gone THEN "closed" ELSE L.status[o]]
      /\ M.unresolved = [o \in Orders |-> IF o \in gone THEN {} ELSE L.unresolved[o]]
      /\ M.kept = L.kept \cup {e \in gone \X Payments : e[2] \in L.unresolved[e[1]]}
      /\ M.claims = L.claims /\ M.answer = L.answer /\ M.hook = L.hook
  BY <1>1 DEF LedgerState, Pruned
<1> HIDE DEF M
<1>3. \A o \in Orders, p \in Payments : Over(L, o, p) => Over(M, o, p)
  BY <1>2 DEF Over, Paid
<1>4. \A o \in Orders, p \in Payments : InSight(L, o, p) => InSight(M, o, p)
  BY <1>2 DEF InSight
<1>5. Verified(L) => Verified(M)
  BY <1>2 DEF Verified
<1>6. HookStays(M, L)
  BY <1>2 DEF HookStays
<1> QED BY <1>3, <1>4, <1>5, <1>6 DEF Follows, M

LEMMA AnswerFollows ==
    ASSUME NEW L, LedgerOK(L), NEW o \in Orders, L.status[o] \in {"open", "closed"},
           NEW kind \in {"complete", "refund"}
    PROVE  LET M == applyHandAnswer(L, o, kind) IN Follows(M, L)
<1> DEFINE M == applyHandAnswer(L, o, kind)
<1>1. /\ L \in LedgerState /\ L.status \in [Orders -> {"absent", "open", "paid", "closed"}]
      /\ L.answer \in [Orders -> {"complete", "refund", None}]
      /\ L.unresolved \in [Orders -> SUBSET Payments]
  BY DEF LedgerOK, LedgerState
<1>2. /\ M.status = [L.status EXCEPT ![o] = "closed"] /\ M.answer = [L.answer EXCEPT ![o] = kind]
      /\ M.unresolved = [L.unresolved EXCEPT ![o] = {}] /\ M.kept = {e \in L.kept : e[1] # o}
      /\ M.claims = L.claims
  BY <1>1 DEF LedgerState, applyHandAnswer
<1> HIDE DEF M
<1>3. M.answer[o] # None /\ ~Paid(L, o)
  BY <1>1, <1>2 DEF Paid
<1>4. \A q \in Orders : q # o => /\ Paid(L, q) => Paid(M, q)
                                 /\ M.answer[q] = L.answer[q]
                                 /\ M.unresolved[q] = L.unresolved[q]
  BY <1>1, <1>2 DEF Paid
<1>5. \A q \in Orders, r \in Payments : Over(L, q, r) => Over(M, q, r)
  BY <1>2, <1>3, <1>4 DEF Over
<1>6. \A q \in Orders, r \in Payments : InSight(L, q, r) => InSight(M, q, r) \/ Over(M, q, r)
  BY <1>2, <1>3, <1>4 DEF InSight, Over
<1>7. Verified(L) => Verified(M)
  BY <1>1, <1>2, <1>4 DEF Verified
<1> QED BY <1>5, <1>6, <1>7 DEF Follows, M
-----------------------------------------------------------------------------
(***************************************************************************)
(* What holds between the steps: memory has in sight what the file has,    *)
(* a check that refuses without a read has its reason in the ledger.       *)
(***************************************************************************)
Refusal(t) == t.at = "check" /\ t.early = "refused" => Over(mem, t.order, t.tx)

Sight ==
    /\ \A o \in Orders, p \in Payments : InSight(disk, o, p) => InSight(mem, o, p) \/ Over(mem, o, p)
    /\ Verified(mem) /\ Verified(disk)
    /\ \A t \in tasks : Refusal(t)

StaysInSight == \A o \in Orders, p \in Payments : InSight(disk, o, p) => InSight(disk', o, p) \/ Over(disk', o, p)

SightKept == Sight' /\ StaysInSight

\* A step of memory, saved or not.
LEMMA StepSees ==
    ASSUME IInv, Sight, Follows(mem', mem), disk' = disk \/ disk' = mem',
           \A t \in tasks' : t \in tasks \/ t.at # "check" \/ Refusal(t)'
    PROVE  SightKept
<1>1. \A o \in Orders, p \in Payments :
          InSight(disk, o, p) => InSight(mem', o, p) \/ Over(mem', o, p)
  BY DEF Sight, Follows
<1>2. StaysInSight
  BY <1>1 DEF StaysInSight
<1>3. (\A o \in Orders, p \in Payments : InSight(disk, o, p) => InSight(mem, o, p) \/ Over(mem, o, p))'
  BY <1>1 DEF InSight, Over, Paid
<1>4. Verified(mem') /\ Verified(disk')
  BY DEF Sight, Follows
<1>5. (Verified(mem) /\ Verified(disk))'
  BY <1>4 DEF Verified
<1>6. ASSUME NEW t \in tasks' PROVE Refusal(t)'
  <2>1. CASE t \in tasks /\ t.at = "check"
    <3>1. t.order \in Orders /\ t.tx \in Payments /\ Refusal(t)
      BY <2>1, OneTask DEF Sight
    <3>2. t.early = "refused" => Over(mem', t.order, t.tx)
      BY <2>1, <3>1 DEF Refusal, Follows
    <3> QED BY <3>2 DEF Refusal, Over, Paid
  <2>2. CASE t.at # "check"
    BY <2>2 DEF Refusal
  <2> QED BY <2>1, <2>2
<1>7. (\A t \in tasks : Refusal(t))'
  BY <1>6
<1>8. Sight'
  BY <1>3, <1>5, <1>7 DEF Sight
<1> QED BY <1>2, <1>8 DEF SightKept

\* The ledgers stay, and so do the tasks or they end.
LEMMA AsideSees ==
    ASSUME IInv, Sight, mem' = mem, disk' = disk, \A t \in tasks' : t \in tasks \/ t.at # "check"
    PROVE  SightKept
BY SelfFollows, StepSees

LEMMA SaveSplits ==
    ASSUME NEW L, NEW ok \in BOOLEAN, Save(L, ok)
    PROVE  mem' = L /\ (disk' = disk \/ disk' = mem')
BY DEF Save

LEMMA CheckSees ==
    ASSUME IInv, NEW o \in Orders, NEW p \in Payments, NEW n, StartCheck(o, p, n),
           tasks = {}, mem'.claims = mem.claims, mem'.by = mem.by, LedgerOK(mem'),
           mem'.status = mem.status
    PROVE  \A t \in tasks' : Refusal(t)'
<1>1. \A t \in tasks' : t = [at |-> "check", order |-> o, tx |-> p, attempt |-> n,
                             early |-> EarlyVerdict(o, p)]
  BY DEF StartCheck
<1>2. \A t \in tasks' : t.order = o /\ t.tx = p /\ t.early = EarlyVerdict(o, p)
  BY <1>1
<1>3. EarlyVerdict(o, p) = "refused" => mem.claims[p] # None \/ mem.by[o] # None
  BY DEF EarlyVerdict
<1>4. mem.by[o] # None => Paid(mem', o)
  <2>1. LedgerOK(mem) /\ mem'.status = mem.status
    BY DEF IInv
  <2> QED BY <2>1 DEF LedgerOK, Paid
<1>5. EarlyVerdict(o, p) = "refused" => Over(mem', o, p)
  BY <1>3, <1>4 DEF Over
<1> QED BY <1>2, <1>5 DEF Refusal, Over, Paid

LEMMA TakeOrderSees ==
    ASSUME IInv, Sight, NEW w \in waiting, NEW ok \in BOOLEAN, TakeOrder(w, ok)
    PROVE  SightKept
<1> DEFINE L == [mem EXCEPT !.rumors = @ \cup {w}]
           M == [L EXCEPT !.status[w.order] = "open"]
<1>1. /\ w.order \in Orders /\ tasks' = tasks
      /\ mem \in LedgerState /\ mem.status \in [Orders -> {"absent", "open", "paid", "closed"}]
  <2>1. w \in Wraps /\ tasks' = tasks /\ mem \in LedgerState
    BY DEF TakeOrder, queue, IInv, TypeOK
  <2> QED BY <2>1 DEF LedgerState
<1>2. CASE mem.status[w.order] = "absent"
  <2>1. Save(M, ok)
    BY <1>2 DEF TakeOrder
  <2>2. mem' = M /\ (disk' = disk \/ disk' = mem')
    BY <2>1, SaveSplits
  <2>3. /\ M.unresolved = mem.unresolved /\ M.kept = mem.kept /\ M.claims = mem.claims
        /\ M.answer = mem.answer /\ M.status = [mem.status EXCEPT ![w.order] = "open"]
    BY <1>1 DEF LedgerState
  <2> HIDE DEF M
  <2>4. \A o \in Orders : Paid(mem, o) => Paid(M, o)
    BY <1>1, <1>2, <2>3 DEF Paid
  <2>5. Follows(mem', mem)
    BY <2>2, <2>3, <2>4, AsideFollows
  <2> QED BY <1>1, <2>2, <2>5, StepSees
<1>3. CASE mem.status[w.order] # "absent"
  <2>1. mem' = L /\ disk' = disk
    BY <1>3 DEF TakeOrder
  <2>2. /\ L.unresolved = mem.unresolved /\ L.kept = mem.kept /\ L.claims = mem.claims
        /\ L.answer = mem.answer /\ L.status = mem.status
    BY <1>1 DEF LedgerState
  <2>3. Follows(mem', mem)
    BY <2>1, <2>2, AsideFollows DEF Paid
  <2> QED BY <1>1, <2>1, <2>3, StepSees
<1> QED BY <1>2, <1>3

LEMMA TakeReceiptSees ==
    ASSUME IInv, Sight, NEW w \in waiting, NEW live \in BOOLEAN, NEW ok \in BOOLEAN,
           TakeReceipt(w, live, ok)
    PROVE  SightKept
<1> DEFINE o == w.order
           L == [mem EXCEPT !.rumors = @ \cup {w}, !.reported[o] = @ \cup {w.tx}]
           full == w.tx \notin mem.reported[o] /\ Cardinality(mem.reported[o]) >= MaxReceipts
<1>1. /\ w \in Wraps /\ o \in Orders /\ w.type = "receipt" /\ w.tx \in Payments /\ tasks = {}
      /\ LedgerOK(mem) /\ mem \in LedgerState
  BY DEF TakeReceipt, Taken, Idle, IInv, TypeOK
<1>2. CASE full
  <2>1. UNCHANGED <<mem, disk, tasks>>
    BY <1>2 DEF TakeReceipt, ledger
  <2> QED BY <2>1, AsideSees
<1>3. CASE ~full
  <2>1. Save(L, ok) /\ (StartCheck(o, w.tx, 0) \/ tasks' = tasks)
    BY <1>3 DEF TakeReceipt
  <2>2. mem' = L /\ (disk' = disk \/ disk' = mem')
    BY <2>1, SaveSplits
  <2>3. /\ L.unresolved = mem.unresolved /\ L.kept = mem.kept /\ L.claims = mem.claims
        /\ L.answer = mem.answer /\ L.status = mem.status /\ L.by = mem.by
    BY <1>1 DEF LedgerState
  <2>4. LedgerOK(L)
    BY <1>1, ReportKeeps
  <2> HIDE DEF L, full
  <2>5. Follows(mem', mem)
    BY <2>2, <2>3, AsideFollows DEF Paid
  <2>6. \A t \in tasks' : t \in tasks \/ Refusal(t)'
    <3>1. CASE tasks' = tasks
      BY <3>1
    <3>2. CASE StartCheck(o, w.tx, 0)
      <4>1. /\ mem'.claims = mem.claims /\ mem'.by = mem.by /\ LedgerOK(mem')
            /\ mem'.status = mem.status
        BY <2>2, <2>3, <2>4
      <4> HIDE DEF o
      <4> QED BY <1>1, <3>2, <4>1, CheckSees
    <3> QED BY <2>1, <3>1, <3>2
  <2> QED BY <2>2, <2>5, <2>6, StepSees
<1> QED BY <1>2, <1>3

LEMMA AskAgainSees ==
    ASSUME IInv, Sight, NEW r \in timers, NEW live \in BOOLEAN, AskAgain(r, live)
    PROVE  SightKept
<1>1. /\ tasks = {} /\ r.order \in Orders /\ r.tx \in Payments
      /\ mem' = mem /\ disk' = disk
      /\ StartCheck(r.order, r.tx, r.attempt) \/ tasks' = tasks
  BY DEF AskAgain, Idle, ledger, IInv, TypeOK
<1>2. \A t \in tasks' : t \in tasks \/ Refusal(t)'
  <2>1. CASE tasks' = tasks
    BY <2>1
  <2>2. CASE StartCheck(r.order, r.tx, r.attempt)
    <3>1. LedgerOK(mem')
      BY <1>1 DEF IInv
    <3> QED BY <1>1, <2>2, <3>1, CheckSees
  <2> QED BY <1>1, <2>1, <2>2
<1> QED BY <1>1, <1>2, SelfFollows, StepSees

LEMMA StartSweepSees ==
    ASSUME IInv, Sight, NEW gone \in SUBSET Orders, StartSweep(gone)
    PROVE  SightKept
<1> DEFINE covered == IF sweep.live THEN sweep.upTo ELSE mem.covered
           M == [Pruned(mem, gone) EXCEPT !.covered = covered]
<1>1. /\ gone \in SUBSET {o \in Orders : mem.status[o] = "open"} /\ LedgerOK(mem)
      /\ tasks' = {[at |-> "refresh"]} /\ disk' = disk /\ mem' = M
  BY DEF StartSweep, Idle, IInv, Pruned
<1>2. Follows(M, mem)
  <2> HIDE DEF covered
  <2> QED BY <1>1, PrunedFollows
<1> HIDE DEF M
<1>3. \A t \in tasks' : t.at # "check"
  BY <1>1
<1> QED BY <1>1, <1>2, <1>3, StepSees

LEMMA CheckReportedSees ==
    ASSUME IInv, Sight, NEW t \in tasks, NEW verdict \in {"paid", "refused", "unresolved", "ask"},
           NEW ok \in BOOLEAN, CheckReported(t, verdict, ok)
    PROVE  SightKept
<1> DEFINE L == Judge(mem, t.order, t.tx, verdict)
<1>1. /\ t.at = "check" /\ Save(L, ok)
      /\ verdict \in IF t.early = None THEN Verdicts(t.order, t.tx) ELSE {t.early}
      /\ tasks' \subseteq (tasks \ {t}) \cup DeliverTasks(L)
  BY DEF CheckReported
<1>2. t.order \in Orders /\ t.tx \in Payments /\ t.early \in {"refused", "paid", None}
  BY <1>1, OneTask
<1>3. LedgerOK(mem) /\ Verified(mem) /\ Refusal(t)
  BY DEF IInv, Sight
<1>4. verdict = "unresolved" => t.order \in Pays[t.tx]
  BY <1>1, <1>2 DEF Verdicts
<1>5. verdict = "refused" => t.order \notin Pays[t.tx] \/ Over(mem, t.order, t.tx)
  BY <1>1, <1>2, <1>3 DEF Verdicts, Refusal, Over
<1>6. Follows(L, mem)
  BY <1>2, <1>3, <1>4, <1>5, JudgeFollows
<1>7. mem' = L /\ (disk' = disk \/ disk' = mem')
  BY <1>1, SaveSplits
<1>8. \A u \in tasks' : u \in tasks \/ u.at # "check"
  BY <1>1 DEF DeliverTasks
<1> HIDE DEF L
<1> QED BY <1>6, <1>7, <1>8, StepSees

LEMMA RailStepSees ==
    ASSUME IInv, Sight, NEW t \in tasks, NEW o \in Orders, NEW p \in Payments,
           NEW verdict \in {"paid", "refused", "unresolved", "ask"}, RailStep(t, o, p, verdict)
    PROVE  SightKept
<1>1. disk' = disk /\ \A u \in tasks' : u \in tasks \/ u.at # "check"
  BY DEF RailStep, RailGoesOn
<1>2. Follows(mem', mem)
  <2>1. CASE mem' = mem
    BY <2>1, SelfFollows
  <2>2. CASE mem' # mem
    <3>1. mem' = Judge(mem, o, p, verdict) /\ verdict \in Verdicts(o, p) /\ mem.claims[p] = None
      BY <2>2 DEF RailStep
    <3>2. /\ verdict = "unresolved" => o \in Pays[p]
          /\ verdict = "refused" => o \notin Pays[p] \/ Over(mem, o, p)
          /\ LedgerOK(mem) /\ Verified(mem)
      BY <3>1 DEF Verdicts, IInv, Sight
    <3> QED BY <3>1, <3>2, JudgeFollows
  <2> QED BY <2>1, <2>2
<1> QED BY <1>1, <1>2, StepSees

LEMMA RefreshSees ==
    ASSUME IInv, Sight, NEW t \in tasks, NEW known \in BOOLEAN, Refresh(t, known)
    PROVE  SightKept
<1>1. /\ mem' = [mem EXCEPT !.known = known] /\ disk' = disk
      /\ \A u \in tasks' : u \in tasks \/ u.at # "check"
  BY DEF Refresh, RailTask
<1>2. /\ mem'.unresolved = mem.unresolved /\ mem'.kept = mem.kept /\ mem'.claims = mem.claims
      /\ mem'.answer = mem.answer /\ mem'.status = mem.status
  BY <1>1 DEF IInv, TypeOK, LedgerState
<1>3. Follows(mem', mem)
  BY <1>2, AsideFollows DEF Paid
<1> QED BY <1>1, <1>3, StepSees

LEMMA DeliverSees ==
    ASSUME IInv, Sight, NEW t \in tasks, NEW got \in [Orders -> SUBSET Relays],
           NEW old \in SUBSET Orders, NEW ok \in BOOLEAN, Deliver(t, got, old, ok)
    PROVE  SightKept
<1> DEFINE new == [o \in Orders |-> IF o \in t.pending THEN mem.to[o] \cup got[o] ELSE mem.to[o]]
           delivered == {o \in t.pending : deliveryDone(mem.to[o] \cup got[o], o \in old)}
           L == [mem EXCEPT !.to = new, !.done = @ \cup delivered]
<1>1. tasks' = tasks \ {t} /\ IF L = mem THEN ok /\ UNCHANGED ledger ELSE Save(L, ok)
  BY DEF Deliver
<1>2. /\ L.unresolved = mem.unresolved /\ L.kept = mem.kept /\ L.claims = mem.claims
      /\ L.answer = mem.answer /\ L.status = mem.status
  BY DEF IInv, TypeOK, LedgerState
<1> HIDE DEF L
<1>3. Follows(L, mem)
  BY <1>2, AsideFollows DEF Paid
<1>4. mem' = L /\ (disk' = disk \/ disk' = mem')
  BY <1>1, SaveSplits DEF ledger
<1> QED BY <1>1, <1>3, <1>4, StepSees

LEMMA CommitSees ==
    ASSUME IInv, Sight, NEW o \in Orders, NEW state, NEW ok \in BOOLEAN, WebhookCommit(o, state, ok)
    PROVE  SightKept
<1> DEFINE L == [mem EXCEPT !.hook[o] = state]
<1>1. tasks' = tasks /\ mem' = L /\ (disk' = disk \/ disk' = mem')
  BY SaveSplits DEF WebhookCommit, queue
<1>2. /\ L.unresolved = mem.unresolved /\ L.kept = mem.kept /\ L.claims = mem.claims
      /\ L.answer = mem.answer /\ L.status = mem.status
  BY DEF IInv, TypeOK, LedgerState
<1> HIDE DEF L
<1>3. Follows(mem', mem)
  BY <1>1, <1>2, AsideFollows DEF Paid
<1> QED BY <1>1, <1>3, StepSees
\* The owner works on the file, which memory equals while the node is down.
LEMMA OwnerSees == ASSUME IInv, Sight, Owner PROVE SightKept
<1>1. CASE \E o \in Orders, kind \in {"complete", "refund"} : HandAnswer(o, kind)
  <2> PICK o \in Orders, kind \in {"complete", "refund"} : HandAnswer(o, kind)
    BY <1>1
  <2>1. /\ mem = disk /\ LedgerOK(disk) /\ disk.status[o] \in {"open", "closed"} /\ tasks' = tasks
        /\ disk' = applyHandAnswer(disk, o, kind) /\ mem' = disk'
    BY DEF HandAnswer, planHandAnswer, queue, IInv
  <2>2. Follows(mem', mem)
    BY <2>1, AnswerFollows
  <2> QED BY <2>1, <2>2, StepSees
<1>2. CASE \E o \in Orders, kind \in {"retry", "resend"}, result \in {"pending", "sent"} :
              WebhookAgain(o, kind, result)
  <2> PICK o \in Orders, kind \in {"retry", "resend"}, result \in {"pending", "sent"} :
              WebhookAgain(o, kind, result)
    BY <1>2
  <2>1. /\ mem = disk /\ disk \in LedgerState /\ tasks' = tasks
        /\ disk' = [disk EXCEPT !.hook[o] = result] /\ mem' = disk'
    BY DEF WebhookAgain, queue, IInv, TypeOK
  <2>2. /\ mem'.unresolved = mem.unresolved /\ mem'.kept = mem.kept /\ mem'.claims = mem.claims
        /\ mem'.answer = mem.answer /\ mem'.status = mem.status
    BY <2>1 DEF LedgerState
  <2>3. Follows(mem', mem)
    BY <2>2, AsideFollows DEF Paid
  <2> QED BY <2>1, <2>3, StepSees
<1> QED BY <1>1, <1>2 DEF Owner

\* A crash takes memory back to the file.
LEMMA CrashSees == ASSUME IInv, Sight, Crash PROVE SightKept
<1>1. mem' = disk /\ disk' = disk /\ tasks' = {}
  BY DEF Crash, Down
<1>2. Sight'
  BY <1>1 DEF Sight, InSight, Over, Paid, Verified
<1> QED BY <1>1, <1>2 DEF SightKept, StaysInSight

LEMMA WrongClusterSees ==
    ASSUME IInv, Sight, NEW t \in tasks, NEW ok \in BOOLEAN, WrongCluster(t, ok)
    PROVE  SightKept
<1>1. mem' = mem /\ (disk' = disk \/ disk' = mem') /\ tasks' \subseteq tasks
  BY SaveSplits DEF WrongCluster, Down
<1> QED BY <1>1, SelfFollows, StepSees

LEMMA SightStep == IInv /\ Sight /\ [Next]_vars => SightKept
<1> SUFFICES ASSUME IInv, Sight, [Next]_vars PROVE SightKept
  OBVIOUS
<1>1. CASE TakeWrap
  <2>1. ASSUME NEW w \in waiting, TakeEarlyReceipt(w) PROVE SightKept
    BY <2>1, AsideSees DEF TakeEarlyReceipt, ledger, queue
  <2> QED BY <1>1, <2>1, TakeOrderSees, TakeReceiptSees DEF TakeWrap
<1>2. CASE TakeTimer
  BY <1>2, AskAgainSees DEF TakeTimer
<1>3. CASE TakeSweep
  BY <1>3, StartSweepSees DEF TakeSweep
<1>4. CASE Resume
  <2> PICK t \in tasks :
        \/ \E v \in {"paid", "refused", "unresolved", "ask"}, ok \in BOOLEAN :
              CheckReported(t, v, ok)
        \/ \E known \in BOOLEAN : Refresh(t, known)
        \/ \E e \in Orders \X Payments, v \in {"paid", "refused", "unresolved", "ask"} :
              RailStep(t, e[1], e[2], v)
        \/ NextRail(t)
        \/ \E ok \in BOOLEAN : EndSweep(t, ok)
        \/ \E got \in [Orders -> SUBSET Relays], old \in SUBSET Orders, ok \in BOOLEAN :
              Deliver(t, got, old, ok)
    BY <1>4 DEF Resume
  <2>1. CASE NextRail(t)
    <3>1. mem' = mem /\ disk' = disk /\ \A u \in tasks' : u \in tasks \/ u.at # "check"
      BY <2>1 DEF NextRail, RailTask, ledger
    <3> QED BY <3>1, AsideSees
  <2>2. ASSUME NEW ok \in BOOLEAN, EndSweep(t, ok) PROVE SightKept
    <3>1. mem' = mem /\ (disk' = disk \/ disk' = mem')
          /\ \A u \in tasks' : u \in tasks \/ u.at # "check"
      BY <2>2, SaveSplits DEF EndSweep, DeliverTasks
    <3> QED BY <3>1, SelfFollows, StepSees
  <2> QED BY <2>1, <2>2, CheckReportedSees, RefreshSees, RailStepSees, DeliverSees
<1>5. CASE \E o \in Orders : TakeTick(o) \/ TakeOutcome(o)
  <2>1. ASSUME NEW picked, NEW late, WebhookTick(picked, late) PROVE SightKept
    BY <2>1, AsideSees DEF WebhookTick, ledger, queue
  <2> QED BY <1>5, <2>1, CommitSees DEF TakeTick, TakeOutcome
<1>6. CASE \/ \E o \in Orders, answer \in {"ok", "no"} : WebhookAnswer(o, answer)
           \/ \E live \in BOOLEAN : QueueSweep(live)
           \/ \E w \in Wraps : Receive(w) \/ ReadAgain(w)
           \/ World \/ Start \/ UNCHANGED vars
  BY <1>6, AsideSees
     DEF WebhookAnswer, QueueSweep, Receive, ReadAgain, World, GrowOld, Calm, Start, vars, ledger, queue
<1> QED BY <1>1, <1>2, <1>3, <1>4, <1>5, <1>6, OwnerSees, CrashSees, WrongClusterSees
        DEF Next, Node

\* A payment that waits for the treasuries is not lost from the file: not by a
\* sweep that closes its order, a refusal, a crash or a save that failed.
THEOREM UnresolvedKept == Spec => UnresolvedIsKept
<1>1. Init => Sight
  <2> SUFFICES ASSUME Init PROVE Sight
    OBVIOUS
  <2>1. /\ tasks = {} /\ mem.kept = {} /\ disk.kept = {}
        /\ \A o \in Orders : mem.unresolved[o] = {} /\ disk.unresolved[o] = {}
    BY DEF Init, emptyLedger
  <2> QED BY <2>1 DEF Sight, InSight, Verified
<1>2. IInv /\ Sight /\ [Next]_vars => Sight'
  BY SightStep DEF SightKept
<1>3. IInv /\ Sight /\ [Next]_vars =>
          [\A o \in Orders, p \in Payments :
               p \in disk.unresolved[o] \/ <<o, p>> \in disk.kept
               => \/ p \in disk'.unresolved[o] \/ <<o, p>> \in disk'.kept
                  \/ disk'.status[o] = "paid" \/ disk'.answer[o] # None
                  \/ disk'.claims[p] # None]_vars
  BY SightStep DEF SightKept, StaysInSight, InSight, Over, Paid
<1> QED BY <1>1, <1>2, <1>3, InductiveInvariant, PTL DEF Spec, UnresolvedIsKept
-----------------------------------------------------------------------------
(***************************************************************************)
(* A webhook that is in flight is pending in memory: the tick that would   *)
(* send it again does not pick it, and its outcome takes it out of flight. *)
(***************************************************************************)
InFlightIsPending == \A o \in Orders : flight[o] # "" => up /\ mem.hook[o] = "pending"

NotResent ==
    \A o \in Orders : up' /\ (flight[o] = "ok" \/ mem.hook[o] = "sent") => flight'[o] # "posted"

\* A step that neither sends nor takes an outcome.
LEMMA QuietFlight ==
    ASSUME InFlightIsPending, HookStays(mem', mem), flight' = flight, up' = up
    PROVE  InFlightIsPending' /\ NotResent
BY DEF InFlightIsPending, HookStays, NotResent

\* Nothing is in flight in a process that is down.
LEMMA NoFlight ==
    ASSUME \A o \in Orders : flight'[o] = ""
    PROVE  InFlightIsPending' /\ NotResent
BY DEF InFlightIsPending, NotResent

LEMMA SameHook == ASSUME NEW L, NEW M, M.hook = L.hook PROVE HookStays(M, L)
BY DEF HookStays

LEMMA DownFlight == ASSUME NEW saved, Down(saved) PROVE InFlightIsPending' /\ NotResent
BY NoFlight DEF Down

LEMMA FlightStep == IInv /\ InFlightIsPending /\ [Next]_vars => InFlightIsPending' /\ NotResent
<1> SUFFICES ASSUME IInv, InFlightIsPending, [Next]_vars PROVE InFlightIsPending' /\ NotResent
  OBVIOUS
<1>0. mem \in LedgerState /\ LedgerOK(mem)
  BY DEF IInv, TypeOK
<1>1. CASE TakeWrap
  <2> PICK w \in waiting :
        \/ TakeEarlyReceipt(w)
        \/ \E ok \in BOOLEAN : TakeOrder(w, ok)
        \/ \E live, ok \in BOOLEAN : TakeReceipt(w, live, ok)
    BY <1>1 DEF TakeWrap
  <2>0. w.order \in Orders
    <3>1. w \in Wraps
      BY DEF IInv, TypeOK
    <3> QED BY <3>1
  <2>1. /\ flight' = flight /\ up' = up
        /\ \/ mem' = mem
           \/ mem' = [mem EXCEPT !.rumors = @ \cup {w}]
           \/ mem' = [[mem EXCEPT !.rumors = @ \cup {w}] EXCEPT !.status[w.order] = "open"]
           \/ mem' = [mem EXCEPT !.rumors = @ \cup {w}, !.reported[w.order] = @ \cup {w.tx}]
    BY DEF TakeEarlyReceipt, TakeOrder, TakeReceipt, Taken, Save, ledger, process
  <2>2. mem'.hook = mem.hook
    <3>1. CASE mem' = mem \/ mem' = [mem EXCEPT !.rumors = @ \cup {w}]
      BY <1>0, <3>1 DEF LedgerState
    <3>2. CASE mem' = [[mem EXCEPT !.rumors = @ \cup {w}] EXCEPT !.status[w.order] = "open"]
      BY <1>0, <3>2 DEF LedgerState
    <3>3. CASE mem' = [mem EXCEPT !.rumors = @ \cup {w}, !.reported[w.order] = @ \cup {w.tx}]
      BY <1>0, <3>3 DEF LedgerState
    <3> QED BY <2>1, <3>1, <3>2, <3>3
  <2> QED BY <2>1, <2>2, SameHook, QuietFlight
<1>2. CASE TakeTimer
  <2>1. mem' = mem /\ flight' = flight /\ up' = up
    BY <1>2 DEF TakeTimer, AskAgain, ledger, process
  <2> QED BY <2>1, SelfFollows, QuietFlight
<1>3. CASE TakeSweep
  <2>1. mem'.hook = mem.hook /\ flight' = flight /\ up' = up
    BY <1>0, <1>3 DEF TakeSweep, StartSweep, Pruned, process, LedgerState
  <2> QED BY <2>1, SameHook, QuietFlight
<1>4. CASE Resume
  <2> PICK t \in tasks :
        \/ \E v \in {"paid", "refused", "unresolved", "ask"}, ok \in BOOLEAN :
              CheckReported(t, v, ok)
        \/ \E known \in BOOLEAN : Refresh(t, known)
        \/ \E e \in Orders \X Payments, v \in {"paid", "refused", "unresolved", "ask"} :
              RailStep(t, e[1], e[2], v)
        \/ NextRail(t)
        \/ \E ok \in BOOLEAN : EndSweep(t, ok)
        \/ \E got \in [Orders -> SUBSET Relays], old \in SUBSET Orders, ok \in BOOLEAN :
              Deliver(t, got, old, ok)
    BY <1>4 DEF Resume
  <2>1. flight' = flight /\ up' = up
    BY DEF CheckReported, Refresh, RailStep, NextRail, EndSweep, Deliver, process
  <2>2. ASSUME NEW o \in Orders, NEW p \in Payments, NEW v PROVE HookStays(Judge(mem, o, p, v), mem)
    <3>1. CASE Judge(mem, o, p, v) = recordPayment(mem, o, p)
      BY <1>0, <3>1, RecordFollows
    <3>2. CASE Judge(mem, o, p, v) # recordPayment(mem, o, p)
      <4>1. Judge(mem, o, p, v).hook = mem.hook
        BY <1>0, <3>2 DEF Judge, LedgerState
      <4> QED BY <4>1, SameHook
    <3> QED BY <3>1, <3>2
  <2>3. HookStays(mem', mem)
    <3>1. ASSUME NEW v, NEW ok \in BOOLEAN, CheckReported(t, v, ok) PROVE HookStays(mem', mem)
      <4>1. t.order \in Orders /\ t.tx \in Payments /\ mem' = Judge(mem, t.order, t.tx, v)
        BY <3>1, OneTask DEF CheckReported, Save
      <4> QED BY <2>2, <4>1
    <3>2. ASSUME NEW known, Refresh(t, known) PROVE HookStays(mem', mem)
      <4>1. mem'.hook = mem.hook
        BY <1>0, <3>2 DEF Refresh, LedgerState
      <4> QED BY <4>1, SameHook
    <3>3. ASSUME NEW o \in Orders, NEW p \in Payments, NEW v, RailStep(t, o, p, v)
          PROVE  HookStays(mem', mem)
      <4>1. mem' = mem \/ mem' = Judge(mem, o, p, v)
        BY <3>3 DEF RailStep
      <4> QED BY <2>2, <4>1, SelfFollows
    <3>4. CASE NextRail(t) \/ \E ok \in BOOLEAN : EndSweep(t, ok)
      BY <3>4, SelfFollows DEF NextRail, EndSweep, Save, ledger
    <3>5. ASSUME NEW got, NEW old, NEW ok, Deliver(t, got, old, ok) PROVE HookStays(mem', mem)
      <4>1. mem'.hook = mem.hook
        BY <1>0, <3>5, ZenonT(30) DEF Deliver, Save, ledger, LedgerState
      <4> QED BY <4>1, SameHook
    <3> QED BY <3>1, <3>2, <3>3, <3>4, <3>5
  <2> QED BY <2>1, <2>3, QuietFlight
<1>5. CASE \E o \in Orders : TakeTick(o)
  <2> PICK picked \in SUBSET Orders, late \in SUBSET Orders : WebhookTick(picked, late)
    BY <1>5 DEF TakeTick
  <2>1. /\ mem' = mem /\ up' = up /\ up
        /\ \A o \in picked : flight[o] = "" /\ mem.hook[o] = "pending"
        /\ \A o \in Orders \ picked : flight'[o] = flight[o]
    BY DEF WebhookTick, dueWebhooks, inFlight, ledger, process, Idle
  <2> QED BY <2>1 DEF InFlightIsPending, NotResent
<1>6. CASE \E o \in Orders : TakeOutcome(o)
  <2> PICK o \in Orders, state \in {"sent", "failed", "pending"}, ok \in BOOLEAN :
          WebhookCommit(o, state, ok)
    BY <1>6 DEF TakeOutcome
  <2>1. /\ mem' = [mem EXCEPT !.hook[o] = state] /\ up' = up
        /\ flight' = [flight EXCEPT ![o] = ""]
        /\ flight \in [Orders -> {"", "posted", "ok", "no", "late"}]
    BY DEF WebhookCommit, Save, process, IInv, TypeOK
  <2>2. flight'[o] = "" /\ \A q \in Orders : q # o => flight'[q] = flight[q]
    BY <2>1
  <2>3. \A q \in Orders : q # o => mem'.hook[q] = mem.hook[q]
    BY <1>0, <2>1 DEF LedgerState
  <2> QED BY <2>1, <2>2, <2>3 DEF InFlightIsPending, NotResent
<1>7. CASE \E o \in Orders, answer \in {"ok", "no"} : WebhookAnswer(o, answer)
  <2> PICK o \in Orders, answer \in {"ok", "no"} : WebhookAnswer(o, answer)
    BY <1>7
  <2>1. /\ mem' = mem /\ up' = up /\ flight[o] = "posted"
        /\ flight'[o] = answer /\ \A q \in Orders : q # o => flight'[q] = flight[q]
    BY DEF WebhookAnswer, ledger, process, IInv, TypeOK
  <2> QED BY <2>1 DEF InFlightIsPending, NotResent
<1>8. CASE \/ \E live \in BOOLEAN : QueueSweep(live)
           \/ \E w \in Wraps : Receive(w) \/ ReadAgain(w)
           \/ World \/ UNCHANGED vars
  <2>1. mem' = mem /\ flight' = flight /\ up' = up
    BY <1>8 DEF QueueSweep, Receive, ReadAgain, World, GrowOld, Calm, vars, ledger, process
  <2> QED BY <2>1, SelfFollows, QuietFlight
<1>9. CASE Owner \/ Start
  <2>1. ~up /\ flight' = flight
    BY <1>9 DEF Owner, HandAnswer, WebhookAgain, Start
  <2>2. \A o \in Orders : flight'[o] = ""
    BY <2>1 DEF InFlightIsPending
  <2> QED BY <2>2, NoFlight
<1>10. CASE Crash
  BY <1>10, DownFlight DEF Crash
<1>11. CASE \E t \in tasks, ok \in BOOLEAN : WrongCluster(t, ok)
  <2>1. (\E saved : Down(saved)) \/ (mem' = mem /\ flight' = flight /\ up' = up)
    BY <1>11 DEF WrongCluster, Save, process
  <2> QED BY <2>1, DownFlight, SelfFollows, QuietFlight
<1> QED BY <1>1, <1>2, <1>3, <1>4, <1>5, <1>6, <1>7, <1>8, <1>9, <1>10, <1>11 DEF Next, Node

\* A webhook that the backend took is not sent again by the run that sent it,
\* whatever else the run does before the outcome is saved.
THEOREM AckedOnce == Spec => AckedIsNotResent
<1>1. Init => InFlightIsPending
  BY DEF Init, InFlightIsPending
<1>2. IInv /\ InFlightIsPending /\ [Next]_vars => InFlightIsPending'
  BY FlightStep
<1>3. IInv /\ InFlightIsPending /\ [Next]_vars =>
          [\A o \in Orders :
               up' /\ (flight[o] = "ok" \/ mem.hook[o] = "sent") => flight'[o] # "posted"]_vars
  BY FlightStep DEF NotResent
<1> QED BY <1>1, <1>2, <1>3, InductiveInvariant, PTL DEF Spec, AckedIsNotResent
=============================================================================
