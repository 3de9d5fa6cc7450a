-------------------------- MODULE JobLedgerProofs --------------------------
(***************************************************************************)
(* One transaction settles one job, for every set of jobs and signatures,  *)
(* every interleaving of the ledger's methods, every failed write and      *)
(* every crash, on a ledger file that does not already record a double     *)
(* settlement.                                                             *)
(***************************************************************************)
EXTENDS JobLedger, TLAPS

\* No two entries of a file carry one signature.
Clean(es) ==
    \A j, k \in Jobs : es[j].sig \in Sigs /\ es[j].sig = es[k].sig => j = k

\* An entry the Map does not hold has no fields; a young entry's settlement
\* may still verify, an old one's no longer does.
WellFormed(es) ==
    \A j \in Jobs :
        /\ es[j].status = "absent" => es[j].sig = NoSig /\ ~es[j].net
        /\ es[j].old => es[j].sig \in expired \cup {NoSig}

\* The first file is one this code wrote, or none at all.
ASSUME LedgersAssumption ==
    \A es \in Ledgers :
        /\ Clean(es)
        /\ \A j \in Jobs :
              /\ es[j].status = "absent" => es[j].sig = NoSig /\ ~es[j].net
              /\ ~es[j].old

(***************************************************************************)
(* The inductive invariant.  For a signature the chain still verifies, the *)
(* index, the entries and the file agree on the job that carries it, so a  *)
(* restart rebuilds the index it lost; and a recorded settlement keeps its *)
(* entry, because only an unconfirmed job may claim a second signature and *)
(* only an entry past the horizon is pruned.                               *)
(***************************************************************************)
MarkedIsCarried ==
    up => \A s \in Sigs \ expired, j \in Jobs :
            owners[s] = j => entries[j].sig = s /\ disk[j].sig = s

CarriedIsMarked ==
    up => \A s \in Sigs \ expired, j \in Jobs : entries[j].sig = s => owners[s] = j

SettledIsRecorded ==
    \A s \in Sigs \ expired, j \in Jobs :
        <<s, j>> \in settledBy =>
            /\ disk[j].sig = s /\ disk[j].net
            /\ up => entries[j].sig = s /\ entries[j].net

\* A settled signature is on no entry but its own job's, for good.
SettledIsExclusive ==
    \A s \in Sigs, j, k \in Jobs :
        <<s, j>> \in settledBy /\ k # j => entries[k].sig # s /\ disk[k].sig # s

IInv ==
    /\ TypeOK
    /\ ~up => entries = Empty
    /\ WellFormed(entries) /\ WellFormed(disk)
    /\ Clean(entries) /\ Clean(disk)
    /\ MarkedIsCarried
    /\ CarriedIsMarked
    /\ SettledIsRecorded
    /\ SettledIsExclusive
    /\ OneTransactionOneJob

(***************************************************************************)
(* What a method has to get right in memory; flush carries it to the file. *)
(***************************************************************************)
\* Every method that changes entries and then flushes preserves the invariant,
\* whether the write succeeds or fails, if memory after it is sound.
LEMMA FlushCarries ==
    ASSUME IInv, NEW ok \in BOOLEAN, up, up' = up, expired' = expired,
           entries' \in [Jobs -> Entry], owners' \in [Sigs -> Jobs \cup {NoJob}],
           flush(entries', ok),
           WellFormed(entries)', Clean(entries)', CarriedIsMarked',
           \A s \in Sigs \ expired, j \in Jobs :
              owners'[s] = j => entries'[j].sig = s /\ (ok \/ disk[j].sig = s),
           \A s \in Sigs \ expired, j \in Jobs :
              <<s, j>> \in settledBy => entries'[j].sig = s /\ entries'[j].net,
           \A s \in Sigs, j, k \in Jobs :
              <<s, j>> \in settledBy /\ k # j => entries'[k].sig # s
    PROVE  IInv'
<1>1. TypeOK'
  BY DEF IInv, TypeOK, flush, SettlementsIn
<1>2. WellFormed(disk)' /\ Clean(disk)'
  <2>1. CASE ok
    BY <2>1 DEF flush, WellFormed, Clean
  <2>2. CASE ~ok
    BY <2>2 DEF flush, WellFormed, Clean, IInv
  <2> QED BY <2>1, <2>2
<1>3. MarkedIsCarried'
  BY DEF MarkedIsCarried, flush
<1>4. SettledIsRecorded'
  <2> SUFFICES ASSUME NEW s \in Sigs \ expired, NEW j \in Jobs, <<s, j>> \in settledBy'
               PROVE  /\ disk'[j].sig = s /\ disk'[j].net
                      /\ entries'[j].sig = s /\ entries'[j].net
    BY DEF SettledIsRecorded
  <2>1. CASE <<s, j>> \in settledBy
    BY <2>1 DEF IInv, SettledIsRecorded, flush
  <2>2. CASE <<s, j>> \notin settledBy
    BY <2>2 DEF flush, SettlementsIn
  <2> QED BY <2>1, <2>2
<1>5. SettledIsExclusive'
  <2> SUFFICES ASSUME NEW s \in Sigs, NEW j \in Jobs, NEW k \in Jobs, k # j,
                      <<s, j>> \in settledBy'
               PROVE  entries'[k].sig # s /\ disk'[k].sig # s
    BY DEF SettledIsExclusive
  <2>1. CASE <<s, j>> \in settledBy
    BY <2>1 DEF IInv, SettledIsExclusive, flush
  <2>2. CASE <<s, j>> \notin settledBy
    <3>1. ok /\ disk' = entries' /\ entries'[j].sig = s
      BY <2>2 DEF flush, SettlementsIn
    <3> QED BY <3>1 DEF Clean
  <2> QED BY <2>1, <2>2
<1>6. OneTransactionOneJob'
  <2> SUFFICES ASSUME NEW p \in settledBy', NEW q \in settledBy', p[1] = q[1]
               PROVE  p[2] = q[2]
    BY DEF OneTransactionOneJob
  <2>0. settledBy \subseteq Sigs \X Jobs /\ p \in Sigs \X Jobs /\ q \in Sigs \X Jobs
    BY <1>1 DEF TypeOK, IInv
  <2>1. p = <<p[1], p[2]>> /\ q = <<q[1], q[2]>>
    BY <2>0
  <2>2. CASE p \in settledBy /\ q \in settledBy
    BY <2>2 DEF IInv, OneTransactionOneJob
  <2>3. CASE p \notin settledBy /\ q \in settledBy
    BY <2>0, <2>1, <2>3 DEF flush, SettlementsIn
  <2>4. CASE p \in settledBy /\ q \notin settledBy
    BY <2>0, <2>1, <2>4 DEF flush, SettlementsIn
  <2>5. CASE p \notin settledBy /\ q \notin settledBy
    BY <2>0, <2>5 DEF flush, SettlementsIn, Clean
  <2> QED BY <2>2, <2>3, <2>4, <2>5
<1> QED BY <1>1, <1>2, <1>3, <1>4, <1>5, <1>6 DEF IInv

\* The methods that keep every signature and every net_amount in memory.
LEMMA QuietMethods ==
    ASSUME IInv, NEW ok \in BOOLEAN, up, up' = up, expired' = expired,
           entries' \in [Jobs -> Entry], owners' = owners, flush(entries', ok),
           \A j \in Jobs : /\ entries'[j].sig = entries[j].sig
                           /\ entries[j].net => entries'[j].net
                           /\ entries'[j].old = entries[j].old
                           /\ entries'[j].status = "absent" => entries'[j] = entries[j]
    PROVE  IInv'
<1>1. owners' \in [Sigs -> Jobs \cup {NoJob}]
  BY DEF IInv, TypeOK
<1>2. WellFormed(entries)' /\ Clean(entries)' /\ CarriedIsMarked'
  BY DEF IInv, WellFormed, Clean, CarriedIsMarked
<1>3. \A s \in Sigs \ expired, j \in Jobs :
        owners'[s] = j => entries'[j].sig = s /\ (ok \/ disk[j].sig = s)
  BY DEF IInv, MarkedIsCarried
<1>4. \A s \in Sigs \ expired, j \in Jobs :
        <<s, j>> \in settledBy => entries'[j].sig = s /\ entries'[j].net
  BY DEF IInv, SettledIsRecorded
<1>5. \A s \in Sigs, j, k \in Jobs :
        <<s, j>> \in settledBy /\ k # j => entries'[k].sig # s
  BY DEF IInv, SettledIsExclusive
<1> QED BY <1>1, <1>2, <1>3, <1>4, <1>5, FlushCarries

(***************************************************************************)
(* One lemma per action.                                                   *)
(***************************************************************************)
\* recordPaid binds no signature, so it takes none from another job.
LEMMA RecordKeeps == ASSUME IInv, NEW j \in Jobs, Record(j) PROVE IInv'
<1>1. PICK ok \in BOOLEAN : recordPaid(j, ok)
  BY DEF Record
<1>2. up /\ up' = up /\ expired' = expired /\ owners' = owners
  BY <1>1 DEF Record, recordPaid
<1>3. entries \in [Jobs -> Entry] /\ entries[j].sig = NoSig /\ ~entries[j].net
  BY <1>1 DEF IInv, TypeOK, WellFormed, recordPaid
<1>4. /\ entries' \in [Jobs -> Entry]
      /\ flush(entries', ok)
      /\ entries'[j] = Blank
      /\ \A k \in Jobs \ {j} : entries'[k] = entries[k]
  BY <1>1, <1>3 DEF recordPaid, Blank, Absent, Entry, Statuses
<1>5. Blank.status = "paid" /\ Blank.sig = NoSig /\ ~Blank.old
  BY DEF Blank, Absent
<1>6. WellFormed(entries)' /\ Clean(entries)' /\ CarriedIsMarked'
  BY <1>2, <1>4, <1>5, ConstantsAssumption
     DEF IInv, WellFormed, Clean, CarriedIsMarked
<1>7. \A s \in Sigs \ expired, k \in Jobs :
        owners'[s] = k => entries'[k].sig = s /\ (ok \/ disk[k].sig = s)
  BY <1>2, <1>3, <1>4, ConstantsAssumption DEF IInv, MarkedIsCarried
<1>8. \A s \in Sigs \ expired, k \in Jobs :
        <<s, k>> \in settledBy => entries'[k].sig = s /\ entries'[k].net
  BY <1>2, <1>3, <1>4 DEF IInv, SettledIsRecorded
<1>9. \A s \in Sigs, k, m \in Jobs :
        <<s, k>> \in settledBy /\ m # k => entries'[m].sig # s
  BY <1>4, <1>5, ConstantsAssumption DEF IInv, SettledIsExclusive
<1>10. owners' \in [Sigs -> Jobs \cup {NoJob}]
  BY <1>2 DEF IInv, TypeOK
<1> QED BY <1>2, <1>4, <1>6, <1>7, <1>8, <1>9, <1>10, FlushCarries

\* updatePayment changes no signature; a net amount is only added.
LEMMA PaymentKeeps ==
    ASSUME IInv, NEW j \in Jobs, NEW net \in BOOLEAN, NEW ok \in BOOLEAN, up,
           updatePayment(j, net, ok), UNCHANGED <<up, expired>>
    PROVE  IInv'
<1>1. entries \in [Jobs -> Entry]
  BY DEF IInv, TypeOK
<1>2. /\ entries' \in [Jobs -> Entry]
      /\ \A k \in Jobs : /\ entries'[k].sig = entries[k].sig
                         /\ entries[k].net => entries'[k].net
                         /\ entries'[k].old = entries[k].old
                         /\ entries'[k].status = "absent" => entries'[k] = entries[k]
  BY <1>1 DEF updatePayment, Entry
<1> QED BY <1>2, QuietMethods DEF updatePayment

\* A transition changes the status of one entry and nothing else.
LEMMA MarkKeeps == ASSUME IInv, NEW j \in Jobs, Mark(j) PROVE IInv'
<1>1. PICK to \in Statuses, ok \in BOOLEAN : mark(j, to, ok)
  BY DEF Mark
<1>2. entries \in [Jobs -> Entry] /\ to # "absent"
  BY <1>1 DEF IInv, TypeOK, mark, VALID_TRANSITIONS, Entry, Statuses
<1>3. /\ entries' \in [Jobs -> Entry]
      /\ \A k \in Jobs : /\ entries'[k].sig = entries[k].sig
                         /\ entries[k].net => entries'[k].net
                         /\ entries'[k].old = entries[k].old
                         /\ entries'[k].status = "absent" => entries'[k] = entries[k]
  BY <1>1, <1>2 DEF mark, Entry
<1> QED BY <1>1, <1>3, QuietMethods DEF Mark, mark

\* A method that only writes other fields persists what memory holds.
LEMMA SetFieldsKeeps == ASSUME IInv, NEW j \in Jobs, SetFields(j) PROVE IInv'
<1>1. PICK ok \in BOOLEAN : setFields(j, ok)
  BY DEF SetFields
<1>2. entries' \in [Jobs -> Entry]
  BY <1>1 DEF setFields, IInv, TypeOK
<1> QED BY <1>1, <1>2, QuietMethods DEF SetFields, setFields

\* A claim whose write fails restores what it changed, so it is no step at all.
LEMMA RefusedClaim ==
    ASSUME TypeOK, NEW j \in Jobs, NEW s \in Sigs, claimPaymentSignature(j, s, FALSE)
    PROVE  UNCHANGED <<entries, owners, disk, settledBy>>
<1>1. CASE ~BindClaim(j, s, FALSE)
  BY <1>1 DEF claimPaymentSignature
<1>2. CASE BindClaim(j, s, FALSE)
  <2>1. disk' = disk /\ settledBy' = settledBy
    BY <1>2 DEF BindClaim, flush
  <2>2. entries' = entries
    BY <1>2 DEF BindClaim, TypeOK, Entry
  <2>3. owners' = MarksRolledBack(j, s, MarksOfClaim(j, s))
    BY <1>2 DEF BindClaim
  <2>4. owners' = owners
    BY <2>3 DEF MarksRolledBack, MarksOfClaim, Releases, TypeOK
  <2> QED BY <2>1, <2>2, <2>4
<1> QED BY <1>1, <1>2

\* A claim takes only an unowned signature, and gives up only an unconfirmed one.
LEMMA ClaimKeeps == ASSUME IInv, NEW j \in Jobs, NEW s \in Sigs, Claim(j, s) PROVE IInv'
<1>1. PICK ok \in BOOLEAN : claimPaymentSignature(j, s, ok)
  BY DEF Claim
<1>2. up /\ UNCHANGED <<up, expired>> /\ ~entries[j].net /\ s \notin expired /\ ~entries[j].old
  BY DEF Claim, MayClaim
<1>3. CASE UNCHANGED <<entries, owners, disk, settledBy>>
  BY <1>2, <1>3 DEF IInv, TypeOK, WellFormed, Clean, MarkedIsCarried, CarriedIsMarked,
                    SettledIsRecorded, SettledIsExclusive, OneTransactionOneJob, Empty
<1>4. CASE ok = TRUE /\ BindClaim(j, s, TRUE) /\ entries[j].status # "absent"
           /\ owners[s] \in {NoJob, j}
  <2>1. entries \in [Jobs -> Entry] /\ owners \in [Sigs -> Jobs \cup {NoJob}]
    BY DEF IInv, TypeOK
  <2>2. /\ entries' = [entries EXCEPT ![j].sig = s]
        /\ owners' = MarksOfClaim(j, s)
        /\ flush(entries', TRUE)
    BY <1>4 DEF BindClaim
  <2>3. /\ entries' \in [Jobs -> Entry]
        /\ entries'[j].sig = s /\ entries'[j].old = entries[j].old
        /\ entries'[j].status = entries[j].status
        /\ \A k \in Jobs \ {j} : entries'[k] = entries[k]
    BY <2>1, <2>2 DEF Entry
  <2>4. owners' \in [Sigs -> Jobs \cup {NoJob}]
    BY <2>1, <2>2 DEF MarksOfClaim
  <2>5. \A k \in Jobs \ {j} : entries[k].sig # s
    BY <1>2, <1>4, ConstantsAssumption DEF IInv, CarriedIsMarked
  <2>6. WellFormed(entries)' /\ Clean(entries)'
    BY <1>2, <1>4, <2>3, <2>5 DEF IInv, WellFormed, Clean
  <2>7. CarriedIsMarked'
    <3> SUFFICES ASSUME NEW t \in Sigs \ expired, NEW k \in Jobs, entries'[k].sig = t
                 PROVE  owners'[t] = k
      BY <1>2 DEF CarriedIsMarked
    <3>1. CASE k = j
      BY <3>1, <2>2, <2>3 DEF MarksOfClaim, Releases
    <3>2. CASE k # j
      <4>1. entries[k].sig = t /\ owners[t] = k /\ t # s
        BY <1>2, <3>2, <2>3, <2>5 DEF IInv, CarriedIsMarked
      <4> QED BY <3>2, <4>1, <2>2 DEF MarksOfClaim, Releases
    <3> QED BY <3>1, <3>2
  <2>8. \A t \in Sigs \ expired, k \in Jobs : owners'[t] = k => entries'[k].sig = t
    <3> SUFFICES ASSUME NEW t \in Sigs \ expired, NEW k \in Jobs, owners'[t] = k
                 PROVE  entries'[k].sig = t
      OBVIOUS
    <3>1. CASE t = s
      BY <3>1, <2>2, <2>3 DEF MarksOfClaim, Releases
    <3>2. CASE t # s
      <4>1. owners[t] = k /\ entries[k].sig = t /\ k # j
        BY <1>2, <3>2, <2>2, ConstantsAssumption
           DEF IInv, MarkedIsCarried, MarksOfClaim, Releases
      <4> QED BY <4>1, <2>3
    <3> QED BY <3>1, <3>2
  <2>9. \A t \in Sigs \ expired, k \in Jobs :
          <<t, k>> \in settledBy => entries'[k].sig = t /\ entries'[k].net
    BY <1>2, <2>3 DEF IInv, SettledIsRecorded
  <2>10. \A t \in Sigs, k, m \in Jobs :
          <<t, k>> \in settledBy /\ m # k => entries'[m].sig # t
    BY <1>2, <2>3, <2>5 DEF IInv, SettledIsExclusive, SettledIsRecorded
  <2> QED BY <1>2, <2>2, <2>3, <2>4, <2>6, <2>7, <2>8, <2>9, <2>10, FlushCarries
<1>5. CASE ok = FALSE
  BY <1>1, <1>5, <1>3, RefusedClaim DEF IInv
<1> QED BY <1>1, <1>3, <1>4, <1>5 DEF claimPaymentSignature, ClaimOutcome

\* pruneOldEntries drops no mark the chain could still verify.
LEMMA PruneKeeps == ASSUME IInv, Prune PROVE IInv'
<1> DEFINE kept == [j \in Jobs |-> IF j \in Prunable THEN Absent ELSE entries[j]]
<1>1. PICK ok \in BOOLEAN : pruneOldEntries(ok)
  BY DEF Prune
<1>2. up /\ up' = up /\ expired' = expired
  BY DEF Prune
<1>3. entries' = kept /\ owners' = MarksOfPrune(kept) /\ flush(entries', ok)
  BY <1>1 DEF pruneOldEntries
<1>4. entries \in [Jobs -> Entry] /\ owners \in [Sigs -> Jobs \cup {NoJob}]
  BY DEF IInv, TypeOK
<1>5. Absent \in Entry /\ Absent.sig = NoSig /\ ~Absent.net /\ ~Absent.old
  BY DEF Absent, Entry, Statuses
<1>6. entries' \in [Jobs -> Entry]
  BY <1>3, <1>4, <1>5
<1>7. owners' \in [Sigs -> Jobs \cup {NoJob}]
  BY <1>3, <1>4 DEF MarksOfPrune
\* What is pruned is past the horizon; a carrier the chain still knows stays.
<1>8. \A s \in Sigs \ expired, j \in Jobs : entries[j].sig = s => entries'[j] = entries[j]
  BY <1>3, ConstantsAssumption DEF IInv, WellFormed, Prunable
<1>9. \A j \in Jobs : entries'[j] = entries[j] \/ entries'[j] = Absent
  BY <1>3
<1>10. WellFormed(entries)' /\ Clean(entries)'
  BY <1>2, <1>5, <1>9, ConstantsAssumption DEF IInv, WellFormed, Clean
<1>11. \A s \in Sigs \ expired : owners'[s] = owners[s]
  <2> SUFFICES ASSUME NEW s \in Sigs \ expired, NEW j \in Jobs, entries[j].sig = s
               PROVE  kept[j].sig = s
    BY <1>3 DEF MarksOfPrune, Carriers
  <2> QED BY <1>3, <1>8
<1>12. CarriedIsMarked'
  BY <1>2, <1>5, <1>9, <1>11, ConstantsAssumption DEF IInv, CarriedIsMarked
<1>13. \A s \in Sigs \ expired, j \in Jobs :
        owners'[s] = j => entries'[j].sig = s /\ (ok \/ disk[j].sig = s)
  BY <1>2, <1>8, <1>11 DEF IInv, MarkedIsCarried
<1>14. \A s \in Sigs \ expired, j \in Jobs :
        <<s, j>> \in settledBy => entries'[j].sig = s /\ entries'[j].net
  BY <1>2, <1>8 DEF IInv, SettledIsRecorded
<1>15. \A s \in Sigs, j, k \in Jobs :
        <<s, j>> \in settledBy /\ k # j => entries'[k].sig # s
  BY <1>5, <1>9, ConstantsAssumption DEF IInv, SettledIsExclusive
<1> QED BY <1>2, <1>3, <1>6, <1>7, <1>10, <1>12, <1>13, <1>14, <1>15, FlushCarries

\* The Map of a process that has not loaded a file.
LEMMA EmptyFacts ==
    /\ Empty \in [Jobs -> Entry]
    /\ \A j \in Jobs : Empty[j].sig = NoSig /\ ~Empty[j].net /\ ~Empty[j].old
                       /\ Empty[j].status = "absent"
BY DEF Empty, Absent, Entry, Statuses

\* A crash loses memory; the file alone still tells who settled what.
LEMMA CrashKeeps == ASSUME IInv, Crash PROVE IInv'
<1>1. /\ up' = FALSE /\ entries' = Empty /\ owners' = [s \in Sigs |-> NoJob]
      /\ UNCHANGED <<disk, expired, settledBy>>
  BY DEF Crash
<1>2. TypeOK'
  BY <1>1, EmptyFacts DEF IInv, TypeOK
<1>3. WellFormed(entries)' /\ WellFormed(disk)' /\ Clean(entries)' /\ Clean(disk)'
  BY <1>1, EmptyFacts, ConstantsAssumption DEF IInv, WellFormed, Clean
<1>4. SettledIsRecorded' /\ SettledIsExclusive' /\ OneTransactionOneJob'
  BY <1>1, EmptyFacts, ConstantsAssumption
     DEF IInv, SettledIsRecorded, SettledIsExclusive, OneTransactionOneJob
<1>5. MarkedIsCarried' /\ CarriedIsMarked'
  BY <1>1 DEF MarkedIsCarried, CarriedIsMarked
<1> QED BY <1>1, <1>2, <1>3, <1>4, <1>5 DEF IInv, Empty

\* The file is clean, so the index a restart builds is the one that was lost.
LEMMA StartKeeps == ASSUME IInv, Start PROVE IInv'
<1>1. /\ up' /\ entries' = disk /\ owners' \in [Sigs -> Jobs \cup {NoJob}]
      /\ IsIndexOf(owners', disk)
      /\ UNCHANGED <<disk, expired, settledBy>>
  BY DEF Start, load
<1>2. TypeOK'
  BY <1>1 DEF IInv, TypeOK, Start
<1>3. WellFormed(entries)' /\ WellFormed(disk)' /\ Clean(entries)' /\ Clean(disk)'
  BY <1>1 DEF IInv, WellFormed, Clean
<1>4. SettledIsRecorded' /\ SettledIsExclusive' /\ OneTransactionOneJob'
  BY <1>1 DEF IInv, SettledIsRecorded, SettledIsExclusive, OneTransactionOneJob
<1>5. MarkedIsCarried'
  BY <1>1, ConstantsAssumption DEF MarkedIsCarried, IsIndexOf, Carriers
<1>6. CarriedIsMarked'
  BY <1>1 DEF IInv, CarriedIsMarked, IsIndexOf, Carriers, Clean
<1> QED BY <1>1, <1>2, <1>3, <1>4, <1>5, <1>6 DEF IInv

\* Time passing on the chain asks less of the ledger.
LEMMA ForgetKeeps == ASSUME IInv, NEW s \in Sigs, Forget(s) PROVE IInv'
<1>1. expired' = expired \cup {s} /\ UNCHANGED <<entries, owners, disk, up, settledBy>>
  BY DEF Forget
<1>2. TypeOK' /\ (~up => entries = Empty)' /\ WellFormed(entries)' /\ WellFormed(disk)'
      /\ Clean(entries)' /\ Clean(disk)'
  BY <1>1 DEF IInv, TypeOK, WellFormed, Clean, Empty
<1>3. MarkedIsCarried' /\ CarriedIsMarked' /\ SettledIsRecorded' /\ SettledIsExclusive'
      /\ OneTransactionOneJob'
  BY <1>1 DEF IInv, MarkedIsCarried, CarriedIsMarked, SettledIsRecorded,
              SettledIsExclusive, OneTransactionOneJob
<1> QED BY <1>2, <1>3 DEF IInv

\* What growing old changes in a table of entries.
LEMMA GrownFacts ==
    ASSUME NEW es \in [Jobs -> Entry], NEW j \in Jobs
    PROVE  /\ Grown(es, j) \in [Jobs -> Entry]
           /\ \A k \in Jobs : /\ Grown(es, j)[k].sig = es[k].sig
                              /\ Grown(es, j)[k].net = es[k].net
                              /\ Grown(es, j)[k].status = es[k].status
                              /\ k # j => Grown(es, j)[k] = es[k]
           /\ Grown(es, j)[j].old = (es[j].status # "absent")
BY DEF Grown, Entry

\* An entry grows old only after its settlement stopped verifying.
LEMMA AgeKeeps == ASSUME IInv, NEW j \in Jobs, Age(j) PROVE IInv'
<1>1. /\ {entries[j].sig, disk[j].sig} \subseteq expired \cup {NoSig}
      /\ entries' = Grown(entries, j) /\ disk' = Grown(disk, j)
      /\ UNCHANGED <<owners, up, expired, settledBy>>
  BY DEF Age
<1>2. entries \in [Jobs -> Entry] /\ disk \in [Jobs -> Entry]
  BY DEF IInv, TypeOK
<1>3. /\ \A k \in Jobs : /\ entries'[k].sig = entries[k].sig
                         /\ entries'[k].net = entries[k].net
                         /\ entries'[k].status = entries[k].status
                         /\ k # j => entries'[k] = entries[k]
      /\ \A k \in Jobs : /\ disk'[k].sig = disk[k].sig
                         /\ disk'[k].net = disk[k].net
                         /\ disk'[k].status = disk[k].status
                         /\ k # j => disk'[k] = disk[k]
  BY <1>1, <1>2, GrownFacts
<1>4. TypeOK'
  BY <1>1, <1>2, GrownFacts DEF IInv, TypeOK
<1>5. (~up => entries = Empty)'
  <2> SUFFICES ASSUME ~up PROVE entries' = entries
    BY <1>1 DEF IInv, Empty
  <2>1. entries[j].status = "absent" /\ entries[j].old = FALSE
    BY EmptyFacts, <1>2 DEF IInv, Entry, Empty, Absent
  <2> QED BY <1>1, <1>2, <2>1 DEF Grown, Entry
<1>6. WellFormed(entries)' /\ WellFormed(disk)' /\ Clean(entries)' /\ Clean(disk)'
  BY <1>3, <1>1 DEF IInv, WellFormed, Clean
<1>7. MarkedIsCarried' /\ CarriedIsMarked' /\ SettledIsRecorded' /\ SettledIsExclusive'
      /\ OneTransactionOneJob'
  BY <1>3, <1>1 DEF IInv, MarkedIsCarried, CarriedIsMarked, SettledIsRecorded,
              SettledIsExclusive, OneTransactionOneJob
<1> QED BY <1>4, <1>5, <1>6, <1>7 DEF IInv

\* The invariant holds before the first start.
LEMMA InitHolds == Init => IInv
<1> SUFFICES ASSUME Init PROVE IInv
  OBVIOUS
<1>1. /\ disk \in Ledgers /\ entries = Empty /\ owners = [s \in Sigs |-> NoJob]
      /\ up = FALSE /\ expired = {} /\ settledBy = SettlementsIn(disk)
  BY DEF Init
<1>2. disk \in [Jobs -> Entry]
  BY <1>1, ConstantsAssumption
<1>3. TypeOK
  BY <1>1, <1>2, EmptyFacts DEF TypeOK, SettlementsIn
<1>4. WellFormed(entries) /\ WellFormed(disk) /\ Clean(entries) /\ Clean(disk)
  BY <1>1, EmptyFacts, LedgersAssumption, ConstantsAssumption DEF WellFormed, Clean
<1>5. SettledIsRecorded /\ MarkedIsCarried /\ CarriedIsMarked
  BY <1>1 DEF SettledIsRecorded, SettlementsIn, MarkedIsCarried, CarriedIsMarked
<1>6. SettledIsExclusive
  BY <1>1, <1>4, EmptyFacts, ConstantsAssumption DEF SettledIsExclusive, SettlementsIn, Clean
<1>7. OneTransactionOneJob
  BY <1>1, <1>4 DEF OneTransactionOneJob, SettlementsIn, Clean
<1> QED BY <1>1, <1>3, <1>4, <1>5, <1>6, <1>7 DEF IInv

\* The invariant only reads the variables of vars.
LEMMA StutterKeeps == ASSUME IInv, UNCHANGED vars PROVE IInv'
BY DEF vars, IInv, TypeOK, WellFormed, Clean, MarkedIsCarried, CarriedIsMarked,
       SettledIsRecorded, SettledIsExclusive, OneTransactionOneJob, Empty

\* Every step keeps the invariant, one case per action of Next.
LEMMA StepKeeps == IInv /\ [Next]_vars => IInv'
<1> SUFFICES ASSUME IInv, [Next]_vars PROVE IInv'
  OBVIOUS
<1>1. CASE Crash
  BY <1>1, CrashKeeps
<1>2. CASE Start
  BY <1>2, StartKeeps
<1>3. CASE Prune
  BY <1>3, PruneKeeps
<1>4. ASSUME NEW j \in Jobs, Record(j) PROVE IInv'
  BY <1>4, RecordKeeps
<1>5. ASSUME NEW j \in Jobs, Request(j) PROVE IInv'
  BY <1>5, PaymentKeeps DEF Request
<1>6. ASSUME NEW j \in Jobs, SetFields(j) PROVE IInv'
  BY <1>6, SetFieldsKeeps
<1>7. ASSUME NEW j \in Jobs, Confirm(j) PROVE IInv'
  BY <1>7, PaymentKeeps DEF Confirm
<1>8. ASSUME NEW j \in Jobs, Mark(j) PROVE IInv'
  BY <1>8, MarkKeeps
<1>9. ASSUME NEW j \in Jobs, Age(j) PROVE IInv'
  BY <1>9, AgeKeeps
<1>10. ASSUME NEW s \in Sigs, Forget(s) PROVE IInv'
  BY <1>10, ForgetKeeps
<1>11. ASSUME NEW s \in Sigs, NEW j \in Jobs, Claim(j, s) PROVE IInv'
  BY <1>11, ClaimKeeps
<1>12. CASE UNCHANGED vars
  BY <1>12, StutterKeeps
<1> QED BY <1>1, <1>2, <1>3, <1>4, <1>5, <1>6, <1>7, <1>8, <1>9, <1>10, <1>11, <1>12 DEF Next

\* The inductive invariant holds in every reachable state of the ledger.
THEOREM InvariantHolds == Spec => []IInv
BY InitHolds, StepKeeps, PTL DEF Spec

(***************************************************************************)
(* The results.                                                            *)
(***************************************************************************)
\* Every variable of the ledger keeps its type (the shape of LedgerEntry, the
\* index and the file).
THEOREM TypeCorrect == Spec => []TypeOK
<1>1. IInv => TypeOK
  BY DEF IInv
<1> QED BY <1>1, InvariantHolds, PTL

\* One transaction never pays two jobs in the file, whatever interleaving of
\* claims, failed writes, prunes, crashes and restarts (claimPaymentSignature).
THEOREM OneTransaction == Spec => []OneTransactionOneJob
<1>1. IInv => OneTransactionOneJob
  BY DEF IInv
<1> QED BY <1>1, InvariantHolds, PTL

\* The ledger implements Settlement (LedgerSettles): its file starts with one
\* job per signature, and no step takes a settlement back or spends it twice.
THEOREM SettlesOnce == Spec => LedgerSettles
<1>1. Init => Settled!Init
  <2> SUFFICES ASSUME Init PROVE Settled!Init
    OBVIOUS
  <2>1. IInv
    BY InitHolds
  <2>2. settledBy \subseteq Sigs \X Jobs
    BY <2>1 DEF IInv, TypeOK
  <2>3. \A a, b \in settledBy : a[1] = b[1] => a = b
    BY <2>1, <2>2 DEF IInv, OneTransactionOneJob
  <2> QED BY <2>2, <2>3 DEF Settled!Init, Settled!Once
<1>2. IInv /\ [Next]_vars => [Settled!Spend]_settledBy
  <2> SUFFICES ASSUME IInv, [Next]_vars PROVE Settled!Spend
    OBVIOUS
  <2>1. settledBy \subseteq settledBy'
    <3>1. CASE \E s \in Sigs, j \in Jobs : Claim(j, s)
      BY <3>1 DEF Claim, claimPaymentSignature, BindClaim, flush
    <3>2. CASE ~\E s \in Sigs, j \in Jobs : Claim(j, s)
      BY <3>2 DEF Next, vars, Crash, Start, load, Prune, pruneOldEntries, Record, recordPaid,
              Request, Confirm, updatePayment, SetFields, setFields, Mark, mark, Age, Forget, flush
    <3> QED BY <3>1, <3>2
  <2>2. IInv'
    BY StepKeeps
  <2>3. settledBy' \subseteq Sigs \X Jobs
    BY <2>2 DEF IInv, TypeOK
  <2>4. \A a, b \in settledBy' : a[1] = b[1] => a = b
    BY <2>2, <2>3 DEF IInv, OneTransactionOneJob
  <2> QED BY <2>1, <2>3, <2>4 DEF Settled!Spend, Settled!Once
<1> QED BY <1>1, <1>2, InvariantHolds, PTL DEF LedgerSettles, Settled!Spec, Spec

\* A running process still refuses every settled signature that verifies to
\* every other job (paymentSignatureOwners, rebuilt by load).
THEOREM SettledOwned == Spec => []SettledStaysOwned
<1>1. IInv => SettledStaysOwned
  <2> SUFFICES ASSUME IInv, up, NEW p \in settledBy, p[1] \notin expired
               PROVE  owners[p[1]] = p[2]
    BY DEF SettledStaysOwned
  <2>1. p[1] \in Sigs \ expired /\ p[2] \in Jobs /\ p = <<p[1], p[2]>>
    BY DEF IInv, TypeOK
  <2> QED BY <2>1 DEF IInv, SettledIsRecorded, CarriedIsMarked
<1> QED BY <1>1, InvariantHolds, PTL

\* Every mark the index holds is in the file (the flush inside the claim and
\* the roll-back of its catch block).
THEOREM MarksDurable == Spec => []MarksAreDurable
<1>1. IInv => MarksAreDurable
  BY DEF IInv, TypeOK, MarkedIsCarried, MarksAreDurable
<1> QED BY <1>1, InvariantHolds, PTL

\* A mark that a claim or a prune takes away had settled nothing: the release
\* inside claimPaymentSignature and releasePrunedPaymentSignatures are safe.
THEOREM ReleaseIsSafe == Spec => ReleasedSettledNothing
<1> DEFINE Safe ==
      \A s \in Sigs \ expired :
          up /\ up' /\ owners[s] # NoJob /\ owners'[s] # owners[s]
            => \A p \in settledBy : p[1] # s
<1>1. IInv /\ [Next]_vars => Safe
  <2> SUFFICES ASSUME IInv, [Next]_vars, NEW s \in Sigs \ expired, up, up',
                      owners'[s] # owners[s], NEW p \in settledBy, p[1] = s
               PROVE  FALSE
    OBVIOUS
  <2>1. p[2] \in Jobs /\ p = <<s, p[2]>>
    BY DEF IInv, TypeOK
  <2>2. owners[s] = p[2]
    BY <2>1 DEF IInv, SettledIsRecorded, CarriedIsMarked
  <2>3. expired' = expired /\ settledBy \subseteq settledBy'
    <3>1. CASE \E sig \in Sigs, k \in Jobs : Claim(k, sig)
      BY <3>1 DEF Claim, claimPaymentSignature, BindClaim, flush
    <3>2. CASE ~\E sig \in Sigs, k \in Jobs : Claim(k, sig)
      BY <3>2 DEF Next, vars, Crash, Start, load, Prune, pruneOldEntries, Record, recordPaid,
              Request, Confirm, updatePayment, SetFields, setFields, Mark, mark, Age, Forget, flush
    <3> QED BY <3>1, <3>2
  <2>4. IInv'
    BY StepKeeps
  <2>5. owners'[s] = p[2]
    BY <2>1, <2>3, <2>4 DEF IInv, SettledIsRecorded, CarriedIsMarked
  <2> QED BY <2>2, <2>5
<1>2. IInv /\ [Next]_vars => [Safe]_vars
  BY <1>1
<1> QED BY <1>2, InvariantHolds, PTL DEF Spec, ReleasedSettledNothing

\* A job that was delivered or failed keeps that status until it is pruned
\* (VALID_TRANSITIONS), whatever the other methods do.
THEOREM ClosedForGood == Spec => ClosedStaysClosed
<1> DEFINE Closed ==
      \A j \in Jobs :
          up /\ up' /\ entries[j].status \in Terminal
            => entries'[j].status \in {entries[j].status, "absent"}
<1>1. TypeOK /\ [Next]_vars => Closed
  <2> SUFFICES ASSUME TypeOK, [Next]_vars, NEW j \in Jobs, up, up',
                      entries[j].status \in Terminal
               PROVE  entries'[j].status \in {entries[j].status, "absent"}
    OBVIOUS
  <2>1. entries \in [Jobs -> Entry]
    BY DEF TypeOK
  <2>2. ASSUME NEW k \in Jobs, NEW ok \in BOOLEAN, recordPaid(k, ok)
        PROVE  entries'[j].status = entries[j].status
    BY <2>1, <2>2 DEF recordPaid, Terminal
  <2>3. ASSUME NEW k \in Jobs, NEW ok \in BOOLEAN, NEW net \in BOOLEAN,
               updatePayment(k, net, ok)
        PROVE  entries'[j].status = entries[j].status
    BY <2>1, <2>3 DEF updatePayment, Entry
  <2>4. ASSUME NEW k \in Jobs, NEW s \in Sigs, NEW ok \in BOOLEAN,
               claimPaymentSignature(k, s, ok)
        PROVE  entries'[j].status = entries[j].status
    BY <2>1, <2>4 DEF claimPaymentSignature, BindClaim, Entry
  <2>5. ASSUME NEW k \in Jobs, NEW to \in Statuses, NEW ok \in BOOLEAN, mark(k, to, ok)
        PROVE  entries'[j].status = entries[j].status
    <3>1. k # j
      BY <2>5 DEF mark, VALID_TRANSITIONS, Terminal
    <3> QED BY <2>1, <2>5, <3>1 DEF mark
  <2>6. ASSUME NEW ok \in BOOLEAN, pruneOldEntries(ok)
        PROVE  entries'[j].status \in {entries[j].status, "absent"}
    BY <2>6 DEF pruneOldEntries, Absent
  <2>7. ASSUME NEW k \in Jobs, Age(k)
        PROVE  entries'[j].status = entries[j].status
    BY <2>1, <2>7, GrownFacts DEF Age
  <2>8. CASE UNCHANGED entries
    BY <2>8
  <2> QED
    BY <2>2, <2>3, <2>4, <2>5, <2>6, <2>7, <2>8
       DEF Next, vars, Crash, Start, Prune, Record, Request, Confirm, SetFields, setFields,
           Mark, Forget, Claim
<1>2. TypeOK /\ [Next]_vars => [Closed]_vars
  BY <1>1
<1> QED BY <1>2, TypeCorrect, PTL DEF Spec, ClosedStaysClosed
=============================================================================
