-------------------------- MODULE JobRuntimeProofs --------------------------
(***************************************************************************)
(* What the provider runtime keeps to for every number of jobs, payments,  *)
(* retries and crashes.  As long as recovery ticks do not overlap          *)
(* (OneTick): it implements the ledger's contract and through it           *)
(* Settlement, works only for a recorded settlement, one worker per job    *)
(* and a bounded number of times, never denies a payment made in time, and *)
(* never delivers what a tick has called failed.  Whether they overlap or  *)
(* not, no job is worked on unpaid.                                        *)
(***************************************************************************)
EXTENDS JobRuntime, FiniteSetTheorems, TLAPS

\* The walk of a tick ends before the interval fires again.
OneTick == \A v, w \in Ticks : v = w

\* The first file was written by this code, or there is none: a job with a net
\* amount carries the signature it was settled with.
ASSUME FirstFileAssumption ==
    /\ Ledgers \subseteq [Jobs -> L!Entry]
    /\ \A es \in Ledgers :
          /\ \A j, k \in Jobs : es[j].sig \in Sigs /\ es[j].sig = es[k].sig => j = k
          /\ \A j \in Jobs :
                /\ es[j].status = "absent" => es[j].sig = NoSig /\ ~es[j].net
                /\ es[j].net => es[j].sig \in Sigs
                /\ ~es[j].old

(***************************************************************************)
(* The inductive invariant, job by job.                                    *)
(***************************************************************************)
\* Memory and file of one job agree as far as a restart needs: nothing on file
\* is unknown to the process, and a run of the skill was counted on file.
Known(j) ==
    /\ up /\ entries[j].status = "absent" => disk[j].status = "absent" /\ meta[j].retry = 0
    /\ disk[j].status = "absent" => metaDisk[j].retry = 0 /\ executions[j] = 0
    /\ up => metaDisk[j].retry <= meta[j].retry
    /\ meta[j].retry <= MaxRetries /\ metaDisk[j].retry <= MaxRetries
    /\ executions[j] <= metaDisk[j].retry + 1

\* An entry, in memory or on file, names a transaction that carries its job.
Backed(es, j) ==
    /\ ~es[j].old
    /\ es[j].net => es[j].sig \in Sigs
    /\ es[j].sig \in Sigs => j \in chain[es[j].sig]

Settled(j) ==
    /\ \A t \in Sigs : <<t, j>> \in settledBy => j \in chain[t]
    /\ executions[j] > 0 => \E t \in Sigs : <<t, j>> \in settledBy
    /\ j \in onTime => \E t \in Sigs : j \in chain[t]

\* One worker has a job in flight, and a tick lists only jobs nobody works on.
Alone(j) ==
    /\ j \in inFlight <=> \E w \in Workers : at[w][j] # "idle"
    /\ \A v, w \in Workers : at[v][j] # "idle" /\ at[w][j] # "idle" => v = w
    /\ \A w \in Ticks : j \in tick[w].todo =>
          entries[j].status \in {"paid", "executed"} /\ j \notin inFlight

Unpaid(e) == e.status = "paid" /\ ~e.net
Confirmed(e) == e.status = "paid" /\ e.net

\* The entry e of a job, and the runs n of its skill, at each await s of its live
\* handler ...
LiveFit(s, e, n) ==
    /\ s \notin {"start", "empty", "ready", "reshare"}
    /\ s = "gates" => e.status = "absent"
    /\ s \in {"quote", "asking", "verify", "verifyLast", "claimed"} => Unpaid(e) /\ n = 0
    /\ s = "claimed" => e.sig \in Sigs
    /\ s = "exec" => Confirmed(e)
    /\ s \in {"deliver", "delivered"} => e.status = "executed"
    /\ s \in {"keep", "close", "aborted"} => e.status # "absent"

\* ... and of its recovery, with the retries r it has used.
TickFit(s, e, r) ==
    /\ s \notin {"gates", "quote", "asking", "verifyLast", "keep", "close", "aborted"}
    /\ s = "start" => e.status \in {"paid", "executed"} /\ (e.status = "paid" => r < MaxRetries)
    /\ s \in {"verify", "empty", "claimed"} => Unpaid(e) /\ r < MaxRetries
    /\ s = "claimed" => e.sig \in Sigs
    /\ s = "ready" => Confirmed(e) /\ r < MaxRetries
    /\ s = "exec" => Confirmed(e)
    /\ s \in {"reshare", "deliver", "delivered"} => e.status = "executed"

LiveFits(j) == LiveFit(at[Live][j], entries[j], executions[j])
TickFits(w, j) == TickFit(at[w][j], entries[j], meta[j].retry)

\* A first empty look counts only after the window, so what the second look
\* misses was not paid in time.
Judged(j) ==
    /\ j \in sawNoPayment => j \in windowOver
    /\ j \in denied => j \in windowOver /\ j \notin onTime
    /\ j \in sawNoPayment => \A w \in Ticks : at[w][j] = "empty" => j \notin onTime

Good(j) ==
    /\ Known(j) /\ Backed(entries, j) /\ Backed(disk, j) /\ Settled(j)
    /\ Alone(j) /\ LiveFits(j) /\ (\A w \in Ticks : TickFits(w, j)) /\ Judged(j)

Down ==
    ~up => /\ entries = L!Empty /\ at = AllIdle /\ inFlight = {} /\ sawNoPayment = {}
           /\ tick = [w \in Ticks |-> IdleTick]
           /\ meta = [j \in Jobs |-> NoMeta]

IInv ==
    /\ TypeOK
    /\ OneTick
    /\ expired = {}
    /\ Down
    /\ \A j \in Jobs : Good(j)

(***************************************************************************)
(* What a call of the ledger does: one entry and its counters change in    *)
(* memory, and the whole of memory reaches the file or nothing does.       *)
(***************************************************************************)
Wrote(j, e, m, ok) ==
    /\ entries' = [entries EXCEPT ![j] = e]
    /\ meta' = [meta EXCEPT ![j] = m]
    /\ IF ok THEN /\ disk' = entries' /\ metaDisk' = meta'
                  /\ settledBy' = settledBy \cup L!SettlementsIn(entries')
             ELSE /\ disk' = disk /\ metaDisk' = metaDisk /\ settledBy' = settledBy

Meta == [req : BOOLEAN, retry : Nat]

LedgerTypes ==
    /\ entries \in [Jobs -> L!Entry] /\ disk \in [Jobs -> L!Entry]
    /\ owners \in [Sigs -> Jobs \cup {NoJob}]
    /\ settledBy \in SUBSET (Sigs \X Jobs)
    /\ meta \in [Jobs -> Meta] /\ metaDisk \in [Jobs -> Meta]

LEMMA WriteTypes ==
    ASSUME LedgerTypes, NEW j \in Jobs, NEW e \in L!Entry, NEW m \in Meta, NEW ok \in BOOLEAN,
           Wrote(j, e, m, ok), owners' \in [Sigs -> Jobs \cup {NoJob}]
    PROVE  LedgerTypes'
<1>1. entries' \in [Jobs -> L!Entry] /\ meta' \in [Jobs -> Meta]
  BY DEF LedgerTypes, Wrote
<1>2. L!SettlementsIn(entries') \subseteq Sigs \X Jobs
  BY DEF L!SettlementsIn
<1>3. CASE ok
  <2>1. /\ disk' = entries' /\ metaDisk' = meta'
        /\ settledBy' = settledBy \cup L!SettlementsIn(entries')
    BY <1>3 DEF Wrote
  <2> QED BY <1>1, <1>2, <2>1 DEF LedgerTypes
<1>4. CASE ~ok
  BY <1>1, <1>4 DEF LedgerTypes, Wrote
<1> QED BY <1>3, <1>4

LEMMA Untouched ==
    ASSUME LedgerTypes, NEW j \in Jobs, UNCHANGED ledgerVars
    PROVE  Wrote(j, entries[j], meta[j], FALSE) /\ owners' = owners
BY DEF LedgerTypes, Wrote, ledgerVars

LEMMA TransitionWrites ==
    ASSUME LedgerTypes, NEW j \in Jobs, NEW to, NEW ok \in BOOLEAN, Transition(j, to, ok)
    PROVE  /\ Wrote(j, [entries[j] EXCEPT !.status = to], meta[j], ok) /\ owners' = owners
           /\ CanBecome(j, to)
BY DEF LedgerTypes, Wrote, Transition, L!mark, L!flush, Written, CanBecome, L!Entry

LEMMA FailedWrites ==
    ASSUME LedgerTypes, NEW j \in Jobs, markFailed(j)
    PROVE  \E ok \in BOOLEAN, st \in {entries[j].status, "failed"} :
              /\ Wrote(j, [entries[j] EXCEPT !.status = st], meta[j], ok)
              /\ st = "absent" <=> entries[j].status = "absent"
              /\ owners' = owners
<1>1. CASE CanBecome(j, "failed")
  <2>1. PICK ok \in BOOLEAN : Transition(j, "failed", ok)
    BY <1>1 DEF markFailed, Writes
  <2>2. entries[j].status # "absent"
    BY <1>1 DEF CanBecome, L!VALID_TRANSITIONS
  <2> QED BY <2>1, <2>2, TransitionWrites
<1>2. CASE ~CanBecome(j, "failed")
  <2>1. Wrote(j, entries[j], meta[j], FALSE) /\ owners' = owners
    BY <1>2, Untouched DEF markFailed
  <2>2. [entries[j] EXCEPT !.status = entries[j].status] = entries[j]
    BY DEF LedgerTypes, L!Entry
  <2> QED BY <2>1, <2>2
<1> QED BY <1>1, <1>2

LEMMA PaymentWrites ==
    ASSUME LedgerTypes, NEW j \in Jobs, NEW net \in BOOLEAN, NEW ok \in BOOLEAN, NEW m,
           L!updatePayment(j, net, ok), meta' = [meta EXCEPT ![j] = m], Written(ok)
    PROVE  /\ Wrote(j, [entries[j] EXCEPT !.net = @ \/ net], m, ok) /\ owners' = owners
           /\ entries[j].status # "absent"
BY DEF LedgerTypes, Wrote, L!updatePayment, L!flush, Written, L!Entry

LEMMA RetryWrites ==
    ASSUME LedgerTypes, NEW j \in Jobs, NEW ok \in BOOLEAN, incrementRetry(j, ok)
    PROVE  /\ Wrote(j, entries[j],
                    [meta[j] EXCEPT !.retry = IF @ < MaxRetries THEN @ + 1 ELSE @], ok)
           /\ owners' = owners /\ entries[j].status # "absent"
BY DEF LedgerTypes, Wrote, incrementRetry, L!setFields, L!flush, Written, Meta

LEMMA RecordWrites ==
    ASSUME LedgerTypes, NEW j \in Jobs, NEW ok \in BOOLEAN,
           L!recordPaid(j, ok), meta' = [meta EXCEPT ![j] = NoMeta], Written(ok)
    PROVE  /\ Wrote(j, L!Blank, NoMeta, ok) /\ owners' = owners
           /\ entries[j].status = "absent"
BY DEF LedgerTypes, Wrote, L!recordPaid, L!flush, Written

LEMMA ClaimTypes ==
    ASSUME LedgerTypes, NEW j \in Jobs, NEW t \in Sigs, NEW ok \in BOOLEAN,
           L!claimPaymentSignature(j, t, ok)
    PROVE  owners' \in [Sigs -> Jobs \cup {NoJob}]
<1>1. L!MarksOfClaim(j, t) \in [Sigs -> Jobs \cup {NoJob}]
  BY DEF LedgerTypes, L!MarksOfClaim
<1>2. L!MarksRolledBack(j, t, L!MarksOfClaim(j, t)) \in [Sigs -> Jobs \cup {NoJob}]
  BY <1>1 DEF LedgerTypes, L!MarksRolledBack
<1> QED
  BY <1>1, <1>2 DEF LedgerTypes, L!claimPaymentSignature, L!BindClaim

\* A claim binds the signature, or leaves the ledger's entries as they are.
LEMMA ClaimWrites ==
    ASSUME LedgerTypes, NEW j \in Jobs, NEW t \in Sigs, NEW ok \in BOOLEAN,
           L!claimPaymentSignature(j, t, ok), UNCHANGED meta,
           IF L!ClaimOutcome(j, t, ok) \in {"claimed", "not-persisted"}
              THEN Written(ok) ELSE ok /\ UNCHANGED <<metaDisk, badWrites>>
    PROVE  \/ /\ L!ClaimOutcome(j, t, ok) = "claimed"
              /\ Wrote(j, [entries[j] EXCEPT !.sig = t], meta[j], TRUE)
              /\ entries[j].status # "absent"
           \/ L!ClaimOutcome(j, t, ok) # "claimed" /\ Wrote(j, entries[j], meta[j], FALSE)
<1> DEFINE o == L!ClaimOutcome(j, t, ok)
<1>1. CASE o = "claimed"
  <2>1. ok /\ entries[j].status # "absent"
    BY <1>1 DEF L!ClaimOutcome
  <2>2. Wrote(j, [entries[j] EXCEPT !.sig = t], meta[j], TRUE)
    BY <1>1, <2>1 DEF LedgerTypes, Wrote, L!claimPaymentSignature, L!BindClaim, L!flush,
                      Written, L!Entry
  <2> QED BY <1>1, <2>1, <2>2
<1>2. CASE o = "not-persisted"
  <2>1. ~ok
    BY <1>2 DEF L!ClaimOutcome
  <2>2. entries' = entries
    BY <1>2, <2>1 DEF LedgerTypes, L!claimPaymentSignature, L!BindClaim, L!Entry
  <2>3. disk' = disk /\ settledBy' = settledBy /\ metaDisk' = metaDisk
    BY <1>2, <2>1 DEF L!claimPaymentSignature, L!BindClaim, L!flush, Written
  <2> QED BY <1>2, <2>2, <2>3 DEF LedgerTypes, Wrote
<1>3. CASE o \notin {"claimed", "not-persisted"}
  BY <1>3 DEF LedgerTypes, Wrote, L!claimPaymentSignature
<1> QED BY <1>1, <1>2, <1>3

(***************************************************************************)
(* The ledger's part of the invariant survives every call.                 *)
(***************************************************************************)
LedgerGood(j) == Known(j) /\ Backed(entries, j) /\ Backed(disk, j) /\ Settled(j)

\* An entry the invariant allows for job j, with its counters.
Fair(j, e, m) ==
    /\ ~e.old
    /\ e.net => e.sig \in Sigs
    /\ e.sig \in Sigs => j \in chain[e.sig]
    /\ m.retry <= MaxRetries
    /\ entries[j].status # "absent" => meta[j].retry <= m.retry /\ e.status # "absent"
    /\ entries[j].status = "absent" => m.retry = 0

\* The skill is not started, or it is after its count reached the file.
Counted(j, e, m, ok) ==
    \/ executions' = executions
    \/ /\ ok /\ executions' = [executions EXCEPT ![j] = @ + 1]
       /\ executions[j] <= m.retry /\ e.net /\ e.status # "absent"

LEMMA Types ==
    ASSUME TypeOK
    PROVE  /\ LedgerTypes
           /\ at \in [Workers -> [Jobs -> Steps]]
           /\ tick \in [Ticks -> [step : {"idle", "walk", "notify"}, todo : SUBSET Jobs,
                                  scans : Nat]]
           /\ executions \in [Jobs -> Nat]
           /\ chain \in [Sigs -> SUBSET Jobs]
           /\ up \in BOOLEAN
BY DEF TypeOK, L!TypeOK, LedgerTypes, Meta

LEMMA WriteKeeps ==
    ASSUME IInv, up, up' = up, NEW j \in Jobs, NEW e \in L!Entry, NEW m \in Meta,
           NEW ok \in BOOLEAN, Wrote(j, e, m, ok), Fair(j, e, m), Counted(j, e, m, ok),
           chain' = chain, onTime' = onTime
    PROVE  \A k \in Jobs : LedgerGood(k)'
<1> SUFFICES ASSUME NEW k \in Jobs PROVE LedgerGood(k)'
  OBVIOUS
<1>1. /\ LedgerTypes /\ executions \in [Jobs -> Nat] /\ MaxRetries \in Nat
      /\ Known(k) /\ Backed(entries, k) /\ Backed(disk, k) /\ Settled(k)
  BY Types, RuntimeAssumption DEF IInv, Good
<1>2. /\ entries'[k] = IF k = j THEN e ELSE entries[k]
      /\ meta'[k] = IF k = j THEN m ELSE meta[k]
  BY <1>1 DEF Wrote, LedgerTypes
<1>3. \/ executions'[k] = executions[k]
      \/ /\ k = j /\ ok /\ executions'[k] = executions[k] + 1
         /\ executions[k] <= m.retry /\ e.net /\ e.status # "absent"
  BY <1>1 DEF Counted
<1>4. \/ /\ disk'[k] = disk[k] /\ metaDisk'[k] = metaDisk[k] /\ settledBy' = settledBy /\ ~ok
      \/ /\ disk'[k] = entries'[k] /\ metaDisk'[k] = meta'[k] /\ ok
         /\ settledBy' = settledBy \cup L!SettlementsIn(entries')
  BY DEF Wrote
<1>5. /\ meta[k].retry \in Nat /\ metaDisk[k].retry \in Nat /\ executions[k] \in Nat
      /\ m.retry \in Nat
  BY <1>1 DEF LedgerTypes, Meta
<1>6. Known(k)'
  BY <1>1, <1>2, <1>3, <1>4, <1>5 DEF Known, Fair
<1>7. Backed(entries, k)'
  BY <1>1, <1>2 DEF Backed, Fair
<1>8. Backed(disk, k)'
  BY <1>1, <1>2, <1>4, <1>7 DEF Backed
<1>9. \A t \in Sigs : <<t, k>> \in L!SettlementsIn(entries')
                        <=> entries'[k].sig = t /\ entries'[k].net
  BY DEF L!SettlementsIn
<1>10. Settled(k)'
  <2>1. \A t \in Sigs : <<t, k>> \in settledBy' => k \in chain[t]
    BY <1>1, <1>4, <1>7, <1>9 DEF Settled, Backed
  <2>2. executions'[k] > 0 => \E t \in Sigs : <<t, k>> \in settledBy'
    <3>1. CASE executions'[k] = executions[k]
      BY <1>1, <1>4, <3>1 DEF Settled
    <3>2. CASE executions'[k] # executions[k]
      <4>1. entries'[k].net /\ entries'[k].sig \in Sigs /\ ok
        BY <1>2, <1>3, <1>7, <3>2 DEF Backed
      <4> QED BY <1>4, <1>9, <4>1
    <3> QED BY <3>1, <3>2
  <2> QED BY <1>1, <2>1, <2>2 DEF Settled
<1> QED BY <1>6, <1>7, <1>8, <1>10 DEF LedgerGood

LEMMA QuietKeeps ==
    ASSUME IInv, UNCHANGED ledgerVars, up' = up, executions' = executions,
           chain' = chain, onTime' = onTime
    PROVE  \A k \in Jobs : LedgerGood(k)'
<1> SUFFICES ASSUME NEW k \in Jobs PROVE LedgerGood(k)'
  OBVIOUS
<1>1. Known(k) /\ Backed(entries, k) /\ Backed(disk, k) /\ Settled(k)
  BY DEF IInv, Good
<1>2. Known(k)' /\ Backed(entries, k)' /\ Backed(disk, k)' /\ Settled(k)'
  BY <1>1 DEF Known, Backed, Settled, ledgerVars
<1> QED BY <1>2 DEF LedgerGood

(***************************************************************************)
(* The control part: a step of one worker at one job.                      *)
(***************************************************************************)
ControlGood(j) == Alone(j) /\ LiveFits(j) /\ (\A w \in Ticks : TickFits(w, j)) /\ Judged(j)

Moves(w, j, s) ==
    /\ at' = [at EXCEPT ![w][j] = s]
    /\ inFlight' = IF s = "idle" THEN inFlight \ {j} ELSE inFlight

\* What a worker's step leaves alone: the other jobs and the world.
OnlyAt(j) ==
    /\ \A k \in Jobs \ {j} : /\ entries'[k] = entries[k] /\ meta'[k] = meta[k]
                             /\ executions'[k] = executions[k]
                             /\ k \in sawNoPayment' <=> k \in sawNoPayment
                             /\ k \in denied' <=> k \in denied
    /\ windowOver' = windowOver /\ onTime' = onTime

LEMMA TurnKeeps ==
    ASSUME IInv, NEW w \in Workers, NEW j \in Jobs, NEW s \in Steps,
           at[w][j] # "idle", Moves(w, j, s), tick' = tick, OnlyAt(j),
           w = Live => LiveFit(s, entries'[j], executions'[j]),
           w # Live => TickFit(s, entries'[j], meta'[j].retry),
           j \in sawNoPayment' => j \in windowOver /\ (s = "empty" => j \notin onTime),
           j \in denied' => j \in windowOver /\ j \notin onTime
    PROVE  \A k \in Jobs : ControlGood(k)'
<1> SUFFICES ASSUME NEW k \in Jobs PROVE ControlGood(k)'
  OBVIOUS
<1>1. /\ Alone(k) /\ Alone(j) /\ LiveFits(k) /\ (\A v \in Ticks : TickFits(v, k)) /\ Judged(k)
      /\ at \in [Workers -> [Jobs -> Steps]]
  BY Types DEF IInv, Good
<1>2. /\ \A v \in Workers : at'[v][k] = IF v = w /\ k = j THEN s ELSE at[v][k]
      /\ k \in inFlight' <=> IF k = j /\ s = "idle" THEN FALSE ELSE k \in inFlight
  BY <1>1 DEF Moves
<1>3. Live \in Workers /\ Live \notin Ticks /\ \A v \in Ticks : v \in Workers
  BY RuntimeAssumption DEF Workers
<1>4. k = j => \A v \in Workers : v # w => at[v][k] = "idle"
  BY <1>1 DEF Alone
<1>5. k = j => j \in inFlight /\ \A v \in Ticks : k \notin tick[v].todo
  BY <1>1 DEF Alone
<1>6. k # j => entries'[k] = entries[k] /\ meta'[k] = meta[k] /\ executions'[k] = executions[k]
  BY DEF OnlyAt
<1>7. Alone(k)'
  <2>1. k \in inFlight' <=> \E v \in Workers : at'[v][k] # "idle"
    BY <1>1, <1>2, <1>4, <1>5 DEF Alone
  <2>2. \A u, v \in Workers : at'[u][k] # "idle" /\ at'[v][k] # "idle" => u = v
    BY <1>1, <1>2, <1>4 DEF Alone
  <2>3. \A v \in Ticks : k \in tick'[v].todo =>
            entries'[k].status \in {"paid", "executed"} /\ k \notin inFlight'
    BY <1>1, <1>2, <1>5, <1>6 DEF Alone
  <2> QED BY <2>1, <2>2, <2>3 DEF Alone
<1>8. LiveFits(k)'
  <2>1. CASE k # j
    BY <1>1, <1>2, <1>3, <1>6, <2>1 DEF LiveFits
  <2>2. CASE k = j /\ w = Live
    BY <1>2, <2>2 DEF LiveFits
  <2>3. CASE k = j /\ w # Live
    <3>1. at'[Live][k] = "idle"
      BY <1>2, <1>3, <1>4, <2>3
    <3> QED BY <3>1 DEF LiveFits, LiveFit
  <2> QED BY <2>1, <2>2, <2>3
<1>9. \A v \in Ticks : TickFits(v, k)'
  <2> SUFFICES ASSUME NEW v \in Ticks PROVE TickFits(v, k)'
    OBVIOUS
  <2>1. CASE k # j
    BY <1>1, <1>2, <1>3, <1>6, <2>1 DEF TickFits
  <2>2. CASE k = j /\ w = v
    BY <1>2, <1>3, <2>2 DEF TickFits
  <2>3. CASE k = j /\ w # v
    <3>1. at'[v][k] = "idle"
      BY <1>2, <1>3, <1>4, <2>3
    <3> QED BY <3>1 DEF TickFits, TickFit
  <2> QED BY <2>1, <2>2, <2>3
<1>10. Judged(k)'
  <2>1. CASE k # j
    BY <1>1, <1>2, <1>3, <2>1 DEF Judged, OnlyAt
  <2>2. CASE k = j
    BY <1>2, <1>3, <1>4, <2>2 DEF Judged, OnlyAt
  <2> QED BY <2>1, <2>2
<1> QED BY <1>7, <1>8, <1>9, <1>10 DEF ControlGood

LEMMA Assembled ==
    ASSUME TypeOK', OneTick, expired' = {}, up', \A k \in Jobs : LedgerGood(k)',
           \A k \in Jobs : ControlGood(k)'
    PROVE  IInv'
BY DEF IInv, Down, Good, LedgerGood, ControlGood

(***************************************************************************)
(* One lemma for a worker's step: it writes one entry, moves one worker.   *)
(***************************************************************************)
Turned(j) ==
    /\ UNCHANGED <<tick, listening, stopping, up, expired, chain, windowOver, onTime>>
    /\ {waiting', sawNoPayment', asked', late', denied', told', results'} \subseteq SUBSET Jobs
    /\ \A k \in Jobs \ {j} : /\ k \in sawNoPayment' <=> k \in sawNoPayment
                             /\ k \in denied' <=> k \in denied

Judging(j, s) ==
    /\ j \in sawNoPayment' => j \in windowOver /\ (s = "empty" => j \notin onTime)
    /\ j \in denied' => j \in windowOver /\ j \notin onTime

Fits(w, s, e, n, r) == IF w = Live THEN LiveFit(s, e, n) ELSE TickFit(s, e, r)

LEMMA WorkerKeeps ==
    ASSUME IInv, NEW w \in Workers, NEW j \in Jobs, NEW s \in Steps, NEW e \in L!Entry,
           NEW m \in Meta, NEW ok \in BOOLEAN, at[w][j] # "idle",
           Wrote(j, e, m, ok), owners' \in [Sigs -> Jobs \cup {NoJob}],
           Fair(j, e, m), Counted(j, e, m, ok), Moves(w, j, s), Turned(j), Judging(j, s),
           Fits(w, s, e, executions'[j], m.retry)
    PROVE  IInv'
<1>0. /\ LedgerTypes /\ TypeOK /\ OneTick /\ expired = {}
      /\ at \in [Workers -> [Jobs -> Steps]] /\ executions \in [Jobs -> Nat]
  BY Types DEF IInv
<1>1. up
  <2>1. ~up => at[w][j] = "idle"
    BY DEF IInv, Down, AllIdle
  <2> QED BY <2>1
<1>2. up' /\ up' = up /\ expired' = {} /\ tick' = tick /\ chain' = chain /\ onTime' = onTime
  BY <1>0, <1>1 DEF Turned
<1>3. \A k \in Jobs : LedgerGood(k)'
  BY <1>1, <1>2, WriteKeeps
<1>4. LedgerTypes'
  BY <1>0, WriteTypes
<1>5. /\ entries'[j] = e /\ meta'[j] = m
      /\ \A k \in Jobs \ {j} : /\ entries'[k] = entries[k] /\ meta'[k] = meta[k]
                               /\ executions'[k] = executions[k]
  BY <1>0 DEF Wrote, LedgerTypes, Counted
<1>6. OnlyAt(j)
  BY <1>5 DEF OnlyAt, Turned
<1>7. \A k \in Jobs : ControlGood(k)'
  BY <1>2, <1>5, <1>6, TurnKeeps DEF Fits, Judging
<1>8. executions' \in [Jobs -> Nat]
  BY <1>0 DEF Counted
<1>9. at' \in [Workers -> [Jobs -> Steps]] /\ inFlight' \in SUBSET Jobs
  <2>1. inFlight \in SUBSET Jobs
    BY <1>0 DEF TypeOK
  <2> QED BY <1>0, <2>1 DEF Moves
<1>10. TypeOK'
  <2>1. L!TypeOK'
    BY <1>0, <1>2, <1>4 DEF LedgerTypes, L!TypeOK
  <2>2. windowOver' \in SUBSET Jobs /\ onTime' \in SUBSET Jobs
    BY <1>0 DEF TypeOK, Turned
  <2>3. /\ tick' = tick /\ listening' = listening /\ stopping' = stopping /\ chain' = chain
        /\ {waiting', sawNoPayment', asked', late', denied', told', results'} \subseteq SUBSET Jobs
    BY DEF Turned
  <2> QED BY <1>0, <1>4, <1>8, <1>9, <2>1, <2>2, <2>3 DEF TypeOK, LedgerTypes, Meta
<1> QED BY <1>0, <1>2, <1>3, <1>7, <1>10, Assembled

LEMMA JobFacts ==
    ASSUME IInv, NEW j \in Jobs
    PROVE  /\ LedgerTypes /\ entries[j] \in L!Entry /\ meta[j] \in Meta
           /\ Fair(j, entries[j], meta[j]) /\ Known(j) /\ Alone(j)
           /\ LiveFit(at[Live][j], entries[j], executions[j])
           /\ \A w \in Ticks : TickFit(at[w][j], entries[j], meta[j].retry)
           /\ executions[j] \in Nat /\ meta[j].retry \in Nat
           /\ Live \in Workers /\ Live \notin Ticks /\ Ticks \subseteq Workers
           /\ owners \in [Sigs -> Jobs \cup {NoJob}]
<1>1. LedgerTypes /\ Good(j) /\ executions \in [Jobs -> Nat]
  BY Types DEF IInv
<1>2. entries[j] \in L!Entry /\ meta[j] \in Meta
  BY <1>1 DEF LedgerTypes
<1>3. meta[j].retry \in Nat
  BY <1>2 DEF Meta
<1>4. up \/ (~up /\ entries[j].status = "absent" /\ meta[j].retry = 0)
  <2>1. ~up => entries[j] = L!Absent /\ meta[j] = NoMeta
    BY DEF IInv, Down, L!Empty
  <2> QED BY <2>1 DEF L!Absent, NoMeta
<1>5. Fair(j, entries[j], meta[j])
  BY <1>1, <1>3, <1>4 DEF Good, Fair, Backed, Known
<1> QED BY <1>1, <1>2, <1>3, <1>5, RuntimeAssumption
        DEF Good, LiveFits, TickFits, Workers, LedgerTypes

Busy(w, j) == at[w][j] # "idle"

Plain == UNCHANGED <<deferVars, tickVars, worldVars, onTime, denied, told>>
         /\ results' \in SUBSET Jobs

LEMMA PlainTurn ==
    ASSUME IInv, NEW j \in Jobs, NEW s, s # "empty", Plain
    PROVE  Turned(j) /\ Judging(j, s)
<1>1. TypeOK /\ Judged(j)
  BY DEF IInv, Good
<1>2. {waiting', sawNoPayment', asked', late', denied', told', results'} \subseteq SUBSET Jobs
  BY <1>1 DEF TypeOK, Plain, deferVars, worldVars
<1>3. Turned(j)
  BY <1>2 DEF Turned, Plain, deferVars, tickVars, worldVars
<1>4. Judging(j, s)
  BY <1>1 DEF Judging, Judged, Plain, deferVars
<1> QED BY <1>3, <1>4

\* A step that leaves the ledger alone ...
LEMMA StayKeeps ==
    ASSUME IInv, NEW w \in Workers, NEW j \in Jobs, NEW s \in Steps, s # "empty", Busy(w, j),
           UNCHANGED ledgerVars, UNCHANGED executions, Plain, Moves(w, j, s),
           Fits(w, s, entries[j], executions[j], meta[j].retry)
    PROVE  IInv'
<1>1. LedgerTypes /\ entries[j] \in L!Entry /\ meta[j] \in Meta /\ Fair(j, entries[j], meta[j])
      /\ owners \in [Sigs -> Jobs \cup {NoJob}]
  BY JobFacts
<1>2. Wrote(j, entries[j], meta[j], FALSE) /\ owners' = owners
  BY <1>1, Untouched
<1>3. Turned(j) /\ Judging(j, s)
  BY PlainTurn
<1>4. Counted(j, entries[j], meta[j], FALSE)
  BY DEF Counted
<1> QED BY <1>1, <1>2, <1>3, <1>4, WorkerKeeps DEF Busy

\* ... and one that writes the status of its job.
LEMMA StatusKeeps ==
    ASSUME IInv, NEW w \in Workers, NEW j \in Jobs, NEW s \in Steps, s # "empty", Busy(w, j),
           NEW st \in L!Statuses, st = "absent" <=> entries[j].status = "absent",
           NEW ok \in BOOLEAN, Wrote(j, [entries[j] EXCEPT !.status = st], meta[j], ok),
           owners' = owners, UNCHANGED executions, Plain, Moves(w, j, s),
           Fits(w, s, [entries[j] EXCEPT !.status = st], executions[j], meta[j].retry)
    PROVE  IInv'
<1> DEFINE e == [entries[j] EXCEPT !.status = st]
<1>1. LedgerTypes /\ entries[j] \in L!Entry /\ meta[j] \in Meta /\ Fair(j, entries[j], meta[j])
      /\ owners \in [Sigs -> Jobs \cup {NoJob}]
  BY JobFacts
<1>2. e \in L!Entry /\ e.status = st /\ e.sig = entries[j].sig /\ e.net = entries[j].net
      /\ e.old = entries[j].old
  BY <1>1 DEF L!Entry
<1>3. Turned(j) /\ Judging(j, s)
  BY PlainTurn
<1>4. Counted(j, e, meta[j], ok)
  BY DEF Counted
<1>5. Fair(j, e, meta[j])
  BY <1>1, <1>2 DEF Fair
<1> QED BY <1>1, <1>2, <1>3, <1>4, <1>5, WorkerKeeps DEF Busy

LEMMA Closing ==
    ASSUME IInv, NEW w \in Workers, NEW j \in Jobs, Busy(w, j), markFailed(j), Leave(w, j),
           UNCHANGED executions, Plain
    PROVE  IInv'
<1>1. LedgerTypes /\ entries[j] \in L!Entry
  BY JobFacts
<1>2. PICK ok \in BOOLEAN, st \in {entries[j].status, "failed"} :
         /\ Wrote(j, [entries[j] EXCEPT !.status = st], meta[j], ok)
         /\ st = "absent" <=> entries[j].status = "absent"
         /\ owners' = owners
  BY <1>1, FailedWrites
<1>3. st \in L!Statuses
  BY <1>1 DEF L!Entry, L!Statuses
<1>4. Moves(w, j, "idle") /\ "idle" \in Steps
  BY DEF Leave, Moves, Steps
<1>5. \A e, n, r : Fits(w, "idle", e, n, r)
  BY DEF Fits, LiveFit, TickFit
<1> QED BY <1>2, <1>3, <1>4, <1>5, StatusKeeps

LEMMA Leaving ==
    ASSUME IInv, NEW w \in Workers, NEW j \in Jobs, Busy(w, j), UNCHANGED ledgerVars,
           Leave(w, j), UNCHANGED executions, Plain
    PROVE  IInv'
<1>1. Moves(w, j, "idle") /\ "idle" \in Steps
  BY DEF Leave, Moves, Steps
<1>2. \A e, n, r : Fits(w, "idle", e, n, r)
  BY DEF Fits, LiveFit, TickFit
<1> QED BY <1>1, <1>2, StayKeeps

LEMMA Going ==
    ASSUME IInv, NEW w \in Workers, NEW j \in Jobs, Busy(w, j), UNCHANGED ledgerVars,
           NEW s \in Steps \ {"idle", "empty"}, Goto(w, j, s), UNCHANGED executions, Plain,
           Fits(w, s, entries[j], executions[j], meta[j].retry)
    PROVE  IInv'
<1>1. Moves(w, j, s)
  BY DEF Goto, Moves
<1> QED BY <1>1, StayKeeps

\* Where an error takes a worker.
LEMMA ThrowMoves ==
    ASSUME NEW w \in Workers, NEW j \in Jobs, Throw(w, j)
    PROVE  \E s \in {"keep", "close", "idle"} :
              Moves(w, j, s) /\ (w = Live => s # "idle") /\ (w # Live => s = "idle")
BY DEF Throw, Goto, Leave, Moves

LEMMA ThrowFits ==
    ASSUME NEW w, NEW s \in {"keep", "close", "idle"}, w # Live => s = "idle",
           NEW e, NEW n, NEW r, e.status # "absent"
    PROVE  Fits(w, s, e, n, r)
BY DEF Fits, LiveFit, TickFit

LEMMA PlainFrame ==
    ASSUME IInv, UNCHANGED <<deferVars, tickVars, worldVars, histVars>>
    PROVE  Plain /\ UNCHANGED executions
<1>1. results \in SUBSET Jobs
  BY DEF IInv, TypeOK
<1> QED BY <1>1 DEF Plain, histVars

(***************************************************************************)
(* The steps of the live handler.                                          *)
(***************************************************************************)
LEMMA RefuseKeeps == ASSUME IInv, NEW j \in Jobs, Refuse(j) PROVE IInv'
BY JobFacts, PlainFrame, Leaving DEF Refuse, Busy

LEMMA AcceptKeeps == ASSUME IInv, NEW j \in Jobs, Accept(j) PROVE IInv'
<1>1. PICK ok \in BOOLEAN :
         /\ L!recordPaid(j, ok) /\ meta' = [meta EXCEPT ![j] = NoMeta] /\ Written(ok)
         /\ IF ok THEN Goto(Live, j, "quote") ELSE Throw(Live, j)
  BY DEF Accept, Writes
<1>2. LedgerTypes /\ Live \in Workers /\ owners \in [Sigs -> Jobs \cup {NoJob}] /\ Known(j)
  BY JobFacts
<1>3. Wrote(j, L!Blank, NoMeta, ok) /\ owners' = owners /\ entries[j].status = "absent"
  BY <1>1, <1>2, RecordWrites
<1>4. /\ L!Blank \in L!Entry /\ L!Blank.status = "paid" /\ ~L!Blank.net /\ ~L!Blank.old
      /\ L!Blank.sig \notin Sigs
  BY RuntimeAssumption DEF L!Blank, L!Absent, L!Entry, L!Statuses
<1>5. NoMeta \in Meta /\ NoMeta.retry = 0
  BY DEF NoMeta, Meta
<1>6. executions' = executions /\ TypeOK /\ Busy(Live, j) /\ up
  BY DEF IInv, Accept, histVars, Busy, Down, AllIdle, Workers
<1>7. executions[j] = 0
  BY <1>2, <1>3, <1>6 DEF Known
<1>8. Fair(j, L!Blank, NoMeta)
  BY <1>3, <1>4, <1>5, RuntimeAssumption DEF Fair
<1>9. Counted(j, L!Blank, NoMeta, ok)
  BY <1>6 DEF Counted
<1>10. PICK s \in {"quote", "keep", "close"} : Moves(Live, j, s)
  BY <1>1, <1>2, ThrowMoves DEF Goto, Moves
<1>11. Fits(Live, s, L!Blank, 0, 0)
  BY <1>4, <1>10 DEF Fits, LiveFit, Unpaid
<1>12. Turned(j)
  BY <1>6 DEF Accept, Turned, deferVars, tickVars, histVars, TypeOK
<1>13. Judging(j, s)
  <2>1. Judged(j)
    BY DEF IInv, Good
  <2> QED BY <1>10, <2>1 DEF Accept, Judging, Judged, deferVars, histVars
<1>14. s \in Steps
  BY DEF Steps
<1> QED
  BY <1>2, <1>3, <1>4, <1>5, <1>6, <1>7, <1>8, <1>9, <1>10, <1>11, <1>12, <1>13, <1>14,
     WorkerKeeps DEF Busy

LEMMA QuoteKeeps == ASSUME IInv, NEW j \in Jobs, Quote(j) PROVE IInv'
<1>0. /\ LedgerTypes /\ Live \in Workers /\ Busy(Live, j) /\ owners \in [Sigs -> Jobs \cup {NoJob}]
      /\ entries[j] \in L!Entry /\ meta[j] \in Meta /\ Fair(j, entries[j], meta[j])
      /\ LiveFit("quote", entries[j], executions[j]) /\ Plain /\ executions' = executions
  BY JobFacts, PlainFrame DEF Quote, Busy
<1>1. CASE Goto(Live, j, "close") /\ UNCHANGED ledgerVars
  <2>1. "close" \in Steps \ {"idle", "empty"}
    BY DEF Steps
  <2>2. Fits(Live, "close", entries[j], executions[j], meta[j].retry)
    BY <1>0 DEF Fits, LiveFit, Unpaid
  <2> QED BY <1>0, <1>1, <2>1, <2>2, Going
<1>2. ASSUME NEW ok \in BOOLEAN, L!updatePayment(j, FALSE, ok),
             meta' = [meta EXCEPT ![j].req = TRUE], Written(ok),
             IF ok THEN Goto(Live, j, "asking") ELSE Throw(Live, j)
      PROVE  IInv'
  <2> DEFINE e == [entries[j] EXCEPT !.net = @ \/ FALSE]
             m == [meta[j] EXCEPT !.req = TRUE]
  <2>1. meta' = [meta EXCEPT ![j] = m] /\ m \in Meta /\ m.retry = meta[j].retry
    BY <1>0, <1>2 DEF LedgerTypes, Meta
  <2>2. Wrote(j, e, m, ok) /\ owners' = owners
    BY <1>0, <1>2, <2>1, PaymentWrites
  <2>3. e = entries[j]
    BY <1>0 DEF L!Entry
  <2> HIDE DEF e, m
  <2>4. Fair(j, e, m)
    BY <1>0, <2>1, <2>3 DEF Fair
  <2>5. Counted(j, e, m, ok)
    BY <1>0 DEF Counted
  <2>6. PICK s \in {"asking", "keep", "close"} : Moves(Live, j, s)
    BY <1>0, <1>2, ThrowMoves DEF Goto, Moves
  <2>7. Fits(Live, s, e, executions'[j], m.retry)
    BY <1>0, <2>3 DEF Fits, LiveFit, Unpaid
  <2>8. Turned(j) /\ Judging(j, s) /\ s \in Steps
    BY <1>0, PlainTurn DEF Steps
  <2> QED BY <1>0, <2>1, <2>2, <2>3, <2>4, <2>5, <2>6, <2>7, <2>8, WorkerKeeps DEF Busy
<1>3. \/ Goto(Live, j, "close") /\ UNCHANGED ledgerVars
      \/ \E ok \in BOOLEAN : /\ L!updatePayment(j, FALSE, ok)
                            /\ meta' = [meta EXCEPT ![j].req = TRUE] /\ Written(ok)
                            /\ IF ok THEN Goto(Live, j, "asking") ELSE Throw(Live, j)
  BY DEF Quote, Writes
<1> QED BY <1>1, <1>2, <1>3

LEMMA AskKeeps == ASSUME IInv, NEW j \in Jobs, Ask(j) PROVE IInv'
<1>0. /\ LedgerTypes /\ Live \in Workers /\ owners \in [Sigs -> Jobs \cup {NoJob}]
      /\ entries[j] \in L!Entry /\ meta[j] \in Meta /\ Fair(j, entries[j], meta[j])
      /\ LiveFit("asking", entries[j], executions[j])
  BY JobFacts DEF Ask
<1>1. Wrote(j, entries[j], meta[j], FALSE) /\ owners' = owners
  BY <1>0, Untouched DEF Ask
<1>2. PICK s \in {"verify", "close"} : Moves(Live, j, s)
  BY DEF Ask, Goto, Moves
<1>3. Turned(j)
  <2>1. TypeOK
    BY DEF IInv
  <2> QED BY <2>1 DEF Ask, Turned, deferVars, tickVars, histVars, TypeOK
<1>4. Judging(j, s)
  <2>1. Judged(j)
    BY DEF IInv, Good
  <2> QED BY <1>2, <2>1 DEF Ask, Judging, Judged, deferVars, histVars
<1>5. executions' = executions /\ at[Live][j] # "idle" /\ s \in Steps
  BY <1>2 DEF Ask, histVars, Steps
<1>6. Counted(j, entries[j], meta[j], FALSE)
  BY <1>5 DEF Counted
<1>7. Fits(Live, s, entries[j], executions'[j], meta[j].retry)
  BY <1>0, <1>2, <1>5 DEF Fits, LiveFit, Unpaid
<1> QED BY <1>0, <1>1, <1>2, <1>3, <1>4, <1>5, <1>6, <1>7, WorkerKeeps

LEMMA WaitKeeps ==
    ASSUME IInv, NEW j \in Jobs, PathLoses(j) \/ PaymentTimeout(j)
    PROVE  IInv'
<1>0. /\ Live \in Workers /\ Busy(Live, j) /\ Plain /\ UNCHANGED executions
      /\ at[Live][j] \in {"verify", "verifyLast"} /\ UNCHANGED ledgerVars
      /\ LiveFit(at[Live][j], entries[j], executions[j])
  BY JobFacts, PlainFrame DEF PathLoses, PaymentTimeout, NextPath, Busy
<1>1. PICK s \in {"verifyLast", "keep"} : Goto(Live, j, s)
  BY <1>0 DEF PathLoses, PaymentTimeout, NextPath
<1>2. s \in Steps \ {"idle", "empty"}
  BY <1>1 DEF Steps
<1>3. Fits(Live, s, entries[j], executions[j], meta[j].retry)
  BY <1>0, <1>1 DEF Fits, LiveFit, Unpaid
<1> QED BY <1>0, <1>1, <1>2, <1>3, Going

LEMMA CatchKeeps == ASSUME IInv, NEW j \in Jobs, Catch(j) PROVE IInv'
<1>1. /\ Live \in Workers /\ Busy(Live, j) /\ Plain /\ UNCHANGED executions /\ Leave(Live, j)
  BY JobFacts, PlainFrame DEF Catch, Busy
<1>2. UNCHANGED ledgerVars \/ markFailed(j)
  BY DEF Catch
<1> QED BY <1>1, <1>2, Leaving, Closing

(***************************************************************************)
(* Settling, working and delivering, live and in recovery.                 *)
(***************************************************************************)
Deferring(j) ==
    \/ UNCHANGED deferVars
    \/ waiting' \in SUBSET Jobs /\ sawNoPayment' = sawNoPayment \ {j}

LEMMA DeferTurn ==
    ASSUME IInv, NEW j \in Jobs, NEW s, s # "empty", Deferring(j),
           UNCHANGED <<tickVars, worldVars, onTime, denied, told, results>>
    PROVE  Turned(j) /\ Judging(j, s)
<1>1. TypeOK /\ Judged(j)
  BY DEF IInv, Good
<1>2. {waiting', sawNoPayment', asked', late', denied', told', results'} \subseteq SUBSET Jobs
  BY <1>1 DEF TypeOK, Deferring, deferVars, worldVars
<1>3. Turned(j)
  BY <1>2 DEF Turned, Deferring, deferVars, tickVars, worldVars
<1>4. Judging(j, s)
  BY <1>1 DEF Judging, Judged, Deferring, deferVars
<1> QED BY <1>3, <1>4

LEMMA DeferredMoves ==
    ASSUME IInv, NEW w \in Workers, NEW j \in Jobs, Deferred(w, j)
    PROVE  Deferring(j) /\ Moves(w, j, "idle")
<1>1. waiting \in SUBSET Jobs
  BY DEF IInv, TypeOK
<1> QED BY <1>1 DEF Deferred, Defer, Deferring, Leave, Moves

\* A step that leaves the ledger alone and defers its job or not.
LEMMA DeferKeeps ==
    ASSUME IInv, NEW w \in Workers, NEW j \in Jobs, NEW s \in Steps, s # "empty", Busy(w, j),
           UNCHANGED ledgerVars, UNCHANGED <<tickVars, worldVars, histVars>>, Deferring(j),
           Moves(w, j, s), Fits(w, s, entries[j], executions[j], meta[j].retry)
    PROVE  IInv'
<1>1. LedgerTypes /\ entries[j] \in L!Entry /\ meta[j] \in Meta /\ Fair(j, entries[j], meta[j])
      /\ owners \in [Sigs -> Jobs \cup {NoJob}]
  BY JobFacts
<1>2. Wrote(j, entries[j], meta[j], FALSE) /\ owners' = owners
  BY <1>1, Untouched
<1>3. UNCHANGED <<onTime, denied, told, results>> /\ executions' = executions
  BY DEF histVars
<1>4. Turned(j) /\ Judging(j, s)
  BY <1>3, DeferTurn
<1>5. Counted(j, entries[j], meta[j], FALSE)
  BY <1>3 DEF Counted
<1> QED BY <1>1, <1>2, <1>3, <1>4, <1>5, WorkerKeeps DEF Busy

LEMMA ClaimKeeps == ASSUME IInv, NEW w \in Workers, NEW j \in Jobs, Claim(w, j) PROVE IInv'
<1>0. /\ LedgerTypes /\ owners \in [Sigs -> Jobs \cup {NoJob}]
      /\ entries[j] \in L!Entry /\ meta[j] \in Meta /\ Fair(j, entries[j], meta[j])
      /\ at[w][j] \in {"verify", "verifyLast"}
      /\ w = Live => LiveFit(at[w][j], entries[j], executions[j])
      /\ w # Live => TickFit(at[w][j], entries[j], meta[j].retry)
  BY JobFacts DEF Claim, NextPath, Workers
<1>1. PICK t \in Payments(j), ok \in BOOLEAN :
          /\ L!claimPaymentSignature(j, t, ok)
          /\ UNCHANGED meta
          /\ IF L!ClaimOutcome(j, t, ok) \in {"claimed", "not-persisted"}
             THEN Written(ok) ELSE ok /\ UNCHANGED <<metaDisk, badWrites>>
          /\ IF L!ClaimOutcome(j, t, ok) = "claimed"
             THEN Goto(w, j, "claimed") /\ UNCHANGED deferVars
             ELSE ClaimRefused(w, j)
  BY DEF Claim, Writes
<1>2. t \in Sigs /\ j \in chain[t]
  BY DEF Payments
<1>3. owners' \in [Sigs -> Jobs \cup {NoJob}]
  BY <1>0, <1>1, <1>2, ClaimTypes
<1>4. executions' = executions /\ UNCHANGED <<tickVars, worldVars, onTime, denied, told, results>>
  BY DEF Claim, histVars
<1>5. \/ /\ L!ClaimOutcome(j, t, ok) = "claimed"
         /\ Wrote(j, [entries[j] EXCEPT !.sig = t], meta[j], TRUE)
         /\ entries[j].status # "absent"
      \/ L!ClaimOutcome(j, t, ok) # "claimed" /\ Wrote(j, entries[j], meta[j], FALSE)
  BY <1>0, <1>1, <1>2, ClaimWrites
<1>6. CASE L!ClaimOutcome(j, t, ok) = "claimed"
  <2> DEFINE e == [entries[j] EXCEPT !.sig = t]
  <2>1. /\ e \in L!Entry /\ e.sig = t /\ e.status = entries[j].status /\ e.net = entries[j].net
        /\ e.old = entries[j].old
    BY <1>0, <1>2 DEF L!Entry
  <2>2. Wrote(j, e, meta[j], TRUE)
    BY <1>5, <1>6
  <2> HIDE DEF e
  <2>3. Fair(j, e, meta[j])
    BY <1>0, <1>2, <2>1 DEF Fair
  <2>4. Counted(j, e, meta[j], TRUE)
    BY <1>4 DEF Counted
  <2>5. Moves(w, j, "claimed") /\ Deferring(j) /\ "claimed" \in Steps
    BY <1>1, <1>6 DEF Goto, Moves, Deferring, Steps
  <2>6. Fits(w, "claimed", e, executions'[j], meta[j].retry)
    BY <1>0, <1>2, <1>4, <2>1 DEF Fits, LiveFit, TickFit, Unpaid
  <2>7. Turned(j) /\ Judging(j, "claimed")
    BY <1>4, <2>5, DeferTurn
  <2> QED BY <1>0, <1>3, <2>1, <2>2, <2>3, <2>4, <2>5, <2>6, <2>7, WorkerKeeps
<1>7. CASE L!ClaimOutcome(j, t, ok) # "claimed"
  <2>1. ClaimRefused(w, j) /\ Wrote(j, entries[j], meta[j], FALSE)
    BY <1>1, <1>5, <1>7
  <2>2. \E s \in {"idle", "verifyLast", "keep"} :
            /\ Moves(w, j, s) /\ Deferring(j)
            /\ w # Live => s = "idle"
    <3>1. CASE w = Live
      BY <1>0, <2>1, <3>1 DEF ClaimRefused, NextPath, Goto, Moves, Deferring
    <3>2. CASE w # Live
      BY <2>1, <3>2, DeferredMoves DEF ClaimRefused
    <3> QED BY <3>1, <3>2
  <2>3. PICK s \in {"idle", "verifyLast", "keep"} :
            Moves(w, j, s) /\ Deferring(j) /\ (w # Live => s = "idle")
    BY <2>2
  <2>4. Fits(w, s, entries[j], executions'[j], meta[j].retry)
    BY <1>0, <1>4, <2>3 DEF Fits, LiveFit, TickFit, Unpaid
  <2>5. Turned(j) /\ Judging(j, s) /\ s \in Steps
    BY <1>4, <2>3, DeferTurn DEF Steps
  <2>6. Counted(j, entries[j], meta[j], FALSE)
    BY <1>4 DEF Counted
  <2> QED BY <1>0, <1>3, <2>1, <2>3, <2>4, <2>5, <2>6, WorkerKeeps
<1> QED BY <1>6, <1>7

LEMMA ConfirmKeeps == ASSUME IInv, NEW w \in Workers, NEW j \in Jobs, Confirm(w, j) PROVE IInv'
<1>0. /\ LedgerTypes /\ owners \in [Sigs -> Jobs \cup {NoJob}]
      /\ entries[j] \in L!Entry /\ meta[j] \in Meta /\ Fair(j, entries[j], meta[j])
      /\ at[w][j] = "claimed" /\ meta[j].retry \in Nat
      /\ w = Live => LiveFit(at[w][j], entries[j], executions[j])
      /\ w # Live => TickFit(at[w][j], entries[j], meta[j].retry)
  BY JobFacts DEF Confirm, Workers
<1>1. PICK ok \in BOOLEAN :
          /\ L!updatePayment(j, TRUE, ok) /\ UNCHANGED meta /\ Written(ok)
          /\ \/ /\ ok /\ w = Live
                /\ Goto(w, j, "exec") /\ Runs(j) /\ UNCHANGED deferVars
             \/ /\ ok /\ w # Live
                /\ Goto(w, j, "ready") /\ UNCHANGED executions
                /\ waiting' = waiting \ {j} /\ sawNoPayment' = sawNoPayment \ {j}
             \/ /\ ~ok /\ UNCHANGED executions
                /\ IF w = Live THEN Throw(w, j) /\ UNCHANGED deferVars ELSE Deferred(w, j)
  BY DEF Confirm, Writes
<1> DEFINE e == [entries[j] EXCEPT !.net = @ \/ TRUE]
<1>2. /\ e \in L!Entry /\ e.net /\ e.sig = entries[j].sig /\ e.status = entries[j].status
      /\ e.old = entries[j].old
  BY <1>0 DEF L!Entry
<1>3. meta' = [meta EXCEPT ![j] = meta[j]]
  BY <1>0, <1>1 DEF LedgerTypes
<1>4. Wrote(j, e, meta[j], ok) /\ owners' = owners
  BY <1>0, <1>1, <1>3, PaymentWrites
<1> HIDE DEF e
<1>5. entries[j].status = "paid" /\ entries[j].sig \in Sigs /\ (w = Live => executions[j] = 0)
  BY <1>0 DEF LiveFit, TickFit, Unpaid
<1>6. Fair(j, e, meta[j])
  BY <1>0, <1>2, <1>5 DEF Fair
<1>7. UNCHANGED <<tickVars, worldVars, onTime, denied, told, results>>
  BY DEF Confirm
<1>8. waiting \in SUBSET Jobs
  BY DEF IInv, TypeOK
<1>9. Counted(j, e, meta[j], ok)
  BY <1>0, <1>1, <1>2, <1>5 DEF Counted, Runs
<1>10. PICK s \in {"exec", "ready", "keep", "close", "idle"} :
          /\ Moves(w, j, s) /\ Deferring(j)
          /\ s \in {"exec", "keep", "close"} => w = Live
          /\ s \in {"ready", "idle"} => w # Live
  <2>1. CASE ok
    BY <1>1, <1>8, <2>1 DEF Goto, Moves, Deferring
  <2>2. CASE ~ok /\ w = Live
    BY <1>1, <2>2, ThrowMoves DEF Deferring
  <2>3. CASE ~ok /\ w # Live
    BY <1>1, <2>3, DeferredMoves
  <2> QED BY <2>1, <2>2, <2>3
<1>11. Fits(w, s, e, executions'[j], meta[j].retry)
  BY <1>0, <1>2, <1>5, <1>10 DEF Fits, LiveFit, TickFit, Confirmed, Unpaid
<1>12. Turned(j) /\ Judging(j, s) /\ s \in Steps
  BY <1>7, <1>10, DeferTurn DEF Steps
<1> QED BY <1>0, <1>2, <1>4, <1>6, <1>9, <1>10, <1>11, <1>12, WorkerKeeps

LEMMA StepFit ==
    ASSUME IInv, NEW w \in Workers, NEW j \in Jobs
    PROVE  /\ Fits(w, at[w][j], entries[j], executions[j], meta[j].retry)
           /\ w # Live => w \in Ticks
BY JobFacts DEF Fits, Workers

LEMMA Throwing ==
    ASSUME IInv, NEW w \in Workers, NEW j \in Jobs, Busy(w, j), UNCHANGED ledgerVars,
           Throw(w, j), UNCHANGED executions, Plain, entries[j].status # "absent"
    PROVE  IInv'
<1>1. PICK s \in {"keep", "close", "idle"} : Moves(w, j, s) /\ (w # Live => s = "idle")
  BY ThrowMoves
<1>2. Fits(w, s, entries[j], executions[j], meta[j].retry)
  BY <1>1, ThrowFits
<1>3. s \in Steps
  BY DEF Steps
<1> QED BY <1>1, <1>2, <1>3, StayKeeps

LEMMA ExecFailsKeeps == ASSUME IInv, NEW w \in Workers, NEW j \in Jobs, ExecFails(w, j) PROVE IInv'
<1>1. Busy(w, j) /\ Plain /\ UNCHANGED executions
  BY PlainFrame DEF ExecFails, Busy
<1>2. entries[j].status # "absent"
  BY StepFit DEF ExecFails, Fits, LiveFit, TickFit, Confirmed
<1> QED BY <1>1, <1>2, Throwing, Closing DEF ExecFails

\* A transition the code expects: the entry is in the state before it.
LEMMA Marking ==
    ASSUME IInv, NEW w \in Workers, NEW j \in Jobs, Busy(w, j), Plain, UNCHANGED executions,
           NEW to \in {"executed", "delivered"}, NEW step \in Steps \ {"empty"},
           CanBecome(j, to), MarkThen(w, j, to, step), step = "idle" <=> to = "delivered",
           to = "executed" => step = "deliver"
    PROVE  IInv'
<1>0. LedgerTypes /\ entries[j] \in L!Entry
  BY JobFacts
<1>1. PICK ok \in BOOLEAN :
         /\ Transition(j, to, ok)
         /\ IF ~ok THEN Throw(w, j)
            ELSE IF step = "idle" THEN Leave(w, j) ELSE Goto(w, j, step)
  BY DEF MarkThen, Writes
<1> DEFINE e == [entries[j] EXCEPT !.status = to]
<1>2. Wrote(j, e, meta[j], ok) /\ owners' = owners
  BY <1>0, <1>1, TransitionWrites
<1>3. e.status = to /\ to # "absent" /\ to \in L!Statuses /\ entries[j].status # "absent"
  BY <1>0 DEF L!Entry, L!Statuses, CanBecome, L!VALID_TRANSITIONS
<1>4. \E s \in {step, "keep", "close", "idle"} :
         Moves(w, j, s) /\ (s = step \/ (w # Live => s = "idle"))
  BY <1>1, ThrowMoves DEF Leave, Goto, Moves
<1>5. PICK s \in {step, "keep", "close", "idle"} :
         Moves(w, j, s) /\ (s = step \/ (w # Live => s = "idle"))
  BY <1>4
<1>6. s \in Steps /\ s # "empty"
  BY DEF Steps
<1>7. Fits(w, s, e, executions[j], meta[j].retry)
  <2> HIDE DEF e
  <2>1. CASE s = step /\ step = "deliver"
    BY <1>3, <2>1 DEF Fits, LiveFit, TickFit
  <2>2. CASE s \in {"keep", "close", "idle"} /\ (w # Live => s = "idle")
    BY <1>3, <2>2, ThrowFits
  <2> QED BY <1>5, <2>1, <2>2
<1> QED BY <1>2, <1>3, <1>5, <1>6, <1>7, StatusKeeps

LEMMA ExecutedKeeps == ASSUME IInv, NEW w \in Workers, NEW j \in Jobs, Executed(w, j) PROVE IInv'
<1>1. Busy(w, j) /\ Plain /\ UNCHANGED executions
  BY PlainFrame DEF Executed, Busy
<1>2. CanBecome(j, "executed")
  BY StepFit DEF Executed, Fits, LiveFit, TickFit, Confirmed, CanBecome, L!VALID_TRANSITIONS
<1>3. "deliver" \in Steps \ {"empty"}
  BY DEF Steps
<1> QED BY <1>1, <1>2, <1>3, Marking DEF Executed

LEMMA DeliveredKeeps == ASSUME IInv, NEW w \in Workers, NEW j \in Jobs, Delivered(w, j) PROVE IInv'
<1>1. Busy(w, j) /\ Plain /\ UNCHANGED executions
  BY PlainFrame DEF Delivered, Busy
<1>2. CanBecome(j, "delivered")
  BY StepFit DEF Delivered, Fits, LiveFit, TickFit, CanBecome, L!VALID_TRANSITIONS
<1>3. "idle" \in Steps \ {"empty"}
  BY DEF Steps
<1> QED BY <1>1, <1>2, <1>3, Marking DEF Delivered

LEMMA DeliverKeeps == ASSUME IInv, NEW w \in Workers, NEW j \in Jobs, Deliver(w, j) PROVE IInv'
<1>1. Busy(w, j) /\ UNCHANGED executions /\ UNCHANGED ledgerVars
  BY DEF Deliver, Busy
<1>2. Plain
  <2>1. results \in SUBSET Jobs
    BY DEF IInv, TypeOK
  <2> QED BY <2>1 DEF Deliver, Plain
<1>3. Fits(w, "deliver", entries[j], executions[j], meta[j].retry)
  BY StepFit DEF Deliver
<1>4. entries[j].status = "executed"
  BY <1>3 DEF Fits, LiveFit, TickFit
<1>5. Goto(w, j, "delivered") \/ Throw(w, j)
  BY DEF Deliver
<1>6. Fits(w, "delivered", entries[j], executions[j], meta[j].retry)
  BY <1>4 DEF Fits, LiveFit, TickFit
<1>7. "delivered" \in Steps \ {"idle", "empty"}
  BY DEF Steps
<1> QED BY <1>1, <1>2, <1>4, <1>5, <1>6, <1>7, Going, Throwing

LEMMA AbortKeeps == ASSUME IInv, NEW w \in Workers, NEW j \in Jobs, Abort(w, j) PROVE IInv'
<1>1. /\ Busy(w, j) /\ UNCHANGED ledgerVars /\ UNCHANGED <<tickVars, worldVars, histVars>>
      /\ at[w][j] \in {"verify", "verifyLast", "exec"}
  BY DEF Abort, Busy
<1>2. PICK s \in {"aborted", "idle"} :
         Moves(w, j, s) /\ Deferring(j) /\ (w # Live => s = "idle")
  BY DeferredMoves DEF Abort, Goto, Leave, Moves, Deferring
<1>3. Fits(w, s, entries[j], executions[j], meta[j].retry)
  BY <1>1, <1>2, StepFit DEF Fits, LiveFit, TickFit, Unpaid, Confirmed
<1>4. s \in Steps
  BY DEF Steps
<1> QED BY <1>1, <1>2, <1>3, <1>4, DeferKeeps

(***************************************************************************)
(* Recovery.                                                               *)
(***************************************************************************)
LEMMA RecoveryClosings ==
    ASSUME IInv, NEW w \in Ticks, NEW j \in Jobs,
           CloseRecovered(w, j) \/ RecoverClosed(w, j) \/ GateRefuses(w, j)
    PROVE  IInv'
<1>1. w \in Workers /\ Busy(w, j) /\ Plain /\ UNCHANGED executions /\ Leave(w, j)
  BY PlainFrame DEF CloseRecovered, RecoverClosed, GateRefuses, Busy, Workers
<1>2. UNCHANGED ledgerVars \/ markFailed(j)
  BY DEF CloseRecovered, RecoverClosed, GateRefuses
<1> QED BY <1>1, <1>2, Leaving, Closing

LEMMA RecoverPaidKeeps ==
    ASSUME IInv, NEW w \in Ticks, NEW j \in Jobs, RecoverPaid(w, j) PROVE IInv'
<1>1. /\ w \in Workers /\ w # Live /\ Busy(w, j) /\ Plain /\ UNCHANGED executions
      /\ UNCHANGED ledgerVars
  BY PlainFrame, RuntimeAssumption DEF RecoverPaid, Busy, Workers
<1>2. PICK s \in {"ready", "verify"} : Goto(w, j, s) /\ (s = "ready" <=> entries[j].net)
  BY DEF RecoverPaid
<1>3. Fits(w, s, entries[j], executions[j], meta[j].retry)
  BY <1>1, <1>2, StepFit DEF RecoverPaid, Fits, TickFit, Unpaid, Confirmed
<1>4. s \in Steps \ {"idle", "empty"}
  BY <1>2 DEF Steps
<1> QED BY <1>1, <1>2, <1>3, <1>4, Going

LEMMA RetryFacts ==
    ASSUME IInv, NEW j \in Jobs, NEW ok \in BOOLEAN, incrementRetry(j, ok)
    PROVE  \E m \in Meta :
              /\ Wrote(j, entries[j], m, ok) /\ owners' = owners
              /\ Fair(j, entries[j], m) /\ entries[j].status # "absent"
              /\ meta[j].retry < MaxRetries => m.retry = meta[j].retry + 1
<1>0. /\ LedgerTypes /\ meta[j] \in Meta /\ meta[j].retry \in Nat /\ MaxRetries \in Nat
      /\ Fair(j, entries[j], meta[j])
  BY JobFacts, RuntimeAssumption
<1> DEFINE m == [meta[j] EXCEPT !.retry = IF @ < MaxRetries THEN @ + 1 ELSE @]
<1>1. Wrote(j, entries[j], m, ok) /\ owners' = owners /\ entries[j].status # "absent"
  BY <1>0, RetryWrites
<1>2. m.retry = IF meta[j].retry < MaxRetries THEN meta[j].retry + 1 ELSE meta[j].retry
  BY <1>0 DEF Meta
<1>3. m \in Meta
  BY <1>0 DEF Meta
<1> HIDE DEF m
<1>4. Fair(j, entries[j], m)
  BY <1>0, <1>1, <1>2 DEF Fair
<1> QED BY <1>1, <1>2, <1>3, <1>4

LEMMA RecoverExecutedKeeps ==
    ASSUME IInv, NEW w \in Ticks, NEW j \in Jobs, RecoverExecuted(w, j) PROVE IInv'
<1>1. /\ w \in Workers /\ w # Live /\ Busy(w, j) /\ Plain /\ UNCHANGED executions
      /\ entries[j].status = "executed" /\ entries[j] \in L!Entry
      /\ owners \in [Sigs -> Jobs \cup {NoJob}]
  BY PlainFrame, JobFacts, RuntimeAssumption DEF RecoverExecuted, Busy, Workers
<1>2. PICK ok \in BOOLEAN :
         incrementRetry(j, ok) /\ IF ok THEN Goto(w, j, "reshare") ELSE Throw(w, j)
  BY DEF RecoverExecuted, Writes
<1>3. PICK m \in Meta : /\ Wrote(j, entries[j], m, ok) /\ owners' = owners
                        /\ Fair(j, entries[j], m)
  BY <1>2, RetryFacts
<1>4. PICK s \in {"reshare", "idle"} : Moves(w, j, s)
  BY <1>1, <1>2, ThrowMoves DEF Goto, Moves
<1>5. Fits(w, s, entries[j], executions'[j], m.retry)
  BY <1>1, <1>4 DEF Fits, TickFit
<1>6. Turned(j) /\ Judging(j, s) /\ s \in Steps
  BY <1>1, <1>4, PlainTurn DEF Steps
<1>7. Counted(j, entries[j], m, ok)
  BY <1>1 DEF Counted
<1> QED BY <1>1, <1>3, <1>4, <1>5, <1>6, <1>7, WorkerKeeps DEF Busy

LEMMA RerunKeeps == ASSUME IInv, NEW w \in Ticks, NEW j \in Jobs, Rerun(w, j) PROVE IInv'
<1>1. /\ w \in Workers /\ w # Live /\ Busy(w, j) /\ entries[j] \in L!Entry
      /\ owners \in [Sigs -> Jobs \cup {NoJob}] /\ Known(j)
      /\ executions[j] \in Nat /\ meta[j].retry \in Nat
  BY JobFacts, RuntimeAssumption DEF Rerun, Busy, Workers
<1>2. PICK ok \in BOOLEAN :
          /\ incrementRetry(j, ok)
          /\ IF ok THEN Goto(w, j, "exec") /\ Runs(j)
                   ELSE Throw(w, j) /\ UNCHANGED executions
  BY DEF Rerun, Writes
<1>3. PICK m \in Meta : /\ Wrote(j, entries[j], m, ok) /\ owners' = owners
                        /\ Fair(j, entries[j], m)
                        /\ meta[j].retry < MaxRetries => m.retry = meta[j].retry + 1
  BY <1>2, RetryFacts
<1>4. Confirmed(entries[j]) /\ meta[j].retry < MaxRetries
  BY <1>1, StepFit DEF Rerun, Fits, TickFit
<1>5. executions[j] <= m.retry
  <2>1. up
    BY DEF IInv, Down, AllIdle, Rerun, Workers
  <2>2. metaDisk[j].retry \in Nat
    BY JobFacts DEF LedgerTypes, Meta
  <2> QED BY <1>1, <1>3, <1>4, <2>1, <2>2 DEF Known
<1>6. Counted(j, entries[j], m, ok)
  BY <1>2, <1>4, <1>5 DEF Counted, Runs, Confirmed
<1>7. Plain
  <2>1. results \in SUBSET Jobs
    BY DEF IInv, TypeOK
  <2> QED BY <2>1 DEF Rerun, Plain
<1>8. PICK s \in {"exec", "idle"} : Moves(w, j, s)
  BY <1>1, <1>2, ThrowMoves DEF Goto, Moves
<1>9. Fits(w, s, entries[j], executions'[j], m.retry)
  BY <1>1, <1>4, <1>8 DEF Fits, TickFit
<1>10. Turned(j) /\ Judging(j, s) /\ s \in Steps
  BY <1>7, <1>8, PlainTurn DEF Steps
<1> QED BY <1>1, <1>3, <1>6, <1>8, <1>9, <1>10, WorkerKeeps DEF Busy

LEMMA ReshareKeeps == ASSUME IInv, NEW w \in Ticks, NEW j \in Jobs, Reshare(w, j) PROVE IInv'
<1>1. w \in Workers /\ w # Live /\ Busy(w, j) /\ Plain /\ UNCHANGED executions
  BY PlainFrame, RuntimeAssumption DEF Reshare, Busy, Workers
<1>2. Fits(w, "deliver", entries[j], executions[j], meta[j].retry)
  BY <1>1, StepFit DEF Reshare, Fits, TickFit
<1>3. "deliver" \in Steps \ {"idle", "empty"}
  BY DEF Steps
<1> QED BY <1>1, <1>2, <1>3, Going, Closing DEF Reshare

LEMMA ScanKeeps == ASSUME IInv, NEW w \in Ticks, NEW j \in Jobs, Scan(w, j) PROVE IInv'
<1>0. /\ w \in Workers /\ w # Live /\ Busy(w, j) /\ UNCHANGED ledgerVars
      /\ UNCHANGED <<tickVars, worldVars, histVars>>
      /\ TickFit("verify", entries[j], meta[j].retry)
  BY JobFacts, RuntimeAssumption DEF Scan, Busy, Workers
<1>1. CASE Deferred(w, j)
  <2>1. Deferring(j) /\ Moves(w, j, "idle") /\ "idle" \in Steps
    BY <1>0, <1>1, DeferredMoves DEF Steps
  <2>2. Fits(w, "idle", entries[j], executions[j], meta[j].retry)
    BY <1>0 DEF Fits, TickFit
  <2> QED BY <1>0, <2>1, <2>2, DeferKeeps
<1>2. CASE Payments(j) = {} /\ Goto(w, j, "empty") /\ UNCHANGED deferVars
  <2>0. /\ LedgerTypes /\ owners \in [Sigs -> Jobs \cup {NoJob}]
        /\ entries[j] \in L!Entry /\ meta[j] \in Meta /\ Fair(j, entries[j], meta[j])
    BY JobFacts
  <2>1. Wrote(j, entries[j], meta[j], FALSE) /\ owners' = owners
    BY <1>0, <2>0, Untouched
  <2>2. Moves(w, j, "empty") /\ "empty" \in Steps
    BY <1>2 DEF Goto, Moves, Steps
  <2>3. j \notin onTime
    BY <1>2 DEF IInv, Good, Settled, Payments
  <2>4. Turned(j)
    <3>1. TypeOK
      BY DEF IInv
    <3> QED BY <1>0, <1>2, <3>1 DEF Turned, deferVars, tickVars, worldVars, histVars, TypeOK
  <2>5. Judging(j, "empty")
    <3>1. Judged(j)
      BY DEF IInv, Good
    <3> QED BY <1>0, <1>2, <2>3, <3>1 DEF Judging, Judged, deferVars, histVars
  <2>6. Counted(j, entries[j], meta[j], FALSE)
    BY <1>0 DEF Counted, histVars
  <2>7. Fits(w, "empty", entries[j], executions'[j], meta[j].retry)
    BY <1>0 DEF Fits, TickFit
  <2> QED BY <1>0, <2>0, <2>1, <2>2, <2>4, <2>5, <2>6, <2>7, WorkerKeeps DEF Busy
<1> QED BY <1>1, <1>2 DEF Scan

LEMMA VerdictKeeps == ASSUME IInv, NEW w \in Ticks, NEW j \in Jobs, Verdict(w, j) PROVE IInv'
<1>0. /\ w \in Workers /\ w # Live /\ Busy(w, j) /\ TypeOK /\ Judged(j) /\ at[w][j] = "empty"
      /\ UNCHANGED <<tickVars, worldVars, executions, onTime, told, results>>
      /\ LedgerTypes /\ owners \in [Sigs -> Jobs \cup {NoJob}]
      /\ entries[j] \in L!Entry /\ meta[j] \in Meta /\ Fair(j, entries[j], meta[j])
  BY JobFacts, RuntimeAssumption DEF Verdict, Busy, Workers, IInv, Good
<1>1. "idle" \in Steps /\ Moves(w, j, "idle")
  BY DEF Verdict, Deferred, Leave, Moves, Steps
<1>2. \A e, n, r : Fits(w, "idle", e, n, r)
  BY DEF Fits, LiveFit, TickFit
<1>3. Turned(j)
  BY <1>0 DEF Verdict, Deferred, Defer, Turned, deferVars, tickVars, worldVars, TypeOK
<1>4. Judging(j, "idle")
  BY <1>0 DEF Verdict, Deferred, Defer, MayConclude, SecondLook, Judging, Judged, deferVars
<1>5. \E e \in L!Entry, ok \in BOOLEAN :
         Wrote(j, e, meta[j], ok) /\ owners' = owners /\ Fair(j, e, meta[j])
  <2>1. CASE UNCHANGED ledgerVars
    <3>1. Wrote(j, entries[j], meta[j], FALSE) /\ owners' = owners
      BY <1>0, <2>1, Untouched
    <3> QED BY <1>0, <3>1
  <2>2. CASE markFailed(j)
    <3>1. PICK ok \in BOOLEAN, st \in {entries[j].status, "failed"} :
             /\ Wrote(j, [entries[j] EXCEPT !.status = st], meta[j], ok)
             /\ st = "absent" <=> entries[j].status = "absent"
             /\ owners' = owners
      BY <1>0, <2>2, FailedWrites
    <3> DEFINE e == [entries[j] EXCEPT !.status = st]
    <3>2. /\ e \in L!Entry /\ e.status = st /\ e.sig = entries[j].sig /\ e.net = entries[j].net
          /\ e.old = entries[j].old
      BY <1>0 DEF L!Entry, L!Statuses
    <3>3. Wrote(j, e, meta[j], ok)
      BY <3>1
    <3> HIDE DEF e
    <3>4. Fair(j, e, meta[j])
      BY <1>0, <3>1, <3>2 DEF Fair
    <3> QED BY <3>1, <3>2, <3>3, <3>4
  <2> QED BY <2>1, <2>2 DEF Verdict
<1>6. PICK e \in L!Entry, ok \in BOOLEAN :
         Wrote(j, e, meta[j], ok) /\ owners' = owners /\ Fair(j, e, meta[j])
  BY <1>5
<1>7. Counted(j, e, meta[j], ok)
  BY <1>0 DEF Counted
<1> QED BY <1>0, <1>1, <1>2, <1>3, <1>4, <1>6, <1>7, WorkerKeeps DEF Busy

(***************************************************************************)
(* Intake and the loop of a tick.                                          *)
(***************************************************************************)
LEMMA Controls ==
    ASSUME IInv, NEW k \in Jobs
    PROVE  /\ Alone(k) /\ LiveFits(k) /\ (\A w \in Ticks : TickFits(w, k)) /\ Judged(k)
           /\ at \in [Workers -> [Jobs -> Steps]] /\ Live \in Workers /\ Live \notin Ticks
           /\ Ticks \subseteq Workers /\ TypeOK /\ OneTick /\ expired = {}
BY Types, RuntimeAssumption DEF IInv, Good, Workers

LEMMA IntakeKeeps == ASSUME IInv, NEW j \in Jobs, Intake(j) PROVE IInv'
<1>1. \A k \in Jobs : LedgerGood(k)'
  BY QuietKeeps DEF Intake, worldVars, histVars
<1>2. TypeOK /\ expired = {} /\ OneTick /\ up
  BY DEF IInv, Intake
<1>3. TypeOK'
  <2>1. at' \in [Workers -> [Jobs -> Steps]] /\ inFlight' \in SUBSET Jobs
    BY <1>2 DEF Intake, TypeOK, Workers, Steps
  <2> QED BY <1>2, <2>1 DEF Intake, TypeOK, L!TypeOK, ledgerVars, deferVars, tickVars, worldVars,
                            histVars
<1>4. \A k \in Jobs : ControlGood(k)'
  <2> SUFFICES ASSUME NEW k \in Jobs PROVE ControlGood(k)'
    OBVIOUS
  <2>1. /\ Alone(k) /\ LiveFits(k) /\ (\A w \in Ticks : TickFits(w, k)) /\ Judged(k)
        /\ at \in [Workers -> [Jobs -> Steps]] /\ Live \in Workers /\ Live \notin Ticks
        /\ Ticks \subseteq Workers
    BY Controls
  <2>2. /\ \A w \in Workers : at'[w][k] = IF w = Live /\ k = j THEN "gates" ELSE at[w][k]
        /\ k \in inFlight' <=> k \in inFlight \/ k = j
        /\ entries' = entries /\ meta' = meta /\ executions' = executions /\ tick' = tick
        /\ UNCHANGED <<sawNoPayment, denied, windowOver, onTime>>
    BY <2>1 DEF Intake, ledgerVars, histVars, tickVars, deferVars, worldVars
  <2>3. k = j => k \notin inFlight /\ entries[k].status = "absent"
    BY DEF Intake
  <2>4. Alone(k)'
    BY <2>1, <2>2, <2>3 DEF Alone
  <2>5. LiveFits(k)'
    BY <2>1, <2>2, <2>3 DEF LiveFits, LiveFit
  <2>6. \A w \in Ticks : TickFits(w, k)'
    BY <2>1, <2>2 DEF TickFits
  <2>7. Judged(k)'
    BY <2>1, <2>2 DEF Judged
  <2> QED BY <2>4, <2>5, <2>6, <2>7 DEF ControlGood
<1>5. expired' = {} /\ up'
  BY <1>2 DEF Intake, worldVars
<1> QED BY <1>1, <1>2, <1>3, <1>4, <1>5, Assembled

\* Steps that move no worker and change no entry, retry or run.
Still == UNCHANGED <<ledgerVars, at, inFlight, up, expired, executions>>

TickRecord == [step : {"idle", "walk", "notify"}, todo : SUBSET Jobs, scans : Nat]

\* A job a tick may list: pending, and nobody works on it.
Free(k) == entries[k].status \in {"paid", "executed"} /\ k \notin inFlight

ListsFree == \A w \in Ticks : \A k \in tick'[w].todo : k \in tick[w].todo \/ Free(k)

\* A dead process has no loop and no look.
Awake == up \/ (tick' = tick /\ sawNoPayment' = sawNoPayment)

LEMMA StillKeeps ==
    ASSUME IInv, Still, TypeOK', ListsFree, Awake, \A k \in Jobs : Judged(k)',
           \A k \in Jobs : Backed(entries, k)' /\ Backed(disk, k)' /\ Settled(k)'
    PROVE  IInv'
<1>1. \A k \in Jobs : Good(k)'
  <2> SUFFICES ASSUME NEW k \in Jobs PROVE Good(k)'
    OBVIOUS
  <2>1. Good(k)
    BY DEF IInv
  <2>2. Known(k)'
    BY <2>1 DEF Good, Known, Still, ledgerVars
  <2>3. Alone(k)'
    BY <2>1 DEF Good, Alone, Still, ledgerVars, ListsFree, Free
  <2>4. LiveFits(k)' /\ \A w \in Ticks : TickFits(w, k)'
    BY <2>1 DEF Good, LiveFits, TickFits, Still, ledgerVars
  <2> QED BY <2>2, <2>3, <2>4 DEF Good
<1>2. Down'
  BY DEF IInv, Down, Still, ledgerVars, Awake
<1> QED BY <1>1, <1>2 DEF IInv, Still

LEMMA Backing ==
    ASSUME IInv, Still, \A t \in Sigs : chain[t] \subseteq chain'[t], onTime' = onTime
    PROVE  \A k \in Jobs : Backed(entries, k)' /\ Backed(disk, k)' /\ Settled(k)'
BY DEF IInv, Good, Backed, Settled, Still, ledgerVars

\* A step of the loop of tick w, after which its state is t.
Loop(w, t) ==
    /\ Still /\ up
    /\ UNCHANGED <<chain, asked, windowOver, late, crashes, histVars>>
    /\ listening' \in BOOLEAN /\ stopping' \in BOOLEAN
    /\ waiting' \in SUBSET Jobs /\ sawNoPayment' \in SUBSET sawNoPayment
    /\ t \in TickRecord /\ tick' = [tick EXCEPT ![w] = t]
    /\ \A k \in t.todo : k \in tick[w].todo \/ Free(k)

LEMMA LoopKeeps == ASSUME IInv, NEW w \in Ticks, NEW t, Loop(w, t) PROVE IInv'
<1>1. TypeOK /\ Still /\ UNCHANGED <<chain, windowOver, histVars>>
  BY DEF IInv, Loop
<1>2. tick' \in [Ticks -> TickRecord] /\ tick \in [Ticks -> TickRecord]
  BY <1>1 DEF TypeOK, TickRecord, Loop
<1>3. TypeOK'
  BY <1>1, <1>2 DEF TypeOK, L!TypeOK, Still, ledgerVars, histVars, Loop, TickRecord
<1>4. \A k \in Jobs : Backed(entries, k)' /\ Backed(disk, k)' /\ Settled(k)'
  BY <1>1, Backing DEF histVars
<1>5. \A k \in Jobs : Judged(k)'
  BY DEF IInv, Good, Judged, Still, histVars, Loop
<1>6. \A v \in Ticks : tick'[v] = IF v = w THEN t ELSE tick[v]
  BY <1>2 DEF Loop
<1>7. ListsFree
  BY <1>6 DEF ListsFree, Loop
<1>8. Awake
  BY DEF Awake, Loop
<1> QED BY <1>1, <1>3, <1>4, <1>5, <1>7, <1>8, StillKeeps

LEMMA TickTypes ==
    ASSUME IInv, NEW w \in Ticks
    PROVE  /\ tick \in [Ticks -> TickRecord] /\ tick[w] \in TickRecord
           /\ waiting \in SUBSET Jobs /\ sawNoPayment \in SUBSET Jobs
           /\ listening \in BOOLEAN /\ stopping \in BOOLEAN
           /\ tick[w] # IdleTick => up
BY DEF IInv, TypeOK, Down, TickRecord

LEMMA TickStartKeeps == ASSUME IInv, NEW w \in Ticks, TickStart(w) PROVE IInv'
<1> DEFINE t == [step |-> "walk", todo |-> Listed, scans |-> 0]
<1>1. t \in TickRecord
  BY DEF Listed, Pending, TickRecord
<1>2. Still /\ up /\ UNCHANGED <<chain, asked, windowOver, late, crashes, histVars>>
  BY DEF TickStart, Still, worldVars, histVars
<1>3. \A k \in t.todo : Free(k)
  BY DEF Listed, Pending, Free
<1>4. Loop(w, t)
  BY <1>1, <1>2, <1>3, TickTypes DEF TickStart, Loop
<1> HIDE DEF t
<1> QED BY <1>4, LoopKeeps

LEMMA TickMovesKeep ==
    ASSUME IInv, NEW w \in Ticks,
           \/ TickResume(w) \/ TickEnd(w)
           \/ \E j \in Jobs : TickSkips(w, j) \/ TickParks(w, j) \/ TickBreaks(w, j)
    PROVE  IInv'
<1>1. /\ tick[w] \in TickRecord /\ tick \in [Ticks -> TickRecord]
      /\ waiting \in SUBSET Jobs /\ listening \in BOOLEAN /\ stopping \in BOOLEAN
  BY TickTypes
<1>2. Still /\ UNCHANGED <<chain, asked, windowOver, late, crashes, histVars>>
  BY DEF TickResume, TickEnd, TickSkips, TickParks, TickBreaks, Still, worldVars, histVars
<1>3. tick[w] # IdleTick
  BY DEF TickResume, TickEnd, TickSkips, TickParks, TickBreaks, Walks, IdleTick
<1>4. up
  BY <1>3, TickTypes
<1>5. \E t \in TickRecord : tick' = [tick EXCEPT ![w] = t] /\ t.todo \subseteq tick[w].todo
  <2>1. CASE TickResume(w)
    <3>1. [tick[w] EXCEPT !.step = "walk"] \in TickRecord
      BY <1>1 DEF TickRecord
    <3>2. [tick[w] EXCEPT !.step = "walk"].todo = tick[w].todo
      BY <1>1 DEF TickRecord
    <3> QED BY <1>1, <2>1, <3>1, <3>2 DEF TickResume
  <2>2. CASE TickEnd(w)
    <3>1. IdleTick \in TickRecord
      BY DEF IdleTick, TickRecord
    <3> QED BY <2>2, <3>1 DEF TickEnd, IdleTick
  <2>3. ASSUME NEW j \in Jobs, TickSkips(w, j) \/ TickParks(w, j)
        PROVE  \E t \in TickRecord : tick' = [tick EXCEPT ![w] = t] /\ t.todo \subseteq tick[w].todo
    <3>1. [step |-> "walk", todo |-> tick[w].todo \ {j}, scans |-> tick[w].scans] \in TickRecord
      BY <1>1 DEF TickRecord
    <3>2. tick' = [tick EXCEPT ![w] =
                     [step |-> "walk", todo |-> tick[w].todo \ {j}, scans |-> tick[w].scans]]
      BY <1>1, <2>3 DEF TickSkips, TickParks, Walked
    <3> QED BY <3>1, <3>2
  <2>4. ASSUME NEW j \in Jobs, TickBreaks(w, j)
        PROVE  \E t \in TickRecord : tick' = [tick EXCEPT ![w] = t] /\ t.todo \subseteq tick[w].todo
    <3>1. [tick[w] EXCEPT !.todo = {}] \in TickRecord /\ [tick[w] EXCEPT !.todo = {}].todo = {}
      BY <1>1 DEF TickRecord
    <3> QED BY <1>1, <2>4, <3>1 DEF TickBreaks
  <2> QED BY <2>1, <2>2, <2>3, <2>4
<1>6. PICK t \in TickRecord : tick' = [tick EXCEPT ![w] = t] /\ t.todo \subseteq tick[w].todo
  BY <1>5
<1>7. /\ listening' \in BOOLEAN /\ stopping' \in BOOLEAN /\ waiting' \in SUBSET Jobs
      /\ sawNoPayment' = sawNoPayment
  BY <1>1 DEF TickResume, TickEnd, TickSkips, TickParks, TickBreaks, deferVars
<1>8. Loop(w, t)
  BY <1>2, <1>4, <1>6, <1>7 DEF Loop
<1> QED BY <1>8, LoopKeeps

\* A tick closes a job nobody works on.
LEMMA TickGivesUpKeeps ==
    ASSUME IInv, NEW w \in Ticks, NEW j \in Jobs, TickGivesUp(w, j) PROVE IInv'
<1>1. /\ LedgerTypes /\ entries[j] \in L!Entry /\ meta[j] \in Meta
      /\ Fair(j, entries[j], meta[j]) /\ owners \in [Sigs -> Jobs \cup {NoJob}]
      /\ tick \in [Ticks -> TickRecord] /\ tick[w] \in TickRecord
      /\ TypeOK /\ OneTick /\ expired = {} /\ j \in tick[w].todo
  BY JobFacts, TickTypes DEF IInv, TickGivesUp, Walks
<1>2. /\ UNCHANGED <<at, inFlight, deferVars, listening, stopping, worldVars, executions, onTime,
                     denied, results>>
      /\ told' = told \cup {j}
      /\ tick' = [tick EXCEPT ![w] = [step |-> "notify", todo |-> tick[w].todo \ {j},
                                      scans |-> tick[w].scans]]
  BY <1>1 DEF TickGivesUp, Walked
<1>3. up /\ up' = up /\ expired' = {}
  <2>1. tick[w] # IdleTick
    BY DEF TickGivesUp, Walks, IdleTick
  <2> QED BY <1>1, <1>2, <2>1, TickTypes DEF worldVars
<1>4. PICK ok \in BOOLEAN, st \in {entries[j].status, "failed"} :
         /\ Wrote(j, [entries[j] EXCEPT !.status = st], meta[j], ok)
         /\ st = "absent" <=> entries[j].status = "absent"
         /\ owners' = owners
  BY <1>1, FailedWrites DEF TickGivesUp
<1> DEFINE e == [entries[j] EXCEPT !.status = st]
<1>5. /\ e \in L!Entry /\ e.status = st /\ e.sig = entries[j].sig /\ e.net = entries[j].net
      /\ e.old = entries[j].old
  BY <1>1 DEF L!Entry, L!Statuses
<1>6. Wrote(j, e, meta[j], ok)
  BY <1>4
<1> HIDE DEF e
<1>7. Fair(j, e, meta[j])
  BY <1>1, <1>4, <1>5 DEF Fair
<1>8. Counted(j, e, meta[j], ok)
  BY <1>2 DEF Counted
<1>9. \A k \in Jobs : LedgerGood(k)'
  BY <1>2, <1>3, <1>5, <1>6, <1>7, <1>8, <1>1, WriteKeeps DEF worldVars
<1>10. LedgerTypes'
  BY <1>1, <1>4, <1>5, <1>6, WriteTypes
<1>11. tick' \in [Ticks -> TickRecord]
  <2>1. [step |-> "notify", todo |-> tick[w].todo \ {j}, scans |-> tick[w].scans] \in TickRecord
    BY <1>1 DEF TickRecord
  <2> QED BY <1>1, <1>2, <2>1
<1>12. TypeOK'
  <2>1. L!TypeOK'
    BY <1>1, <1>3, <1>10 DEF LedgerTypes, L!TypeOK, TypeOK
  <2>2. /\ at' = at /\ inFlight' = inFlight /\ waiting' = waiting /\ sawNoPayment' = sawNoPayment
        /\ listening' = listening /\ stopping' = stopping /\ chain' = chain /\ asked' = asked
        /\ windowOver' = windowOver /\ late' = late /\ executions' = executions
        /\ onTime' = onTime /\ denied' = denied /\ results' = results
    BY <1>2 DEF deferVars, worldVars
  <2> QED BY <1>1, <1>2, <1>10, <1>11, <2>1, <2>2 DEF TypeOK, LedgerTypes, Meta, TickRecord
<1>13. \A k \in Jobs : ControlGood(k)'
  <2> SUFFICES ASSUME NEW k \in Jobs PROVE ControlGood(k)'
    OBVIOUS
  <2>1. /\ Alone(k) /\ LiveFits(k) /\ (\A v \in Ticks : TickFits(v, k)) /\ Judged(k)
        /\ Live \in Workers /\ Ticks \subseteq Workers
    BY Controls
  <2>2. k # j => entries'[k] = entries[k] /\ meta'[k] = meta[k]
    BY <1>1, <1>6 DEF Wrote, LedgerTypes
  <2>3. k = j => \A v \in Workers : at[v][k] = "idle"
    BY <1>1, <2>1 DEF Alone
  <2>4. \A v \in Ticks : k \in tick'[v].todo => k \in tick[v].todo /\ k # j
    BY <1>1, <1>2 DEF OneTick
  <2>5. Alone(k)'
    BY <1>2, <2>1, <2>2, <2>4 DEF Alone
  <2>6. LiveFits(k)'
    BY <1>2, <2>1, <2>2, <2>3 DEF LiveFits, LiveFit
  <2>7. \A v \in Ticks : TickFits(v, k)'
    BY <1>2, <2>1, <2>2, <2>3 DEF TickFits, TickFit
  <2>8. Judged(k)'
    BY <1>2, <2>1 DEF Judged, deferVars, worldVars
  <2> QED BY <2>5, <2>6, <2>7, <2>8 DEF ControlGood
<1> QED BY <1>1, <1>3, <1>9, <1>12, <1>13, Assembled

\* A tick starts a job it listed, which still is as it was listed.
LEMMA TickDispatchesKeeps ==
    ASSUME IInv, NEW w \in Ticks, NEW j \in Jobs, TickDispatches(w, j) PROVE IInv'
<1>1. /\ tick \in [Ticks -> TickRecord] /\ tick[w] \in TickRecord
      /\ TypeOK /\ OneTick /\ expired = {} /\ j \in tick[w].todo /\ ~GivesUp(j)
  BY TickTypes DEF IInv, TickDispatches, Walks
<1>2. /\ UNCHANGED <<ledgerVars, deferVars, listening, stopping, worldVars, histVars>>
      /\ at' = [at EXCEPT ![w][j] = "start"] /\ inFlight' = inFlight \cup {j}
  BY DEF TickDispatches
<1>3. up /\ up' = up /\ expired' = {}
  <2>1. tick[w] # IdleTick
    BY DEF TickDispatches, Walks, IdleTick
  <2> QED BY <1>1, <1>2, <2>1, TickTypes DEF worldVars
<1>4. PICK n \in Nat : tick' = [tick EXCEPT ![w] = [step |-> "walk", todo |-> tick[w].todo \ {j},
                                                   scans |-> n]]
  <2> DEFINE n == tick[w].scans + IF NeedsScan(j) THEN 1 ELSE 0
  <2>1. n \in Nat
    BY <1>1 DEF TickRecord
  <2>2. tick' = [tick EXCEPT ![w] = [step |-> "walk", todo |-> tick[w].todo \ {j}, scans |-> n]]
    BY <1>1 DEF TickDispatches, Walked
  <2> HIDE DEF n
  <2> QED BY <2>1, <2>2
<1>5. \A k \in Jobs : LedgerGood(k)'
  BY <1>2, QuietKeeps DEF worldVars, histVars
<1>6. tick' \in [Ticks -> TickRecord]
  <2>1. [step |-> "walk", todo |-> tick[w].todo \ {j}, scans |-> n] \in TickRecord
    BY <1>1 DEF TickRecord
  <2> QED BY <1>1, <1>4, <2>1
<1>7. TypeOK'
  <2>1. at' \in [Workers -> [Jobs -> Steps]] /\ inFlight' \in SUBSET Jobs
    BY <1>1, <1>2 DEF TypeOK, Workers, Steps
  <2> QED BY <1>1, <1>2, <1>6, <2>1 DEF TypeOK, L!TypeOK, ledgerVars, deferVars, worldVars,
                                        histVars, TickRecord
<1>8. \A k \in Jobs : ControlGood(k)'
  <2> SUFFICES ASSUME NEW k \in Jobs PROVE ControlGood(k)'
    OBVIOUS
  <2>1. /\ Alone(k) /\ LiveFits(k) /\ (\A v \in Ticks : TickFits(v, k)) /\ Judged(k)
        /\ at \in [Workers -> [Jobs -> Steps]] /\ w \in Workers /\ w # Live
        /\ Live \in Workers /\ Ticks \subseteq Workers
    BY Controls
  <2>2. /\ \A v \in Workers : at'[v][k] = IF v = w /\ k = j THEN "start" ELSE at[v][k]
        /\ k \in inFlight' <=> k \in inFlight \/ k = j
        /\ entries' = entries /\ meta' = meta /\ executions' = executions
        /\ UNCHANGED <<sawNoPayment, denied, windowOver, onTime>>
    BY <1>2, <2>1 DEF ledgerVars, histVars, deferVars, worldVars
  <2>3. k = j => /\ k \notin inFlight /\ entries[k].status \in {"paid", "executed"}
                 /\ \A v \in Workers : at[v][k] = "idle"
    BY <1>1, <2>1 DEF Alone
  <2>4. \A v \in Ticks : k \in tick'[v].todo => k \in tick[v].todo /\ k # j
    BY <1>1, <1>4 DEF OneTick
  <2>5. Alone(k)'
    BY <2>1, <2>2, <2>3, <2>4 DEF Alone
  <2>6. LiveFits(k)'
    BY <2>1, <2>2, <2>3 DEF LiveFits, LiveFit
  <2>7. entries[j].status = "paid" => meta[j].retry < MaxRetries
    <3>1. meta[j].retry \in Nat /\ MaxRetries \in Nat
      BY JobFacts, RuntimeAssumption
    <3> QED BY <1>1, <3>1 DEF GivesUp, Exhausted
  <2>8. \A v \in Ticks : TickFits(v, k)'
    BY <2>1, <2>2, <2>3, <2>7 DEF TickFits, TickFit
  <2>9. Judged(k)'
    BY <2>1, <2>2 DEF Judged
  <2> QED BY <2>5, <2>6, <2>8, <2>9 DEF ControlGood
<1> QED BY <1>1, <1>3, <1>5, <1>7, <1>8, Assembled

(***************************************************************************)
(* The end of a process, a new one, and the world.                         *)
(***************************************************************************)
LEMMA StopKeeps == ASSUME IInv, Stop PROVE IInv'
<1>1. TypeOK'
  BY DEF IInv, TypeOK, L!TypeOK, Stop, ledgerVars, deferVars, worldVars, histVars
<1>2. Still /\ ListsFree /\ Awake /\ chain' = chain /\ onTime' = onTime
  BY DEF Stop, Still, ListsFree, Awake, worldVars, histVars
<1>3. \A k \in Jobs : Backed(entries, k)' /\ Backed(disk, k)' /\ Settled(k)'
  BY <1>2, Backing
<1>4. \A k \in Jobs : Judged(k)'
  BY DEF IInv, Good, Judged, Stop, deferVars, worldVars, histVars
<1> QED BY <1>1, <1>2, <1>3, <1>4, StillKeeps

LEMMA CrashKeeps == ASSUME IInv, Crash PROVE IInv'
<1>1. /\ entries' = L!Empty /\ at' = AllIdle /\ inFlight' = {} /\ sawNoPayment' = {}
      /\ tick' = [w \in Ticks |-> IdleTick] /\ meta' = [j \in Jobs |-> NoMeta]
      /\ up' = FALSE /\ expired' = {} /\ disk' = disk /\ settledBy' = settledBy
      /\ owners' = [t \in Sigs |-> NoJob]
  BY DEF Crash, L!Crash, IInv
<1>2. TypeOK'
  <2>1. L!Empty \in [Jobs -> L!Entry]
    BY DEF L!Empty, L!Absent, L!Entry, L!Statuses
  <2>2. NoMeta \in Meta /\ IdleTick \in TickRecord /\ AllIdle \in [Workers -> [Jobs -> Steps]]
    BY DEF NoMeta, Meta, IdleTick, TickRecord, AllIdle, Steps
  <2>3. TypeOK /\ metaDisk' = metaDisk /\ chain' = chain /\ asked' = asked
        /\ windowOver' = windowOver /\ late' = late /\ executions' = executions
        /\ onTime' = onTime /\ denied' = denied /\ told' = told /\ results' = results
        /\ waiting' = {} /\ listening' = FALSE /\ stopping' = FALSE
    BY DEF IInv, Crash, histVars
  <2>4. L!TypeOK'
    BY <1>1, <2>1, <2>3 DEF TypeOK, L!TypeOK
  <2>5. /\ meta' \in [Jobs -> Meta] /\ at' \in [Workers -> [Jobs -> Steps]]
        /\ tick' \in [Ticks -> TickRecord]
    BY <1>1, <2>2
  <2>6. {inFlight', waiting', sawNoPayment', asked', windowOver', late', onTime', denied', told',
        results'} \subseteq SUBSET Jobs
    BY <1>1, <2>3 DEF TypeOK
  <2> QED BY <2>3, <2>4, <2>5, <2>6 DEF TypeOK, Meta, TickRecord
<1>3. \A k \in Jobs : Good(k)'
  <2> SUFFICES ASSUME NEW k \in Jobs PROVE Good(k)'
    OBVIOUS
  <2>1. Good(k) /\ entries'[k] = L!Absent /\ meta'[k] = NoMeta
    BY <1>1 DEF IInv, L!Empty
  <2>2. /\ metaDisk' = metaDisk /\ executions' = executions /\ chain' = chain
        /\ onTime' = onTime /\ denied' = denied /\ windowOver' = windowOver
    BY DEF Crash, histVars
  <2>3. Known(k)'
    BY <1>1, <2>1, <2>2, RuntimeAssumption DEF Good, Known, NoMeta
  <2>4. Backed(entries, k)'
    BY <2>1, RuntimeAssumption DEF Backed, L!Absent
  <2>5. Backed(disk, k)' /\ Settled(k)'
    BY <1>1, <2>1, <2>2 DEF Good, Backed, Settled
  <2>6. \A w \in Workers : at'[w][k] = "idle"
    BY <1>1 DEF AllIdle
  <2>7. Alone(k)'
    BY <1>1, <2>6 DEF Alone, IdleTick
  <2>8. LiveFits(k)' /\ \A w \in Ticks : TickFits(w, k)'
    BY <2>6 DEF LiveFits, LiveFit, TickFits, TickFit, Workers
  <2>9. Judged(k)'
    BY <1>1, <2>1, <2>2 DEF Good, Judged
  <2> QED BY <2>3, <2>4, <2>5, <2>7, <2>8, <2>9 DEF Good
<1>4. Down'
  BY <1>1 DEF Down
<1> QED BY <1>1, <1>2, <1>3, <1>4 DEF IInv

LEMMA StartKeeps == ASSUME IInv, Start PROVE IInv'
<1>1. /\ entries' = disk /\ disk' = disk /\ meta' = metaDisk /\ metaDisk' = metaDisk
      /\ up' /\ ~up /\ expired' = {} /\ settledBy' = settledBy
      /\ UNCHANGED <<badWrites, at, inFlight, deferVars, tickVars, chain, asked,
                     windowOver, late, crashes, histVars>>
  BY DEF Start, L!Start, L!load, IInv
<1>2. owners' \in [Sigs -> Jobs \cup {NoJob}]
  BY DEF Start, L!Start, L!load
<1>3. TypeOK'
  BY <1>1, <1>2 DEF IInv, TypeOK, L!TypeOK, deferVars, tickVars, histVars
<1>4. \A k \in Jobs : Good(k)'
  <2> SUFFICES ASSUME NEW k \in Jobs PROVE Good(k)'
    OBVIOUS
  <2>1. Good(k) /\ AllIdle = at /\ inFlight = {} /\ \A w \in Ticks : tick[w].todo = {}
    BY <1>1 DEF IInv, Down, IdleTick
  <2>2. \A w \in Workers : at[w][k] = "idle"
    BY <2>1 DEF AllIdle
  <2>3. metaDisk[k].retry \in Nat
    BY JobFacts DEF LedgerTypes, Meta
  <2>4. Known(k)'
    BY <1>1, <2>1, <2>3 DEF Good, Known, histVars
  <2>5. Backed(entries, k)' /\ Backed(disk, k)' /\ Settled(k)'
    BY <1>1, <2>1 DEF Good, Backed, Settled, histVars
  <2>6. Alone(k)'
    BY <1>1, <2>1, <2>2 DEF Alone, tickVars
  <2>7. LiveFits(k)' /\ \A w \in Ticks : TickFits(w, k)'
    BY <1>1, <2>2 DEF LiveFits, LiveFit, TickFits, TickFit, Workers
  <2>8. Judged(k)'
    BY <1>1, <2>1 DEF Good, Judged, deferVars, histVars
  <2> QED BY <2>4, <2>5, <2>6, <2>7, <2>8 DEF Good
<1> QED BY <1>1, <1>3, <1>4 DEF IInv, Down

LEMMA PayKeeps ==
    ASSUME IInv, NEW t \in Sigs, NEW js \in SUBSET Jobs, Pay(t, js) PROVE IInv'
<1>1. /\ Still /\ chain[t] = {} /\ chain' = [chain EXCEPT ![t] = js]
      /\ onTime' = onTime \cup (js \ windowOver)
      /\ UNCHANGED <<settledBy, tick, sawNoPayment, denied, windowOver>>
      /\ chain \in [Sigs -> SUBSET Jobs]
  BY DEF Pay, Still, ledgerVars, IInv, TypeOK, tickVars, deferVars
<1>2. TypeOK'
  <2>1. chain' \in [Sigs -> SUBSET Jobs] /\ onTime' \in SUBSET Jobs
    BY <1>1 DEF IInv, TypeOK
  <2> QED BY <2>1 DEF IInv, TypeOK, L!TypeOK, Pay, ledgerVars, deferVars, tickVars
<1>3. \A s \in Sigs : chain[s] \subseteq chain'[s]
  BY <1>1
<1>4. \A k \in Jobs : Backed(entries, k)' /\ Backed(disk, k)' /\ Settled(k)'
  <2> SUFFICES ASSUME NEW k \in Jobs
               PROVE  Backed(entries, k)' /\ Backed(disk, k)' /\ Settled(k)'
    OBVIOUS
  <2>1. Backed(entries, k) /\ Backed(disk, k) /\ Settled(k)
    BY DEF IInv, Good
  <2>2. k \in onTime' => \E s \in Sigs : k \in chain'[s]
    BY <1>1, <1>3, <2>1 DEF Settled
  <2> QED BY <1>1, <1>3, <2>1, <2>2 DEF Backed, Settled, Still, ledgerVars
<1>5. \A k \in Jobs : Judged(k)'
  BY <1>1 DEF IInv, Good, Judged, Still
<1>6. ListsFree /\ Awake
  BY <1>1 DEF ListsFree, Awake
<1> QED BY <1>1, <1>2, <1>4, <1>5, <1>6, StillKeeps

LEMMA ClockKeeps ==
    ASSUME IInv, NEW j \in Jobs, WindowOver(j) \/ Late(j) \/ Due(j) PROVE IInv'
<1>1. /\ Still /\ chain' = chain /\ onTime' = onTime
      /\ UNCHANGED <<tick, sawNoPayment, denied>>
      /\ windowOver \subseteq windowOver'
  BY DEF WindowOver, Late, Due, Still, deferVars, tickVars, worldVars, histVars
<1>2. TypeOK'
  BY DEF IInv, TypeOK, L!TypeOK, WindowOver, Late, Due, ledgerVars, deferVars, tickVars,
         worldVars, histVars
<1>3. \A k \in Jobs : Backed(entries, k)' /\ Backed(disk, k)' /\ Settled(k)'
  BY <1>1, Backing
<1>4. \A k \in Jobs : Judged(k)'
  BY <1>1 DEF IInv, Good, Judged, Still
<1>5. ListsFree /\ Awake
  BY <1>1 DEF ListsFree, Awake
<1> QED BY <1>1, <1>2, <1>3, <1>4, <1>5, StillKeeps

LEMMA StutterKeeps == ASSUME IInv, UNCHANGED vars PROVE IInv'
<1>1. TypeOK'
  BY DEF IInv, TypeOK, L!TypeOK, vars, ledgerVars, deferVars, tickVars, worldVars, histVars
<1>2. Still /\ ListsFree /\ Awake /\ chain' = chain /\ onTime' = onTime
  BY DEF vars, Still, ListsFree, Awake, tickVars, deferVars, worldVars, histVars
<1>3. \A k \in Jobs : Backed(entries, k)' /\ Backed(disk, k)' /\ Settled(k)'
  BY <1>2, Backing
<1>4. \A k \in Jobs : Judged(k)'
  BY DEF IInv, Good, Judged, vars, deferVars, worldVars, histVars
<1> QED BY <1>1, <1>2, <1>3, <1>4, StillKeeps

LEMMA WorkerStepKeeps ==
    ASSUME IInv, NEW w \in Workers, NEW j \in Jobs, WorkerStep(w, j) PROVE IInv'
<1>1. CASE w = Live /\ LiveStep(j)
  BY <1>1, RefuseKeeps, AcceptKeeps, QuoteKeeps, AskKeeps, WaitKeeps, CatchKeeps DEF LiveStep
<1>2. CASE w # Live /\ RecoveryStep(w, j)
  <2>1. w \in Ticks
    BY <1>2 DEF Workers
  <2> QED BY <1>2, <2>1, RecoveryClosings, RecoverPaidKeeps, RecoverExecutedKeeps, ReshareKeeps,
             ScanKeeps, VerdictKeeps, RerunKeeps DEF RecoveryStep
<1>3. CASE WorkStep(w, j)
  BY <1>3, ClaimKeeps, ConfirmKeeps, ExecFailsKeeps, ExecutedKeeps, DeliverKeeps,
     DeliveredKeeps, AbortKeeps DEF WorkStep
<1> QED BY <1>1, <1>2, <1>3 DEF WorkerStep

LEMMA StepKeeps == IInv /\ [Next]_vars => IInv'
<1> SUFFICES ASSUME IInv, [Next]_vars PROVE IInv'
  OBVIOUS
<1>1. CASE \E j \in Jobs : Intake(j)
  BY <1>1, IntakeKeeps
<1>2. CASE \E w \in Workers, j \in Jobs : WorkerStep(w, j)
  BY <1>2, WorkerStepKeeps
<1>3. CASE \E w \in Ticks : TickStart(w) \/ TickResume(w) \/ TickWalk(w)
  BY <1>3, TickStartKeeps, TickMovesKeep, TickGivesUpKeeps, TickDispatchesKeeps DEF TickWalk
<1>4. CASE \E t \in Sigs, js \in SUBSET Jobs : Pay(t, js)
  BY <1>4, PayKeeps
<1>5. CASE \E j \in Jobs : WindowOver(j) \/ Late(j) \/ Due(j)
  BY <1>5, ClockKeeps
<1>6. CASE Stop \/ Crash \/ Start \/ UNCHANGED vars
  BY <1>6, StopKeeps, CrashKeeps, StartKeeps, StutterKeeps
<1> QED BY <1>1, <1>2, <1>3, <1>4, <1>5, <1>6 DEF Next

LEMMA InitTypes == Init => TypeOK
<1> SUFFICES ASSUME Init PROVE TypeOK
  OBVIOUS
<1>1. /\ disk \in Ledgers /\ entries = L!Empty /\ owners = [t \in Sigs |-> NoJob]
      /\ up = FALSE /\ expired = {} /\ settledBy = L!SettlementsIn(disk)
      /\ disk \in [Jobs -> L!Entry]
  BY FirstFileAssumption DEF Init, L!Init
<1>2. /\ meta = [j \in Jobs |-> NoMeta]
      /\ metaDisk = [j \in Jobs |-> [NoMeta EXCEPT !.req = disk[j].status # "absent"]]
      /\ at = AllIdle /\ inFlight = {} /\ tick = [w \in Ticks |-> IdleTick]
      /\ listening = FALSE /\ stopping = FALSE /\ waiting = {} /\ sawNoPayment = {}
      /\ chain = [t \in Sigs |-> {j \in Jobs : disk[j].sig = t}]
      /\ asked = {j \in Jobs : disk[j].status # "absent"}
      /\ windowOver = {} /\ late = {} /\ executions = [j \in Jobs |-> 0]
      /\ onTime = {} /\ denied = {} /\ told = {} /\ results = {}
  BY DEF Init
<1>3. L!TypeOK
  <2>1. L!Empty \in [Jobs -> L!Entry]
    BY DEF L!Empty, L!Absent, L!Entry, L!Statuses
  <2>2. L!SettlementsIn(disk) \in SUBSET (Sigs \X Jobs)
    BY DEF L!SettlementsIn
  <2> QED BY <1>1, <2>1, <2>2 DEF L!TypeOK
<1>4. QED
  <2>1. NoMeta \in Meta /\ IdleTick \in TickRecord /\ AllIdle \in [Workers -> [Jobs -> Steps]]
    BY DEF NoMeta, Meta, IdleTick, TickRecord, AllIdle, Steps
  <2>2. \A j \in Jobs : [NoMeta EXCEPT !.req = disk[j].status # "absent"] \in Meta
    BY DEF NoMeta, Meta
  <2>3. /\ meta \in [Jobs -> Meta] /\ metaDisk \in [Jobs -> Meta]
        /\ at \in [Workers -> [Jobs -> Steps]] /\ tick \in [Ticks -> TickRecord]
        /\ chain \in [Sigs -> SUBSET Jobs] /\ executions \in [Jobs -> Nat]
    BY <1>2, <2>1, <2>2
  <2>4. {inFlight, waiting, sawNoPayment, asked, windowOver, late, onTime, denied, told, results}
          \subseteq SUBSET Jobs
    BY <1>2
  <2> QED BY <1>2, <1>3, <2>3, <2>4 DEF TypeOK, Meta, TickRecord

LEMMA InitHolds == OneTick /\ Init => IInv
<1> SUFFICES ASSUME OneTick, Init PROVE IInv
  OBVIOUS
<1>1. /\ disk \in Ledgers /\ entries = L!Empty /\ owners = [t \in Sigs |-> NoJob]
      /\ up = FALSE /\ expired = {} /\ settledBy = L!SettlementsIn(disk)
      /\ disk \in [Jobs -> L!Entry]
  BY FirstFileAssumption DEF Init, L!Init
<1>2. /\ meta = [j \in Jobs |-> NoMeta]
      /\ metaDisk = [j \in Jobs |-> [NoMeta EXCEPT !.req = disk[j].status # "absent"]]
      /\ at = AllIdle /\ inFlight = {} /\ tick = [w \in Ticks |-> IdleTick]
      /\ listening = FALSE /\ stopping = FALSE /\ waiting = {} /\ sawNoPayment = {}
      /\ chain = [t \in Sigs |-> {j \in Jobs : disk[j].sig = t}]
      /\ asked = {j \in Jobs : disk[j].status # "absent"}
      /\ windowOver = {} /\ late = {} /\ executions = [j \in Jobs |-> 0]
      /\ onTime = {} /\ denied = {} /\ told = {} /\ results = {}
  BY DEF Init
<1>4. TypeOK
  BY InitTypes
<1>5. ASSUME NEW j \in Jobs PROVE Good(j)
  <2>1. /\ disk[j].status = "absent" => disk[j].sig = NoSig /\ ~disk[j].net
        /\ disk[j].net => disk[j].sig \in Sigs
        /\ ~disk[j].old
    BY <1>1, FirstFileAssumption
  <2>2. metaDisk[j].retry = 0 /\ meta[j].retry = 0 /\ executions[j] = 0
        /\ \A w \in Workers : at[w][j] = "idle"
    BY <1>2 DEF NoMeta, AllIdle
  <2>3. Known(j)
    BY <1>1, <2>2, RuntimeAssumption DEF Known
  <2>4. Backed(entries, j)
    BY <1>1, RuntimeAssumption DEF Backed, L!Empty, L!Absent
  <2>5. Backed(disk, j)
    BY <1>2, <2>1 DEF Backed
  <2>6. Settled(j)
    BY <1>1, <1>2, <2>2 DEF Settled, L!SettlementsIn
  <2>7. Alone(j)
    BY <1>2, <2>2 DEF Alone, IdleTick
  <2>8. LiveFits(j) /\ \A w \in Ticks : TickFits(w, j)
    BY <2>2 DEF LiveFits, LiveFit, TickFits, TickFit, Workers
  <2>9. Judged(j)
    BY <1>2 DEF Judged
  <2> QED BY <2>3, <2>4, <2>5, <2>6, <2>7, <2>8, <2>9 DEF Good
<1> QED BY <1>1, <1>2, <1>4, <1>5 DEF IInv, Down

(***************************************************************************)
(* The results.                                                            *)
(***************************************************************************)
\* While no tick overlaps another, the inductive invariant holds in every
\* reachable state of the runtime.
THEOREM InductiveInvariant == OneTick /\ Spec => []IInv
BY InitHolds, StepKeeps, PTL DEF Spec

\* Over any number of restarts and failed writes the skill of a job runs once
\* live and once per counted retry (recoverSingleJob).
THEOREM Bounded == OneTick /\ Spec => []ReexecutionBounded
<1>1. IInv => ReexecutionBounded
  <2> SUFFICES ASSUME IInv, NEW j \in Jobs PROVE executions[j] <= MaxRetries + 1
    BY DEF ReexecutionBounded
  <2>1. executions[j] \in Nat /\ metaDisk[j].retry \in Nat /\ MaxRetries \in Nat
    BY JobFacts, RuntimeAssumption DEF LedgerTypes, Meta
  <2> QED BY <2>1 DEF IInv, Good, Known
<1> QED BY <1>1, InductiveInvariant, PTL

\* A customer who paid in time is never told that no payment was found
\* (reVerifyPayment: two empty looks, the first one after the window).
THEOREM NeverDenied == OneTick /\ Spec => []NeverCalledUnpaid
<1>1. IInv => NeverCalledUnpaid
  BY DEF IInv, TypeOK, Good, Judged, NeverCalledUnpaid
<1> QED BY <1>1, InductiveInvariant, PTL

\* No job has two workers, live or recovering, and inFlight says which jobs have
\* one (run, recoverPendingJobs).
THEOREM OneWorker == OneTick /\ Spec => []OneWorkerPerJob
<1>1. IInv => OneWorkerPerJob
  <2> SUFFICES ASSUME IInv, NEW j \in Jobs
               PROVE  LET working == {w \in Workers : at[w][j] # "idle"}
                      IN  /\ Cardinality(working) <= 1
                          /\ j \in inFlight <=> working # {}
    BY DEF OneWorkerPerJob
  <2> DEFINE working == {w \in Workers : at[w][j] # "idle"}
  <2>1. Alone(j)
    BY DEF IInv, Good
  <2>2. j \in inFlight <=> working # {}
    BY <2>1 DEF Alone
  <2>3. working = {} \/ \E w \in Workers : working = {w}
    BY <2>1 DEF Alone
  <2>4. Cardinality(working) <= 1
    BY <2>3, FS_EmptySet, FS_Singleton
  <2> QED BY <2>2, <2>4
<1> QED BY <1>1, InductiveInvariant, PTL

(***************************************************************************)
(* The runtime implements the ledger's contract.                           *)
(***************************************************************************)
Contract == [L!Next]_(L!vars)

Same == UNCHANGED <<up, expired>>

LEMMA QuietIsContract == ASSUME UNCHANGED ledgerVars, Same PROVE Contract
BY DEF Contract, L!vars, ledgerVars, Same

LEMMA MarkIsContract ==
    ASSUME up, NEW j \in Jobs, NEW to, NEW ok \in BOOLEAN, Transition(j, to, ok), Same,
           LedgerTypes
    PROVE  Contract
<1>1. entries[j].status \in L!Statuses
  BY DEF LedgerTypes, L!Entry
<1>2. to \in L!Statuses
  BY <1>1 DEF Transition, L!mark, L!VALID_TRANSITIONS, L!Statuses
<1>3. L!Mark(j)
  BY <1>2 DEF L!Mark, Transition, Same
<1> QED BY <1>3 DEF L!Next, Contract

LEMMA FailedIsContract ==
    ASSUME up, NEW j \in Jobs, markFailed(j), Same, LedgerTypes PROVE Contract
BY QuietIsContract, MarkIsContract DEF markFailed, Writes

LEMMA RetryIsContract ==
    ASSUME up, NEW j \in Jobs, NEW ok \in BOOLEAN, incrementRetry(j, ok), Same PROVE Contract
<1>1. L!SetFields(j)
  BY DEF incrementRetry, L!SetFields, Same
<1> QED BY <1>1 DEF L!Next, Contract

LEMMA LiveIsContract ==
    ASSUME IInv, up, Same, LedgerTypes, NEW j \in Jobs, LiveStep(j)
    PROVE  Contract
<1>1. CASE Accept(j)
  <2>1. L!Record(j)
    BY <1>1 DEF Accept, Writes, L!Record, Same
  <2> QED BY <2>1 DEF L!Next, Contract
<1>2. CASE Quote(j)
  <2>1. CASE UNCHANGED ledgerVars
    BY <2>1, QuietIsContract
  <2>2. CASE \E ok \in BOOLEAN : L!updatePayment(j, FALSE, ok)
    <3>1. entries[j].status = "paid"
      BY <1>2, JobFacts DEF Quote, LiveFit, Unpaid
    <3>2. L!Request(j)
      BY <2>2, <3>1 DEF L!Request, Same
    <3> QED BY <3>2 DEF L!Next, Contract
  <2> QED BY <1>2, <2>1, <2>2 DEF Quote, Writes
<1>3. CASE Catch(j)
  BY <1>3, QuietIsContract, FailedIsContract DEF Catch
<1>4. CASE Refuse(j) \/ Ask(j) \/ PathLoses(j) \/ PaymentTimeout(j)
  BY <1>4, QuietIsContract DEF Refuse, Ask, PathLoses, PaymentTimeout
<1> QED BY <1>1, <1>2, <1>3, <1>4 DEF LiveStep

LEMMA RecoveryIsContract ==
    ASSUME IInv, up, Same, LedgerTypes, NEW w \in Ticks, NEW j \in Jobs, RecoveryStep(w, j)
    PROVE  Contract
<1>1. CASE CloseRecovered(w, j) \/ Reshare(w, j) \/ Verdict(w, j)
  BY <1>1, QuietIsContract, FailedIsContract DEF CloseRecovered, Reshare, Verdict
<1>2. CASE RecoverExecuted(w, j) \/ Rerun(w, j)
  BY <1>2, RetryIsContract DEF RecoverExecuted, Rerun, Writes
<1>3. CASE RecoverPaid(w, j) \/ RecoverClosed(w, j) \/ Scan(w, j) \/ GateRefuses(w, j)
  BY <1>3, QuietIsContract DEF RecoverPaid, RecoverClosed, Scan, GateRefuses
<1> QED BY <1>1, <1>2, <1>3 DEF RecoveryStep

\* A claim is made for an unconfirmed job, and only a claimed one is confirmed.
LEMMA WorkIsContract ==
    ASSUME IInv, up, Same, LedgerTypes, NEW w \in Workers, NEW j \in Jobs, WorkStep(w, j)
    PROVE  Contract
<1>0. /\ LiveFit(at[Live][j], entries[j], executions[j])
      /\ w # Live => TickFit(at[w][j], entries[j], meta[j].retry)
  BY JobFacts DEF Workers
<1>1. CASE Claim(w, j)
  <2>1. Unpaid(entries[j]) /\ ~entries[j].old /\ expired = {}
    BY <1>0, <1>1 DEF Claim, NextPath, LiveFit, TickFit, IInv, Good, Backed
  <2>2. \E t \in Sigs, ok \in BOOLEAN : L!claimPaymentSignature(j, t, ok)
    BY <1>1 DEF Claim, Payments, Writes
  <2>3. \E t \in Sigs : L!Claim(j, t)
    BY <2>1, <2>2 DEF L!Claim, L!MayClaim, Unpaid, Same
  <2> QED BY <2>3 DEF L!Next, Contract
<1>2. CASE Confirm(w, j)
  <2>1. entries[j].status = "paid" /\ entries[j].sig \in Sigs
    BY <1>0, <1>2 DEF Confirm, LiveFit, TickFit, Unpaid
  <2>2. L!Confirm(j)
    BY <1>2, <2>1 DEF Confirm, Writes, L!Confirm, Same
  <2> QED BY <2>2 DEF L!Next, Contract
<1>3. CASE Executed(w, j) \/ Delivered(w, j)
  BY <1>3, QuietIsContract, MarkIsContract DEF Executed, Delivered, MarkThen, Writes
<1>4. CASE ExecFails(w, j)
  BY <1>4, QuietIsContract, FailedIsContract DEF ExecFails
<1>5. CASE Deliver(w, j) \/ Abort(w, j)
  BY <1>5, QuietIsContract DEF Deliver, Abort
<1> QED BY <1>1, <1>2, <1>3, <1>4, <1>5 DEF WorkStep

LEMMA StepIsContract == ASSUME IInv, [Next]_vars PROVE Contract
<1>0. LedgerTypes
  BY Types DEF IInv
<1>1. CASE \E w \in Workers, j \in Jobs : WorkerStep(w, j)
  <2>1. PICK w \in Workers, j \in Jobs : WorkerStep(w, j)
    BY <1>1
  <2>2. Busy(w, j)
    BY <2>1 DEF WorkerStep, LiveStep, RecoveryStep, WorkStep, Refuse, Accept, Quote, Ask,
           PathLoses, PaymentTimeout, NextPath, Catch, CloseRecovered, RecoverPaid,
           RecoverExecuted, RecoverClosed, Reshare, Scan, Verdict, GateRefuses, Rerun, Claim,
           Confirm, ExecFails, Executed, Deliver, Delivered, Abort, Busy
  <2>3. up
    <3>1. ~up => at[w][j] = "idle"
      BY DEF IInv, Down, AllIdle
    <3> QED BY <2>2, <3>1 DEF Busy
  <2>4. Same
    BY <2>1 DEF WorkerStep, LiveStep, RecoveryStep, WorkStep, Refuse, Accept, Quote, Ask,
           PathLoses, PaymentTimeout, Catch, CloseRecovered, RecoverPaid,
           RecoverExecuted, RecoverClosed, Reshare, Scan, Verdict, GateRefuses, Rerun, Claim,
           Confirm, ExecFails, Executed, Deliver, Delivered, Abort, Same, worldVars
  <2> QED BY <1>0, <2>1, <2>3, <2>4, LiveIsContract, RecoveryIsContract, WorkIsContract
          DEF WorkerStep, Workers
<1>2. CASE \E w \in Ticks, j \in Jobs : TickGivesUp(w, j)
  <2>1. PICK w \in Ticks, j \in Jobs : TickGivesUp(w, j)
    BY <1>2
  <2>2. up
    BY <2>1, TickTypes DEF TickGivesUp, Walks, IdleTick
  <2>3. Same /\ markFailed(j)
    BY <2>1 DEF TickGivesUp, Same, worldVars
  <2> QED BY <1>0, <2>2, <2>3, FailedIsContract
<1>3. CASE \/ \E j \in Jobs : Intake(j) \/ WindowOver(j) \/ Late(j) \/ Due(j)
           \/ \E w \in Ticks : TickStart(w) \/ TickResume(w) \/ TickEnd(w)
           \/ \E w \in Ticks, j \in Jobs : TickSkips(w, j) \/ TickParks(w, j)
                                           \/ TickDispatches(w, j) \/ TickBreaks(w, j)
           \/ \E t \in Sigs, js \in SUBSET Jobs : Pay(t, js)
           \/ Stop \/ UNCHANGED vars
  BY <1>3, QuietIsContract
     DEF Intake, WindowOver, Late, Due, TickStart, TickResume, TickEnd, TickSkips, TickParks,
         TickDispatches, TickBreaks, Pay, Stop, vars, worldVars, Same
<1>4. CASE Crash \/ Start
  BY <1>4 DEF Crash, Start, L!Next, Contract
<1> QED BY <1>1, <1>2, <1>3, <1>4 DEF Next, TickWalk

\* The runtime uses the ledger only as the ledger's contract allows
\* (LedgerContract): it claims for unconfirmed jobs, confirms what it claimed.
THEOREM KeepsContract == OneTick /\ Spec => LedgerContract
<1>1. Init => L!Init
  BY DEF Init
<1>2. IInv /\ [Next]_vars => [L!Next]_(L!vars)
  BY StepIsContract DEF Contract
<1> QED BY <1>1, <1>2, InductiveInvariant, PTL DEF Spec, LedgerContract, L!Spec

\* The ledger's theorems, about the ledger of the runtime: L and P are two
\* instances of one module.
P == INSTANCE JobLedgerProofs

LEMMA SameInit == L!Init => P!Init
BY DEF L!Init, P!Init, L!Empty, P!Empty, L!Absent, P!Absent, L!SettlementsIn, P!SettlementsIn

LEMMA SameStep == Contract => [P!Next]_(P!vars)
BY DEF Contract, L!Empty, P!Empty, L!Absent, P!Absent, L!Blank, P!Blank, L!SettlementsIn, P!SettlementsIn,
      L!flush, P!flush, L!Carriers, P!Carriers, L!IsIndexOf, P!IsIndexOf, L!ClaimOutcome,
      P!ClaimOutcome, L!Releases, P!Releases, L!MarksOfClaim, P!MarksOfClaim, L!MarksRolledBack,
      P!MarksRolledBack, L!BindClaim, P!BindClaim, L!claimPaymentSignature,
      P!claimPaymentSignature, L!recordPaid, P!recordPaid, L!updatePayment, P!updatePayment,
      L!setFields, P!setFields, L!mark, P!mark, L!Prunable, P!Prunable, L!MarksOfPrune,
      P!MarksOfPrune, L!pruneOldEntries, P!pruneOldEntries, L!load, P!load, L!Record, P!Record,
      L!Request, P!Request, L!SetFields, P!SetFields, L!MayClaim, P!MayClaim, L!Claim, P!Claim,
      L!Confirm, P!Confirm, L!Mark, P!Mark, L!Prune, P!Prune, L!Crash, P!Crash, L!Start,
      P!Start, L!Forget, P!Forget, L!Grown, P!Grown, L!Age, P!Age, L!Next, P!Next, L!vars,
      P!vars, L!Statuses, P!Statuses, L!Terminal, P!Terminal, L!VALID_TRANSITIONS,
      P!VALID_TRANSITIONS

LEMMA LedgerAssumptions == P!ConstantsAssumption /\ P!LedgersAssumption
BY RuntimeAssumption, FirstFileAssumption
   DEF P!ConstantsAssumption, P!LedgersAssumption, P!Clean, P!Entry, L!Entry, P!Statuses,
       L!Statuses

LEMMA RunsTheLedger == OneTick /\ Spec => P!Spec
<1>1. Init => P!Init
  BY SameInit DEF Init
<1>2. IInv /\ [Next]_vars => [P!Next]_(P!vars)
  BY StepIsContract, SameStep
<1> QED BY <1>1, <1>2, InductiveInvariant, PTL DEF Spec, P!Spec

\* The running provider implements Settlement: over live jobs, recovery, failed
\* writes and crashes a transaction pays one job and stays spent on it.
THEOREM RuntimeSettles == OneTick /\ Spec => P!LedgerSettles
<1>1. P!Spec => P!LedgerSettles
  BY LedgerAssumptions, P!SettlesOnce DEF P!ConstantsAssumption, P!LedgersAssumption
<1> QED BY <1>1, RunsTheLedger, PTL

\* The skill runs only for a job the file records as settled by a transaction of
\* its own, which settles no other job (WorkIsSettled).
THEOREM PaidWork == OneTick /\ Spec => []WorkIsSettled
<1>1. OneTick /\ Spec => P!Spec
  BY RunsTheLedger
<1>2. P!Spec => []P!OneTransactionOneJob
  BY LedgerAssumptions, P!OneTransaction DEF P!ConstantsAssumption, P!LedgersAssumption
<1>3. IInv /\ P!OneTransactionOneJob => WorkIsSettled
  <2> SUFFICES ASSUME IInv, P!OneTransactionOneJob PROVE WorkIsSettled
    OBVIOUS
  <2>1. ASSUME NEW j \in Jobs, executions[j] > 0
        PROVE  \E t \in Sigs : j \in chain[t] /\ <<t, j>> \in settledBy
    BY <2>1 DEF IInv, Good, Settled
  <2>2. ASSUME NEW t \in Sigs PROVE Cardinality({j \in Jobs : <<t, j>> \in settledBy}) <= 1
    <3> DEFINE paid == {j \in Jobs : <<t, j>> \in settledBy}
    <3>1. \A j, k \in paid : j = k
      <4>1. \A j, k \in Jobs : <<t, j>> \in settledBy /\ <<t, k>> \in settledBy => j = k
        BY DEF P!OneTransactionOneJob
      <4> QED BY <4>1
    <3>2. paid = {} \/ \E j \in Jobs : paid = {j}
      BY <3>1
    <3>3. Cardinality({}) <= 1 /\ \A j \in Jobs : Cardinality({j}) <= 1
      BY FS_EmptySet, FS_Singleton
    <3> QED BY <3>2, <3>3
  <2> QED BY <2>1, <2>2 DEF WorkIsSettled, RunIsPaid
<1> QED BY <1>1, <1>2, <1>3, InductiveInvariant, PTL

(***************************************************************************)
(* A permanent failure is final.  What a tick told the customer must       *)
(* survive the process: when the write of markFailed fails, the file still *)
(* holds the pending entry, and after a restart only its age or its        *)
(* retries keep recovery from running it again.                            *)
(***************************************************************************)
\* At most one write of the ledger fails.  The property is false of two: the first
\* leaves the file behind the retries in memory, on which the verdict may rest,
\* and the second is the verdict's own.
OneBadWrite == MaxBadWrites \in {0, 1}

\* Until a write has failed the file holds what memory holds.
Fresh == up /\ badWrites = 0 => entries = disk /\ meta = metaDisk

\* No tick runs job j when it reads the entry e with the counters m.
Ended(e, m, j) ==
    \/ e.status = "failed"
    \/ e.status \in {"paid", "executed"} /\ j \in late
    \/ e.status = "paid" /\ m.retry >= MaxRetries

Final(j) ==
    j \in told => /\ j \notin inFlight
                  /\ up => Ended(entries[j], meta[j], j)
                  /\ Ended(disk[j], metaDisk[j], j)

Finals == \A j \in Jobs : Final(j)

FInv == OneBadWrite /\ badWrites \in 0..MaxBadWrites /\ Fresh /\ Finals

\* A call of the ledger for job k: all of memory reaches the file, or nothing does
\* and a failed write is counted, or there was nothing to write.
Call(k) ==
    /\ \A i \in Jobs \ {k} : entries'[i] = entries[i] /\ meta'[i] = meta[i]
    /\ \/ disk' = entries' /\ metaDisk' = meta' /\ badWrites' = badWrites
       \/ UNCHANGED <<disk, metaDisk>> /\ badWrites < MaxBadWrites /\ badWrites' = badWrites + 1
       \/ UNCHANGED <<entries, meta, disk, metaDisk, badWrites>>

LEMMA WriteCalls ==
    ASSUME LedgerTypes, NEW k \in Jobs, NEW e, NEW m, NEW ok \in Writes, Wrote(k, e, m, ok),
           Written(ok)
    PROVE  Call(k)
BY DEF LedgerTypes, Wrote, Written, Writes, Call

LEMMA QuietCalls == ASSUME NEW k \in Jobs, UNCHANGED ledgerVars PROVE Call(k)
BY DEF ledgerVars, Call

LEMMA TransitionCalls ==
    ASSUME LedgerTypes, NEW k \in Jobs, NEW to, NEW ok \in Writes, Transition(k, to, ok)
    PROVE  Call(k)
<1>1. ok \in BOOLEAN
  BY DEF Writes
<1>2. Wrote(k, [entries[k] EXCEPT !.status = to], meta[k], ok)
  BY <1>1, TransitionWrites
<1> QED BY <1>2, WriteCalls DEF Transition

LEMMA FailedCalls ==
    ASSUME LedgerTypes, NEW k \in Jobs, markFailed(k) PROVE Call(k)
BY QuietCalls, TransitionCalls DEF markFailed

LEMMA RetryCalls ==
    ASSUME LedgerTypes, NEW k \in Jobs, NEW ok \in Writes, incrementRetry(k, ok) PROVE Call(k)
<1>1. ok \in BOOLEAN
  BY DEF Writes
<1>2. Wrote(k, entries[k], [meta[k] EXCEPT !.retry = IF @ < MaxRetries THEN @ + 1 ELSE @], ok)
  BY <1>1, RetryWrites
<1> QED BY <1>2, WriteCalls DEF incrementRetry

LEMMA PaymentCalls ==
    ASSUME LedgerTypes, NEW k \in Jobs, NEW net \in BOOLEAN, NEW ok \in Writes, NEW m,
           L!updatePayment(k, net, ok), meta' = [meta EXCEPT ![k] = m], Written(ok)
    PROVE  Call(k)
<1>1. ok \in BOOLEAN
  BY DEF Writes
<1>2. Wrote(k, [entries[k] EXCEPT !.net = @ \/ net], m, ok)
  BY <1>1, PaymentWrites
<1> QED BY <1>2, WriteCalls

\* Every step of a worker of job k is a call for k, and it takes in no job, tells
\* nobody and delivers to the customer of k only.
Worked(k) ==
    /\ Call(k)
    /\ told' = told /\ up' = up
    /\ late \ {k} \subseteq late'
    /\ inFlight' \subseteq inFlight
    /\ results' \subseteq results \cup {k}

LEMMA LiveWorks ==
    ASSUME LedgerTypes, NEW k \in Jobs, LiveStep(k) PROVE Worked(k)
<1>1. CASE Accept(k)
  <2>1. PICK ok \in Writes :
           L!recordPaid(k, ok) /\ meta' = [meta EXCEPT ![k] = NoMeta] /\ Written(ok)
    BY <1>1 DEF Accept
  <2>2. ok \in BOOLEAN
    BY DEF Writes
  <2>3. Wrote(k, L!Blank, NoMeta, ok)
    BY <2>1, <2>2, RecordWrites
  <2>4. Call(k)
    BY <2>1, <2>3, WriteCalls
  <2> QED BY <1>1, <2>4 DEF Accept, Worked, Goto, Throw, Leave, histVars
<1>2. CASE Quote(k)
  <2>1. CASE UNCHANGED ledgerVars
    BY <1>2, <2>1, QuietCalls DEF Quote, Worked, Goto, Throw, Leave, histVars, worldVars
  <2>2. CASE \E ok \in Writes : /\ L!updatePayment(k, FALSE, ok)
                                /\ meta' = [meta EXCEPT ![k].req = TRUE]
                                /\ Written(ok)
    <3>1. meta' = [meta EXCEPT ![k] = [meta[k] EXCEPT !.req = TRUE]]
      BY <2>2 DEF LedgerTypes
    <3>2. Call(k)
      BY <2>2, <3>1, PaymentCalls
    <3> QED BY <1>2, <3>2 DEF Quote, Worked, Goto, Throw, Leave, histVars, worldVars
  <2> QED BY <1>2, <2>1, <2>2 DEF Quote
<1>3. CASE Catch(k)
  <2>1. Call(k)
    BY <1>3, QuietCalls, FailedCalls DEF Catch
  <2> QED BY <1>3, <2>1 DEF Catch, Worked, Leave, histVars, worldVars
<1>4. CASE Refuse(k) \/ Ask(k) \/ PathLoses(k) \/ PaymentTimeout(k)
  <2>1. Call(k)
    BY <1>4, QuietCalls DEF Refuse, Ask, PathLoses, PaymentTimeout
  <2> QED BY <1>4, <2>1 DEF Refuse, Ask, PathLoses, PaymentTimeout, Worked, Goto, Leave,
                            histVars, worldVars
<1> QED BY <1>1, <1>2, <1>3, <1>4 DEF LiveStep

LEMMA RecoveryWorks ==
    ASSUME LedgerTypes, NEW w \in Ticks, NEW k \in Jobs, RecoveryStep(w, k) PROVE Worked(k)
<1>1. CASE CloseRecovered(w, k) \/ Reshare(w, k) \/ Verdict(w, k)
  <2>1. Call(k)
    BY <1>1, QuietCalls, FailedCalls DEF CloseRecovered, Reshare, Verdict
  <2> QED BY <1>1, <2>1 DEF CloseRecovered, Reshare, Verdict, Worked, Goto, Leave, Deferred,
                            histVars, worldVars
<1>2. CASE RecoverExecuted(w, k) \/ Rerun(w, k)
  <2>1. Call(k)
    BY <1>2, RetryCalls DEF RecoverExecuted, Rerun
  <2> QED BY <1>2, <2>1 DEF RecoverExecuted, Rerun, Worked, Goto, Throw, Leave, histVars,
                            worldVars
<1>3. CASE RecoverPaid(w, k) \/ RecoverClosed(w, k) \/ Scan(w, k) \/ GateRefuses(w, k)
  <2>1. Call(k)
    BY <1>3, QuietCalls DEF RecoverPaid, RecoverClosed, Scan, GateRefuses
  <2> QED BY <1>3, <2>1 DEF RecoverPaid, RecoverClosed, Scan, GateRefuses, Worked, Goto, Leave,
                            Deferred, histVars, worldVars
<1> QED BY <1>1, <1>2, <1>3 DEF RecoveryStep

LEMMA ClaimCalls ==
    ASSUME LedgerTypes, NEW k \in Jobs, NEW t \in Sigs, NEW ok \in Writes,
           L!claimPaymentSignature(k, t, ok), UNCHANGED meta,
           IF L!ClaimOutcome(k, t, ok) \in {"claimed", "not-persisted"}
              THEN Written(ok) ELSE ok /\ UNCHANGED <<metaDisk, badWrites>>
    PROVE  Call(k)
<1> DEFINE o == L!ClaimOutcome(k, t, ok)
<1>0. ok \in BOOLEAN
  BY DEF Writes
<1>1. \/ o = "claimed" /\ Wrote(k, [entries[k] EXCEPT !.sig = t], meta[k], TRUE)
      \/ o # "claimed" /\ Wrote(k, entries[k], meta[k], FALSE)
  BY <1>0, ClaimWrites
<1>2. CASE o = "claimed"
  <2>1. ok /\ Written(ok)
    BY <1>2 DEF L!ClaimOutcome
  <2> QED BY <1>1, <1>2, <2>1 DEF Wrote, Written, LedgerTypes, Call
<1>3. CASE o = "not-persisted"
  <2>1. ~ok /\ Written(ok)
    BY <1>3 DEF L!ClaimOutcome
  <2>2. badWrites < MaxBadWrites
    BY <2>1 DEF Writes
  <2> QED BY <1>1, <1>3, <2>1, <2>2 DEF Wrote, Written, LedgerTypes, Call
<1>4. CASE o \notin {"claimed", "not-persisted"}
  <2>1. metaDisk' = metaDisk /\ badWrites' = badWrites
    BY <1>4
  <2>2. entries' = entries /\ disk' = disk
    BY <1>1, <1>4 DEF Wrote, LedgerTypes
  <2> QED BY <2>1, <2>2 DEF Call
<1> QED BY <1>2, <1>3, <1>4

LEMMA WorkWorks ==
    ASSUME LedgerTypes, NEW w \in Workers, NEW k \in Jobs, WorkStep(w, k) PROVE Worked(k)
<1>1. CASE Claim(w, k)
  <2>1. PICK t \in Payments(k), ok \in Writes :
           /\ L!claimPaymentSignature(k, t, ok)
           /\ UNCHANGED meta
           /\ IF L!ClaimOutcome(k, t, ok) \in {"claimed", "not-persisted"}
              THEN Written(ok) ELSE ok /\ UNCHANGED <<metaDisk, badWrites>>
    BY <1>1 DEF Claim
  <2>2. t \in Sigs
    BY DEF Payments
  <2>3. Call(k)
    BY <2>1, <2>2, ClaimCalls
  <2> QED BY <1>1, <2>3 DEF Claim, Worked, Goto, ClaimRefused, Deferred, Leave, histVars, worldVars
<1>2. CASE Confirm(w, k)
  <2>1. PICK ok \in Writes : L!updatePayment(k, TRUE, ok) /\ UNCHANGED meta /\ Written(ok)
    BY <1>2 DEF Confirm
  <2>2. meta' = [meta EXCEPT ![k] = meta[k]]
    BY <2>1 DEF LedgerTypes
  <2>3. Call(k)
    BY <2>1, <2>2, PaymentCalls
  <2> QED BY <1>2, <2>3 DEF Confirm, Worked, Goto, Throw, Deferred, Leave, worldVars
<1>3. CASE ExecFails(w, k)
  <2>1. Call(k)
    BY <1>3, QuietCalls, FailedCalls DEF ExecFails
  <2> QED BY <1>3, <2>1 DEF ExecFails, Worked, Goto, Throw, Leave, histVars, worldVars
<1>4. CASE Executed(w, k) \/ Delivered(w, k)
  <2>1. Call(k)
    BY <1>4, QuietCalls, TransitionCalls DEF Executed, Delivered, MarkThen
  <2> QED BY <1>4, <2>1 DEF Executed, Delivered, MarkThen, Worked, Goto, Throw, Leave, histVars,
                            worldVars
<1>5. CASE Deliver(w, k) \/ Abort(w, k)
  <2>1. Call(k)
    BY <1>5, QuietCalls DEF Deliver, Abort
  <2> QED BY <1>5, <2>1 DEF Deliver, Abort, Worked, Goto, Throw, Deferred, Leave, histVars,
                            worldVars
<1> QED BY <1>1, <1>2, <1>3, <1>4, <1>5 DEF WorkStep

\* A worker's job is in flight, so no tick has given it up.
LEMMA WorkerWorks ==
    ASSUME IInv, FInv, NEW w \in Workers, NEW k \in Jobs, WorkerStep(w, k)
    PROVE  Worked(k) /\ k \notin told /\ up
<1>1. Busy(w, k)
  BY DEF WorkerStep, LiveStep, RecoveryStep, WorkStep, Refuse, Accept, Quote, Ask,
         PathLoses, PaymentTimeout, NextPath, Catch, CloseRecovered, RecoverPaid,
         RecoverExecuted, RecoverClosed, Reshare, Scan, Verdict, GateRefuses, Rerun, Claim,
         Confirm, ExecFails, Executed, Deliver, Delivered, Abort, Busy
<1>2. up
  <2>1. ~up => at[w][k] = "idle"
    BY DEF IInv, Down, AllIdle
  <2> QED BY <1>1, <2>1 DEF Busy
<1>3. k \in inFlight
  BY <1>1, JobFacts DEF Alone, Busy
<1>4. k \notin told
  BY <1>3 DEF FInv, Finals, Final
<1>5. LedgerTypes
  BY Types DEF IInv
<1>6. Worked(k)
  BY <1>5, LiveWorks, RecoveryWorks, WorkWorks DEF WorkerStep, Workers
<1> QED BY <1>2, <1>4, <1>6

LEMMA WorkerFinal ==
    ASSUME IInv, FInv, NEW w \in Workers, NEW k \in Jobs, WorkerStep(w, k) PROVE FInv'
<1>1. Worked(k) /\ k \notin told /\ up
  BY WorkerWorks
<1>2. badWrites' \in 0..MaxBadWrites
  BY <1>1 DEF Worked, Call, FInv, OneBadWrite
<1>3. Fresh'
  BY <1>1 DEF Worked, Call, FInv, OneBadWrite, Fresh
<1>4. ASSUME NEW j \in Jobs PROVE Final(j)'
  <2> SUFFICES ASSUME j \in told PROVE Final(j)'
    BY <1>1 DEF Final, Worked
  <2>1. j # k /\ Final(j)
    BY <1>1 DEF FInv, Finals
  <2>2. entries'[j] = entries[j] /\ meta'[j] = meta[j] /\ up'
    BY <1>1, <2>1 DEF Worked, Call
  <2>3. \/ disk'[j] = disk[j] /\ metaDisk'[j] = metaDisk[j]
        \/ disk'[j] = entries[j] /\ metaDisk'[j] = meta[j]
    BY <1>1, <2>2 DEF Worked, Call
  <2>4. j \in late => j \in late'
    BY <1>1, <2>1 DEF Worked
  <2>5. Ended(entries[j], meta[j], j) /\ Ended(disk[j], metaDisk[j], j) /\ j \notin inFlight'
    BY <1>1, <2>1 DEF Final, Worked
  <2>6. Ended(entries[j], meta[j], j)' /\ Ended(disk[j], metaDisk[j], j)'
    BY <2>2, <2>3, <2>4, <2>5 DEF Ended
  <2> QED BY <2>5, <2>6 DEF Final
<1> QED BY <1>2, <1>3, <1>4 DEF FInv, OneBadWrite, Finals

\* Giving up: the verdict rests on the job's age or on its retries, and when its
\* write fails the file, up to date until then, shows the same.
LEMMA GivesUpFinal ==
    ASSUME IInv, FInv, NEW w \in Ticks, NEW k \in Jobs, TickGivesUp(w, k) PROVE FInv'
<1>1. LedgerTypes /\ Alone(k) /\ k \in tick[w].todo /\ GivesUp(k)
  BY JobFacts DEF TickGivesUp, Walks
<1>2. up
  <2>1. tick[w] # IdleTick
    BY DEF TickGivesUp, Walks, IdleTick
  <2> QED BY <2>1, TickTypes
<1>3. entries[k].status \in {"paid", "executed"} /\ k \notin inFlight
  BY <1>1 DEF Alone
<1>4. /\ told' = told \cup {k}
      /\ UNCHANGED <<inFlight, up, late>>
  BY DEF TickGivesUp, worldVars
<1>5. CanBecome(k, "failed")
  BY <1>3 DEF CanBecome, L!VALID_TRANSITIONS
<1>6. PICK ok \in Writes : Transition(k, "failed", ok)
  BY <1>5 DEF TickGivesUp, markFailed
<1>7. Call(k)
  BY <1>1, <1>6, TransitionCalls
<1>8. entries'[k].status = "failed" /\ meta' = meta
  BY <1>1, <1>6 DEF Transition, L!mark, LedgerTypes, L!Entry
<1>9. badWrites' \in 0..MaxBadWrites /\ Fresh'
  BY <1>2, <1>4, <1>7 DEF Call, FInv, OneBadWrite, Fresh
<1>10. Final(k)'
  <2>1. Ended(entries[k], meta[k], k)'
    BY <1>8 DEF Ended
  <2>2. Ended(disk[k], metaDisk[k], k)'
    <3>1. CASE disk' = entries'
      BY <1>8, <3>1 DEF Ended
    <3>2. CASE disk' = disk /\ metaDisk' = metaDisk /\ badWrites < MaxBadWrites
      <4>1. disk = entries /\ metaDisk = meta
        BY <1>2, <3>2 DEF FInv, OneBadWrite, Fresh
      <4>2. Ended(entries[k], meta[k], k)
        BY <1>1, <1>3 DEF GivesUp, Exhausted, Ended
      <4> QED BY <1>4, <3>2, <4>1, <4>2 DEF Ended
    <3>3. CASE entries' = entries
      BY <1>3, <1>8, <3>3
    <3> QED BY <1>7, <3>1, <3>2, <3>3 DEF Call
  <2> QED BY <1>3, <1>4, <2>1, <2>2 DEF Final
<1>11. ASSUME NEW j \in Jobs, j # k PROVE Final(j)'
  <2>1. Final(j)
    BY DEF FInv, Finals
  <2>2. entries'[j] = entries[j] /\ meta'[j] = meta[j]
    BY <1>7, <1>11 DEF Call
  <2>3. \/ disk'[j] = disk[j] /\ metaDisk'[j] = metaDisk[j]
        \/ disk'[j] = entries[j] /\ metaDisk'[j] = meta[j]
    BY <1>7, <2>2 DEF Call
  <2> QED BY <1>2, <1>4, <1>11, <2>1, <2>2, <2>3 DEF Final, Ended
<1> QED BY <1>9, <1>10, <1>11 DEF FInv, OneBadWrite, Finals

\* Only a job no tick gave up is dispatched, and only one that left no entry is
\* taken in.
LEMMA IntakeFinal == ASSUME IInv, FInv, NEW k \in Jobs, Intake(k) PROVE FInv'
<1>1. k \notin told
  BY DEF Intake, FInv, Finals, Final, Ended
<1>2. UNCHANGED <<entries, disk, meta, metaDisk, badWrites, up, late, told>>
  BY DEF Intake, ledgerVars, worldVars, histVars
<1>3. inFlight' = inFlight \cup {k}
  BY DEF Intake
<1> QED BY <1>1, <1>2, <1>3 DEF FInv, OneBadWrite, Fresh, Finals, Final, Ended

LEMMA DispatchFinal ==
    ASSUME IInv, FInv, NEW w \in Ticks, NEW k \in Jobs, TickDispatches(w, k) PROVE FInv'
<1>1. k \in tick[w].todo /\ ~GivesUp(k) /\ Alone(k)
  BY JobFacts DEF TickDispatches, Walks
<1>2. up
  <2>1. tick[w] # IdleTick
    BY DEF TickDispatches, Walks, IdleTick
  <2> QED BY <2>1, TickTypes
<1>3. entries[k].status \in {"paid", "executed"}
  BY <1>1 DEF Alone
<1>4. k \notin told
  BY <1>1, <1>2, <1>3 DEF FInv, Finals, Final, Ended, GivesUp, Exhausted
<1>5. UNCHANGED <<entries, disk, meta, metaDisk, badWrites, up, late, told>>
  BY DEF TickDispatches, ledgerVars, worldVars, histVars
<1>6. inFlight' = inFlight \cup {k}
  BY DEF TickDispatches
<1> QED BY <1>4, <1>5, <1>6 DEF FInv, OneBadWrite, Fresh, Finals, Final, Ended

LEMMA OtherFinal ==
    ASSUME FInv, UNCHANGED <<entries, disk, meta, metaDisk, badWrites, up, told, inFlight>>,
           late \subseteq late'
    PROVE  FInv'
BY DEF FInv, OneBadWrite, Fresh, Finals, Final, Ended

LEMMA RestartFinal == ASSUME IInv, FInv, Crash \/ Start PROVE FInv'
<1>1. CASE Crash
  BY <1>1 DEF Crash, L!Crash, histVars, FInv, OneBadWrite, Fresh, Finals, Final, Ended
<1>2. CASE Start
  BY <1>2 DEF Start, L!Start, L!load, histVars, FInv, OneBadWrite, Fresh, Finals, Final, Ended
<1> QED BY <1>1, <1>2

LEMMA StepFinal == IInv /\ FInv /\ [Next]_vars => FInv'
<1> SUFFICES ASSUME IInv, FInv, [Next]_vars PROVE FInv'
  OBVIOUS
<1>1. CASE \E w \in Workers, j \in Jobs : WorkerStep(w, j)
  BY <1>1, WorkerFinal
<1>2. CASE \/ \E j \in Jobs : Intake(j)
           \/ \E w \in Ticks, j \in Jobs : TickGivesUp(w, j) \/ TickDispatches(w, j)
  BY <1>2, IntakeFinal, GivesUpFinal, DispatchFinal
<1>3. CASE \/ \E j \in Jobs : WindowOver(j) \/ Late(j) \/ Due(j)
           \/ \E w \in Ticks : TickStart(w) \/ TickResume(w) \/ TickEnd(w)
           \/ \E w \in Ticks, j \in Jobs : TickSkips(w, j) \/ TickParks(w, j) \/ TickBreaks(w, j)
           \/ \E t \in Sigs, js \in SUBSET Jobs : Pay(t, js)
           \/ Stop \/ UNCHANGED vars
  BY <1>3, OtherFinal
     DEF WindowOver, Late, Due, TickStart, TickResume, TickEnd, TickSkips, TickParks,
         TickBreaks, Pay, Stop, vars, ledgerVars, worldVars, histVars
<1>4. CASE Crash \/ Start
  BY <1>4, RestartFinal
<1> QED BY <1>1, <1>2, <1>3, <1>4 DEF Next, TickWalk

LEMMA InitFinal == OneBadWrite /\ Init => FInv
BY DEF OneBadWrite, Init, L!Init, FInv, Fresh, Finals, Final

\* Only a worker delivers, and it delivers to the customer of a job in flight.
LEMMA ResultsStep ==
    IInv /\ FInv /\ [Next]_vars => \A j \in told : j \in results' => j \in results
<1> SUFFICES ASSUME IInv, FInv, [Next]_vars PROVE \A j \in told : j \in results' => j \in results
  OBVIOUS
<1>1. CASE \E w \in Workers, j \in Jobs : WorkerStep(w, j)
  BY <1>1, WorkerWorks DEF Worked
<1>2. CASE ~\E w \in Workers, j \in Jobs : WorkerStep(w, j)
  <2>1. results' = results
    BY <1>2 DEF Next, TickWalk, Intake, TickGivesUp, TickDispatches, WindowOver, Late, Due,
                TickStart, TickResume, TickEnd, TickSkips, TickParks, TickBreaks, Pay, Stop,
                Crash, Start, vars, histVars
  <2> QED BY <2>1
<1> QED BY <1>1, <1>2

\* Once a tick has told the customer that the job failed permanently no result
\* follows, over all crashes and restarts (PermanentFailureIsFinal): every write of
\* the verdict that fails leaves a file by which the next process reaches it again.
THEOREM FailureFinal == OneTick /\ OneBadWrite /\ Spec => PermanentFailureIsFinal
<1>1. IInv /\ FInv /\ [Next]_vars => FInv'
  BY StepFinal
<1>2. OneBadWrite /\ Init => FInv
  BY InitFinal
<1>3. IInv /\ FInv /\ [Next]_vars => [\A j \in told : j \in results' => j \in results]_vars
  BY ResultsStep
<1> QED BY <1>1, <1>2, <1>3, InductiveInvariant, PTL DEF Spec, PermanentFailureIsFinal

(***************************************************************************)
(* What overlapping ticks cannot break.  Two ticks that overlap may work   *)
(* on one job together and run it too often, but neither runs it unpaid.   *)
(***************************************************************************)
\* An entry of job j that names a transaction of its own.
Carried(j, e) ==
    /\ e.net => e.sig \in Sigs
    /\ e.sig \in Sigs => e.status # "absent" /\ j \in chain[e.sig]

\* However many workers job j has, each knows its entry bound or confirmed where
\* it relies on it.
Knows(j) ==
    \A w \in Workers : /\ at[w][j] = "claimed" => entries[j].sig \in Sigs
                       /\ at[w][j] = "ready" => entries[j].net

Recorded(j) ==
    /\ \A t \in Sigs : <<t, j>> \in settledBy => j \in chain[t]
    /\ executions[j] > 0 => \E t \in Sigs : <<t, j>> \in settledBy

PaidFor(j) == Carried(j, entries[j]) /\ Carried(j, disk[j]) /\ Knows(j) /\ Recorded(j)

PInv == TypeOK /\ \A j \in Jobs : PaidFor(j)

\* What a step of a worker of job k leaves of the other variables.
Framed ==
    /\ UNCHANGED <<tickVars, up, expired, chain, windowOver, onTime>>
    /\ {waiting', sawNoPayment', asked', late', denied', told', results'} \subseteq SUBSET Jobs

\* A worker w moves to s and the entry of its job k becomes e.  What was bound or
\* confirmed stays so, and the skill is started only on a confirmed entry on file.
Turn(w, k, s, e, ok) ==
    /\ Moves(w, k, s)
    /\ Carried(k, e)
    /\ entries[k].sig \in Sigs => e.sig \in Sigs
    /\ entries[k].net => e.net
    /\ s = "claimed" => e.sig \in Sigs
    /\ s = "ready" => e.net
    /\ \/ executions' = executions
       \/ ok /\ e.net /\ executions' = [executions EXCEPT ![k] = @ + 1]

LEMMA TurnTypes ==
    ASSUME TypeOK, NEW w \in Workers, NEW k \in Jobs, NEW s \in Steps, NEW e \in L!Entry,
           NEW m \in Meta, NEW ok \in BOOLEAN, Wrote(k, e, m, ok),
           owners' \in [Sigs -> Jobs \cup {NoJob}], Turn(w, k, s, e, ok), Framed
    PROVE  TypeOK'
<1>1. LedgerTypes'
  BY Types, WriteTypes
<1>2. at' \in [Workers -> [Jobs -> Steps]] /\ inFlight' \in SUBSET Jobs
  <2>1. inFlight \in SUBSET Jobs
    BY DEF TypeOK
  <2> QED BY <2>1, Types DEF Turn, Moves
<1>3. executions' \in [Jobs -> Nat]
  BY Types DEF Turn
<1>4. L!TypeOK'
  BY <1>1 DEF TypeOK, L!TypeOK, LedgerTypes, Framed
<1>5. windowOver' \in SUBSET Jobs /\ onTime' \in SUBSET Jobs
  BY DEF TypeOK, Framed
<1>6. /\ tick' = tick /\ listening' = listening /\ stopping' = stopping /\ chain' = chain
      /\ {waiting', sawNoPayment', asked', late', denied', told', results'} \subseteq SUBSET Jobs
  BY DEF Framed, tickVars
<1> QED BY <1>1, <1>2, <1>3, <1>4, <1>5, <1>6 DEF TypeOK, LedgerTypes, Meta

LEMMA TurnPaid ==
    ASSUME PInv, NEW w \in Workers, NEW k \in Jobs, NEW s \in Steps, NEW e \in L!Entry,
           NEW m \in Meta, NEW ok \in BOOLEAN, Wrote(k, e, m, ok),
           owners' \in [Sigs -> Jobs \cup {NoJob}], Turn(w, k, s, e, ok), Framed
    PROVE  PInv'
<1>1. TypeOK' /\ TypeOK
  BY TurnTypes DEF PInv
<1>2. /\ LedgerTypes /\ at \in [Workers -> [Jobs -> Steps]] /\ executions \in [Jobs -> Nat]
      /\ chain' = chain
  BY <1>1, Types DEF Framed
<1>3. /\ entries'[k] = e
      /\ \A j \in Jobs \ {k} : entries'[j] = entries[j] /\ executions'[j] = executions[j]
  BY <1>2 DEF Wrote, LedgerTypes, Turn
<1>4. ASSUME NEW j \in Jobs PROVE PaidFor(j)'
  <2>1. PaidFor(j)
    BY DEF PInv
  <2>2. Carried(j, entries'[j])
    BY <1>3, <2>1 DEF PaidFor, Turn
  <2>3. Carried(j, disk'[j])
    <3>1. disk' = disk \/ disk' = entries'
      BY DEF Wrote
    <3> QED BY <2>1, <2>2, <3>1 DEF PaidFor
  <2>4. Knows(j)'
    <3>1. ASSUME NEW v \in Workers
          PROVE  at'[v][j] = IF v = w /\ j = k THEN s ELSE at[v][j]
      BY <1>2 DEF Turn, Moves
    <3>2. CASE j # k
      BY <1>3, <2>1, <3>1, <3>2 DEF PaidFor, Knows
    <3>3. CASE j = k
      BY <1>3, <2>1, <3>1, <3>3 DEF PaidFor, Knows, Turn
    <3> QED BY <3>2, <3>3
  <2>5. \A t \in Sigs : <<t, j>> \in settledBy' => j \in chain[t]
    <3>1. settledBy' = settledBy \/ settledBy' = settledBy \cup L!SettlementsIn(entries')
      BY DEF Wrote
    <3>2. ASSUME NEW t \in Sigs, <<t, j>> \in L!SettlementsIn(entries') PROVE j \in chain[t]
      <4>1. entries'[j].sig = t
        BY <3>2 DEF L!SettlementsIn
      <4> QED BY <2>2, <4>1 DEF Carried
    <3> QED BY <2>1, <3>1, <3>2 DEF PaidFor, Recorded
  <2>6. executions'[j] > 0 => \E t \in Sigs : <<t, j>> \in settledBy'
    <3>1. settledBy \subseteq settledBy'
      BY DEF Wrote
    <3>2. CASE executions'[j] = executions[j]
      BY <2>1, <3>1, <3>2 DEF PaidFor, Recorded
    <3>3. CASE executions'[j] # executions[j]
      <4>1. j = k /\ ok /\ e.net
        BY <1>3, <3>3 DEF Turn
      <4>2. e.sig \in Sigs
        BY <4>1 DEF Turn, Carried
      <4>3. <<e.sig, k>> \in L!SettlementsIn(entries')
        BY <1>3, <4>1, <4>2 DEF L!SettlementsIn
      <4>4. settledBy' = settledBy \cup L!SettlementsIn(entries')
        BY <4>1 DEF Wrote
      <4> QED BY <4>1, <4>2, <4>3, <4>4
    <3> QED BY <3>2, <3>3
  <2> QED BY <1>2, <2>2, <2>3, <2>4, <2>5, <2>6 DEF PaidFor, Carried, Recorded
<1> QED BY <1>1, <1>4 DEF PInv

\* Most calls leave the transaction and the net amount of their entry alone.
Tidy(k) ==
    \E e \in L!Entry, m \in Meta, ok \in BOOLEAN :
        /\ Wrote(k, e, m, ok) /\ owners' \in [Sigs -> Jobs \cup {NoJob}]
        /\ e.sig = entries[k].sig /\ e.net = entries[k].net
        /\ e.status = "absent" <=> entries[k].status = "absent"

Wanders(w, k) == \E s \in Steps \ {"claimed", "ready"} : Moves(w, k, s)

LEMMA TidyPaid ==
    ASSUME PInv, NEW w \in Workers, NEW k \in Jobs, Tidy(k), Wanders(w, k),
           executions' = executions, Framed
    PROVE  PInv'
<1>1. PICK e \in L!Entry, m \in Meta, ok \in BOOLEAN :
         /\ Wrote(k, e, m, ok) /\ owners' \in [Sigs -> Jobs \cup {NoJob}]
         /\ e.sig = entries[k].sig /\ e.net = entries[k].net
         /\ e.status = "absent" <=> entries[k].status = "absent"
  BY DEF Tidy
<1>2. PICK s \in Steps \ {"claimed", "ready"} : Moves(w, k, s)
  BY DEF Wanders
<1>3. Carried(k, entries[k])
  BY DEF PInv, PaidFor
<1>4. Turn(w, k, s, e, ok)
  BY <1>1, <1>2, <1>3 DEF Turn, Carried
<1> QED BY <1>1, <1>2, <1>4, TurnPaid

LEMMA EntryFacts ==
    ASSUME LedgerTypes, NEW k \in Jobs
    PROVE  /\ entries[k] \in L!Entry /\ meta[k] \in Meta
           /\ owners \in [Sigs -> Jobs \cup {NoJob}]
BY DEF LedgerTypes

LEMMA QuietTidy == ASSUME LedgerTypes, NEW k \in Jobs, UNCHANGED ledgerVars PROVE Tidy(k)
<1>1. Wrote(k, entries[k], meta[k], FALSE) /\ owners' = owners
  BY Untouched
<1> QED BY <1>1, EntryFacts DEF Tidy

LEMMA TransitionTidy ==
    ASSUME LedgerTypes, NEW k \in Jobs, NEW to \in L!Statuses \ {"absent"}, NEW ok \in Writes,
           Transition(k, to, ok)
    PROVE  Tidy(k)
<1>0. ok \in BOOLEAN
  BY DEF Writes
<1> DEFINE e == [entries[k] EXCEPT !.status = to]
<1>1. Wrote(k, e, meta[k], ok) /\ owners' = owners /\ CanBecome(k, to)
  BY <1>0, TransitionWrites
<1>2. e \in L!Entry /\ e.sig = entries[k].sig /\ e.net = entries[k].net /\ e.status = to
  BY EntryFacts DEF L!Entry
<1>3. entries[k].status # "absent"
  BY <1>1 DEF CanBecome, L!VALID_TRANSITIONS
<1> HIDE DEF e
<1> QED BY <1>0, <1>1, <1>2, <1>3, EntryFacts DEF Tidy

LEMMA FailedTidy == ASSUME LedgerTypes, NEW k \in Jobs, markFailed(k) PROVE Tidy(k)
<1>1. "failed" \in L!Statuses \ {"absent"}
  BY DEF L!Statuses
<1> QED BY <1>1, QuietTidy, TransitionTidy DEF markFailed

LEMMA RetryTidy ==
    ASSUME LedgerTypes, NEW k \in Jobs, NEW ok \in Writes, incrementRetry(k, ok)
    PROVE  Tidy(k) /\ \E m \in Meta : Wrote(k, entries[k], m, ok) /\ owners' = owners
<1>0. ok \in BOOLEAN /\ MaxRetries \in Nat
  BY RuntimeAssumption DEF Writes
<1> DEFINE m == [meta[k] EXCEPT !.retry = IF @ < MaxRetries THEN @ + 1 ELSE @]
<1>1. Wrote(k, entries[k], m, ok) /\ owners' = owners
  BY <1>0, RetryWrites
<1>2. m \in Meta
  BY <1>0, EntryFacts DEF Meta
<1> HIDE DEF m
<1> QED BY <1>0, <1>1, <1>2, EntryFacts DEF Tidy

LEMMA RequestTidy ==
    ASSUME LedgerTypes, NEW k \in Jobs, NEW ok \in Writes, L!updatePayment(k, FALSE, ok),
           meta' = [meta EXCEPT ![k].req = TRUE], Written(ok)
    PROVE  Tidy(k)
<1>0. ok \in BOOLEAN
  BY DEF Writes
<1> DEFINE e == [entries[k] EXCEPT !.net = @ \/ FALSE]
           m == [meta[k] EXCEPT !.req = TRUE]
<1>1. meta' = [meta EXCEPT ![k] = m] /\ m \in Meta
  BY EntryFacts DEF LedgerTypes, Meta
<1>2. Wrote(k, e, m, ok) /\ owners' = owners
  BY <1>0, <1>1, PaymentWrites
<1>3. e = entries[k]
  BY EntryFacts DEF L!Entry
<1> HIDE DEF e, m
<1> QED BY <1>0, <1>1, <1>2, <1>3, EntryFacts DEF Tidy

\* Where a worker may go, and what it leaves.
LEMMA Goings ==
    ASSUME NEW w \in Workers, NEW k \in Jobs
    PROVE  /\ Leave(w, k) => Wanders(w, k)
           /\ Throw(w, k) => Wanders(w, k)
           /\ \A s \in Steps \ {"claimed", "ready", "idle"} : Goto(w, k, s) => Wanders(w, k)
BY DEF Leave, Throw, Goto, Wanders, Moves, Steps

LEMMA Frames ==
    ASSUME TypeOK, \/ UNCHANGED deferVars
                   \/ waiting' \in SUBSET Jobs /\ sawNoPayment' \in SUBSET Jobs,
           UNCHANGED <<tickVars, worldVars, onTime, told>>,
           denied' \in SUBSET Jobs, results' \in SUBSET Jobs
    PROVE  Framed
BY DEF TypeOK, Framed, deferVars, worldVars

LEMMA DeferFrames ==
    ASSUME TypeOK, NEW w \in Workers, NEW k \in Jobs, Deferred(w, k)
    PROVE  waiting' \in SUBSET Jobs /\ sawNoPayment' \in SUBSET Jobs /\ Wanders(w, k)
<1>1. waiting \in SUBSET Jobs /\ sawNoPayment \in SUBSET Jobs
  BY DEF TypeOK
<1> QED BY <1>1, Goings DEF Deferred, Defer

LEMMA SetTypes ==
    ASSUME TypeOK
    PROVE  /\ waiting \in SUBSET Jobs /\ sawNoPayment \in SUBSET Jobs /\ asked \in SUBSET Jobs
           /\ late \in SUBSET Jobs /\ denied \in SUBSET Jobs /\ told \in SUBSET Jobs
           /\ results \in SUBSET Jobs /\ windowOver \in SUBSET Jobs /\ onTime \in SUBSET Jobs
           /\ inFlight \in SUBSET Jobs
BY DEF TypeOK

LEMMA AcceptPaid == ASSUME PInv, NEW k \in Jobs, Accept(k) PROVE PInv'
<1>0. TypeOK /\ LedgerTypes /\ Live \in Workers /\ PaidFor(k)
  BY Types DEF PInv, Workers
<1>1. PICK ok \in Writes :
         /\ L!recordPaid(k, ok) /\ meta' = [meta EXCEPT ![k] = NoMeta] /\ Written(ok)
         /\ IF ok THEN Goto(Live, k, "quote") ELSE Throw(Live, k)
  BY DEF Accept
<1>2. ok \in BOOLEAN
  BY DEF Writes
<1>3. Wrote(k, L!Blank, NoMeta, ok) /\ owners' = owners /\ entries[k].status = "absent"
  BY <1>0, <1>1, <1>2, RecordWrites
<1>4. L!Blank \in L!Entry /\ ~L!Blank.net /\ L!Blank.sig \notin Sigs /\ NoMeta \in Meta
  BY RuntimeAssumption DEF L!Blank, L!Absent, L!Entry, L!Statuses, NoMeta, Meta
<1>5. ~entries[k].net /\ entries[k].sig \notin Sigs
  BY <1>0, <1>3 DEF PaidFor, Carried
<1>6. PICK s \in Steps \ {"claimed", "ready"} : Moves(Live, k, s)
  <2>1. Wanders(Live, k)
    BY <1>0, <1>1, Goings DEF Steps
  <2> QED BY <2>1 DEF Wanders
<1>7. Framed
  BY <1>0, SetTypes DEF Accept, Framed, deferVars, histVars
<1>8. Turn(Live, k, s, L!Blank, ok)
  BY <1>4, <1>5, <1>6 DEF Turn, Carried, Accept, histVars
<1> QED BY <1>0, <1>2, <1>3, <1>4, <1>6, <1>7, <1>8, EntryFacts, TurnPaid

LEMMA LivePaid == ASSUME PInv, NEW k \in Jobs, LiveStep(k) PROVE PInv'
<1>0. TypeOK /\ LedgerTypes /\ Live \in Workers
  BY Types DEF PInv, Workers
<1>1. CASE Accept(k)
  BY <1>1, AcceptPaid
<1>2. CASE Quote(k)
  <2>1. Tidy(k)
    BY <1>0, <1>2, QuietTidy, RequestTidy DEF Quote
  <2>2. Wanders(Live, k)
    BY <1>0, <1>2, Goings DEF Quote, Steps
  <2>3. Framed /\ executions' = executions
    BY <1>0, <1>2, Frames, SetTypes DEF Quote, histVars
  <2> QED BY <1>0, <2>1, <2>2, <2>3, TidyPaid
<1>3. CASE Ask(k)
  <2>1. Tidy(k)
    BY <1>0, <1>3, QuietTidy DEF Ask
  <2>2. Wanders(Live, k)
    BY <1>0, <1>3, Goings DEF Ask, Steps
  <2>3. Framed /\ executions' = executions
    BY <1>0, <1>3, SetTypes DEF Ask, Framed, deferVars, histVars
  <2> QED BY <1>0, <2>1, <2>2, <2>3, TidyPaid
<1>4. CASE Catch(k)
  <2>1. Tidy(k)
    BY <1>0, <1>4, QuietTidy, FailedTidy DEF Catch
  <2>2. Wanders(Live, k)
    BY <1>0, <1>4, Goings DEF Catch
  <2>3. Framed /\ executions' = executions
    BY <1>0, <1>4, Frames, SetTypes DEF Catch, histVars
  <2> QED BY <1>0, <2>1, <2>2, <2>3, TidyPaid
<1>5. CASE Refuse(k) \/ PathLoses(k) \/ PaymentTimeout(k)
  <2>1. Tidy(k)
    BY <1>0, <1>5, QuietTidy DEF Refuse, PathLoses, PaymentTimeout
  <2>2. Wanders(Live, k)
    BY <1>0, <1>5, Goings DEF Refuse, PathLoses, PaymentTimeout, NextPath, Steps
  <2>3. Framed /\ executions' = executions
    BY <1>0, <1>5, Frames, SetTypes DEF Refuse, PathLoses, PaymentTimeout, histVars
  <2> QED BY <1>0, <2>1, <2>2, <2>3, TidyPaid
<1> QED BY <1>1, <1>2, <1>3, <1>4, <1>5 DEF LiveStep

\* The skill runs again on an entry the file holds as confirmed: the write of the
\* retry count is a write of the whole file.
LEMMA RerunPaid == ASSUME PInv, NEW w \in Workers, NEW k \in Jobs, Rerun(w, k) PROVE PInv'
<1>0. TypeOK /\ LedgerTypes /\ PaidFor(k) /\ entries[k].net
  BY Types DEF PInv, PaidFor, Knows, Rerun
<1>1. PICK ok \in Writes :
         /\ incrementRetry(k, ok)
         /\ IF ok THEN Goto(w, k, "exec") /\ Runs(k) ELSE Throw(w, k) /\ UNCHANGED executions
  BY DEF Rerun
<1>2. ok \in BOOLEAN
  BY DEF Writes
<1>3. PICK m \in Meta : Wrote(k, entries[k], m, ok) /\ owners' = owners
  BY <1>0, <1>1, RetryTidy
<1>4. PICK s \in Steps \ {"claimed", "ready"} : Moves(w, k, s)
  <2>1. Wanders(w, k)
    BY <1>1, Goings DEF Steps
  <2> QED BY <2>1 DEF Wanders
<1>5. Framed
  BY <1>0, Frames, SetTypes DEF Rerun
<1>6. Turn(w, k, s, entries[k], ok)
  BY <1>0, <1>1, <1>4 DEF Turn, PaidFor, Runs
<1> QED BY <1>0, <1>2, <1>3, <1>4, <1>5, <1>6, EntryFacts, TurnPaid

\* Recovery goes on to the skill at once for an entry that is confirmed.
LEMMA RecoverPaidPaid ==
    ASSUME PInv, NEW w \in Workers, NEW k \in Jobs, RecoverPaid(w, k) PROVE PInv'
<1>0. TypeOK /\ LedgerTypes /\ PaidFor(k)
  BY Types DEF PInv
<1>1. Wrote(k, entries[k], meta[k], FALSE) /\ owners' = owners
  BY <1>0, Untouched DEF RecoverPaid
<1>2. PICK s \in Steps : Moves(w, k, s) /\ (s = "ready" => entries[k].net) /\ s # "claimed"
  BY DEF RecoverPaid, Goto, Moves, Steps
<1>3. Framed /\ executions' = executions
  BY <1>0, Frames, SetTypes DEF RecoverPaid, histVars
<1>4. Turn(w, k, s, entries[k], FALSE)
  BY <1>0, <1>2, <1>3 DEF Turn, PaidFor
<1> QED BY <1>0, <1>1, <1>2, <1>3, <1>4, EntryFacts, TurnPaid

LEMMA RecoveryPaid == ASSUME PInv, NEW w \in Ticks, NEW k \in Jobs, RecoveryStep(w, k) PROVE PInv'
<1>0. TypeOK /\ LedgerTypes /\ w \in Workers
  BY Types DEF PInv, Workers
<1>1. CASE RecoverPaid(w, k) \/ Rerun(w, k)
  BY <1>0, <1>1, RecoverPaidPaid, RerunPaid
<1>2. CASE CloseRecovered(w, k) \/ RecoverClosed(w, k) \/ Reshare(w, k) \/ GateRefuses(w, k)
  <2>1. Tidy(k)
    BY <1>0, <1>2, QuietTidy, FailedTidy DEF CloseRecovered, RecoverClosed, Reshare, GateRefuses
  <2>2. Wanders(w, k)
    BY <1>0, <1>2, Goings DEF CloseRecovered, RecoverClosed, Reshare, GateRefuses, Steps
  <2>3. Framed /\ executions' = executions
    BY <1>0, <1>2, Frames, SetTypes
       DEF CloseRecovered, RecoverClosed, Reshare, GateRefuses, histVars
  <2> QED BY <1>0, <2>1, <2>2, <2>3, TidyPaid
<1>3. CASE RecoverExecuted(w, k)
  <2>1. Tidy(k)
    BY <1>0, <1>3, RetryTidy DEF RecoverExecuted
  <2>2. Wanders(w, k)
    BY <1>0, <1>3, Goings DEF RecoverExecuted, Steps
  <2>3. Framed /\ executions' = executions
    BY <1>0, <1>3, Frames, SetTypes DEF RecoverExecuted, histVars
  <2> QED BY <1>0, <2>1, <2>2, <2>3, TidyPaid
<1>4. CASE Scan(w, k)
  <2>1. Tidy(k)
    BY <1>0, <1>4, QuietTidy DEF Scan
  <2>2. Wanders(w, k)
    BY <1>0, <1>4, Goings, DeferFrames DEF Scan, Steps
  <2>3. Framed /\ executions' = executions
    BY <1>0, <1>4, Frames, SetTypes, DeferFrames DEF Scan, histVars
  <2> QED BY <1>0, <2>1, <2>2, <2>3, TidyPaid
<1>5. CASE Verdict(w, k)
  <2>1. Tidy(k)
    BY <1>0, <1>5, QuietTidy, FailedTidy DEF Verdict
  <2>2. Wanders(w, k)
    BY <1>0, <1>5, Goings, DeferFrames DEF Verdict
  <2>3. Framed /\ executions' = executions
    BY <1>0, <1>5, Frames, SetTypes, DeferFrames DEF Verdict
  <2> QED BY <1>0, <2>1, <2>2, <2>3, TidyPaid
<1> QED BY <1>1, <1>2, <1>3, <1>4, <1>5 DEF RecoveryStep

\* A claim binds a transaction that carries the job, or leaves its entry alone.
LEMMA ClaimPaid == ASSUME PInv, NEW w \in Workers, NEW k \in Jobs, Claim(w, k) PROVE PInv'
<1>0. TypeOK /\ LedgerTypes /\ PaidFor(k)
  BY Types DEF PInv
<1>1. PICK t \in Payments(k), ok \in BOOLEAN :
          /\ L!claimPaymentSignature(k, t, ok)
          /\ UNCHANGED meta
          /\ IF L!ClaimOutcome(k, t, ok) \in {"claimed", "not-persisted"}
             THEN Written(ok) ELSE ok /\ UNCHANGED <<metaDisk, badWrites>>
          /\ IF L!ClaimOutcome(k, t, ok) = "claimed"
             THEN Goto(w, k, "claimed") /\ UNCHANGED deferVars
             ELSE ClaimRefused(w, k)
  BY DEF Claim, Writes
<1>2. t \in Sigs /\ k \in chain[t] /\ executions' = executions
  BY DEF Payments, Claim, histVars
<1>3. owners' \in [Sigs -> Jobs \cup {NoJob}]
  BY <1>0, <1>1, <1>2, ClaimTypes
<1>4. \/ /\ L!ClaimOutcome(k, t, ok) = "claimed"
         /\ Wrote(k, [entries[k] EXCEPT !.sig = t], meta[k], TRUE)
         /\ entries[k].status # "absent"
      \/ L!ClaimOutcome(k, t, ok) # "claimed" /\ Wrote(k, entries[k], meta[k], FALSE)
  BY <1>0, <1>1, <1>2, ClaimWrites
<1>5. CASE L!ClaimOutcome(k, t, ok) = "claimed"
  <2> DEFINE e == [entries[k] EXCEPT !.sig = t]
  <2>1. e \in L!Entry /\ e.sig = t /\ e.status = entries[k].status /\ e.net = entries[k].net
    BY <1>0, <1>2, EntryFacts DEF L!Entry
  <2>2. Wrote(k, e, meta[k], TRUE) /\ entries[k].status # "absent"
    BY <1>4, <1>5
  <2> HIDE DEF e
  <2>3. Moves(w, k, "claimed") /\ "claimed" \in Steps
    BY <1>1, <1>5 DEF Goto, Moves, Steps
  <2>4. Framed
    BY <1>0, <1>1, <1>5, Frames, SetTypes DEF Claim, histVars
  <2>5. Turn(w, k, "claimed", e, TRUE)
    BY <1>2, <2>1, <2>2, <2>3 DEF Turn, Carried
  <2> QED BY <1>0, <1>3, <2>1, <2>2, <2>3, <2>4, <2>5, EntryFacts, TurnPaid
<1>6. CASE L!ClaimOutcome(k, t, ok) # "claimed"
  <2>1. ClaimRefused(w, k) /\ Wrote(k, entries[k], meta[k], FALSE)
    BY <1>1, <1>4, <1>6
  <2>2. Tidy(k)
    BY <1>0, <1>3, <2>1, EntryFacts DEF Tidy
  <2>3. at[w][k] \in {"verify", "verifyLast"}
    BY DEF Claim, NextPath
  <2>4. Wanders(w, k)
    BY <1>0, <2>1, <2>3, Goings, DeferFrames DEF ClaimRefused, NextPath, Steps
  <2>5. Framed
    BY <1>0, <2>1, Frames, SetTypes, DeferFrames DEF ClaimRefused, Claim, histVars
  <2> QED BY <1>2, <2>2, <2>4, <2>5, TidyPaid
<1> QED BY <1>5, <1>6

LEMMA ConfirmPaid == ASSUME PInv, NEW w \in Workers, NEW k \in Jobs, Confirm(w, k) PROVE PInv'
<1>0. TypeOK /\ LedgerTypes /\ PaidFor(k) /\ entries[k].sig \in Sigs
  BY Types DEF PInv, PaidFor, Knows, Confirm
<1>1. PICK ok \in Writes :
          /\ L!updatePayment(k, TRUE, ok) /\ UNCHANGED meta /\ Written(ok)
          /\ \/ /\ ok /\ w = Live
                /\ Goto(w, k, "exec") /\ Runs(k) /\ UNCHANGED deferVars
             \/ /\ ok /\ w # Live
                /\ Goto(w, k, "ready") /\ UNCHANGED executions
                /\ waiting' = waiting \ {k} /\ sawNoPayment' = sawNoPayment \ {k}
             \/ /\ ~ok /\ UNCHANGED executions
                /\ IF w = Live THEN Throw(w, k) /\ UNCHANGED deferVars ELSE Deferred(w, k)
  BY DEF Confirm
<1>2. ok \in BOOLEAN
  BY DEF Writes
<1> DEFINE e == [entries[k] EXCEPT !.net = @ \/ TRUE]
<1>3. e \in L!Entry /\ e.net /\ e.sig = entries[k].sig /\ e.status = entries[k].status
  BY <1>0, EntryFacts DEF L!Entry
<1>4. meta' = [meta EXCEPT ![k] = meta[k]]
  BY <1>0, <1>1 DEF LedgerTypes
<1>5. Wrote(k, e, meta[k], ok) /\ owners' = owners
  BY <1>0, <1>1, <1>2, <1>4, PaymentWrites
<1> HIDE DEF e
<1>6. PICK s \in Steps : Moves(w, k, s) /\ s # "claimed"
  <2>1. Wanders(w, k) \/ Goto(w, k, "ready")
    BY <1>0, <1>1, Goings, DeferFrames DEF Steps
  <2> QED BY <2>1 DEF Wanders, Goto, Moves, Steps
<1>7. Framed
  BY <1>0, <1>1, Frames, SetTypes, DeferFrames DEF Confirm
<1>8. executions' = executions \/ (ok /\ executions' = [executions EXCEPT ![k] = @ + 1])
  BY <1>1 DEF Runs
<1>9. Turn(w, k, s, e, ok)
  BY <1>0, <1>3, <1>6, <1>8 DEF Turn, PaidFor, Carried
<1> QED BY <1>0, <1>2, <1>3, <1>5, <1>6, <1>7, <1>9, EntryFacts, TurnPaid

LEMMA WorkPaid == ASSUME PInv, NEW w \in Workers, NEW k \in Jobs, WorkStep(w, k) PROVE PInv'
<1>0. TypeOK /\ LedgerTypes
  BY Types DEF PInv
<1>1. CASE Claim(w, k) \/ Confirm(w, k)
  BY <1>1, ClaimPaid, ConfirmPaid
<1>2. CASE ExecFails(w, k)
  <2>1. Tidy(k)
    BY <1>0, <1>2, QuietTidy, FailedTidy DEF ExecFails
  <2>2. Wanders(w, k)
    BY <1>0, <1>2, Goings DEF ExecFails
  <2>3. Framed /\ executions' = executions
    BY <1>0, <1>2, Frames, SetTypes DEF ExecFails, histVars
  <2> QED BY <2>1, <2>2, <2>3, TidyPaid
<1>3. CASE Executed(w, k) \/ Delivered(w, k)
  <2>1. Tidy(k)
    <3>1. {"executed", "delivered"} \subseteq L!Statuses \ {"absent"}
      BY DEF L!Statuses
    <3> QED BY <1>0, <1>3, <3>1, QuietTidy, TransitionTidy DEF Executed, Delivered, MarkThen
  <2>2. Wanders(w, k)
    BY <1>0, <1>3, Goings DEF Executed, Delivered, MarkThen, Steps
  <2>3. Framed /\ executions' = executions
    BY <1>0, <1>3, Frames, SetTypes DEF Executed, Delivered, histVars
  <2> QED BY <2>1, <2>2, <2>3, TidyPaid
<1>4. CASE Deliver(w, k)
  <2>1. Tidy(k)
    BY <1>0, <1>4, QuietTidy DEF Deliver
  <2>2. Wanders(w, k)
    BY <1>0, <1>4, Goings DEF Deliver, Steps
  <2>3. results' \in SUBSET Jobs
    BY <1>0, <1>4, SetTypes DEF Deliver
  <2>4. Framed /\ executions' = executions
    BY <1>0, <1>4, <2>3, Frames, SetTypes DEF Deliver
  <2> QED BY <2>1, <2>2, <2>4, TidyPaid
<1>5. CASE Abort(w, k)
  <2>1. Tidy(k)
    BY <1>0, <1>5, QuietTidy DEF Abort
  <2>2. Wanders(w, k)
    BY <1>0, <1>5, Goings, DeferFrames DEF Abort, Steps
  <2>3. Framed /\ executions' = executions
    BY <1>0, <1>5, Frames, SetTypes, DeferFrames DEF Abort, histVars
  <2> QED BY <2>1, <2>2, <2>3, TidyPaid
<1> QED BY <1>1, <1>2, <1>3, <1>4, <1>5 DEF WorkStep

\* The other steps leave the ledger and the skills alone, and put a worker at the
\* start of its work at most.
Beginning(s) == s \in {"gates", "start"}

LEMMA RestPaid ==
    ASSUME PInv, TypeOK', UNCHANGED ledgerVars, executions' = executions,
           \A t \in Sigs : chain[t] \subseteq chain'[t],
           \A v \in Workers, j \in Jobs : at'[v][j] = at[v][j] \/ Beginning(at'[v][j])
    PROVE  PInv'
BY DEF PInv, PaidFor, Carried, Knows, Recorded, ledgerVars, Beginning

\* Every variable that only the loops of the ticks and the world change.
Ambient ==
    /\ tick' \in [Ticks -> TickRecord] /\ listening' \in BOOLEAN /\ stopping' \in BOOLEAN
    /\ {inFlight', waiting', sawNoPayment', asked', windowOver', late', onTime', denied', told',
        results'} \subseteq SUBSET Jobs
    /\ chain' \in [Sigs -> SUBSET Jobs]

LEMMA AmbientTypes ==
    ASSUME TypeOK, UNCHANGED <<ledgerVars, executions, up, expired>>, Ambient,
           at' \in [Workers -> [Jobs -> Steps]]
    PROVE  TypeOK'
BY DEF TypeOK, L!TypeOK, Ambient, ledgerVars, TickRecord

LEMMA LoopTypes ==
    ASSUME TypeOK, NEW w \in Ticks, NEW step \in {"idle", "walk", "notify"},
           NEW todo \in SUBSET Jobs, NEW scans \in Nat,
           tick' = [tick EXCEPT ![w] = [step |-> step, todo |-> todo, scans |-> scans]]
    PROVE  tick' \in [Ticks -> TickRecord]
BY DEF TypeOK, TickRecord

LEMMA TickFields ==
    ASSUME TypeOK, NEW w \in Ticks
    PROVE  /\ tick \in [Ticks -> TickRecord] /\ tick[w].step \in {"idle", "walk", "notify"}
           /\ tick[w].todo \in SUBSET Jobs /\ tick[w].scans \in Nat
           /\ tick[w] = [step |-> tick[w].step, todo |-> tick[w].todo, scans |-> tick[w].scans]
           /\ listening \in BOOLEAN /\ stopping \in BOOLEAN
           /\ at \in [Workers -> [Jobs -> Steps]] /\ chain \in [Sigs -> SUBSET Jobs]
BY DEF TypeOK, TickRecord

LEMMA LoopPaid ==
    ASSUME PInv, NEW w \in Ticks,
           \/ TickStart(w) \/ TickResume(w) \/ TickEnd(w)
           \/ \E j \in Jobs : TickSkips(w, j) \/ TickParks(w, j) \/ TickBreaks(w, j)
    PROVE  PInv'
<1>0. TypeOK
  BY DEF PInv
<1>1. tick' \in [Ticks -> TickRecord]
  <2>1. CASE TickStart(w)
    <3>1. Listed \in SUBSET Jobs
      BY DEF Listed, Pending
    <3> QED BY <1>0, <2>1, <3>1, LoopTypes DEF TickStart
  <2>2. CASE TickResume(w)
    <3>1. tick[w] \in TickRecord
      BY <1>0, TickFields
    <3>2. [tick[w] EXCEPT !.step = "walk"] \in TickRecord
      BY <3>1 DEF TickRecord
    <3> QED BY <1>0, <2>2, <3>2, TickFields DEF TickResume
  <2>3. CASE TickEnd(w)
    BY <1>0, <2>3, LoopTypes DEF TickEnd, IdleTick
  <2>4. ASSUME NEW j \in Jobs, TickSkips(w, j) \/ TickParks(w, j)
        PROVE  tick' \in [Ticks -> TickRecord]
    <3>1. tick' = [tick EXCEPT ![w] = [step |-> "walk", todo |-> tick[w].todo \ {j},
                                       scans |-> tick[w].scans]]
      BY <1>0, <2>4, TickFields DEF TickSkips, TickParks, Walked
    <3>2. tick[w].todo \ {j} \in SUBSET Jobs /\ tick[w].scans \in Nat
      BY <1>0, TickFields
    <3> QED BY <1>0, <3>1, <3>2, LoopTypes
  <2>5. ASSUME NEW j \in Jobs, TickBreaks(w, j) PROVE tick' \in [Ticks -> TickRecord]
    <3>1. tick[w] \in TickRecord
      BY <1>0, TickFields
    <3>2. [tick[w] EXCEPT !.todo = {}] \in TickRecord
      BY <3>1 DEF TickRecord
    <3> QED BY <1>0, <2>5, <3>2, TickFields DEF TickBreaks
  <2> QED BY <2>1, <2>2, <2>3, <2>4, <2>5
<1>2. UNCHANGED <<ledgerVars, at, inFlight, worldVars, histVars>>
  BY DEF TickStart, TickResume, TickEnd, TickSkips, TickParks, TickBreaks
<1>3. /\ waiting' \in SUBSET Jobs /\ sawNoPayment' \in SUBSET Jobs
      /\ listening' \in BOOLEAN /\ stopping' \in BOOLEAN
  BY <1>0, SetTypes, TickFields
     DEF TickStart, TickResume, TickEnd, TickSkips, TickParks, TickBreaks, deferVars
<1>4. Ambient
  BY <1>0, <1>1, <1>2, <1>3, SetTypes, TickFields DEF Ambient, worldVars, histVars
<1>5. TypeOK'
  BY <1>0, <1>2, <1>4, AmbientTypes, TickFields DEF worldVars, histVars
<1> QED BY <1>2, <1>5, RestPaid DEF worldVars, histVars

\* A job is taken in, or a tick dispatches one.
LEMMA BeginPaid ==
    ASSUME PInv, NEW w \in Workers, NEW j \in Jobs, NEW s \in Steps, Beginning(s),
           at' = [at EXCEPT ![w][j] = s], inFlight' \in SUBSET Jobs,
           tick' \in [Ticks -> TickRecord],
           UNCHANGED <<ledgerVars, deferVars, listening, stopping, worldVars, histVars>>
    PROVE  PInv'
<1>0. TypeOK /\ at \in [Workers -> [Jobs -> Steps]]
  BY Types DEF PInv
<1>1. \A v \in Workers, k \in Jobs : at'[v][k] = IF v = w /\ k = j THEN s ELSE at[v][k]
  BY <1>0
<1>2. at' \in [Workers -> [Jobs -> Steps]]
  BY <1>0
<1>3. Ambient
  BY <1>0, SetTypes DEF Ambient, deferVars, worldVars, histVars, TypeOK
<1>4. TypeOK'
  BY <1>0, <1>2, <1>3, AmbientTypes DEF worldVars, histVars
<1> QED BY <1>1, <1>4, RestPaid DEF worldVars, histVars

LEMMA DispatchPaid ==
    ASSUME PInv, NEW j \in Jobs, Intake(j) \/ \E w \in Ticks : TickDispatches(w, j)
    PROVE  PInv'
<1>0. TypeOK /\ inFlight \in SUBSET Jobs /\ Live \in Workers
  BY SetTypes DEF PInv, Workers
<1>1. CASE Intake(j)
  <2>1. "gates" \in Steps /\ Beginning("gates")
    BY DEF Steps, Beginning
  <2>2. tick' \in [Ticks -> TickRecord]
    BY <1>0, <1>1 DEF Intake, tickVars, TypeOK, TickRecord
  <2> QED BY <1>0, <1>1, <2>1, <2>2, BeginPaid DEF Intake, tickVars
<1>2. ASSUME NEW w \in Ticks, TickDispatches(w, j) PROVE PInv'
  <2>1. "start" \in Steps /\ Beginning("start") /\ w \in Workers
    BY DEF Steps, Beginning, Workers
  <2>2. tick' = [tick EXCEPT ![w] = [step |-> "walk", todo |-> tick[w].todo \ {j},
                                     scans |-> tick[w].scans + IF NeedsScan(j) THEN 1 ELSE 0]]
    BY <1>0, <1>2, TickFields DEF TickDispatches, Walked
  <2>3. /\ tick[w].todo \ {j} \in SUBSET Jobs
        /\ tick[w].scans + (IF NeedsScan(j) THEN 1 ELSE 0) \in Nat
    <3>1. tick[w].todo \in SUBSET Jobs /\ tick[w].scans \in Nat
      BY <1>0, TickFields
    <3>2. (IF NeedsScan(j) THEN 1 ELSE 0) \in Nat
      OBVIOUS
    <3> QED BY <3>1, <3>2
  <2>4. tick' \in [Ticks -> TickRecord]
    BY <1>0, <2>2, <2>3, LoopTypes
  <2> QED BY <1>0, <1>2, <2>1, <2>4, BeginPaid DEF TickDispatches
<1> QED BY <1>1, <1>2

\* A tick closes a job: its entry stays carried.
LEMMA GivesUpPaid ==
    ASSUME PInv, NEW w \in Ticks, NEW j \in Jobs, TickGivesUp(w, j) PROVE PInv'
<1>0. TypeOK /\ LedgerTypes /\ Live \in Workers /\ at \in [Workers -> [Jobs -> Steps]]
  BY Types DEF PInv, Workers
<1>1. PICK e \in L!Entry, m \in Meta, ok \in BOOLEAN :
         /\ Wrote(j, e, m, ok) /\ owners' \in [Sigs -> Jobs \cup {NoJob}]
         /\ e.sig = entries[j].sig /\ e.net = entries[j].net
         /\ e.status = "absent" <=> entries[j].status = "absent"
  BY <1>0, FailedTidy DEF TickGivesUp, Tidy
<1>2. /\ UNCHANGED <<at, inFlight, deferVars, listening, stopping, worldVars, executions, onTime,
                     denied, results>>
      /\ told' = told \cup {j}
      /\ tick' = [tick EXCEPT ![w] = [step |-> "notify", todo |-> tick[w].todo \ {j},
                                      scans |-> tick[w].scans]]
  BY <1>0, TickFields DEF TickGivesUp, Walked
<1>3. tick' \in [Ticks -> TickRecord]
  <2>1. tick[w].todo \ {j} \in SUBSET Jobs /\ tick[w].scans \in Nat
    BY <1>0, TickFields
  <2> QED BY <1>0, <1>2, <2>1, LoopTypes
<1>4. LedgerTypes'
  BY <1>0, <1>1, WriteTypes
<1>5. TypeOK'
  <2>1. L!TypeOK'
    BY <1>0, <1>2, <1>4 DEF TypeOK, L!TypeOK, LedgerTypes, worldVars
  <2>2. told' \in SUBSET Jobs
    BY <1>0, <1>2, SetTypes
  <2>3. executions' \in [Jobs -> Nat] /\ at' \in [Workers -> [Jobs -> Steps]]
    BY <1>0, <1>2, Types
  <2>4. {inFlight', waiting', sawNoPayment', asked', windowOver', late', onTime', denied', told',
         results'} \subseteq SUBSET Jobs
    BY <1>0, <1>2, <2>2, SetTypes DEF deferVars, worldVars
  <2>5. listening' \in BOOLEAN /\ stopping' \in BOOLEAN /\ chain' \in [Sigs -> SUBSET Jobs]
    BY <1>0, <1>2, TickFields DEF worldVars
  <2> QED BY <1>3, <1>4, <2>1, <2>3, <2>4, <2>5 DEF TypeOK, LedgerTypes, Meta, TickRecord
<1>6. ASSUME NEW k \in Jobs PROVE PaidFor(k)'
  <2>1. PaidFor(k) /\ chain' = chain /\ executions' = executions /\ at' = at
    BY <1>2 DEF PInv, worldVars
  <2>2. entries'[k].sig = entries[k].sig /\ entries'[k].net = entries[k].net
        /\ (entries'[k].status = "absent" <=> entries[k].status = "absent")
    BY <1>0, <1>1 DEF Wrote, LedgerTypes
  <2>3. Carried(k, entries[k])'
    BY <2>1, <2>2 DEF PaidFor, Carried
  <2>4. Carried(k, disk[k])'
    <3>1. disk' = disk \/ disk' = entries'
      BY <1>1 DEF Wrote
    <3> QED BY <2>1, <2>3, <3>1 DEF PaidFor, Carried
  <2>5. Knows(k)'
    BY <2>1, <2>2 DEF PaidFor, Knows
  <2>6. Recorded(k)'
    <3>1. settledBy' = settledBy \/ settledBy' = settledBy \cup L!SettlementsIn(entries')
      BY <1>1 DEF Wrote
    <3>2. ASSUME NEW t \in Sigs, <<t, k>> \in L!SettlementsIn(entries') PROVE k \in chain[t]
      <4>1. entries'[k].sig = t
        BY <3>2 DEF L!SettlementsIn
      <4> QED BY <2>1, <2>3, <4>1 DEF Carried
    <3> QED BY <2>1, <3>1, <3>2 DEF PaidFor, Recorded
  <2> QED BY <2>3, <2>4, <2>5, <2>6 DEF PaidFor
<1> QED BY <1>5, <1>6 DEF PInv

\* The end and the start of a process, and the world around it.
LEMMA CrashPaid == ASSUME PInv, Crash PROVE PInv'
<1>0. TypeOK /\ LedgerTypes
  BY Types DEF PInv
<1>1. /\ entries' = L!Empty /\ owners' = [t \in Sigs |-> NoJob] /\ up' = FALSE
      /\ UNCHANGED <<disk, expired, settledBy, metaDisk, chain, asked, windowOver, late, histVars>>
      /\ meta' = [j \in Jobs |-> NoMeta] /\ at' = AllIdle /\ inFlight' = {}
      /\ waiting' = {} /\ sawNoPayment' = {}
      /\ tick' = [v \in Ticks |-> IdleTick] /\ listening' = FALSE /\ stopping' = FALSE
  BY DEF Crash, L!Crash
<1>2. /\ L!Empty \in [Jobs -> L!Entry] /\ NoMeta \in Meta /\ IdleTick \in TickRecord
      /\ AllIdle \in [Workers -> [Jobs -> Steps]]
  BY DEF L!Empty, L!Absent, L!Entry, L!Statuses, NoMeta, Meta, IdleTick, TickRecord, AllIdle, Steps
<1>3. TypeOK'
  <2>1. L!TypeOK'
    BY <1>0, <1>1, <1>2 DEF TypeOK, L!TypeOK
  <2>2. meta' \in [Jobs -> Meta] /\ tick' \in [Ticks -> TickRecord]
    BY <1>1, <1>2
  <2>3. {inFlight', waiting', sawNoPayment', asked', windowOver', late', onTime', denied', told',
         results'} \subseteq SUBSET Jobs
    BY <1>0, <1>1, SetTypes DEF histVars
  <2> QED BY <1>0, <1>1, <1>2, <2>1, <2>2, <2>3, Types DEF TypeOK, Meta, TickRecord, histVars
<1>4. ASSUME NEW j \in Jobs PROVE PaidFor(j)'
  <2>1. PaidFor(j)
    BY DEF PInv
  <2>2. Carried(j, entries[j])'
    BY <1>1, RuntimeAssumption DEF Carried, L!Empty, L!Absent
  <2>3. Knows(j)'
    BY <1>1 DEF Knows, AllIdle
  <2> QED BY <1>1, <2>1, <2>2, <2>3 DEF PaidFor, Carried, Recorded, histVars
<1> QED BY <1>3, <1>4 DEF PInv

\* A process that is down has no worker and no loop.
Asleep == ~up => at = AllIdle /\ tick = [w \in Ticks |-> IdleTick]

LEMMA BusyIsUp ==
    ASSUME Asleep, NEW w \in Workers, NEW k \in Jobs, WorkerStep(w, k) PROVE up
<1>1. at[w][k] # "idle"
  BY DEF WorkerStep, LiveStep, RecoveryStep, WorkStep, Refuse, Accept, Quote, Ask,
         PathLoses, PaymentTimeout, NextPath, Catch, CloseRecovered, RecoverPaid,
         RecoverExecuted, RecoverClosed, Reshare, Scan, Verdict, GateRefuses, Rerun, Claim,
         Confirm, ExecFails, Executed, Deliver, Delivered, Abort
<1>2. ~up => at[w][k] = "idle"
  BY DEF Asleep, AllIdle
<1> QED BY <1>1, <1>2

LEMMA LoopIsUp ==
    ASSUME Asleep, NEW w \in Ticks, TickStart(w) \/ TickResume(w) \/ TickWalk(w) PROVE up
<1>1. TickStart(w) => up
  BY DEF TickStart
<1>2. ~TickStart(w) => tick[w].step # "idle"
  BY DEF TickResume, TickWalk, TickEnd, TickGivesUp, TickSkips, TickParks, TickDispatches,
         TickBreaks, Walks
<1>3. ~up => tick[w].step = "idle"
  BY DEF Asleep, IdleTick
<1> QED BY <1>1, <1>2, <1>3

LEMMA AsleepKeeps == Asleep /\ [Next]_vars => Asleep'
<1> SUFFICES ASSUME Asleep, [Next]_vars, ~up' PROVE Asleep'
  BY DEF Asleep
<1>1. CASE Crash
  BY <1>1 DEF Crash, Asleep
<1>2. CASE up
  <2>1. ~(\E j \in Jobs : Intake(j) \/ WindowOver(j) \/ Late(j) \/ Due(j))
    BY <1>2 DEF Intake, WindowOver, Late, Due, worldVars
  <2>2. ASSUME NEW w \in Workers, NEW j \in Jobs, WorkerStep(w, j) PROVE FALSE
    <3>1. up' = up
      BY <2>2 DEF WorkerStep, LiveStep, RecoveryStep, WorkStep, Refuse, Accept, Quote, Ask,
             PathLoses, PaymentTimeout, Catch, CloseRecovered, RecoverPaid,
             RecoverExecuted, RecoverClosed, Reshare, Scan, Verdict, GateRefuses, Rerun, Claim,
             Confirm, ExecFails, Executed, Deliver, Delivered, Abort, worldVars
    <3> QED BY <1>2, <3>1
  <2>3. ASSUME NEW w \in Ticks, TickStart(w) \/ TickResume(w) \/ TickWalk(w) PROVE FALSE
    <3>1. up' = up
      BY <2>3 DEF TickStart, TickResume, TickWalk, TickEnd, TickGivesUp, TickSkips, TickParks,
                  TickDispatches, TickBreaks, worldVars
    <3> QED BY <1>2, <3>1
  <2>4. ~(Stop \/ Start \/ UNCHANGED vars \/ \E t \in Sigs, js \in SUBSET Jobs : Pay(t, js))
    BY <1>2 DEF Stop, Start, L!Start, Pay, vars, worldVars
  <2>5. Crash
    BY <2>1, <2>2, <2>3, <2>4 DEF Next
  <2> QED BY <1>1, <2>5
<1>3. CASE ~up /\ ~Crash
  <2>1. ~\E w \in Workers, j \in Jobs : WorkerStep(w, j)
    BY <1>3, BusyIsUp
  <2>2. ~\E w \in Ticks : TickStart(w) \/ TickResume(w) \/ TickWalk(w)
    BY <1>3, LoopIsUp
  <2>3. at' = at /\ tick' = tick
    BY <1>3, <2>1, <2>2
       DEF Next, Intake, WindowOver, Late, Due, Stop, Start, L!Start, Pay, vars, tickVars
  <2> QED BY <1>3, <2>3 DEF Asleep
<1> QED BY <1>1, <1>2, <1>3

LEMMA StartPaid == ASSUME PInv, Asleep, Start PROVE PInv'
<1>0. TypeOK /\ LedgerTypes
  BY Types DEF PInv
<1>1. /\ ~up /\ entries' = disk /\ owners' \in [Sigs -> Jobs \cup {NoJob}] /\ up' = TRUE
      /\ meta' = metaDisk
      /\ UNCHANGED <<disk, settledBy, expired, metaDisk, at, inFlight, deferVars, tickVars, chain,
                     asked, windowOver, late, histVars>>
  BY DEF Start, L!Start, L!load
<1>2. TypeOK'
  BY <1>0, <1>1 DEF TypeOK, L!TypeOK, deferVars, tickVars, histVars
<1>3. ASSUME NEW j \in Jobs PROVE PaidFor(j)'
  <2>1. PaidFor(j)
    BY DEF PInv
  <2>2. Knows(j)'
    BY <1>1 DEF Asleep, AllIdle, Knows
  <2> QED BY <1>1, <2>1, <2>2 DEF PaidFor, Carried, Recorded, histVars
<1> QED BY <1>2, <1>3 DEF PInv

LEMMA WorldPaid ==
    ASSUME PInv,
           \/ \E t \in Sigs, js \in SUBSET Jobs : Pay(t, js)
           \/ \E j \in Jobs : WindowOver(j) \/ Late(j) \/ Due(j)
           \/ Stop \/ UNCHANGED vars
    PROVE  PInv'
<1>0. TypeOK
  BY DEF PInv
<1>1. UNCHANGED <<ledgerVars, at, executions, up, expired>>
  BY DEF Pay, WindowOver, Late, Due, Stop, vars, worldVars, histVars
<1>2. chain' \in [Sigs -> SUBSET Jobs] /\ \A t \in Sigs : chain[t] \subseteq chain'[t]
  <2>1. CASE \E t \in Sigs, js \in SUBSET Jobs : Pay(t, js)
    BY <1>0, <2>1, TickFields DEF Pay, TypeOK
  <2>2. CASE chain' = chain
    BY <1>0, <2>2 DEF TypeOK
  <2> QED BY <2>1, <2>2 DEF WindowOver, Late, Due, Stop, vars, worldVars
<1>3. tick' \in [Ticks -> TickRecord] /\ listening' \in BOOLEAN /\ stopping' \in BOOLEAN
  BY <1>0 DEF Pay, WindowOver, Late, Due, Stop, vars, tickVars, TypeOK, TickRecord
<1>4. {inFlight', waiting', sawNoPayment', asked', windowOver', late', onTime', denied', told',
       results'} \subseteq SUBSET Jobs
  BY <1>0, SetTypes DEF Pay, WindowOver, Late, Due, Stop, vars, deferVars, worldVars, histVars
<1>5. TypeOK'
  BY <1>0, <1>1, <1>2, <1>3, <1>4, AmbientTypes DEF Ambient, TypeOK
<1> QED BY <1>1, <1>2, <1>5, RestPaid

LEMMA StepPaid == PInv /\ Asleep /\ [Next]_vars => PInv' /\ Asleep'
<1> SUFFICES ASSUME PInv, Asleep, [Next]_vars PROVE PInv'
  BY AsleepKeeps
<1>1. CASE \E w \in Workers, j \in Jobs : WorkerStep(w, j)
  BY <1>1, LivePaid, RecoveryPaid, WorkPaid DEF WorkerStep, Workers
<1>2. CASE \/ \E j \in Jobs : Intake(j)
           \/ \E w \in Ticks, j \in Jobs : TickDispatches(w, j)
  BY <1>2, DispatchPaid
<1>3. CASE \E w \in Ticks, j \in Jobs : TickGivesUp(w, j)
  BY <1>3, GivesUpPaid
<1>4. CASE \/ \E w \in Ticks : TickStart(w) \/ TickResume(w) \/ TickEnd(w)
           \/ \E w \in Ticks, j \in Jobs : TickSkips(w, j) \/ TickParks(w, j) \/ TickBreaks(w, j)
  BY <1>4, LoopPaid
<1>5. CASE \/ \E t \in Sigs, js \in SUBSET Jobs : Pay(t, js)
           \/ \E j \in Jobs : WindowOver(j) \/ Late(j) \/ Due(j)
           \/ Stop \/ UNCHANGED vars
  BY <1>5, WorldPaid
<1>6. CASE Crash \/ Start
  BY <1>6, CrashPaid, StartPaid
<1> QED BY <1>1, <1>2, <1>3, <1>4, <1>5, <1>6 DEF Next, TickWalk

LEMMA InitPaid == Init => PInv /\ Asleep
<1> SUFFICES ASSUME Init PROVE PInv /\ Asleep
  OBVIOUS
<1>1. TypeOK
  BY InitTypes
<1>2. /\ disk \in Ledgers /\ entries = L!Empty /\ settledBy = L!SettlementsIn(disk)
      /\ at = AllIdle /\ tick = [w \in Ticks |-> IdleTick]
      /\ chain = [t \in Sigs |-> {j \in Jobs : disk[j].sig = t}]
      /\ executions = [j \in Jobs |-> 0]
  BY DEF Init, L!Init
<1>3. ASSUME NEW j \in Jobs PROVE PaidFor(j)
  <2>1. /\ disk[j].status = "absent" => disk[j].sig = NoSig /\ ~disk[j].net
        /\ disk[j].net => disk[j].sig \in Sigs
    BY <1>2, FirstFileAssumption
  <2>2. Carried(j, disk[j])
    BY <1>2, <2>1, RuntimeAssumption DEF Carried
  <2>3. Carried(j, entries[j])
    BY <1>2, RuntimeAssumption DEF Carried, L!Empty, L!Absent
  <2>4. Knows(j)
    BY <1>2 DEF Knows, AllIdle
  <2>5. Recorded(j)
    BY <1>2 DEF Recorded, L!SettlementsIn
  <2> QED BY <2>2, <2>3, <2>4, <2>5 DEF PaidFor
<1> QED BY <1>1, <1>2, <1>3 DEF PInv, Asleep

LEMMA AlwaysPaid == Spec => [](PInv /\ Asleep)
BY InitPaid, StepPaid, PTL DEF Spec

\* Every variable of the runtime keeps its type, whether ticks overlap or not.
THEOREM TypeCorrect == Spec => []TypeOK
<1>1. PInv => TypeOK
  BY DEF PInv
<1> QED BY <1>1, AlwaysPaid, PTL

\* No unpaid work, even when recovery ticks overlap: a job whose skill has run is
\* settled on file by a confirmed transaction that carries its reference
\* (executeJob, recoverSingleJob; RunIsPaid).
THEOREM NoUnpaidRun == Spec => []RunIsPaid
<1>1. PInv => RunIsPaid
  BY DEF PInv, PaidFor, Recorded, RunIsPaid
<1> QED BY <1>1, AlwaysPaid, PTL
=============================================================================
