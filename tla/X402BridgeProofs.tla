-------------------------- MODULE X402BridgeProofs --------------------------
(***************************************************************************)
(* What a job of the paid upstream bridge can cost its operator, and that  *)
(* a result on file is not bought again, for any caps, retries, failed     *)
(* writes, crashes and restarts, as long as recovery ticks do not overlap. *)
(* The runtime under the bridge is the runtime of JobRuntime, so what is   *)
(* proved of it holds here.                                                *)
(***************************************************************************)
EXTENDS X402Bridge, JobRuntimeProofs

RecordType == [attempts : Nat, signatures : Nat, saved : BOOLEAN]
CallType == [step : CallSteps, free : Nat, refunded : Nat]

BTypeOK ==
    /\ record \in [Jobs -> RecordType]
    /\ call \in [Workers -> [Jobs -> CallType]]
    /\ sent \in [Jobs -> Nat] /\ refused \in [Jobs -> Nat]
    /\ badSaves \in Nat

\* A signature that was counted and has not left yet, and a slot that is counted
\* for it or waits for its refund.
Unsent(step) == IF step = "granted" THEN 1 ELSE 0
Unreturned(step) == IF step \in {"granted", "refund"} THEN 1 ELSE 0

\* What the file says of a job covers what was and is being spent on it.
Covered(j) ==
    /\ record[j].attempts <= MaxPaidAttempts /\ record[j].signatures <= MaxSignatures
    /\ \A w \in Workers :
          /\ sent[j] + Unsent(call[w][j].step) <= record[j].signatures
          /\ sent[j] - refused[j] + Unreturned(call[w][j].step) <= record[j].attempts

Within(j) == sent[j] <= MaxSignatures /\ sent[j] - refused[j] <= MaxPaidAttempts

\* A job whose record may be gone: it is past the cutoff, was worked on, so the
\* ledger knows it, and nobody works on it now.
Retired(j) ==
    /\ j \in late /\ executions[j] > 0
    /\ \A w \in Workers : at[w][j] = "idle"
    /\ Within(j)

\* A call lasts while its worker executes, and execution is on record first.
CallFits(j) ==
    /\ \A w \in Workers : call[w][j].step = "none" <=> at[w][j] # "exec"
    /\ \A w \in Workers : at[w][j] = "exec" => executions[j] > 0
    /\ sent[j] > 0 => executions[j] > 0

Sound(j) == CallFits(j) /\ (Covered(j) \/ Retired(j))

BInv == BTypeOK /\ \A j \in Jobs : Sound(j)

(***************************************************************************)
(* What a step of the runtime does to a job, as far as the bridge cares: a *)
(* worker takes up a job that is new to the ledger or not past the cutoff, *)
(* counts a run as it begins it, and only a worker renews a job's age.     *)
(***************************************************************************)
Effect(j) ==
    /\ \A w \in Workers :
          /\ at[w][j] = "idle" /\ at'[w][j] # "idle" =>
                (up /\ entries[j].status = "absent") \/ j \notin late
          /\ at[w][j] # "exec" /\ at'[w][j] = "exec" => executions'[j] > 0
    /\ executions'[j] \in Nat /\ executions'[j] >= executions[j]
    /\ j \in late /\ j \notin late' => \E w \in Workers : at[w][j] # "idle"

\* One busy worker of one job moves.
Moved(w, k) ==
    /\ at[w][k] # "idle"
    /\ \E s : /\ at' = [at EXCEPT ![w][k] = s]
              /\ \/ executions' = executions /\ s # "exec"
                 \/ executions' = [executions EXCEPT ![k] = @ + 1]
    /\ late' = late \/ late' = late \ {k}

LEMMA MoveEffect ==
    ASSUME TypeOK, NEW w \in Workers, NEW k \in Jobs, Moved(w, k)
    PROVE  \A j \in Jobs : Effect(j)
<1>0. PICK s : /\ at' = [at EXCEPT ![w][k] = s]
               /\ \/ executions' = executions /\ s # "exec"
                  \/ executions' = [executions EXCEPT ![k] = @ + 1]
  BY DEF Moved
<1>1. at \in [Workers -> [Jobs -> Steps]] /\ executions \in [Jobs -> Nat]
  BY DEF TypeOK
<1>2. SUFFICES ASSUME NEW j \in Jobs PROVE Effect(j)
  OBVIOUS
<1>3. executions[j] \in Nat /\ executions[k] \in Nat
  BY <1>1
<1>4. executions'[j] \in Nat /\ executions'[j] >= executions[j]
      /\ (s = "exec" /\ at[w][k] # "exec" => executions'[k] > 0)
  BY <1>0, <1>1, <1>3
<1>5. \A v \in Workers : at'[v][j] = IF v = w /\ j = k THEN s ELSE at[v][j]
  BY <1>0, <1>1
<1> QED BY <1>4, <1>5 DEF Effect, Moved

LEMMA StillEffect ==
    ASSUME TypeOK, at' = at \/ at' = AllIdle, executions' = executions, late \subseteq late'
    PROVE  \A j \in Jobs : Effect(j)
<1>1. executions \in [Jobs -> Nat]
  BY DEF TypeOK
<1>2. \A w \in Workers, j \in Jobs : at'[w][j] = at[w][j] \/ at'[w][j] = "idle"
  BY DEF AllIdle
<1> QED BY <1>1, <1>2 DEF Effect

LEMMA ThrowsOut ==
    ASSUME NEW w, NEW j, Throw(w, j)
    PROVE  \E s : s # "exec" /\ at' = [at EXCEPT ![w][j] = s]
BY DEF Throw, Goto, Leave

LEMMA LeaveMoves ==
    ASSUME NEW w, NEW j, at[w][j] # "idle", Leave(w, j), executions' = executions, late' = late
    PROVE  Moved(w, j)
<1>1. \E s : s # "exec" /\ at' = [at EXCEPT ![w][j] = s]
  BY DEF Leave
<1> QED BY <1>1 DEF Moved

LEMMA GotoMoves ==
    ASSUME NEW w, NEW j, at[w][j] # "idle", NEW s, s # "exec", Goto(w, j, s),
           executions' = executions, late' = late
    PROVE  Moved(w, j)
<1>1. at' = [at EXCEPT ![w][j] = s]
  BY DEF Goto
<1> QED BY <1>1 DEF Moved

LEMMA LiveMoves == ASSUME NEW j \in Jobs, LiveStep(j) PROVE Moved(Live, j)
<1>1. CASE Refuse(j)
  BY <1>1, LeaveMoves DEF Refuse, worldVars, histVars
<1>2. CASE Accept(j)
  BY <1>2, ThrowsOut DEF Accept, Goto, Moved, histVars
<1>3. CASE Quote(j)
  <2>1. at[Live][j] = "quote" /\ executions' = executions /\ late' = late
    BY <1>3 DEF Quote, worldVars, histVars
  <2>2. CASE Goto(Live, j, "close")
    BY <2>1, <2>2, GotoMoves
  <2>3. CASE \E ok \in BOOLEAN : IF ok THEN Goto(Live, j, "asking") ELSE Throw(Live, j)
    BY <2>1, <2>3, GotoMoves, ThrowsOut DEF Moved
  <2> QED BY <1>3, <2>2, <2>3 DEF Quote, Writes
<1>4. CASE Ask(j)
  BY <1>4, GotoMoves DEF Ask, worldVars, histVars
<1>5. CASE PathLoses(j)
  BY <1>5, GotoMoves DEF PathLoses, NextPath, worldVars, histVars
<1>6. CASE PaymentTimeout(j)
  BY <1>6, GotoMoves DEF PaymentTimeout, NextPath, worldVars, histVars
<1>7. CASE Catch(j)
  BY <1>7, LeaveMoves DEF Catch, worldVars, histVars
<1> QED BY <1>1, <1>2, <1>3, <1>4, <1>5, <1>6, <1>7 DEF LiveStep

LEMMA RecoveryMoves ==
    ASSUME NEW w \in Workers, NEW j \in Jobs, RecoveryStep(w, j) PROVE Moved(w, j)
<1>1. CASE CloseRecovered(w, j)
  BY <1>1, LeaveMoves DEF CloseRecovered, worldVars, histVars
<1>2. CASE RecoverPaid(w, j)
  BY <1>2, GotoMoves DEF RecoverPaid, worldVars, histVars
<1>3. CASE RecoverExecuted(w, j)
  BY <1>3, ThrowsOut DEF RecoverExecuted, Goto, Moved, worldVars, histVars
<1>4. CASE RecoverClosed(w, j)
  BY <1>4, LeaveMoves DEF RecoverClosed, worldVars, histVars
<1>5. CASE Reshare(w, j)
  BY <1>5 DEF Reshare, Goto, Leave, Moved, worldVars, histVars
<1>6. CASE Scan(w, j)
  BY <1>6 DEF Scan, Deferred, Goto, Leave, Moved, worldVars, histVars
<1>7. CASE Verdict(w, j)
  BY <1>7 DEF Verdict, Deferred, Leave, Moved, worldVars
<1>8. CASE GateRefuses(w, j)
  BY <1>8, LeaveMoves DEF GateRefuses, worldVars, histVars
<1>9. CASE Rerun(w, j)
  BY <1>9, ThrowsOut DEF Rerun, Runs, Goto, Moved, worldVars
<1> QED BY <1>1, <1>2, <1>3, <1>4, <1>5, <1>6, <1>7, <1>8, <1>9 DEF RecoveryStep

LEMMA MarkMoves ==
    ASSUME NEW w, NEW j, NEW to, NEW step, step # "exec", MarkThen(w, j, to, step)
    PROVE  \E s : s # "exec" /\ at' = [at EXCEPT ![w][j] = s]
BY ThrowsOut DEF MarkThen, Goto, Leave

LEMMA WorkMoves ==
    ASSUME NEW w \in Workers, NEW j \in Jobs, WorkStep(w, j) PROVE Moved(w, j)
<1>1. CASE Claim(w, j)
  BY <1>1 DEF Claim, ClaimRefused, NextPath, Deferred, Goto, Leave, Moved, worldVars, histVars
<1>2. CASE Confirm(w, j)
  BY <1>2, ThrowsOut DEF Confirm, Runs, Deferred, Goto, Leave, Moved, worldVars
<1>3. CASE ExecFails(w, j)
  BY <1>3, ThrowsOut DEF ExecFails, Leave, Moved, worldVars, histVars
<1>4. CASE Executed(w, j)
  BY <1>4, MarkMoves DEF Executed, Moved, worldVars, histVars
<1>5. CASE Deliver(w, j)
  BY <1>5, ThrowsOut DEF Deliver, Goto, Moved, worldVars
<1>6. CASE Delivered(w, j)
  BY <1>6, MarkMoves DEF Delivered, Moved, worldVars, histVars
<1>7. CASE Abort(w, j)
  BY <1>7 DEF Abort, Deferred, Goto, Leave, Moved, worldVars, histVars
<1> QED BY <1>1, <1>2, <1>3, <1>4, <1>5, <1>6, <1>7 DEF WorkStep

LEMMA NextEffect ==
    ASSUME IInv, Next, NEW j \in Jobs
    PROVE  Effect(j)
<1>0. TypeOK /\ at \in [Workers -> [Jobs -> Steps]] /\ executions \in [Jobs -> Nat]
  BY DEF IInv, TypeOK
<1>1. ASSUME NEW k \in Jobs, Intake(k) PROVE Effect(j)
  <2>1. /\ up /\ entries[k].status = "absent" /\ executions' = executions /\ late' = late
        /\ at' = [at EXCEPT ![Live][k] = "gates"]
    BY <1>1 DEF Intake, worldVars, histVars
  <2> QED BY <1>0, <2>1 DEF Effect
<1>2. ASSUME NEW w \in Workers, NEW k \in Jobs, WorkerStep(w, k) PROVE Effect(j)
  BY <1>0, <1>2, LiveMoves, RecoveryMoves, WorkMoves, MoveEffect DEF WorkerStep
<1>3. ASSUME NEW w \in Ticks, NEW k \in Jobs, TickDispatches(w, k) PROVE Effect(j)
  <2>1. /\ k \notin late /\ executions' = executions /\ late' = late
        /\ at' = [at EXCEPT ![w][k] = "start"]
    BY <1>3 DEF TickDispatches, GivesUp, worldVars, histVars
  <2> QED BY <1>0, <2>1 DEF Effect
<1>4. CASE /\ at' = at \/ at' = AllIdle
           /\ executions' = executions /\ late \subseteq late'
  BY <1>0, <1>4, StillEffect
<1>5. ASSUME NEW w \in Ticks, TickStart(w) \/ TickResume(w) \/ TickEnd(w)
      PROVE  at' = at /\ executions' = executions /\ late' = late
  BY <1>5 DEF TickStart, TickResume, TickEnd, worldVars, histVars
<1>6. ASSUME NEW w \in Ticks, NEW k \in Jobs,
             TickGivesUp(w, k) \/ TickSkips(w, k) \/ TickParks(w, k) \/ TickBreaks(w, k)
      PROVE  at' = at /\ executions' = executions /\ late' = late
  BY <1>6 DEF TickGivesUp, TickSkips, TickParks, TickBreaks, worldVars, histVars
<1>7. ASSUME NEW k \in Jobs, WindowOver(k) \/ Late(k) \/ Due(k)
      PROVE  at' = at /\ executions' = executions /\ late \subseteq late'
  BY <1>7 DEF WindowOver, Late, Due, worldVars, histVars
<1>8. ASSUME NEW t \in Sigs, NEW js \in SUBSET Jobs, Pay(t, js)
      PROVE  at' = at /\ executions' = executions /\ late' = late
  BY <1>8 DEF Pay
<1>9. ASSUME Stop \/ Start \/ Crash
      PROVE  (at' = at \/ at' = AllIdle) /\ executions' = executions /\ late' = late
  BY <1>9 DEF Stop, Start, Crash, worldVars, histVars
<1> QED BY <1>1, <1>2, <1>3, <1>4, <1>5, <1>6, <1>7, <1>8, <1>9 DEF Next, TickWalk

(***************************************************************************)
(* A step of a call: its job, its record and its histories change, and     *)
(* what they cover is what one worker owes.                                *)
(***************************************************************************)
CoveredBy(step, r, n, m) ==
    /\ r.attempts <= MaxPaidAttempts /\ r.signatures <= MaxSignatures
    /\ n + Unsent(step) <= r.signatures
    /\ n - m + Unreturned(step) <= r.attempts

Becomes(w, j, c, r, n, m) ==
    /\ call' = [call EXCEPT ![w][j] = c]
    /\ record' = [record EXCEPT ![j] = r]
    /\ sent' = [sent EXCEPT ![j] = n]
    /\ refused' = [refused EXCEPT ![j] = m]

\* Where a call stands when it takes a step.
LEMMA CallFacts ==
    ASSUME IInv, BInv, NEW w \in Workers, NEW j \in Jobs, at[w][j] = "exec"
    PROVE  /\ call[w][j] \in CallType /\ record[j] \in RecordType
           /\ sent[j] \in Nat /\ refused[j] \in Nat
           /\ CoveredBy(call[w][j].step, record[j], sent[j], refused[j])
           /\ executions[j] > 0 /\ call[w][j].step # "none"
           /\ \A v \in Workers \ {w} : call[v][j].step = "none"
<1>1. Sound(j) /\ BTypeOK
  BY DEF BInv
<1>2. ~Retired(j)
  BY DEF Retired
<1>3. \A v \in Workers \ {w} : at[v][j] # "exec"
  BY DEF IInv, Good, Alone
<1> QED BY <1>1, <1>2, <1>3 DEF Sound, Covered, CoveredBy, CallFits, BTypeOK

LEMMA CallKeeps ==
    ASSUME IInv, BInv, UNCHANGED vars, NEW w \in Workers, NEW j \in Jobs, at[w][j] = "exec",
           NEW c \in CallType, NEW r \in RecordType, NEW n \in Nat, NEW m \in Nat,
           Becomes(w, j, c, r, n, m), CoveredBy(c.step, r, n, m), c.step # "none",
           badSaves' \in Nat
    PROVE  BInv'
<1>0. BTypeOK /\ executions' = executions /\ at' = at /\ late' = late
  BY DEF BInv, vars, histVars, worldVars
<1>1. BTypeOK'
  BY <1>0 DEF BTypeOK, Becomes
<1>2. \A v \in Workers, k \in Jobs :
         call'[v][k] = IF v = w /\ k = j THEN c ELSE call[v][k]
  BY <1>0 DEF BTypeOK, Becomes
<1>3. ASSUME NEW k \in Jobs, k # j PROVE Sound(k)'
  <2>1. Sound(k)
    BY DEF BInv
  <2>2. record'[k] = record[k] /\ sent'[k] = sent[k] /\ refused'[k] = refused[k]
    BY <1>0, <1>3 DEF BTypeOK, Becomes
  <2> QED BY <1>0, <1>2, <1>3, <2>1, <2>2
          DEF Sound, CallFits, Covered, Retired, Within
<1>4. Sound(j)'
  <2>1. /\ executions[j] > 0 /\ \A v \in Workers \ {w} : call[v][j].step = "none"
        /\ CallFits(j)
    BY CallFacts DEF BInv, Sound
  <2>2. record'[j] = r /\ sent'[j] = n /\ refused'[j] = m
    BY <1>0 DEF BTypeOK, Becomes
  <2>3. CallFits(j)'
    BY <1>0, <1>2, <2>1 DEF CallFits
  <2>4. r.signatures \in Nat /\ r.attempts \in Nat
    BY DEF RecordType
  <2>5. ASSUME NEW v \in Workers
        PROVE  n + Unsent(call'[v][j].step) <= r.signatures
               /\ n - m + Unreturned(call'[v][j].step) <= r.attempts
    <3>1. CASE v = w
      BY <1>2, <3>1 DEF CoveredBy
    <3>2. CASE v # w
      <4>1. call'[v][j].step = "none"
        BY <1>2, <2>1, <3>2
      <4> QED BY <4>1, <2>4 DEF CoveredBy, Unsent, Unreturned
    <3> QED BY <3>1, <3>2
  <2>6. Covered(j)'
    BY <2>2, <2>5 DEF Covered, CoveredBy
  <2> QED BY <2>3, <2>6 DEF Sound
<1> QED BY <1>1, <1>3, <1>4 DEF BInv

\* The step a call goes to; a retry counts.
LEMMA ToCall ==
    ASSUME BInv, NEW w \in Workers, NEW j \in Jobs, NEW step \in CallSteps, To(w, j, step)
    PROVE  \E c \in CallType : call' = [call EXCEPT ![w][j] = c] /\ c.step = step
<1>1. call \in [Workers -> [Jobs -> CallType]] /\ call[w][j] \in CallType
  BY DEF BInv, BTypeOK
<1> DEFINE c == [call[w][j] EXCEPT !.step = step]
<1>2. c \in CallType /\ c.step = step
  BY <1>1 DEF CallType
<1>3. call' = [call EXCEPT ![w][j] = c]
  BY <1>1 DEF To
<1> QED BY <1>2, <1>3

LEMMA FreeCall ==
    ASSUME BInv, NEW w \in Workers, NEW j \in Jobs, RetryFree(w, j)
    PROVE  \E c \in CallType :
              call' = [call EXCEPT ![w][j] = c] /\ c.step \in {"unpaid", "transient"}
<1>1. call \in [Workers -> [Jobs -> CallType]] /\ call[w][j] \in CallType
  BY DEF BInv, BTypeOK
<1>2. CASE call[w][j].free < FreeRetries
  <2> DEFINE c == [call[w][j] EXCEPT !.step = "unpaid", !.free = call[w][j].free + 1]
  <2>1. call[w][j].free + 1 \in Nat /\ "unpaid" \in CallSteps
    BY <1>1 DEF CallType, CallSteps
  <2>2. c \in CallType /\ c.step = "unpaid"
    BY <1>1, <2>1 DEF CallType
  <2>3. call' = [call EXCEPT ![w][j] = c]
    BY <1>1, <1>2 DEF RetryFree
  <2> QED BY <2>2, <2>3
<1>3. CASE ~(call[w][j].free < FreeRetries)
  <2>1. To(w, j, "transient") /\ "transient" \in CallSteps
    BY <1>3 DEF RetryFree, CallSteps
  <2> QED BY <2>1, ToCall
<1> QED BY <1>2, <1>3

\* A step that spends nothing: neither record nor histories change.
LEMMA Idling ==
    ASSUME IInv, BInv, UNCHANGED vars, NEW w \in Workers, NEW j \in Jobs, at[w][j] = "exec",
           NEW c \in CallType, call' = [call EXCEPT ![w][j] = c],
           c.step \notin {"none", "granted", "refund"},
           UNCHANGED <<record, sent, refused>>, badSaves' \in Nat
    PROVE  BInv'
<1>1. /\ record[j] \in RecordType /\ sent[j] \in Nat /\ refused[j] \in Nat
      /\ CoveredBy(call[w][j].step, record[j], sent[j], refused[j])
  BY CallFacts
<1>2. CoveredBy(c.step, record[j], sent[j], refused[j])
  BY <1>1 DEF CoveredBy, Unsent, Unreturned, RecordType
<1>3. Becomes(w, j, c, record[j], sent[j], refused[j])
  BY DEF Becomes, BInv, BTypeOK
<1> QED BY <1>1, <1>2, <1>3, CallKeeps

LEMMA QuietSteps ==
    ASSUME IInv, BInv, UNCHANGED vars, NEW w \in Workers, NEW j \in Jobs,
           LookUp(w, j) \/ AskUnpaid(w, j)
    PROVE  BInv'
<1>1. at[w][j] = "exec" /\ UNCHANGED <<record, sent, refused>> /\ badSaves' \in Nat
  BY DEF LookUp, AskUnpaid, Doing, BInv, BTypeOK
<1>2. \/ RetryFree(w, j)
      \/ \E step \in {"done", "unpaid", "permanent", "raw", "freeBody", "claim"} : To(w, j, step)
  BY DEF LookUp, AskUnpaid
<1>3. CASE RetryFree(w, j)
  BY <1>1, <1>3, FreeCall, Idling
<1>4. ASSUME NEW step \in {"done", "unpaid", "permanent", "raw", "freeBody", "claim"},
             To(w, j, step)
      PROVE  BInv'
  <2>1. step \in CallSteps
    BY DEF CallSteps
  <2>2. PICK c \in CallType : call' = [call EXCEPT ![w][j] = c] /\ c.step = step
    BY <1>4, <2>1, ToCall
  <2> QED BY <1>1, <2>2, Idling
<1> QED BY <1>2, <1>3, <1>4

LEMMA ClaimStep ==
    ASSUME IInv, BInv, UNCHANGED vars, NEW w \in Workers, NEW j \in Jobs, claimPaidAttempt(w, j)
    PROVE  BInv'
<1>1. /\ at[w][j] = "exec" /\ call[w][j].step = "claim" /\ UNCHANGED <<sent, refused>>
      /\ badSaves \in Nat
  BY DEF claimPaidAttempt, Doing, BInv, BTypeOK
<1>2. /\ record[j] \in RecordType /\ sent[j] \in Nat /\ refused[j] \in Nat
      /\ CoveredBy("claim", record[j], sent[j], refused[j])
      /\ record \in [Jobs -> RecordType] /\ sent \in [Jobs -> Nat] /\ refused \in [Jobs -> Nat]
  BY <1>1, CallFacts DEF BInv, BTypeOK
<1>3. CASE To(w, j, "permanent") /\ UNCHANGED <<record, badSaves>>
  <2>1. PICK c \in CallType : call' = [call EXCEPT ![w][j] = c] /\ c.step = "permanent"
    BY <1>3, ToCall DEF CallSteps
  <2> QED BY <1>1, <1>3, <2>1, Idling
<1>4. ASSUME NEW ok \in BOOLEAN, ~OverBudgetOf(record[j]),
             Save(j, Claimed(record[j]), ok),
             IF ok THEN To(w, j, "granted") ELSE RetryFree(w, j)
      PROVE  BInv'
  <2>1. CASE ok
    <3> DEFINE r == Claimed(record[j])
    <3>1. PICK c \in CallType : call' = [call EXCEPT ![w][j] = c] /\ c.step = "granted"
      BY <1>4, <2>1, ToCall DEF CallSteps
    <3>2. /\ r \in RecordType /\ r.attempts = record[j].attempts + 1
          /\ r.signatures = record[j].signatures + 1
      <4>1. record[j].attempts + 1 \in Nat /\ record[j].signatures + 1 \in Nat
        BY <1>2 DEF RecordType
      <4> QED BY <1>2, <4>1 DEF RecordType, Claimed
    <3>3. record' = [record EXCEPT ![j] = r] /\ badSaves' \in Nat
      BY <1>1, <1>4, <2>1 DEF Save
    <3>4. Becomes(w, j, c, r, sent[j], refused[j])
      BY <1>1, <1>2, <3>1, <3>3 DEF Becomes
    <3>5. CoveredBy(c.step, r, sent[j], refused[j])
      <4>1. /\ record[j].attempts \in Nat /\ record[j].signatures \in Nat
            /\ MaxPaidAttempts \in Nat /\ MaxSignatures \in Nat
        BY <1>2, BridgeAssumption DEF RecordType
      <4> HIDE DEF r
      <4> QED BY <1>2, <1>4, <3>1, <3>2, <4>1 DEF CoveredBy, OverBudgetOf, Unsent, Unreturned
    <3> HIDE DEF r
    <3> QED BY <1>1, <1>2, <3>1, <3>2, <3>3, <3>4, <3>5, CallKeeps
  <2>2. CASE ~ok
    <3>1. PICK c \in CallType :
             call' = [call EXCEPT ![w][j] = c] /\ c.step \in {"unpaid", "transient"}
      BY <1>4, <2>2, FreeCall
    <3>2. UNCHANGED record /\ badSaves' \in Nat
      BY <1>1, <1>4, <2>2 DEF Save
    <3> QED BY <1>1, <3>1, <3>2, Idling
  <2> QED BY <2>1, <2>2
<1> QED BY <1>3, <1>4 DEF claimPaidAttempt

LEMMA SendStep ==
    ASSUME IInv, BInv, UNCHANGED vars, NEW w \in Workers, NEW j \in Jobs, SendPaid(w, j)
    PROVE  BInv'
<1>1. /\ at[w][j] = "exec" /\ call[w][j].step = "granted" /\ To(w, j, "paid")
      /\ sent' = [sent EXCEPT ![j] = @ + 1] /\ UNCHANGED <<record, refused, badSaves>>
  BY DEF SendPaid, Doing
<1>2. /\ record[j] \in RecordType /\ sent[j] \in Nat /\ refused[j] \in Nat /\ badSaves \in Nat
      /\ CoveredBy("granted", record[j], sent[j], refused[j])
      /\ record \in [Jobs -> RecordType] /\ sent \in [Jobs -> Nat] /\ refused \in [Jobs -> Nat]
  BY <1>1, CallFacts DEF BInv, BTypeOK
<1>3. PICK c \in CallType : call' = [call EXCEPT ![w][j] = c] /\ c.step = "paid"
  BY <1>1, ToCall DEF CallSteps
<1>4. Becomes(w, j, c, record[j], sent[j] + 1, refused[j])
  BY <1>1, <1>2, <1>3 DEF Becomes
<1>5. CoveredBy(c.step, record[j], sent[j] + 1, refused[j]) /\ sent[j] + 1 \in Nat
  BY <1>2, <1>3 DEF CoveredBy, Unsent, Unreturned, RecordType
<1> QED BY <1>1, <1>2, <1>3, <1>4, <1>5, CallKeeps

LEMMA AnswerStep ==
    ASSUME IInv, BInv, UNCHANGED vars, NEW w \in Workers, NEW j \in Jobs, Answered(w, j)
    PROVE  BInv'
<1>1. /\ at[w][j] = "exec" /\ call[w][j].step = "paid" /\ UNCHANGED <<record, sent, badSaves>>
  BY DEF Answered, Doing
<1>2. /\ record[j] \in RecordType /\ sent[j] \in Nat /\ refused[j] \in Nat /\ badSaves \in Nat
      /\ CoveredBy("paid", record[j], sent[j], refused[j])
      /\ record \in [Jobs -> RecordType] /\ sent \in [Jobs -> Nat] /\ refused \in [Jobs -> Nat]
  BY <1>1, CallFacts DEF BInv, BTypeOK
<1>3. ASSUME NEW step \in {"body", "transient", "permanent"}, To(w, j, step), UNCHANGED refused
      PROVE  BInv'
  <2>1. PICK c \in CallType : call' = [call EXCEPT ![w][j] = c] /\ c.step = step
    BY <1>3, ToCall DEF CallSteps
  <2> QED BY <1>1, <1>2, <1>3, <2>1, Idling
<1>4. ASSUME To(w, j, "refund"), refused' = [refused EXCEPT ![j] = @ + 1]
      PROVE  BInv'
  <2>1. PICK c \in CallType : call' = [call EXCEPT ![w][j] = c] /\ c.step = "refund"
    BY <1>4, ToCall DEF CallSteps
  <2>2. Becomes(w, j, c, record[j], sent[j], refused[j] + 1)
    BY <1>1, <1>2, <1>4, <2>1 DEF Becomes
  <2>3. CoveredBy(c.step, record[j], sent[j], refused[j] + 1) /\ refused[j] + 1 \in Nat
    BY <1>2, <2>1 DEF CoveredBy, Unsent, Unreturned, RecordType
  <2> QED BY <1>1, <1>2, <2>1, <2>2, <2>3, CallKeeps
<1> QED BY <1>3, <1>4 DEF Answered

LEMMA RefundStep ==
    ASSUME IInv, BInv, UNCHANGED vars, NEW w \in Workers, NEW j \in Jobs, refundPaidAttempt(w, j)
    PROVE  BInv'
<1>1. /\ at[w][j] = "exec" /\ call[w][j].step = "refund" /\ UNCHANGED <<sent, refused>>
      /\ badSaves \in Nat
  BY DEF refundPaidAttempt, Doing, BInv, BTypeOK
<1>2. /\ record[j] \in RecordType /\ sent[j] \in Nat /\ refused[j] \in Nat
      /\ call[w][j] \in CallType /\ call \in [Workers -> [Jobs -> CallType]]
      /\ CoveredBy("refund", record[j], sent[j], refused[j])
      /\ record \in [Jobs -> RecordType] /\ sent \in [Jobs -> Nat] /\ refused \in [Jobs -> Nat]
  BY <1>1, CallFacts DEF BInv, BTypeOK
<1>3. PICK ok \in BOOLEAN :
         /\ Save(j, Refunded(record[j]), ok)
         /\ IF ok /\ call[w][j].refunded < RefundedRetries
            THEN call' = [call EXCEPT ![w][j] =
                   [call[w][j] EXCEPT !.step = "unpaid", !.refunded = call[w][j].refunded + 1]]
            ELSE To(w, j, "transient")
  BY DEF refundPaidAttempt
<1>4. PICK c \in CallType :
         call' = [call EXCEPT ![w][j] = c] /\ c.step \in {"unpaid", "transient"}
  <2>1. CASE To(w, j, "transient")
    BY <2>1, ToCall DEF CallSteps
  <2>2. CASE ~To(w, j, "transient")
    <3> DEFINE c == [call[w][j] EXCEPT !.step = "unpaid", !.refunded = call[w][j].refunded + 1]
    <3>1. call[w][j].refunded + 1 \in Nat /\ "unpaid" \in CallSteps
      BY <1>2 DEF CallType, CallSteps
    <3>2. c \in CallType /\ c.step = "unpaid"
      BY <1>2, <3>1 DEF CallType
    <3>3. call' = [call EXCEPT ![w][j] = c]
      BY <1>3, <2>2
    <3> QED BY <3>2, <3>3
  <2> QED BY <2>1, <2>2
<1>5. CASE ok
  <2> DEFINE r == Refunded(record[j])
  <2>1. /\ r \in RecordType /\ r.signatures = record[j].signatures
        /\ r.attempts = IF record[j].attempts = 0 THEN 0 ELSE record[j].attempts - 1
    <3>1. record[j].attempts # 0 => record[j].attempts - 1 \in Nat
      BY <1>2 DEF RecordType
    <3> QED BY <1>2, <3>1 DEF RecordType, Refunded
  <2>2. record' = [record EXCEPT ![j] = r] /\ badSaves' \in Nat
    BY <1>1, <1>3, <1>5 DEF Save
  <2>3. Becomes(w, j, c, r, sent[j], refused[j])
    BY <1>1, <1>2, <1>4, <2>2 DEF Becomes
  <2>4. CoveredBy(c.step, r, sent[j], refused[j])
    <3>1. /\ record[j].attempts \in Nat /\ record[j].signatures \in Nat
          /\ MaxPaidAttempts \in Nat /\ MaxSignatures \in Nat
      BY <1>2, BridgeAssumption DEF RecordType
    <3> HIDE DEF r
    <3> QED BY <1>2, <1>4, <2>1, <3>1 DEF CoveredBy, Unsent, Unreturned
  <2> HIDE DEF r
  <2> QED BY <1>1, <1>2, <1>4, <2>1, <2>2, <2>3, <2>4, CallKeeps
<1>6. CASE ~ok
  <2>1. UNCHANGED record /\ badSaves' \in Nat
    BY <1>1, <1>3, <1>6 DEF Save
  <2> QED BY <1>1, <1>4, <2>1, Idling
<1> QED BY <1>5, <1>6

LEMMA BodyStep ==
    ASSUME IInv, BInv, UNCHANGED vars, NEW w \in Workers, NEW j \in Jobs, TakeBody(w, j)
    PROVE  BInv'
<1>1. /\ at[w][j] = "exec" /\ call[w][j].step \in {"body", "freeBody"}
      /\ UNCHANGED <<sent, refused>> /\ badSaves \in Nat
  BY DEF TakeBody, Doing, BInv, BTypeOK
<1>2. /\ record[j] \in RecordType /\ sent[j] \in Nat /\ refused[j] \in Nat
      /\ CoveredBy(call[w][j].step, record[j], sent[j], refused[j])
      /\ record \in [Jobs -> RecordType] /\ sent \in [Jobs -> Nat] /\ refused \in [Jobs -> Nat]
  BY <1>1, CallFacts DEF BInv, BTypeOK
<1>3. ASSUME NEW ok \in BOOLEAN, Save(j, [record[j] EXCEPT !.saved = TRUE], ok),
             To(w, j, IF ok THEN "done" ELSE "raw")
      PROVE  BInv'
  <2> DEFINE r == IF ok THEN [record[j] EXCEPT !.saved = TRUE] ELSE record[j]
  <2>1. PICK c \in CallType : call' = [call EXCEPT ![w][j] = c] /\ c.step \in {"done", "raw"}
    BY <1>3, ToCall DEF CallSteps
  <2>2. /\ r \in RecordType /\ r.signatures = record[j].signatures
        /\ r.attempts = record[j].attempts
    BY <1>2 DEF RecordType
  <2>3. record' = [record EXCEPT ![j] = r] /\ badSaves' \in Nat
    <3>1. CASE ok
      BY <1>1, <1>3, <3>1 DEF Save
    <3>2. CASE ~ok
      BY <1>1, <1>2, <1>3, <3>2 DEF Save
    <3> QED BY <3>1, <3>2
  <2>4. Becomes(w, j, c, r, sent[j], refused[j])
    BY <1>1, <1>2, <2>1, <2>3 DEF Becomes
  <2>5. CoveredBy(c.step, r, sent[j], refused[j])
    <3> HIDE DEF r
    <3> QED BY <1>1, <1>2, <2>1, <2>2 DEF CoveredBy, Unsent, Unreturned
  <2> HIDE DEF r
  <2> QED BY <1>1, <1>2, <2>1, <2>2, <2>3, <2>4, <2>5, CallKeeps
<1>4. ASSUME NEW step \in {"permanent", "transient"}, To(w, j, step), UNCHANGED <<record, badSaves>>
      PROVE  BInv'
  <2>1. PICK c \in CallType : call' = [call EXCEPT ![w][j] = c] /\ c.step = step
    BY <1>4, ToCall DEF CallSteps
  <2> QED BY <1>1, <1>4, <2>1, Idling
<1>5. ASSUME RetryFree(w, j), UNCHANGED <<record, badSaves>> PROVE BInv'
  <2>1. PICK c \in CallType :
           call' = [call EXCEPT ![w][j] = c] /\ c.step \in {"unpaid", "transient"}
    BY <1>5, FreeCall
  <2> QED BY <1>1, <1>5, <2>1, Idling
<1> QED BY <1>3, <1>4, <1>5 DEF TakeBody

LEMMA CallStepKeeps ==
    ASSUME IInv, BInv, NEW w \in Workers, NEW j \in Jobs, CallStep(w, j)
    PROVE  BInv'
BY QuietSteps, ClaimStep, SendStep, AnswerStep, RefundStep, BodyStep DEF CallStep

(***************************************************************************)
(* A step of the runtime: calls start and end, and a start may forget the  *)
(* records of jobs nobody will take up again.                              *)
(***************************************************************************)
LEMMA RuntimeKeeps ==
    ASSUME IInv, IInv', BInv, RuntimeStep
    PROVE  BInv'
<1>0. /\ BTypeOK /\ Next /\ call' = CallsAfter /\ UNCHANGED <<sent, refused, badSaves>>
  BY DEF BInv, RuntimeStep, Follows
<1>1. PICK old \in SUBSET Expired :
         /\ old # {} => ~up /\ up'
         /\ record' = [j \in Jobs |-> IF j \in old THEN NoRecord ELSE record[j]]
  BY DEF RuntimeStep, Follows
<1>2. /\ NoRecord \in RecordType /\ NoCall \in CallType /\ NewCall \in CallType
      /\ NoCall.step = "none" /\ NewCall.step = "lookup"
  BY DEF NoRecord, RecordType, NoCall, NewCall, CallType, CallSteps
<1>3. BTypeOK'
  <2>1. call' \in [Workers -> [Jobs -> CallType]]
    BY <1>0, <1>2 DEF BTypeOK, CallsAfter
  <2>2. record' \in [Jobs -> RecordType]
    BY <1>0, <1>1, <1>2 DEF BTypeOK
  <2> QED BY <1>0, <2>1, <2>2 DEF BTypeOK
<1>4. ASSUME NEW j \in Jobs PROVE Sound(j)'
  <2>1. Effect(j) /\ Sound(j) /\ executions[j] \in Nat
    BY <1>0, NextEffect DEF BInv, IInv, TypeOK
  <2>2. ASSUME NEW w \in Workers
        PROVE  call'[w][j] = IF at'[w][j] # "exec" THEN NoCall
                             ELSE IF at[w][j] = "exec" THEN call[w][j] ELSE NewCall
    BY <1>0 DEF CallsAfter
  <2>3. CallFits(j)'
    BY <1>0, <1>2, <2>1, <2>2 DEF Sound, CallFits, Effect
  <2>4. ASSUME NEW w \in Workers
        PROVE  /\ Unsent(call'[w][j].step) <= Unsent(call[w][j].step)
               /\ Unreturned(call'[w][j].step) <= Unreturned(call[w][j].step)
    BY <1>2, <2>2 DEF Unsent, Unreturned
  <2>5. /\ sent[j] \in Nat /\ refused[j] \in Nat /\ sent'[j] = sent[j] /\ refused'[j] = refused[j]
        /\ record[j].attempts \in Nat /\ record[j].signatures \in Nat
        /\ MaxPaidAttempts \in Nat /\ MaxSignatures \in Nat
    BY <1>0, BridgeAssumption DEF BTypeOK, RecordType
  <2>6. \A w \in Workers : /\ Unsent(call[w][j].step) \in {0, 1}
                            /\ Unreturned(call[w][j].step) \in {0, 1}
                            /\ Unsent(call'[w][j].step) \in {0, 1}
                            /\ Unreturned(call'[w][j].step) \in {0, 1}
    BY DEF Unsent, Unreturned
  <2>7. ASSUME Covered(j), j \notin old PROVE Covered(j)'
    <3>1. record'[j] = record[j]
      BY <1>1, <2>7
    <3> QED BY <2>4, <2>5, <2>6, <2>7, <3>1 DEF Covered
  <2>8. ASSUME j \in late, \A w \in Workers : at[w][j] = "idle", executions[j] > 0, Within(j)
        PROVE  Retired(j)'
    <3>1. Known(j) /\ j \in late'
      BY <2>1, <2>8 DEF IInv, Good, Effect
    <3>2. ~(up /\ entries[j].status = "absent")
      BY <2>8, <3>1, <2>1 DEF Known
    <3>3. \A w \in Workers : at'[w][j] = "idle"
      BY <2>1, <2>8, <3>2 DEF Effect
    <3>4. executions'[j] > 0 /\ Within(j)'
      BY <2>1, <2>5, <2>8 DEF Effect, Within
    <3> QED BY <3>1, <3>3, <3>4 DEF Retired
  <2>9. ASSUME Covered(j), j \in old PROVE Covered(j)' \/ Retired(j)'
    <3>1. j \in late /\ \A w \in Workers : at[w][j] = "idle"
      BY <1>1, <2>9 DEF Expired, IInv, Down, AllIdle
    <3>2. Live \in Workers
      BY DEF Workers
    <3>3. CASE sent[j] = 0
      <4>1. record'[j] = NoRecord
        BY <1>1, <2>9
      <4>2. ~up
        BY <1>1, <2>9
      <4>3. \A w \in Workers : call'[w][j].step = "none"
        BY <1>2, <2>1, <2>2, <3>1, <4>2 DEF Effect
      <4>4. record'[j].attempts = 0 /\ record'[j].signatures = 0
        BY <4>1 DEF NoRecord
      <4> QED BY <2>5, <3>3, <4>3, <4>4 DEF Covered, Unsent, Unreturned
    <3>4. CASE sent[j] # 0
      <4>1. Within(j)
        BY <2>5, <2>6, <2>9, <3>2 DEF Covered, Within
      <4>2. executions[j] > 0
        BY <2>1, <2>5, <3>4 DEF Sound, CallFits
      <4> QED BY <2>8, <3>1, <4>1, <4>2
    <3> QED BY <3>3, <3>4
  <2> QED BY <2>1, <2>3, <2>7, <2>8, <2>9 DEF Sound, Retired
<1> QED BY <1>3, <1>4 DEF BInv

(***************************************************************************)
(* The results.                                                            *)
(***************************************************************************)
\* The bridge changes nothing of the runtime around it: what is proved of the
\* runtime holds with any number of calls under way.
THEOREM RunsTheRuntime == BSpec => Spec
<1>1. BInit => Init
  BY DEF BInit
<1>2. [BNext]_bvars => [Next]_vars
  BY DEF BNext, RuntimeStep, CallStep, bvars
<1> QED BY <1>1, <1>2, PTL DEF BSpec, Spec

LEMMA BInitHolds == ASSUME IInv, BInit PROVE BInv
<1>1. /\ NoRecord \in RecordType /\ NoCall \in CallType /\ NoCall.step = "none"
      /\ NoRecord.attempts = 0 /\ NoRecord.signatures = 0
      /\ MaxPaidAttempts \in Nat /\ MaxSignatures \in Nat
  BY BridgeAssumption DEF NoRecord, RecordType, NoCall, CallType, CallSteps
<1>2. BTypeOK
  BY <1>1 DEF BInit, BTypeOK
<1>3. ASSUME NEW j \in Jobs PROVE Sound(j)
  <2>1. \A w \in Workers : call[w][j].step = "none" /\ at[w][j] = "idle"
    BY <1>1 DEF BInit, Init, AllIdle
  <2>2. record[j] = NoRecord /\ sent[j] = 0 /\ refused[j] = 0
    BY DEF BInit
  <2> QED BY <1>1, <2>1, <2>2 DEF Sound, CallFits, Covered, Unsent, Unreturned
<1> QED BY <1>2, <1>3 DEF BInv

LEMMA BridgeKeeps == ASSUME IInv, IInv', BInv, [BNext]_bvars PROVE BInv'
<1>1. CASE RuntimeStep
  BY <1>1, RuntimeKeeps
<1>2. CASE \E w \in Workers, j \in Jobs : CallStep(w, j)
  BY <1>2, CallStepKeeps
<1>3. CASE UNCHANGED bvars
  BY <1>3 DEF bvars, vars, bridgeVars, histVars, worldVars, BInv, BTypeOK, Sound, CallFits,
              Covered, Retired, Within
<1> QED BY <1>1, <1>2, <1>3 DEF BNext

\* Over every retry, abort, failed write, crash and restart, and whatever the
\* upstream answers, a job is charged at most the caps of its record, although
\* records are forgotten (claimPaidAttempt, refundPaidAttempt, sweepExpired).
THEOREM SpendBounded == OneTick /\ BSpec => []SpendIsBounded
<1>1. BInv => SpendIsBounded
  <2> SUFFICES ASSUME BInv, NEW j \in Jobs
               PROVE  sent[j] <= MaxSignatures /\ sent[j] - refused[j] <= MaxPaidAttempts
    BY DEF SpendIsBounded
  <2>1. /\ Sound(j) /\ sent[j] \in Nat /\ refused[j] \in Nat /\ Live \in Workers
        /\ record[j].attempts \in Nat /\ record[j].signatures \in Nat
        /\ MaxPaidAttempts \in Nat /\ MaxSignatures \in Nat
    BY BridgeAssumption DEF BInv, BTypeOK, RecordType, Workers
  <2>2. \A w \in Workers : Unsent(call[w][j].step) \in {0, 1} /\ Unreturned(call[w][j].step) \in {0, 1}
    BY DEF Unsent, Unreturned
  <2> QED BY <2>1, <2>2 DEF Sound, Covered, Retired, Within
<1> QED BY <1>1, RunsTheRuntime, InductiveInvariant, BInitHolds, BridgeKeeps, PTL DEF BSpec
(***************************************************************************)
(* A result is bought once.  A call that finds a saved result ends with    *)
(* it, and the call that saves one is the only call of its job and ends    *)
(* there; so while a result is on file, no call is on its way to pay.      *)
(***************************************************************************)
Bought(j) == record[j].saved => \A w \in Workers : call[w][j].step \in {"none", "lookup", "done"}

\* The calls of other workers and other jobs are left alone, and so are the
\* records of other jobs.
LEMMA CallTouches ==
    ASSUME BInv, NEW w \in Workers, NEW j \in Jobs, CallStep(w, j)
    PROVE  /\ at[w][j] = "exec"
           /\ \A v \in Workers, k \in Jobs : v # w \/ k # j => call'[v][k] = call[v][k]
           /\ \A k \in Jobs \ {j} : record'[k] = record[k] /\ sent'[k] = sent[k]
<1>1. /\ call \in [Workers -> [Jobs -> CallType]] /\ record \in [Jobs -> RecordType]
      /\ sent \in [Jobs -> Nat]
  BY DEF BInv, BTypeOK
<1>2. \E c : call' = [call EXCEPT ![w][j] = c]
  <2>1. ASSUME NEW step, To(w, j, step) PROVE \E c : call' = [call EXCEPT ![w][j] = c]
    BY <1>1, <2>1 DEF To
  <2>2. ASSUME RetryFree(w, j) PROVE \E c : call' = [call EXCEPT ![w][j] = c]
    BY <2>1, <2>2 DEF RetryFree
  <2>3. CASE refundPaidAttempt(w, j)
    BY <2>1, <2>3 DEF refundPaidAttempt
  <2>4. CASE TakeBody(w, j)
    BY <2>1, <2>2, <2>4 DEF TakeBody
  <2>5. CASE claimPaidAttempt(w, j)
    BY <2>1, <2>2, <2>5 DEF claimPaidAttempt
  <2>6. CASE LookUp(w, j) \/ AskUnpaid(w, j) \/ SendPaid(w, j) \/ Answered(w, j)
    BY <2>1, <2>2, <2>6 DEF LookUp, AskUnpaid, SendPaid, Answered
  <2> QED BY <2>3, <2>4, <2>5, <2>6 DEF CallStep
<1>3. record' = record \/ \E r : record' = [record EXCEPT ![j] = r]
  BY DEF CallStep, LookUp, AskUnpaid, claimPaidAttempt, SendPaid, Answered, refundPaidAttempt,
         TakeBody, Save
<1>4. sent' = sent \/ \E n : sent' = [sent EXCEPT ![j] = n]
  BY DEF CallStep, LookUp, AskUnpaid, claimPaidAttempt, SendPaid, Answered, refundPaidAttempt,
         TakeBody
<1>5. at[w][j] = "exec"
  BY DEF CallStep, LookUp, AskUnpaid, claimPaidAttempt, SendPaid, Answered, refundPaidAttempt,
         TakeBody, Doing
<1> QED BY <1>1, <1>2, <1>3, <1>4, <1>5

\* Only the save of a body puts a result on file, and it ends the call.
LEMMA SavedByBody ==
    ASSUME BInv, NEW w \in Workers, NEW j \in Jobs, CallStep(w, j),
           ~record[j].saved, record'[j].saved
    PROVE  call'[w][j].step = "done"
<1>1. record \in [Jobs -> RecordType] /\ record[j] \in RecordType
  BY DEF BInv, BTypeOK
<1>2. CASE LookUp(w, j) \/ AskUnpaid(w, j) \/ SendPaid(w, j) \/ Answered(w, j)
  BY <1>2 DEF LookUp, AskUnpaid, SendPaid, Answered
<1>3. CASE claimPaidAttempt(w, j)
  <2>1. Claimed(record[j]).saved = record[j].saved
    BY <1>1 DEF Claimed, RecordType
  <2>2. record'[j] = record[j] \/ record'[j] = Claimed(record[j])
    BY <1>1, <1>3 DEF claimPaidAttempt, Save
  <2> QED BY <2>1, <2>2
<1>4. CASE refundPaidAttempt(w, j)
  <2>1. Refunded(record[j]).saved = record[j].saved
    BY <1>1 DEF Refunded, RecordType
  <2>2. record'[j] = record[j] \/ record'[j] = Refunded(record[j])
    BY <1>1, <1>4 DEF refundPaidAttempt, Save
  <2> QED BY <2>1, <2>2
<1>5. CASE TakeBody(w, j)
  <2>1. record' # record
    OBVIOUS
  <2>2. PICK ok \in BOOLEAN : /\ Save(j, [record[j] EXCEPT !.saved = TRUE], ok)
                              /\ To(w, j, IF ok THEN "done" ELSE "raw")
    BY <1>5, <2>1 DEF TakeBody
  <2>3. ok
    BY <2>1, <2>2 DEF Save
  <2>4. To(w, j, "done")
    BY <2>2, <2>3
  <2> QED BY <2>4, ToCall DEF CallSteps, BInv, BTypeOK
<1> QED BY <1>2, <1>3, <1>4, <1>5 DEF CallStep

AllBought == \A j \in Jobs : Bought(j)

LEMMA BoughtByCall ==
    ASSUME IInv, BInv, NEW w \in Workers, NEW j \in Jobs, CallStep(w, j), Bought(j)
    PROVE  Bought(j)'
<1>1. CASE record[j].saved
  <2>1. call[w][j].step \in {"none", "lookup", "done"} /\ call[w][j] \in CallType
    BY <1>1 DEF Bought, BInv, BTypeOK
  <2>2. LookUp(w, j)
    BY <2>1 DEF CallStep, AskUnpaid, claimPaidAttempt, SendPaid, Answered, refundPaidAttempt,
                TakeBody, Doing
  <2>3. To(w, j, "done") /\ record' = record
    BY <1>1, <2>2 DEF LookUp
  <2>4. call'[w][j].step = "done"
    BY <2>3, ToCall DEF CallSteps, BInv, BTypeOK
  <2> QED BY <1>1, <2>4, CallTouches DEF Bought
<1>2. CASE ~record[j].saved /\ record'[j].saved
  <2>1. call'[w][j].step = "done"
    BY <1>2, SavedByBody
  <2>2. \A v \in Workers \ {w} : call'[v][j].step = "none"
    BY CallTouches, CallFacts
  <2> QED BY <2>1, <2>2 DEF Bought
<1> QED BY <1>1, <1>2 DEF Bought

LEMMA BoughtKept == IInv /\ BInv /\ AllBought /\ [BNext]_bvars => AllBought'
<1> SUFFICES ASSUME IInv, BInv, \A j \in Jobs : Bought(j), [BNext]_bvars, NEW j \in Jobs
             PROVE  Bought(j)'
  BY DEF AllBought
<1>1. CASE RuntimeStep
  <2>1. record'[j].saved => record[j].saved
    BY <1>1 DEF RuntimeStep, Follows, NoRecord
  <2>2. ASSUME NEW w \in Workers
        PROVE  call'[w][j].step \in {"none", "lookup", call[w][j].step}
    BY <1>1 DEF RuntimeStep, Follows, CallsAfter, NoCall, NewCall
  <2> QED BY <2>1, <2>2 DEF Bought
<1>2. ASSUME NEW w \in Workers, NEW k \in Jobs, CallStep(w, k) PROVE Bought(j)'
  <2>1. CASE k = j
    BY <1>2, <2>1, BoughtByCall
  <2>2. CASE k # j
    <3>1. record'[j] = record[j] /\ \A v \in Workers : call'[v][j] = call[v][j]
      BY <1>2, <2>2, CallTouches
    <3> QED BY <3>1 DEF Bought
  <2> QED BY <2>1, <2>2
<1>3. CASE UNCHANGED bvars
  BY <1>3 DEF bvars, bridgeVars, Bought
<1> QED BY <1>1, <1>2, <1>3 DEF BNext

\* While a result is on file, no step sends a payment for its job.
LEMMA NoneSent ==
    ASSUME BInv, NEW j \in Jobs, Bought(j), record[j].saved, [BNext]_bvars
    PROVE  sent'[j] = sent[j]
<1>1. CASE RuntimeStep \/ UNCHANGED bvars
  BY <1>1 DEF RuntimeStep, Follows, bvars, bridgeVars
<1>2. ASSUME NEW w \in Workers, NEW k \in Jobs, CallStep(w, k) PROVE sent'[j] = sent[j]
  <2>1. CASE SendPaid(w, k)
    <3>1. k # j
      BY <2>1 DEF SendPaid, Doing, Bought
    <3> QED BY <1>2, <3>1, CallTouches
  <2>2. CASE ~SendPaid(w, k)
    BY <1>2, <2>2 DEF CallStep, LookUp, AskUnpaid, claimPaidAttempt, Answered, refundPaidAttempt,
                      TakeBody
  <2> QED BY <2>1, <2>2
<1> QED BY <1>1, <1>2 DEF BNext

\* A result that is on file is never paid for again, for any caps, retries,
\* crashes and restarts (getResult, saveTextResult, saveFileResult).
THEOREM BoughtOnce == OneTick /\ BSpec => ResultIsBoughtOnce
<1>1. BInit => AllBought
  BY DEF BInit, NoRecord, AllBought, Bought
<1>2. BInv /\ AllBought /\ [BNext]_bvars
         => [\A j \in Jobs : record[j].saved => sent'[j] = sent[j]]_bvars
  BY NoneSent DEF AllBought
<1> QED BY <1>1, <1>2, BoughtKept, RunsTheRuntime, InductiveInvariant, BInitHolds, BridgeKeeps, PTL
        DEF BSpec, ResultIsBoughtOnce

\* The bridge changes nothing about a permanent failure: with an upstream call in
\* every run of the skill it stays the last word (PermanentFailureIsFinal).
THEOREM BridgeFailureFinal == OneTick /\ OneBadWrite /\ BSpec => PermanentFailureIsFinal
BY RunsTheRuntime, FailureFinal, PTL
=============================================================================
