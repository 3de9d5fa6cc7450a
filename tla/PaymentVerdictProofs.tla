------------------------ MODULE PaymentVerdictProofs ------------------------
(***************************************************************************)
(* A customer who paid is never closed as unpaid, for every set of jobs,   *)
(* every ladder and scan budget, every length of the window and every lag  *)
(* of the index that the ladder outwaits; and a job whose window is open   *)
(* is looked at within the first rung.                                     *)
(***************************************************************************)
EXTENDS PaymentVerdict, TLAPS

\* A timer runs down to zero and stays there.
LEMMA LessType ==
    /\ Less(0) = 0
    /\ \A n \in Nat : Less(n) \in Nat /\ Less(n) <= n
    /\ \A m, n \in Nat : m <= n => Less(m) <= Less(n)
BY DEF Less

(***************************************************************************)
(* The inductive invariant.  After an empty look past the window, a        *)
(* payment the index still hides comes out before the next look begins;    *)
(* so a second empty look at a chain the endpoint serves is the truth.     *)
(***************************************************************************)
\* Nothing is concluded before the window has closed.
WindowClosed ==
    \A j \in Jobs :
        j \in saw \/ look[j] \in {"asking", "trusted", "untrusted"} \/ job[j] = "unpaid"
            => window[j] = 0

\* A payment was made inside the window, so once the window is over some of the
\* lag is over as well.
LagHasBegun ==
    \A j \in Jobs : window[j] = 0 /\ payment[j] # NotPaid => payment[j] <= Less(MaxLag)

\* The wait before the confirming look outlasts what is left of the lag.
LagIsOutwaited ==
    \A j \in saw : payment[j] # NotPaid => payment[j] <= wait[j]

\* A look begins when the wait is over.
LookIsDue == \A j \in Jobs : look[j] # "none" => wait[j] = 0

\* A second empty look at the right chain means there is no payment.
SecondLookIsTrue ==
    \A j \in saw :
        serves = "chain" /\ look[j] \in {"empty", "asking", "trusted", "untrusted"}
            => payment[j] = NotPaid

EndpointIsProved ==
    /\ endpoint = "sound" => serves = "chain"
    /\ \A j \in Jobs : look[j] = "trusted" => serves = "chain"

IInv ==
    /\ TypeOK
    /\ WindowClosed
    /\ LagHasBegun
    /\ LagIsOutwaited
    /\ LookIsDue
    /\ SecondLookIsTrue
    /\ EndpointIsProved
    /\ PayerIsNeverDenied

-----------------------------------------------------------------------------
LEMMA Numbers ==
    /\ MaxLag \in Nat /\ Window \in Nat
    /\ Len(Rungs) \in Nat /\ MinRung \in Nat /\ 1 <= MinRung /\ MinRung <= Len(Rungs)
    /\ \A r \in 1..Len(Rungs) : Rungs[r] \in Nat /\ Rungs[r] >= 1
<1>1. MaxLag \in Nat
  BY LadderAssumption
<1>2. Window \in Nat
  BY LadderAssumption
<1>3. Rungs \in Seq(Nat \ {0}) /\ MinRung \in 1..Len(Rungs)
  BY LadderAssumption
<1>4. Len(Rungs) \in Nat
  BY <1>3
<1>5. \A r \in 1..Len(Rungs) : Rungs[r] \in Nat \ {0}
  BY <1>3
<1> QED
  BY <1>1, <1>2, <1>3, <1>4, <1>5

LEMMA DelaysType ==
    ASSUME NEW r \in 1..Len(Rungs), NEW d \in Delays(r)
    PROVE  d \in Nat /\ 2 * Rungs[r] - 1 <= d
BY Numbers DEF Delays

LEMMA NextRungType ==
    ASSUME TypeOK, NEW j \in Jobs
    PROVE  NextRung(j) \in 1..Len(Rungs)
<1>1. attempts[j] \in 0..Len(Rungs)
  BY DEF TypeOK
<1> QED
  BY <1>1, Numbers DEF NextRung

LEMMA RungOfWaitType ==
    ASSUME NEW n \in 1..Len(Rungs)
    PROVE  /\ RungOfWait(n, FALSE) = n
           /\ RungOfWait(n, TRUE) \in MinRung..Len(Rungs)
BY Numbers DEF RungOfWait

\* Deferring a job moves its timer and its count, and only its own.
LEMMA NoteType ==
    ASSUME TypeOK, NEW j \in Jobs, NEW r \in 1..Len(Rungs), NEW d \in Delays(r),
           wait' = [wait EXCEPT ![j] = d],
           attempts' = [attempts EXCEPT ![j] = NextRung(j)]
    PROVE  /\ wait' \in [Jobs -> Nat] /\ attempts' \in [Jobs -> 0..Len(Rungs)]
           /\ wait'[j] = d
           /\ \A k \in Jobs : k # j => wait'[k] = wait[k]
<1>1. NextRung(j) \in 0..Len(Rungs)
  BY NextRungType, Numbers
<1>2. d \in Nat
  BY DelaysType
<1> QED
  BY <1>1, <1>2 DEF TypeOK

LEMMA NoteFaulty ==
    ASSUME TypeOK, NEW j \in Jobs, note(j, FALSE)
    PROVE  /\ wait' \in [Jobs -> Nat] /\ attempts' \in [Jobs -> 0..Len(Rungs)]
           /\ \A k \in Jobs : k # j => wait'[k] = wait[k]
           /\ saw' = saw \ {j} /\ faults' \subseteq Jobs
<1>1. PICK d \in Delays(NextRung(j)) : wait' = [wait EXCEPT ![j] = d]
  BY NextRungType, RungOfWaitType DEF note
<1> QED
  BY <1>1, NextRungType, NoteType DEF note, TypeOK

\* The floored wait outlasts any lag the index can have.
LEMMA NoteEmpty ==
    ASSUME TypeOK, NEW j \in Jobs, note(j, TRUE)
    PROVE  /\ wait' \in [Jobs -> Nat] /\ attempts' \in [Jobs -> 0..Len(Rungs)]
           /\ \A k \in Jobs : k # j => wait'[k] = wait[k]
           /\ saw' = saw \cup {j} /\ faults' = faults
           /\ Less(MaxLag) <= wait'[j]
<1> DEFINE r == RungOfWait(NextRung(j), TRUE)
<1>1. r \in MinRung..Len(Rungs)
  BY NextRungType, RungOfWaitType
<1>2. PICK d \in Delays(r) : wait' = [wait EXCEPT ![j] = d]
  BY DEF note
<1> HIDE DEF r
<1>3. r \in 1..Len(Rungs)
  BY <1>1, Numbers
<1>4. MaxLag <= 2 * Rungs[r]
  BY <1>1, LagAssumption
<1>5. d \in Nat /\ 2 * Rungs[r] - 1 <= d
  BY <1>2, <1>3, DelaysType
<1>6. Rungs[r] \in Nat /\ Rungs[r] >= 1
  BY <1>3, Numbers
<1>7. Less(MaxLag) <= d
  BY <1>4, <1>5, <1>6, Numbers DEF Less
<1>8. attempts' = [attempts EXCEPT ![j] = NextRung(j)] /\ saw' = saw \cup {j} /\ faults' = faults
  BY DEF note
<1> QED
  BY <1>2, <1>3, <1>7, <1>8, NoteType DEF TypeOK

-----------------------------------------------------------------------------
LEMMA InitInv == Init => IInv
<1> SUFFICES ASSUME Init PROVE IInv
  OBVIOUS
<1>1. TypeOK
  <2>1. wait = [j \in Jobs |-> 0] /\ attempts = [j \in Jobs |-> 0] /\ window = [j \in Jobs |-> Window]
    BY DEF Init
  <2>2. wait \in [Jobs -> Nat] /\ attempts \in [Jobs -> 0..Len(Rungs)] /\ window \in [Jobs -> 0..Window]
    BY <2>1, Numbers
  <2> QED
    BY <2>2 DEF Init, TypeOK, Looks
<1> QED
  BY <1>1 DEF Init, IInv, WindowClosed, LagHasBegun, LagIsOutwaited, LookIsDue, SecondLookIsTrue,
              EndpointIsProved, PayerIsNeverDenied

\* A look that settles nothing defers the job and forgets what it saw.
LEMMA DeferInv ==
    ASSUME IInv, NEW j \in Jobs, note(j, FALSE), look' = [look EXCEPT ![j] = "none"],
           UNCHANGED <<job, timers, world, probe>>
    PROVE  IInv'
<1> USE DEF IInv
<1>1. /\ wait' \in [Jobs -> Nat] /\ attempts' \in [Jobs -> 0..Len(Rungs)]
      /\ \A k \in Jobs : k # j => wait'[k] = wait[k]
      /\ saw' = saw \ {j} /\ faults' \subseteq Jobs
  BY NoteFaulty
<1>2. TypeOK'
  BY <1>1 DEF TypeOK, Looks, timers, world, probe
<1> QED
  BY <1>1, <1>2 DEF timers, world, probe, TypeOK, WindowClosed, LagHasBegun, LagIsOutwaited,
          LookIsDue, SecondLookIsTrue, EndpointIsProved, PayerIsNeverDenied

\* Only the clock and the customer touch what is left of the window and the lag.
LEMMA LagKeeps == TypeOK /\ LagHasBegun /\ [Next]_vars => LagHasBegun'
<1> SUFFICES ASSUME TypeOK, LagHasBegun, [Next]_vars, NEW i \in Jobs,
                    window'[i] = 0, payment'[i] # NotPaid
             PROVE  payment'[i] <= Less(MaxLag)
  BY DEF LagHasBegun
<1>1. payment[i] \in 0..MaxLag \cup {NotPaid} /\ window[i] \in Nat
  BY Numbers DEF TypeOK
<1>2. CASE Pass
  <2>1. /\ window'[i] = Less(window[i])
        /\ payment'[i] = IF payment[i] = NotPaid THEN NotPaid ELSE Less(payment[i])
    BY <1>2 DEF Pass
  <2>2. payment[i] \in 0..MaxLag /\ payment'[i] = Less(payment[i])
    BY <1>1, <2>1
  <2> QED
      <3>1. payment[i] \in Nat /\ payment[i] <= MaxLag /\ MaxLag \in Nat
        BY <2>2, Numbers
      <3> QED BY <2>2, <3>1, LessType
<1>3. CASE \E j \in Jobs : Pay(j)
  <2>1. PICK j \in Jobs : Pay(j)
    BY <1>3
  <2>2. j # i /\ payment'[i] = payment[i] /\ window'[i] = window[i]
    BY <2>1 DEF Pay, TypeOK
  <2> QED
    BY <2>2 DEF LagHasBegun
<1>4. CASE UNCHANGED <<window, payment>>
  BY <1>4 DEF LagHasBegun
<1> QED
  BY <1>2, <1>3, <1>4 DEF Next, LookStep, Tick, ProbeAnswers, Calm, Restart, List, AwaitWindow,
                          AskEndpoint, Distrust, Verdict, timers, vars

LEMMA NextInv == IInv /\ [Next]_vars => IInv'
<1> SUFFICES ASSUME IInv, [Next]_vars PROVE IInv'
  OBVIOUS
<1> USE DEF IInv
<1>0. LagHasBegun'
  BY LagKeeps
<1> USE <1>0
<1>1. CASE Tick
  <2>1. TypeOK'
    <3>1. PICK parked \in [Due \ Chosen -> {0, 1}] :
             wait' = [i \in Jobs |-> IF i \in DOMAIN parked THEN parked[i] ELSE wait[i]]
      BY <1>1 DEF Tick
    <3>2. \A i \in Jobs : (IF i \in DOMAIN parked THEN parked[i] ELSE wait[i]) \in Nat
      <4>1. DOMAIN parked = Due \ Chosen /\ \A i \in Due \ Chosen : parked[i] \in {0, 1}
        OBVIOUS
      <4>2. \A i \in Jobs : wait[i] \in Nat
        BY DEF TypeOK
      <4> QED
        BY <4>1, <4>2
    <3>3. wait' \in [Jobs -> Nat]
      BY <3>1, <3>2
    <3> QED
      BY <1>1, <3>3 DEF Tick, TypeOK, Looks, timers, world, probe
  <2>2. \A i \in Jobs : look'[i] # look[i] => i \in Due /\ look'[i] = "listing" /\ wait'[i] = 0
    BY <1>1 DEF Tick, Chosen, Due, Open
  <2>3. \A i \in Jobs : wait'[i] # wait[i] => wait[i] = 0 /\ look[i] = "none" /\ look'[i] = "none"
    BY <1>1 DEF Tick, Chosen, Due, Open
  <2>4. UNCHANGED <<window, job, payment, saw, serves, endpoint>>
    BY <1>1 DEF Tick, world, probe
  <2>5. WindowClosed'
    BY <2>2, <2>4 DEF WindowClosed
  <2>6. LagIsOutwaited'
    <3>1. \A i \in saw : wait[i] \in Nat /\ wait'[i] \in Nat /\ payment[i] \in Nat
      BY <2>1, <2>4, Numbers DEF TypeOK, NotPaid
    <3> SUFFICES ASSUME NEW i \in saw', payment'[i] # NotPaid PROVE payment'[i] <= wait'[i]
      BY DEF LagIsOutwaited
    <3>2. i \in saw /\ i \in Jobs /\ payment'[i] = payment[i] /\ payment[i] <= wait[i]
      BY <2>4 DEF LagIsOutwaited, TypeOK
    <3>3. wait[i] <= wait'[i]
      BY <2>3, <3>1, <3>2
    <3> QED
      BY <3>1, <3>2, <3>3
  <2>7. LookIsDue'
    BY <2>2, <2>3 DEF LookIsDue
  <2>8. SecondLookIsTrue' /\ EndpointIsProved' /\ PayerIsNeverDenied'
    BY <2>2, <2>4 DEF SecondLookIsTrue, EndpointIsProved, PayerIsNeverDenied, TypeOK
  <2> QED
    BY <2>1, <2>5, <2>6, <2>7, <2>8
<1>2. CASE Pass
  <2>1. /\ window' = [i \in Jobs |-> Less(window[i])]
        /\ payment' = [i \in Jobs |-> IF payment[i] = NotPaid THEN NotPaid ELSE Less(payment[i])]
        /\ wait' = [i \in Jobs |-> Less(wait[i])]
        /\ UNCHANGED <<job, look, saw, serves, endpoint>>
    BY <1>2 DEF Pass, world, probe
  <2>2. TypeOK'
    <3>1. window' \in [Jobs -> 0..Window]
      BY <2>1, LessType, Numbers DEF TypeOK
    <3>2. payment' \in [Jobs -> 0..MaxLag \cup {NotPaid}]
      BY <2>1, Numbers DEF TypeOK, Less
    <3>3. wait' \in [Jobs -> Nat]
      BY <2>1, LessType DEF TypeOK
    <3>4. half' \in {0, 1} /\ ticked' = FALSE
      <4>1. half = 0 \/ half = 1
        BY DEF TypeOK
      <4>2. half' = 1 - half /\ ticked' = FALSE
        BY <1>2 DEF Pass
      <4> QED
        BY <4>1, <4>2
    <3>5. UNCHANGED <<job, look, attempts, saw, faults, world, probe>>
      BY <1>2 DEF Pass
    <3> QED
      BY <3>1, <3>2, <3>3, <3>4, <3>5 DEF TypeOK, world, probe
  <2>3. WindowClosed' /\ LookIsDue'
    BY <2>1, LessType DEF WindowClosed, LookIsDue, TypeOK
  <2>4. \A i \in Jobs : payment[i] = NotPaid <=> payment'[i] = NotPaid
    <3> SUFFICES ASSUME NEW i \in Jobs PROVE payment[i] = NotPaid <=> payment'[i] = NotPaid
      OBVIOUS
    <3>1. /\ payment[i] \in 0..MaxLag \cup {NotPaid}
          /\ payment'[i] = IF payment[i] = NotPaid THEN NotPaid ELSE Less(payment[i])
      BY <2>1 DEF TypeOK
    <3> QED
      BY <3>1, Numbers DEF Less, NotPaid
  <2>5. LagIsOutwaited'
    <3> SUFFICES ASSUME NEW i \in saw', payment'[i] # NotPaid
                 PROVE  payment'[i] <= wait'[i]
      BY DEF LagIsOutwaited
    <3>1. i \in Jobs /\ i \in saw
      BY <2>1 DEF TypeOK
    <3>2. payment[i] # NotPaid
      BY <2>4, <3>1
    <3>3. payment'[i] = Less(payment[i]) /\ wait'[i] = Less(wait[i])
      BY <2>1, <3>1, <3>2
    <3>4. payment[i] \in Nat /\ wait[i] \in Nat /\ payment[i] <= wait[i]
      BY <3>1, <3>2, Numbers DEF LagIsOutwaited, TypeOK
    <3> QED
      BY <3>3, <3>4, LessType
  <2>6. SecondLookIsTrue' /\ EndpointIsProved' /\ PayerIsNeverDenied'
    BY <2>1, <2>4 DEF SecondLookIsTrue, EndpointIsProved, PayerIsNeverDenied, TypeOK
  <2> QED
    BY <2>2, <2>3, <2>5, <2>6
<1>3. CASE ProbeAnswers
  <2>1. PICK found \in Findings :
           /\ endpoint' = found
           /\ slot' = Released(found)
           /\ look' = [i \in Jobs |-> IF i \notin Asking THEN look[i]
                                       ELSE IF found = "sound" THEN "trusted" ELSE "untrusted"]
    BY <1>3 DEF ProbeAnswers
  <2>2. /\ found \in {"unchecked", "sound", "wrong-cluster"}
        /\ found = "sound" => serves = "chain"
    BY DEF Findings
  <2>3. UNCHANGED <<timers, job, ladder, world>>
    BY <1>3 DEF ProbeAnswers
  <2>4. TypeOK'
    BY <2>1, <2>2, <2>3 DEF TypeOK, Looks, Released, timers, ladder, world
  <2>5. ASSUME NEW i \in Jobs, look'[i] # look[i]
        PROVE  /\ look[i] = "asking" /\ look'[i] \in {"trusted", "untrusted"}
               /\ look'[i] = "trusted" => serves = "chain"
    <3>1. i \in Asking
      BY <2>1, <2>5
    <3>2. look'[i] = IF found = "sound" THEN "trusted" ELSE "untrusted"
      BY <2>1, <3>1
    <3> QED
      BY <2>2, <3>1, <3>2 DEF Asking
  <2> QED
    BY <2>1, <2>2, <2>3, <2>4, <2>5, ZenonT(30)
       DEF WindowClosed, LagIsOutwaited, LookIsDue, SecondLookIsTrue, EndpointIsProved,
           PayerIsNeverDenied, TypeOK, timers, ladder, world
<1>4. CASE Calm
  BY <1>4 DEF Calm, timers, ladder, probe, TypeOK, WindowClosed, LagIsOutwaited, LookIsDue,
              SecondLookIsTrue, EndpointIsProved, PayerIsNeverDenied
<1>5. ASSUME NEW j \in Jobs, List(j) PROVE IInv'
  <2>1. UNCHANGED <<timers, world, probe>>
    BY <1>5 DEF List
  <2>2. CASE flaky /\ Inconclusive(j)
    <3>1. note(j, FALSE) /\ look' = [look EXCEPT ![j] = "none"] /\ UNCHANGED job
      BY <2>2 DEF Inconclusive
    <3> QED
      BY <2>1, <3>1, DeferInv
  <2>3. CASE /\ Visible(j)
             /\ job' = [job EXCEPT ![j] = "settled"]
             /\ look' = [look EXCEPT ![j] = "none"]
             /\ clear(j)
    <3>1. TypeOK'
      BY <2>1, <2>3 DEF clear, TypeOK, Looks, timers, world, probe
    <3> QED
      BY <2>1, <2>3, <3>1 DEF clear, timers, world, probe, TypeOK, WindowClosed, LagIsOutwaited,
              LookIsDue, SecondLookIsTrue, EndpointIsProved, PayerIsNeverDenied
  <2>4. CASE /\ ~Visible(j)
             /\ look' = [look EXCEPT ![j] = "empty"]
             /\ UNCHANGED <<job, ladder>>
    <3>1. TypeOK'
      BY <2>1, <2>4 DEF TypeOK, Looks, timers, world, probe, ladder
    <3>2. look[j] # "none"
      BY <1>5 DEF List
    <3>3. j \in saw /\ serves = "chain" => payment[j] = NotPaid
      <4>1. wait[j] = 0
        BY <3>2 DEF LookIsDue
      <4>2. serves = "chain" => payment[j] # 0
        BY <2>4 DEF Visible
      <4>3. payment[j] \in 0..MaxLag \cup {NotPaid} /\ MaxLag \in Nat
        BY Numbers DEF TypeOK
      <4> QED
        BY <4>1, <4>2, <4>3 DEF LagIsOutwaited
    <3> QED
      BY <2>1, <2>4, <3>1, <3>2, <3>3 DEF timers, world, probe, ladder, TypeOK, WindowClosed,
              LagIsOutwaited, LookIsDue, SecondLookIsTrue, EndpointIsProved, PayerIsNeverDenied
  <2> QED
    BY <1>5, <2>2, <2>3, <2>4 DEF List
<1>6. ASSUME NEW j \in Jobs, AwaitWindow(j) PROVE IInv'
  <2>1. PICK d \in Delays(1) : wait' = [wait EXCEPT ![j] = d]
    BY <1>6 DEF AwaitWindow, noteAwaitingWindow
  <2>2. d \in Nat
    BY <2>1, DelaysType, Numbers
  <2>3. saw' = saw \ {j} /\ look' = [look EXCEPT ![j] = "none"]
    BY <1>6 DEF AwaitWindow, noteAwaitingWindow
  <2>4. UNCHANGED <<timers, job, world, probe, attempts, faults>>
    BY <1>6 DEF AwaitWindow, noteAwaitingWindow
  <2>5. TypeOK'
    BY <2>1, <2>2, <2>3, <2>4 DEF TypeOK, Looks, timers, world, probe
  <2> QED
    BY <2>1, <2>3, <2>4, <2>5 DEF timers, world, probe, TypeOK, WindowClosed, LagIsOutwaited,
            LookIsDue, SecondLookIsTrue, EndpointIsProved, PayerIsNeverDenied
<1>7. ASSUME NEW j \in Jobs, AskEndpoint(j) PROVE IInv'
  <2>1. TypeOK'
    BY <1>7 DEF AskEndpoint, TypeOK, Looks, timers, world, ladder
  <2>2. /\ look[j] = "empty" /\ window[j] = 0
        /\ look'[j] \in {"trusted", "untrusted", "asking"}
        /\ look'[j] = "trusted" => endpoint = "sound"
        /\ \A k \in Jobs : k # j => look'[k] = look[k]
    BY <1>7 DEF AskEndpoint, TypeOK
  <2>3. UNCHANGED <<timers, job, ladder, world, endpoint>>
    BY <1>7 DEF AskEndpoint
  <2> QED
    BY <2>1, <2>2, <2>3 DEF timers, world, ladder, TypeOK, WindowClosed, LagIsOutwaited,
            LookIsDue, SecondLookIsTrue, EndpointIsProved, PayerIsNeverDenied
<1>8. ASSUME NEW j \in Jobs, Distrust(j) PROVE IInv'
  BY <1>8, DeferInv DEF Distrust, Inconclusive
<1>9. ASSUME NEW j \in Jobs, Verdict(j) PROVE IInv'
  <2>1. /\ look[j] = "trusted" /\ look' = [look EXCEPT ![j] = "none"]
        /\ UNCHANGED <<timers, world, probe>>
    BY <1>9 DEF Verdict
  <2>2. CASE j \in saw
    <3>1. job' = [job EXCEPT ![j] = "unpaid"] /\ UNCHANGED ladder
      BY <1>9, <2>2 DEF Verdict
    <3>2. payment[j] = NotPaid /\ window[j] = 0
      BY <2>1, <2>2 DEF SecondLookIsTrue, EndpointIsProved, WindowClosed
    <3>3. TypeOK'
      BY <2>1, <3>1 DEF TypeOK, Looks, timers, world, probe, ladder
    <3> QED
      BY <2>1, <3>1, <3>2, <3>3 DEF timers, world, probe, ladder, TypeOK, WindowClosed,
              LagIsOutwaited, LookIsDue, SecondLookIsTrue, EndpointIsProved, PayerIsNeverDenied
  <2>3. CASE j \notin saw
    <3>1. note(j, TRUE) /\ UNCHANGED job
      BY <1>9, <2>3 DEF Verdict
    <3>3. /\ wait' \in [Jobs -> Nat] /\ attempts' \in [Jobs -> 0..Len(Rungs)]
          /\ \A k \in Jobs : k # j => wait'[k] = wait[k]
          /\ saw' = saw \cup {j} /\ faults' = faults
          /\ Less(MaxLag) <= wait'[j]
      BY <3>1, NoteEmpty
    <3>4. TypeOK'
      BY <2>1, <3>1, <3>3 DEF TypeOK, Looks, timers, world, probe
    <3>5. LagIsOutwaited'
      <4>1. payment[j] # NotPaid => payment[j] <= wait'[j]
        <5>1. payment[j] # NotPaid => payment[j] <= Less(MaxLag)
          BY <2>1 DEF WindowClosed, LagHasBegun
        <5> QED
          BY <3>3, <5>1, LessType, Numbers DEF TypeOK
      <4> QED
        BY <2>1, <3>3, <4>1 DEF LagIsOutwaited, timers, TypeOK
    <3> QED
      BY <2>1, <3>1, <3>3, <3>4, <3>5 DEF timers, world, probe, TypeOK, WindowClosed,
              LookIsDue, SecondLookIsTrue, EndpointIsProved, PayerIsNeverDenied
  <2> QED
    BY <2>2, <2>3
<1>10. ASSUME NEW j \in Jobs, Pay(j) PROVE IInv'
  <2>1. PICK lag \in 0..MaxLag : payment' = [payment EXCEPT ![j] = lag]
    BY <1>10 DEF Pay
  <2>2. window[j] > 0 /\ UNCHANGED <<half, ticked, job, window, look, ladder, world, probe>>
    BY <1>10 DEF Pay
  <2>3. TypeOK'
    BY <2>1, <2>2 DEF TypeOK, ladder, world, probe
  <2>4. j \notin saw /\ job[j] # "unpaid"
    BY <2>2 DEF WindowClosed, TypeOK
  <2> QED
    BY <2>1, <2>2, <2>3, <2>4 DEF ladder, world, probe, TypeOK, WindowClosed, LagIsOutwaited,
            LookIsDue, SecondLookIsTrue, EndpointIsProved, PayerIsNeverDenied
<1>11. CASE Restart
  <2>1. /\ saw' = {} /\ look' = [k \in Jobs |-> "none"]
        /\ endpoint' = "unchecked"
        /\ UNCHANGED <<job, window, payment>>
    BY <1>11 DEF Restart
  <2>2. wait' \in [Jobs -> Nat] /\ attempts' \in [Jobs -> 0..Len(Rungs)]
    BY <1>11, Numbers DEF Restart
  <2>3. TypeOK'
    BY <1>11, <2>2 DEF Restart, TypeOK, Looks
  <2> QED
    BY <1>11, <2>1, <2>3 DEF Restart, WindowClosed, LagIsOutwaited, LookIsDue,
            SecondLookIsTrue, EndpointIsProved, PayerIsNeverDenied
<1>12. CASE UNCHANGED vars
  BY <1>12 DEF vars, TypeOK, WindowClosed, LagIsOutwaited, LookIsDue, SecondLookIsTrue,
               EndpointIsProved, PayerIsNeverDenied
<1> QED
  BY <1>1, <1>2, <1>3, <1>4, <1>5, <1>6, <1>7, <1>8, <1>9, <1>10, <1>11, <1>12 DEF Next, LookStep

-----------------------------------------------------------------------------
\* Every variable keeps its type, whatever the constants are.
THEOREM TypeCorrect == Spec => []TypeOK
<1>1. IInv => TypeOK
  BY DEF IInv
<1> QED
  BY InitInv, NextInv, <1>1, PTL DEF Spec

\* A customer who paid inside the window is never closed as unpaid, for every
\* ladder whose floored rungs outwait the lag of the index.
THEOREM PayerSafe == Spec => []PayerIsNeverDenied
<1>1. IInv => PayerIsNeverDenied
  BY DEF IInv
<1> QED
  BY InitInv, NextInv, <1>1, PTL DEF Spec

(***************************************************************************)
(* The watched window.  Only three things set a timer: the scan budget, a  *)
(* look inside the window and note.  The first two stay within the first   *)
(* rung; note is reached after a faulty look, which is remembered, or      *)
(* after a clean one, which concludes something and so comes when the      *)
(* window is over (WindowClosed).                                          *)
(***************************************************************************)
\* Deferring a job inside its window waits for the first rung at most.
LEMMA AwaitKeepsWatch ==
    ASSUME IInv, WindowIsWatched, NEW j \in Jobs, AwaitWindow(j)
    PROVE  WindowIsWatched'
<1>1. PICK d \in Delays(1) : wait' = [wait EXCEPT ![j] = d]
  BY DEF AwaitWindow, noteAwaitingWindow
<1>2. d <= 2 * Rungs[1] + 1
  BY <1>1 DEF Delays
<1>3. UNCHANGED <<job, window, faults>>
  BY DEF AwaitWindow, noteAwaitingWindow, timers
<1>4. \A k \in Jobs : wait'[k] = IF k = j THEN d ELSE wait[k]
  BY <1>1 DEF IInv, TypeOK
<1> QED
  BY <1>2, <1>3, <1>4 DEF WindowIsWatched, Open

\* A faulty look is remembered, and leaves the timers of the other jobs alone.
LEMMA FaultKeepsWatch ==
    ASSUME IInv, WindowIsWatched, NEW j \in Jobs, Inconclusive(j), UNCHANGED window
    PROVE  WindowIsWatched'
<1>1. note(j, FALSE) /\ UNCHANGED job
  BY DEF Inconclusive
<1>2. \A k \in Jobs : k # j => wait'[k] = wait[k]
  BY <1>1, NoteFaulty DEF IInv
<1>3. faults' = faults \cup {j}
  BY <1>1 DEF note
<1> QED
  BY <1>1, <1>2, <1>3 DEF WindowIsWatched, Open

LEMMA WatchKept == IInv /\ WindowIsWatched /\ [Next]_vars => WindowIsWatched'
<1> SUFFICES ASSUME IInv, WindowIsWatched, [Next]_vars PROVE WindowIsWatched'
  OBVIOUS
<1>0. /\ Rungs[1] \in Nat /\ Rungs[1] >= 1
      /\ \A i \in Jobs : wait[i] \in Nat /\ window[i] \in Nat
  BY Numbers DEF IInv, TypeOK
<1>1. CASE Tick
  <2>1. PICK parked \in [Due \ Chosen -> {0, 1}] :
           wait' = [i \in Jobs |-> IF i \in DOMAIN parked THEN parked[i] ELSE wait[i]]
    BY <1>1 DEF Tick
  <2>2. UNCHANGED <<job, window, faults>>
    BY <1>1 DEF Tick
  <2>3. \A i \in Jobs : wait'[i] <= 2 * Rungs[1] + 1 \/ wait'[i] = wait[i]
    <3> SUFFICES ASSUME NEW i \in Jobs, wait'[i] # wait[i] PROVE wait'[i] <= 2 * Rungs[1] + 1
      OBVIOUS
    <3>1. i \in DOMAIN parked /\ wait'[i] = parked[i] /\ parked[i] \in {0, 1}
      BY <2>1
    <3> QED
      BY <1>0, <3>1
  <2> QED
    BY <2>2, <2>3 DEF WindowIsWatched, Open
<1>2. CASE Pass
  <2>1. /\ \A i \in Jobs : window'[i] = Less(window[i]) /\ wait'[i] = Less(wait[i])
        /\ UNCHANGED <<job, faults>>
    BY <1>2 DEF Pass
  <2> SUFFICES ASSUME NEW i \in Open', i \notin faults', window'[i] > 0
               PROVE  wait'[i] <= 2 * Rungs[1] + 1
    BY DEF WindowIsWatched
  <2>2. i \in Open \ faults /\ i \in Jobs
    BY <2>1 DEF Open
  <2>3. window[i] > 0 /\ wait'[i] <= wait[i] /\ wait'[i] \in Nat
    BY <1>0, <2>1, <2>2 DEF Less
  <2>4. wait[i] <= 2 * Rungs[1] + 1
    BY <2>2, <2>3 DEF WindowIsWatched
  <2> QED
    BY <1>0, <2>2, <2>3, <2>4
<1>3. ASSUME NEW j \in Jobs, List(j) PROVE WindowIsWatched'
  <2>1. UNCHANGED window
    BY <1>3 DEF List, timers
  <2>2. CASE Inconclusive(j)
    BY <2>1, <2>2, FaultKeepsWatch
  <2>3. CASE job' = [job EXCEPT ![j] = "settled"] /\ clear(j)
    <3>1. /\ \A i \in Jobs : job'[i] = "open" => i # j /\ job[i] = "open" /\ wait'[i] = wait[i]
          /\ UNCHANGED faults
      BY <2>3 DEF clear, IInv, TypeOK
    <3> QED
      BY <2>1, <3>1 DEF WindowIsWatched, Open
  <2>4. CASE UNCHANGED <<job, ladder>>
    BY <2>1, <2>4 DEF WindowIsWatched, Open, ladder
  <2> QED
    BY <1>3, <2>2, <2>3, <2>4 DEF List
<1>4. ASSUME NEW j \in Jobs, AwaitWindow(j) PROVE WindowIsWatched'
  BY <1>4, AwaitKeepsWatch
<1>5. ASSUME NEW j \in Jobs, Distrust(j) PROVE WindowIsWatched'
  BY <1>5, FaultKeepsWatch DEF Distrust, timers
<1>6. ASSUME NEW j \in Jobs, Verdict(j) PROVE WindowIsWatched'
  <2>1. window[j] = 0 /\ UNCHANGED window
    BY <1>6 DEF Verdict, IInv, WindowClosed, timers
  <2>2. \A i \in Jobs : i # j => job'[i] = job[i] /\ wait'[i] = wait[i]
    BY <1>6, NoteEmpty DEF Verdict, IInv, TypeOK, ladder
  <2>3. faults' = faults
    BY <1>6 DEF Verdict, note, ladder
  <2> QED
    BY <1>0, <2>1, <2>2, <2>3 DEF WindowIsWatched, Open
<1>7. CASE Restart
  <2>1. \A i \in Jobs : wait'[i] = 0
    BY <1>7 DEF Restart
  <2> QED
    BY <1>0, <2>1 DEF WindowIsWatched, Open
<1>8. CASE \/ \E j \in Jobs : AskEndpoint(j) \/ Pay(j)
           \/ ProbeAnswers \/ Calm \/ UNCHANGED vars
  <2>1. UNCHANGED <<job, window, wait, faults>>
    BY <1>8 DEF AskEndpoint, Pay, ProbeAnswers, Calm, vars, timers, ladder
  <2> QED
    BY <2>1 DEF WindowIsWatched, Open
<1> QED
  BY <1>1, <1>2, <1>3, <1>4, <1>5, <1>6, <1>7, <1>8 DEF Next, LookStep

\* A job whose payment window is open, and whose looks have not failed, is never
\* put off beyond the first rung and its jitter (noteAwaitingWindow,
\* parkForCapacity), for every ladder, scan budget and length of the window.
THEOREM WindowWatched == Spec => []WindowIsWatched
<1>1. Init => WindowIsWatched
  <2> SUFFICES ASSUME Init, NEW j \in Jobs PROVE wait[j] <= 2 * Rungs[1] + 1
    BY DEF WindowIsWatched, Open
  <2>1. wait[j] = 0 /\ Rungs[1] \in Nat
    BY Numbers DEF Init
  <2> QED
    BY <2>1
<1> QED
  BY InitInv, NextInv, <1>1, WatchKept, PTL DEF Spec
=============================================================================
