-------------------------- MODULE OrdersLockProofs --------------------------
(***************************************************************************)
(* Proofs about OrdersLock: the lock is held by one process at a time, and *)
(* so every update of the order file is one step, for any number of        *)
(* processes, pids, hosts and calls.                                       *)
(***************************************************************************)
EXTENDS OrdersLock, FiniteSetTheorems, TLAPS

\* A call that has not written its token yet, and one that has.
Before == {"try", "judge", "break", "under", "unlink", "unguard", "failed", "fill"}

Holding == {"load", "save", "done", "drop"}

Guarding == {"under", "unlink", "unguard", "failed"}

Up(p) == at[p] # "down"

Calling(p) == at[p] \in Before \cup Holding

\* The lock names its holder, or is blank while one process fills it.
LockIsHeld ==
    /\ \A p \in Procs : at[p] \in Holding => lock = me[p]
    /\ \A p \in Procs : at[p] = "fill" => lock = Blank
    /\ \A p, q \in Procs : at[p] = "fill" /\ at[q] = "fill" => p = q

PidsDiffer ==
    \A p, q \in Procs :
        Up(p) /\ Up(q) /\ me[p].pid = me[q].pid /\ me[p].place = me[q].place => p = q

\* A token is drawn once.
TokensAreDrawn ==
    /\ lock \in Identity => lock.token <= calls
    /\ \A p \in Procs : me[p].token <= calls /\ (saw[p] \in Identity => saw[p].token <= calls)
    /\ \A p, q \in Procs : Calling(p) /\ Calling(q) /\ me[p].token = me[q].token => p = q

\* A token that was read was written, by the one who holds it.
TokensAreWritten ==
    /\ \A p \in Procs : at[p] \in Before /\ lock \in Identity => lock.token # me[p].token
    /\ \A p, q \in Procs :
          at[p] \in Before /\ saw[q] \in Identity => saw[q].token # me[p].token
    /\ \A p, q \in Procs :
          at[p] \in Holding /\ saw[q] \in Identity /\ saw[q].token = me[p].token
            => saw[q] = me[p]

\* What a breaker removes belongs to no call that runs.
JudgedIsDead ==
    \A p \in Procs : at[p] \in {"break", "under", "unlink"} =>
        /\ saw[p] \in Identity
        /\ \A q \in Procs : Calling(q) => me[q].token # saw[p].token

OneBreaks ==
    /\ \A p \in Procs : at[p] \in Guarding => guard
    /\ \A p, q \in Procs : at[p] \in Guarding /\ at[q] \in Guarding => p = q
    /\ \A p \in Procs : at[p] = "unlink" => lock \in Identity /\ lock.token = saw[p].token

\* What was loaded is still in the file when it is written back.
LoadedIsCurrent == \A p \in Procs : at[p] = "save" => seen[p] = orders

IInv ==
    /\ TypeOK /\ LockIsHeld /\ PidsDiffer /\ TokensAreDrawn /\ TokensAreWritten
    /\ JudgedIsDead /\ OneBreaks /\ LoadedIsCurrent

\* One process at a time reads, judges and writes the order file
\* (withOrdersLock).
OneWriter == \A p, q \in Procs : at[p] \in {"load", "save"} /\ at[q] \in {"load", "save"} => p = q

-----------------------------------------------------------------------------
\* An update keeps the file's type and limit (capped).
LEMMA UpdateKeepsType ==
    ASSUME NEW f \in [Orders -> States], Cardinality(Present(f)) <= MaxOrders,
           NEW o \in Orders, NEW g \in Updates(f, o)
    PROVE  /\ g \in [Orders -> States]
           /\ Cardinality(Present(g)) <= MaxOrders
<1> DEFINE h == [f EXCEPT ![o] = Following[f[o]]]
<1>1. f[o] \in {"absent", "created", "open"} /\ g \in capped(h, o)
  BY DEF Updates, Following
<1>2. h \in [Orders -> States]
  BY <1>1 DEF Following, States
<1> HIDE DEF h
<1>3. CASE Cardinality(Present(h)) <= MaxOrders
  BY <1>1, <1>2, <1>3 DEF capped
<1>4. CASE ~(Cardinality(Present(h)) <= MaxOrders)
  <2>1. PICK q \in Prunable(h) \ {o} : g = [h EXCEPT ![q] = "absent"]
    BY <1>1, <1>4 DEF capped
  <2>2. g \in [Orders -> States]
    BY <1>2, <2>1 DEF States, Prunable
  <2>3. Present(g) = Present(h) \ {q}
    BY <1>2, <2>1 DEF Present, Prunable
  <2>4. q \in Present(h)
    BY <2>1 DEF Present, Prunable
  <2>5. Present(h) \subseteq Present(f) \cup {o}
    BY DEF Present, h
  <2>6. IsFiniteSet(Present(f)) /\ IsFiniteSet(Present(h))
    BY CapAssumption, FS_Subset DEF Present
  <2>7. IsFiniteSet(Present(f) \cup {o})
        /\ Cardinality(Present(f) \cup {o}) <= Cardinality(Present(f)) + 1
    <3>1. Cardinality(Present(f)) \in Nat
      BY <2>6, FS_CardinalityType
    <3>2. /\ IsFiniteSet(Present(f) \cup {o})
          /\ \/ Cardinality(Present(f) \cup {o}) = Cardinality(Present(f))
             \/ Cardinality(Present(f) \cup {o}) = Cardinality(Present(f)) + 1
      BY <2>6, FS_AddElement
    <3> QED BY <3>1, <3>2
  <2>8. Cardinality(Present(h)) <= Cardinality(Present(f) \cup {o})
    BY <2>5, <2>7, FS_Subset
  <2>9. Cardinality(Present(g)) = Cardinality(Present(h)) - 1
    BY <2>3, <2>4, <2>6, FS_RemoveElement
  <2>10. /\ Cardinality(Present(f)) \in Nat /\ Cardinality(Present(h)) \in Nat
         /\ Cardinality(Present(f) \cup {o}) \in Nat
    BY <2>6, <2>7, FS_CardinalityType
  <2> QED BY <2>2, <2>7, <2>8, <2>9, <2>10, CapAssumption
<1> QED BY <1>3, <1>4

LEMMA IdentityFields ==
    ASSUME NEW i \in Identity
    PROVE  /\ i.token \in 0..MaxCalls /\ i.pid \in Pids /\ i.place \in Places
           /\ i # None /\ i # Blank
  BY LockAssumption DEF Identity

LEMMA InitHolds == Init => IInv
<1> SUFFICES ASSUME Init PROVE IInv
  OBVIOUS
<1>1. Present(orders) = {}
  BY DEF Init, FileInit, Present
<1>2. Cardinality(Present(orders)) <= MaxOrders
  BY <1>1, FS_EmptySet, CapAssumption
<1>3. me \in [Procs -> Identity] /\ \A p \in Procs : me[p].token = 0
  BY LockAssumption DEF Init, Identity
<1>4. TypeOK
  <2>1. lock \in Identity \cup {None, Blank} /\ guard \in BOOLEAN /\ orders \in [Orders -> States]
    BY DEF Init, FileInit, States
  <2>2. at \in [Procs -> Steps] /\ saw \in [Procs -> Identity \cup {None, Blank}]
    BY DEF Init, Steps
  <2>3. seen \in [Procs -> [Orders -> States] \cup {None}] /\ calls \in 0..MaxCalls
    BY LockAssumption DEF Init
  <2> QED BY <1>2, <1>3, <2>1, <2>2, <2>3 DEF TypeOK
<1>5. LockIsHeld /\ PidsDiffer /\ OneBreaks /\ LoadedIsCurrent /\ JudgedIsDead
  BY DEF Init, LockIsHeld, PidsDiffer, Up, OneBreaks, LoadedIsCurrent, JudgedIsDead, Holding, Guarding
<1>6. TokensAreDrawn /\ TokensAreWritten
  BY <1>3, LockAssumption DEF Init, TokensAreDrawn, TokensAreWritten, Calling, Before, Holding
<1> QED BY <1>4, <1>5, <1>6 DEF IInv

LEMMA StepTypeOK == ASSUME IInv, [Next]_vars PROVE TypeOK'
<1> USE DEF IInv, TypeOK, Steps, Goes
<1>1. ASSUME NEW p \in Procs, Call(p) PROVE TypeOK'
  <2>1. [token |-> calls + 1, pid |-> me[p].pid, place |-> me[p].place] \in Identity
    BY <1>1, LockAssumption, IdentityFields DEF Call, Identity
  <2> QED BY <1>1, <2>1, LockAssumption DEF Call
<1>2. ASSUME NEW p \in Procs, CreateLock(p) PROVE TypeOK'
  BY <1>2 DEF CreateLock
<1>3. ASSUME NEW p \in Procs, FillLock(p) PROVE TypeOK'
  BY <1>3 DEF FillLock
<1>4. ASSUME NEW p \in Procs, ReadLock(p) PROVE TypeOK'
  BY <1>4 DEF ReadLock
<1>5. ASSUME NEW p \in Procs, Judge(p) PROVE TypeOK'
  BY <1>5 DEF Judge, Forgets
<1>6. ASSUME NEW p \in Procs, GiveUp(p) PROVE TypeOK'
  BY <1>6 DEF GiveUp, Forgets
<1>7. ASSUME NEW p \in Procs, TakeGuard(p) PROVE TypeOK'
  BY <1>7 DEF TakeGuard
<1>8. ASSUME NEW p \in Procs, ReadAgain(p) PROVE TypeOK'
  BY <1>8 DEF ReadAgain
<1>9. ASSUME NEW p \in Procs, UnlinkDead(p) PROVE TypeOK'
  BY <1>9 DEF UnlinkDead
<1>10. ASSUME NEW p \in Procs, DropGuard(p) PROVE TypeOK'
  BY <1>10 DEF DropGuard, Forgets
<1>11. ASSUME NEW p \in Procs, Load(p) PROVE TypeOK'
  BY <1>11 DEF Load
<1>12. ASSUME NEW p \in Procs, NEW o \in Orders, Save(p, o) PROVE TypeOK'
  <2>1. seen[p] = orders
    BY <1>12 DEF Save, LoadedIsCurrent
  <2>2. orders' \in Updates(orders, o)
    BY <1>12, <2>1 DEF Save
  <2>3. orders' \in [Orders -> States] /\ Cardinality(Present(orders')) <= MaxOrders
    BY <2>2, UpdateKeepsType
  <2> QED BY <1>12, <2>3 DEF Save, Drops, Present
<1>13. ASSUME NEW p \in Procs, Refuse(p) PROVE TypeOK'
  BY <1>13 DEF Refuse, Drops
<1>14. ASSUME NEW p \in Procs, Release(p) PROVE TypeOK'
  BY <1>14 DEF Release
<1>15. ASSUME NEW p \in Procs, DropLock(p) PROVE TypeOK'
  BY <1>15 DEF DropLock
<1>16. ASSUME NEW p \in Procs, Crash(p) PROVE TypeOK'
  BY <1>16 DEF Crash, Forgets, Drops
<1>17. ASSUME NEW p \in Procs, Start(p) PROVE TypeOK'
  <2>1. \A pid \in Pids, place \in Places :
           [token |-> 0, pid |-> pid, place |-> place] \in Identity
    BY LockAssumption DEF Identity
  <2> QED BY <1>17, <2>1 DEF Start
<1>18. ASSUME RemoveByHand PROVE TypeOK'
  BY <1>18 DEF RemoveByHand
<1>19. ASSUME UNCHANGED vars PROVE TypeOK'
  BY <1>19 DEF vars, Present
<1> QED BY <1>1, <1>2, <1>3, <1>4, <1>5, <1>6, <1>7, <1>8, <1>9, <1>10, <1>11, <1>12, <1>13,
           <1>14, <1>15, <1>16, <1>17, <1>18, <1>19 DEF Next, Step
LEMMA StepLockIsHeld == ASSUME IInv, [Next]_vars PROVE LockIsHeld'
<1> USE DEF TypeOK, Goes, LockIsHeld, PidsDiffer, JudgedIsDead, OneBreaks, Holding, Calling, Up, Before
<1>0. TypeOK /\ LockIsHeld /\ PidsDiffer /\ JudgedIsDead /\ OneBreaks
  BY DEF IInv
<1>d. None \notin Identity /\ Blank \notin Identity /\ None # Blank
  BY LockAssumption
<1>1. ASSUME NEW p \in Procs, Call(p) PROVE LockIsHeld'
  BY <1>0, <1>d, <1>1 DEF Call
<1>2. ASSUME NEW p \in Procs, CreateLock(p) PROVE LockIsHeld'
  BY <1>0, <1>d, <1>2 DEF CreateLock
<1>3. ASSUME NEW p \in Procs, FillLock(p) PROVE LockIsHeld'
  BY <1>0, <1>d, <1>3 DEF FillLock
<1>4. ASSUME NEW p \in Procs, ReadLock(p) PROVE LockIsHeld'
  BY <1>0, <1>d, <1>4 DEF ReadLock
<1>5. ASSUME NEW p \in Procs, Judge(p) PROVE LockIsHeld'
  BY <1>0, <1>d, <1>5 DEF Judge, Forgets, FindsDead, holderIsDead, isAlive, held
<1>6. ASSUME NEW p \in Procs, GiveUp(p) PROVE LockIsHeld'
  BY <1>0, <1>d, <1>6 DEF GiveUp, Forgets
<1>7. ASSUME NEW p \in Procs, TakeGuard(p) PROVE LockIsHeld'
  BY <1>0, <1>d, <1>7 DEF TakeGuard
<1>8. ASSUME NEW p \in Procs, ReadAgain(p) PROVE LockIsHeld'
  BY <1>0, <1>d, <1>8 DEF ReadAgain
<1>9. ASSUME NEW p \in Procs, UnlinkDead(p) PROVE LockIsHeld'
  BY <1>0, <1>d, <1>9 DEF UnlinkDead
<1>10. ASSUME NEW p \in Procs, DropGuard(p) PROVE LockIsHeld'
  BY <1>0, <1>d, <1>10 DEF DropGuard, Forgets
<1>11. ASSUME NEW p \in Procs, Load(p) PROVE LockIsHeld'
  BY <1>0, <1>d, <1>11 DEF Load
<1>12. ASSUME NEW p \in Procs, NEW o \in Orders, Save(p, o) PROVE LockIsHeld'
  BY <1>0, <1>d, <1>12 DEF Save, Drops
<1>13. ASSUME NEW p \in Procs, Refuse(p) PROVE LockIsHeld'
  BY <1>0, <1>d, <1>13 DEF Refuse, Drops
<1>14. ASSUME NEW p \in Procs, Release(p) PROVE LockIsHeld'
  BY <1>0, <1>d, <1>14 DEF Release
<1>15. ASSUME NEW p \in Procs, DropLock(p) PROVE LockIsHeld'
  BY <1>0, <1>d, <1>15 DEF DropLock
<1>16. ASSUME NEW p \in Procs, Crash(p) PROVE LockIsHeld'
  BY <1>0, <1>d, <1>16 DEF Crash, Forgets, Drops
<1>17. ASSUME NEW p \in Procs, Start(p) PROVE LockIsHeld'
  BY <1>0, <1>d, <1>17 DEF Start, isAlive
<1>18. ASSUME RemoveByHand PROVE LockIsHeld'
  BY <1>0, <1>d, <1>18 DEF RemoveByHand
<1>19. ASSUME UNCHANGED vars PROVE LockIsHeld'
  BY <1>0, <1>d, <1>19 DEF vars
<1> QED BY <1>1, <1>2, <1>3, <1>4, <1>5, <1>6, <1>7, <1>8, <1>9, <1>10, <1>11, <1>12, <1>13, <1>14, <1>15, <1>16, <1>17, <1>18, <1>19 DEF Next, Step

LEMMA StepPidsDiffer == ASSUME IInv, [Next]_vars PROVE PidsDiffer'
<1> USE DEF TypeOK, Goes, PidsDiffer, Up
<1>0. TypeOK /\ PidsDiffer
  BY DEF IInv
<1>d. None \notin Identity /\ Blank \notin Identity /\ None # Blank
  BY LockAssumption
<1>1. ASSUME NEW p \in Procs, Call(p) PROVE PidsDiffer'
  BY <1>0, <1>d, <1>1 DEF Call
<1>2. ASSUME NEW p \in Procs, CreateLock(p) PROVE PidsDiffer'
  BY <1>0, <1>d, <1>2 DEF CreateLock
<1>3. ASSUME NEW p \in Procs, FillLock(p) PROVE PidsDiffer'
  BY <1>0, <1>d, <1>3 DEF FillLock
<1>4. ASSUME NEW p \in Procs, ReadLock(p) PROVE PidsDiffer'
  BY <1>0, <1>d, <1>4 DEF ReadLock
<1>5. ASSUME NEW p \in Procs, Judge(p) PROVE PidsDiffer'
  BY <1>0, <1>d, <1>5 DEF Judge, Forgets, FindsDead, holderIsDead, isAlive, held
<1>6. ASSUME NEW p \in Procs, GiveUp(p) PROVE PidsDiffer'
  BY <1>0, <1>d, <1>6 DEF GiveUp, Forgets
<1>7. ASSUME NEW p \in Procs, TakeGuard(p) PROVE PidsDiffer'
  BY <1>0, <1>d, <1>7 DEF TakeGuard
<1>8. ASSUME NEW p \in Procs, ReadAgain(p) PROVE PidsDiffer'
  BY <1>0, <1>d, <1>8 DEF ReadAgain
<1>9. ASSUME NEW p \in Procs, UnlinkDead(p) PROVE PidsDiffer'
  BY <1>0, <1>d, <1>9 DEF UnlinkDead
<1>10. ASSUME NEW p \in Procs, DropGuard(p) PROVE PidsDiffer'
  BY <1>0, <1>d, <1>10 DEF DropGuard, Forgets
<1>11. ASSUME NEW p \in Procs, Load(p) PROVE PidsDiffer'
  BY <1>0, <1>d, <1>11 DEF Load
<1>12. ASSUME NEW p \in Procs, NEW o \in Orders, Save(p, o) PROVE PidsDiffer'
  BY <1>0, <1>d, <1>12 DEF Save, Drops
<1>13. ASSUME NEW p \in Procs, Refuse(p) PROVE PidsDiffer'
  BY <1>0, <1>d, <1>13 DEF Refuse, Drops
<1>14. ASSUME NEW p \in Procs, Release(p) PROVE PidsDiffer'
  BY <1>0, <1>d, <1>14 DEF Release
<1>15. ASSUME NEW p \in Procs, DropLock(p) PROVE PidsDiffer'
  BY <1>0, <1>d, <1>15 DEF DropLock
<1>16. ASSUME NEW p \in Procs, Crash(p) PROVE PidsDiffer'
  BY <1>0, <1>d, <1>16 DEF Crash, Forgets, Drops
<1>17. ASSUME NEW p \in Procs, Start(p) PROVE PidsDiffer'
  BY <1>0, <1>d, <1>17 DEF Start, isAlive
<1>18. ASSUME RemoveByHand PROVE PidsDiffer'
  BY <1>0, <1>d, <1>18 DEF RemoveByHand
<1>19. ASSUME UNCHANGED vars PROVE PidsDiffer'
  BY <1>0, <1>d, <1>19 DEF vars
<1> QED BY <1>1, <1>2, <1>3, <1>4, <1>5, <1>6, <1>7, <1>8, <1>9, <1>10, <1>11, <1>12, <1>13, <1>14, <1>15, <1>16, <1>17, <1>18, <1>19 DEF Next, Step

LEMMA StepTokensAreDrawn == ASSUME IInv, [Next]_vars PROVE TokensAreDrawn'
<1> USE DEF TypeOK, Goes, TokensAreDrawn, Calling, Before, Holding
<1>0. TypeOK /\ TokensAreDrawn
  BY DEF IInv
<1>d. None \notin Identity /\ Blank \notin Identity /\ None # Blank
  BY LockAssumption
<1>1. ASSUME NEW p \in Procs, Call(p) PROVE TokensAreDrawn'
  <2>1. /\ calls' = calls + 1 /\ lock' = lock /\ saw' = saw
        /\ me'[p].token = calls + 1 /\ \A q \in Procs \ {p} : me'[q] = me[q]
        /\ \A q \in Procs \ {p} : at'[q] = at[q]
    BY <1>0, <1>1 DEF Call
  <2>2. calls \in Nat /\ \A q \in Procs : me[q].token \in Nat
    BY <1>0, LockAssumption, IdentityFields
  <2>3. \A i \in Identity : i.token \in Nat
    BY LockAssumption, IdentityFields
  <2>4. \A q \in Procs : me'[q].token <= calls'
    BY <1>0, <2>1, <2>2
  <2>5. /\ lock' \in Identity => lock'.token <= calls'
        /\ \A q \in Procs : saw'[q] \in Identity => saw'[q].token <= calls'
    BY <1>0, <2>1, <2>2, <2>3
  <2>6. ASSUME NEW q \in Procs, NEW r \in Procs, q # r, Calling(q)', Calling(r)'
        PROVE  me'[q].token # me'[r].token
    <3>1. CASE q # p /\ r # p
      BY <1>0, <2>1, <2>6, <3>1
    <3>2. CASE q = p \/ r = p
      BY <1>0, <2>1, <2>2, <2>6, <3>2
    <3> QED BY <3>1, <3>2
  <2> QED BY <2>4, <2>5, <2>6
<1>2. ASSUME NEW p \in Procs, CreateLock(p) PROVE TokensAreDrawn'
  BY <1>0, <1>d, <1>2 DEF CreateLock
<1>3. ASSUME NEW p \in Procs, FillLock(p) PROVE TokensAreDrawn'
  BY <1>0, <1>d, <1>3 DEF FillLock
<1>4. ASSUME NEW p \in Procs, ReadLock(p) PROVE TokensAreDrawn'
  BY <1>0, <1>d, <1>4 DEF ReadLock
<1>5. ASSUME NEW p \in Procs, Judge(p) PROVE TokensAreDrawn'
  BY <1>0, <1>d, <1>5 DEF Judge, Forgets, FindsDead, holderIsDead, isAlive, held
<1>6. ASSUME NEW p \in Procs, GiveUp(p) PROVE TokensAreDrawn'
  BY <1>0, <1>d, <1>6 DEF GiveUp, Forgets
<1>7. ASSUME NEW p \in Procs, TakeGuard(p) PROVE TokensAreDrawn'
  BY <1>0, <1>d, <1>7 DEF TakeGuard
<1>8. ASSUME NEW p \in Procs, ReadAgain(p) PROVE TokensAreDrawn'
  BY <1>0, <1>d, <1>8 DEF ReadAgain
<1>9. ASSUME NEW p \in Procs, UnlinkDead(p) PROVE TokensAreDrawn'
  BY <1>0, <1>d, <1>9 DEF UnlinkDead
<1>10. ASSUME NEW p \in Procs, DropGuard(p) PROVE TokensAreDrawn'
  BY <1>0, <1>d, <1>10 DEF DropGuard, Forgets
<1>11. ASSUME NEW p \in Procs, Load(p) PROVE TokensAreDrawn'
  BY <1>0, <1>d, <1>11 DEF Load
<1>12. ASSUME NEW p \in Procs, NEW o \in Orders, Save(p, o) PROVE TokensAreDrawn'
  BY <1>0, <1>d, <1>12 DEF Save, Drops
<1>13. ASSUME NEW p \in Procs, Refuse(p) PROVE TokensAreDrawn'
  BY <1>0, <1>d, <1>13 DEF Refuse, Drops
<1>14. ASSUME NEW p \in Procs, Release(p) PROVE TokensAreDrawn'
  BY <1>0, <1>d, <1>14 DEF Release
<1>15. ASSUME NEW p \in Procs, DropLock(p) PROVE TokensAreDrawn'
  BY <1>0, <1>d, <1>15 DEF DropLock
<1>16. ASSUME NEW p \in Procs, Crash(p) PROVE TokensAreDrawn'
  BY <1>0, <1>d, <1>16 DEF Crash, Forgets, Drops
<1>17. ASSUME NEW p \in Procs, Start(p) PROVE TokensAreDrawn'
  BY <1>0, <1>d, <1>17 DEF Start, isAlive
<1>18. ASSUME RemoveByHand PROVE TokensAreDrawn'
  BY <1>0, <1>d, <1>18 DEF RemoveByHand
<1>19. ASSUME UNCHANGED vars PROVE TokensAreDrawn'
  BY <1>0, <1>d, <1>19 DEF vars
<1> QED BY <1>1, <1>2, <1>3, <1>4, <1>5, <1>6, <1>7, <1>8, <1>9, <1>10, <1>11, <1>12, <1>13, <1>14, <1>15, <1>16, <1>17, <1>18, <1>19 DEF Next, Step

LEMMA StepTokensAreWritten == ASSUME IInv, [Next]_vars PROVE TokensAreWritten'
<1> USE DEF TypeOK, Goes, TokensAreDrawn, TokensAreWritten, LockIsHeld, Calling, Before, Holding
<1>0. TypeOK /\ TokensAreDrawn /\ TokensAreWritten /\ LockIsHeld
  BY DEF IInv
<1>d. None \notin Identity /\ Blank \notin Identity /\ None # Blank
  BY LockAssumption
<1>1. ASSUME NEW p \in Procs, Call(p) PROVE TokensAreWritten'
  BY <1>0, <1>d, <1>1 DEF Call
<1>2. ASSUME NEW p \in Procs, CreateLock(p) PROVE TokensAreWritten'
  BY <1>0, <1>d, <1>2 DEF CreateLock
<1>3. ASSUME NEW p \in Procs, FillLock(p) PROVE TokensAreWritten'
  BY <1>0, <1>d, <1>3 DEF FillLock
<1>4. ASSUME NEW p \in Procs, ReadLock(p) PROVE TokensAreWritten'
  BY <1>0, <1>d, <1>4 DEF ReadLock
<1>5. ASSUME NEW p \in Procs, Judge(p) PROVE TokensAreWritten'
  BY <1>0, <1>d, <1>5 DEF Judge, Forgets, FindsDead, holderIsDead, isAlive, held
<1>6. ASSUME NEW p \in Procs, GiveUp(p) PROVE TokensAreWritten'
  BY <1>0, <1>d, <1>6 DEF GiveUp, Forgets
<1>7. ASSUME NEW p \in Procs, TakeGuard(p) PROVE TokensAreWritten'
  BY <1>0, <1>d, <1>7 DEF TakeGuard
<1>8. ASSUME NEW p \in Procs, ReadAgain(p) PROVE TokensAreWritten'
  BY <1>0, <1>d, <1>8 DEF ReadAgain
<1>9. ASSUME NEW p \in Procs, UnlinkDead(p) PROVE TokensAreWritten'
  BY <1>0, <1>d, <1>9 DEF UnlinkDead
<1>10. ASSUME NEW p \in Procs, DropGuard(p) PROVE TokensAreWritten'
  BY <1>0, <1>d, <1>10 DEF DropGuard, Forgets
<1>11. ASSUME NEW p \in Procs, Load(p) PROVE TokensAreWritten'
  BY <1>0, <1>d, <1>11 DEF Load
<1>12. ASSUME NEW p \in Procs, NEW o \in Orders, Save(p, o) PROVE TokensAreWritten'
  BY <1>0, <1>d, <1>12 DEF Save, Drops
<1>13. ASSUME NEW p \in Procs, Refuse(p) PROVE TokensAreWritten'
  BY <1>0, <1>d, <1>13 DEF Refuse, Drops
<1>14. ASSUME NEW p \in Procs, Release(p) PROVE TokensAreWritten'
  BY <1>0, <1>d, <1>14 DEF Release
<1>15. ASSUME NEW p \in Procs, DropLock(p) PROVE TokensAreWritten'
  BY <1>0, <1>d, <1>15 DEF DropLock
<1>16. ASSUME NEW p \in Procs, Crash(p) PROVE TokensAreWritten'
  BY <1>0, <1>d, <1>16 DEF Crash, Forgets, Drops
<1>17. ASSUME NEW p \in Procs, Start(p) PROVE TokensAreWritten'
  BY <1>0, <1>d, <1>17 DEF Start, isAlive
<1>18. ASSUME RemoveByHand PROVE TokensAreWritten'
  BY <1>0, <1>d, <1>18 DEF RemoveByHand
<1>19. ASSUME UNCHANGED vars PROVE TokensAreWritten'
  BY <1>0, <1>d, <1>19 DEF vars
<1> QED BY <1>1, <1>2, <1>3, <1>4, <1>5, <1>6, <1>7, <1>8, <1>9, <1>10, <1>11, <1>12, <1>13, <1>14, <1>15, <1>16, <1>17, <1>18, <1>19 DEF Next, Step

LEMMA StepJudgedIsDead == ASSUME IInv, [Next]_vars PROVE JudgedIsDead'
<1> USE DEF TypeOK, Goes, TokensAreDrawn, TokensAreWritten, PidsDiffer, JudgedIsDead, Calling, Before, Holding, Up
<1>0. TypeOK /\ TokensAreDrawn /\ TokensAreWritten /\ PidsDiffer /\ JudgedIsDead
  BY DEF IInv
<1>d. None \notin Identity /\ Blank \notin Identity /\ None # Blank
  BY LockAssumption
<1>1. ASSUME NEW p \in Procs, Call(p) PROVE JudgedIsDead'
  BY <1>0, <1>d, <1>1 DEF Call
<1>2. ASSUME NEW p \in Procs, CreateLock(p) PROVE JudgedIsDead'
  BY <1>0, <1>d, <1>2 DEF CreateLock
<1>3. ASSUME NEW p \in Procs, FillLock(p) PROVE JudgedIsDead'
  BY <1>0, <1>d, <1>3 DEF FillLock
<1>4. ASSUME NEW p \in Procs, ReadLock(p) PROVE JudgedIsDead'
  BY <1>0, <1>d, <1>4 DEF ReadLock
<1>5. ASSUME NEW p \in Procs, Judge(p) PROVE JudgedIsDead'
  BY <1>0, <1>d, <1>5 DEF Judge, Forgets, FindsDead, holderIsDead, isAlive, held
<1>6. ASSUME NEW p \in Procs, GiveUp(p) PROVE JudgedIsDead'
  BY <1>0, <1>d, <1>6 DEF GiveUp, Forgets
<1>7. ASSUME NEW p \in Procs, TakeGuard(p) PROVE JudgedIsDead'
  BY <1>0, <1>d, <1>7 DEF TakeGuard
<1>8. ASSUME NEW p \in Procs, ReadAgain(p) PROVE JudgedIsDead'
  BY <1>0, <1>d, <1>8 DEF ReadAgain
<1>9. ASSUME NEW p \in Procs, UnlinkDead(p) PROVE JudgedIsDead'
  BY <1>0, <1>d, <1>9 DEF UnlinkDead
<1>10. ASSUME NEW p \in Procs, DropGuard(p) PROVE JudgedIsDead'
  BY <1>0, <1>d, <1>10 DEF DropGuard, Forgets
<1>11. ASSUME NEW p \in Procs, Load(p) PROVE JudgedIsDead'
  BY <1>0, <1>d, <1>11 DEF Load
<1>12. ASSUME NEW p \in Procs, NEW o \in Orders, Save(p, o) PROVE JudgedIsDead'
  BY <1>0, <1>d, <1>12 DEF Save, Drops
<1>13. ASSUME NEW p \in Procs, Refuse(p) PROVE JudgedIsDead'
  BY <1>0, <1>d, <1>13 DEF Refuse, Drops
<1>14. ASSUME NEW p \in Procs, Release(p) PROVE JudgedIsDead'
  BY <1>0, <1>d, <1>14 DEF Release
<1>15. ASSUME NEW p \in Procs, DropLock(p) PROVE JudgedIsDead'
  BY <1>0, <1>d, <1>15 DEF DropLock
<1>16. ASSUME NEW p \in Procs, Crash(p) PROVE JudgedIsDead'
  BY <1>0, <1>d, <1>16 DEF Crash, Forgets, Drops
<1>17. ASSUME NEW p \in Procs, Start(p) PROVE JudgedIsDead'
  BY <1>0, <1>d, <1>17 DEF Start, isAlive
<1>18. ASSUME RemoveByHand PROVE JudgedIsDead'
  BY <1>0, <1>d, <1>18 DEF RemoveByHand
<1>19. ASSUME UNCHANGED vars PROVE JudgedIsDead'
  BY <1>0, <1>d, <1>19 DEF vars
<1> QED BY <1>1, <1>2, <1>3, <1>4, <1>5, <1>6, <1>7, <1>8, <1>9, <1>10, <1>11, <1>12, <1>13, <1>14, <1>15, <1>16, <1>17, <1>18, <1>19 DEF Next, Step

LEMMA StepOneBreaks == ASSUME IInv, [Next]_vars PROVE OneBreaks'
<1> USE DEF TypeOK, Goes, OneBreaks, LockIsHeld, JudgedIsDead, Guarding, Calling, Holding, Before
<1>0. TypeOK /\ OneBreaks /\ LockIsHeld /\ JudgedIsDead
  BY DEF IInv
<1>d. None \notin Identity /\ Blank \notin Identity /\ None # Blank
  BY LockAssumption
<1>1. ASSUME NEW p \in Procs, Call(p) PROVE OneBreaks'
  BY <1>0, <1>d, <1>1 DEF Call
<1>2. ASSUME NEW p \in Procs, CreateLock(p) PROVE OneBreaks'
  BY <1>0, <1>d, <1>2 DEF CreateLock
<1>3. ASSUME NEW p \in Procs, FillLock(p) PROVE OneBreaks'
  BY <1>0, <1>d, <1>3 DEF FillLock
<1>4. ASSUME NEW p \in Procs, ReadLock(p) PROVE OneBreaks'
  BY <1>0, <1>d, <1>4 DEF ReadLock
<1>5. ASSUME NEW p \in Procs, Judge(p) PROVE OneBreaks'
  BY <1>0, <1>d, <1>5 DEF Judge, Forgets, FindsDead, holderIsDead, isAlive, held
<1>6. ASSUME NEW p \in Procs, GiveUp(p) PROVE OneBreaks'
  BY <1>0, <1>d, <1>6 DEF GiveUp, Forgets
<1>7. ASSUME NEW p \in Procs, TakeGuard(p) PROVE OneBreaks'
  BY <1>0, <1>d, <1>7 DEF TakeGuard
<1>8. ASSUME NEW p \in Procs, ReadAgain(p) PROVE OneBreaks'
  BY <1>0, <1>d, <1>8 DEF ReadAgain
<1>9. ASSUME NEW p \in Procs, UnlinkDead(p) PROVE OneBreaks'
  BY <1>0, <1>d, <1>9 DEF UnlinkDead
<1>10. ASSUME NEW p \in Procs, DropGuard(p) PROVE OneBreaks'
  BY <1>0, <1>d, <1>10 DEF DropGuard, Forgets
<1>11. ASSUME NEW p \in Procs, Load(p) PROVE OneBreaks'
  BY <1>0, <1>d, <1>11 DEF Load
<1>12. ASSUME NEW p \in Procs, NEW o \in Orders, Save(p, o) PROVE OneBreaks'
  BY <1>0, <1>d, <1>12 DEF Save, Drops
<1>13. ASSUME NEW p \in Procs, Refuse(p) PROVE OneBreaks'
  BY <1>0, <1>d, <1>13 DEF Refuse, Drops
<1>14. ASSUME NEW p \in Procs, Release(p) PROVE OneBreaks'
  BY <1>0, <1>d, <1>14 DEF Release
<1>15. ASSUME NEW p \in Procs, DropLock(p) PROVE OneBreaks'
  BY <1>0, <1>d, <1>15 DEF DropLock
<1>16. ASSUME NEW p \in Procs, Crash(p) PROVE OneBreaks'
  BY <1>0, <1>d, <1>16 DEF Crash, Forgets, Drops
<1>17. ASSUME NEW p \in Procs, Start(p) PROVE OneBreaks'
  BY <1>0, <1>d, <1>17 DEF Start, isAlive
<1>18. ASSUME RemoveByHand PROVE OneBreaks'
  BY <1>0, <1>d, <1>18 DEF RemoveByHand
<1>19. ASSUME UNCHANGED vars PROVE OneBreaks'
  BY <1>0, <1>d, <1>19 DEF vars
<1> QED BY <1>1, <1>2, <1>3, <1>4, <1>5, <1>6, <1>7, <1>8, <1>9, <1>10, <1>11, <1>12, <1>13, <1>14, <1>15, <1>16, <1>17, <1>18, <1>19 DEF Next, Step

LEMMA StepLoadedIsCurrent == ASSUME IInv, [Next]_vars PROVE LoadedIsCurrent'
<1> USE DEF TypeOK, Goes, LoadedIsCurrent, LockIsHeld, PidsDiffer, Holding, Up
<1>0. TypeOK /\ LoadedIsCurrent /\ LockIsHeld /\ PidsDiffer
  BY DEF IInv
<1>d. None \notin Identity /\ Blank \notin Identity /\ None # Blank
  BY LockAssumption
<1>1. ASSUME NEW p \in Procs, Call(p) PROVE LoadedIsCurrent'
  BY <1>0, <1>d, <1>1 DEF Call
<1>2. ASSUME NEW p \in Procs, CreateLock(p) PROVE LoadedIsCurrent'
  BY <1>0, <1>d, <1>2 DEF CreateLock
<1>3. ASSUME NEW p \in Procs, FillLock(p) PROVE LoadedIsCurrent'
  BY <1>0, <1>d, <1>3 DEF FillLock
<1>4. ASSUME NEW p \in Procs, ReadLock(p) PROVE LoadedIsCurrent'
  BY <1>0, <1>d, <1>4 DEF ReadLock
<1>5. ASSUME NEW p \in Procs, Judge(p) PROVE LoadedIsCurrent'
  BY <1>0, <1>d, <1>5 DEF Judge, Forgets, FindsDead, holderIsDead, isAlive, held
<1>6. ASSUME NEW p \in Procs, GiveUp(p) PROVE LoadedIsCurrent'
  BY <1>0, <1>d, <1>6 DEF GiveUp, Forgets
<1>7. ASSUME NEW p \in Procs, TakeGuard(p) PROVE LoadedIsCurrent'
  BY <1>0, <1>d, <1>7 DEF TakeGuard
<1>8. ASSUME NEW p \in Procs, ReadAgain(p) PROVE LoadedIsCurrent'
  BY <1>0, <1>d, <1>8 DEF ReadAgain
<1>9. ASSUME NEW p \in Procs, UnlinkDead(p) PROVE LoadedIsCurrent'
  BY <1>0, <1>d, <1>9 DEF UnlinkDead
<1>10. ASSUME NEW p \in Procs, DropGuard(p) PROVE LoadedIsCurrent'
  BY <1>0, <1>d, <1>10 DEF DropGuard, Forgets
<1>11. ASSUME NEW p \in Procs, Load(p) PROVE LoadedIsCurrent'
  BY <1>0, <1>d, <1>11 DEF Load
<1>12. ASSUME NEW p \in Procs, NEW o \in Orders, Save(p, o) PROVE LoadedIsCurrent'
  BY <1>0, <1>d, <1>12 DEF Save, Drops
<1>13. ASSUME NEW p \in Procs, Refuse(p) PROVE LoadedIsCurrent'
  BY <1>0, <1>d, <1>13 DEF Refuse, Drops
<1>14. ASSUME NEW p \in Procs, Release(p) PROVE LoadedIsCurrent'
  BY <1>0, <1>d, <1>14 DEF Release
<1>15. ASSUME NEW p \in Procs, DropLock(p) PROVE LoadedIsCurrent'
  BY <1>0, <1>d, <1>15 DEF DropLock
<1>16. ASSUME NEW p \in Procs, Crash(p) PROVE LoadedIsCurrent'
  BY <1>0, <1>d, <1>16 DEF Crash, Forgets, Drops
<1>17. ASSUME NEW p \in Procs, Start(p) PROVE LoadedIsCurrent'
  BY <1>0, <1>d, <1>17 DEF Start, isAlive
<1>18. ASSUME RemoveByHand PROVE LoadedIsCurrent'
  BY <1>0, <1>d, <1>18 DEF RemoveByHand
<1>19. ASSUME UNCHANGED vars PROVE LoadedIsCurrent'
  BY <1>0, <1>d, <1>19 DEF vars
<1> QED BY <1>1, <1>2, <1>3, <1>4, <1>5, <1>6, <1>7, <1>8, <1>9, <1>10, <1>11, <1>12, <1>13, <1>14, <1>15, <1>16, <1>17, <1>18, <1>19 DEF Next, Step

-----------------------------------------------------------------------------
\* The lock names its one holder, tokens and pids tell calls apart, and what a
\* breaker judged dead stays dead (holderIsDead, the guard of breakDeadLock).
THEOREM InductiveInvariant == Spec => []IInv
<1>1. IInv /\ [Next]_vars => IInv'
  BY StepTypeOK, StepLockIsHeld, StepPidsDiffer, StepTokensAreDrawn, StepTokensAreWritten,
     StepJudgedIsDead, StepOneBreaks, StepLoadedIsCurrent DEF IInv
<1> QED BY <1>1, InitHolds, PTL DEF Spec

\* Every variable keeps its type and the file its limit, however often records
\* are placed, ended and pruned (capped).
THEOREM TypeCorrect == Spec => []TypeOK
<1>1. IInv => TypeOK
  BY DEF IInv
<1> QED BY <1>1, InductiveInvariant, PTL

\* One process at a time is inside the critical section, over crashes, pids
\* used again and several breakers (withOrdersLock).
THEOREM MutualExclusion == Spec => []OneWriter
<1>1. IInv => OneWriter
  BY DEF IInv, LockIsHeld, PidsDiffer, Up, OneWriter, Holding
<1> QED BY <1>1, InductiveInvariant, PTL

\* The lock and the file together implement OrderFile: each update is one step
\* and none is lost (transactProduct).
THEOREM UpdatesAreSteps == Spec => UpdatesAreKept
<1>1. Init => FileInit
  BY DEF Init
<1>2. IInv /\ [Next]_vars => [FileNext]_orders
  <2> SUFFICES ASSUME IInv, [Next]_vars PROVE [FileNext]_orders
    OBVIOUS
  <2>1. ASSUME NEW p \in Procs, NEW o \in Orders, Save(p, o) PROVE FileNext
    <3>1. seen[p] = orders
      BY <2>1 DEF IInv, LoadedIsCurrent, Save
    <3>2. Update(o)
      BY <2>1, <3>1 DEF Save, Update
    <3> QED BY <3>2 DEF FileNext
  <2>2. CASE \A p \in Procs, o \in Orders : ~Save(p, o)
    <3>1. UNCHANGED orders
      BY <2>2 DEF Next, Step, vars, Call, CreateLock, FillLock, ReadLock, Judge, GiveUp, TakeGuard,
         ReadAgain, UnlinkDead, DropGuard, Load, Refuse, Release, DropLock, Crash, Start, RemoveByHand
    <3> QED BY <3>1
  <2> QED BY <2>1, <2>2
<1> QED BY <1>1, <1>2, InductiveInvariant, PTL DEF Spec, UpdatesAreKept, FileSpec
=============================================================================
