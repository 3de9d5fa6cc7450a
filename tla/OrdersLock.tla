----------------------------- MODULE OrdersLock -----------------------------
(***************************************************************************)
(* The lock between the processes that share an agent's order file         *)
(* (packages/mcp/src/storage/orders-lock.ts), and the read, judge and      *)
(* write of the file that it guards (orders.ts).                           *)
(*                                                                         *)
(* The lock and its break guard are files: creating one fails when it      *)
(* exists, removing one removes whatever is there, and both outlive the    *)
(* process.  Each file operation is a step; a process may die between any  *)
(* two.  The calls of one process queue, so a process makes one at a time. *)
(***************************************************************************)
EXTENDS OrderFile

CONSTANTS
    Procs,      \* processes that may use the file
    Pids,       \* process ids, used again after a death
    Places,     \* a host, boot and pid namespace: where a pid can be judged
    MaxCalls,   \* bound: calls of withOrdersLock in all
    None,       \* no file, or nothing read
    Blank       \* a lock file that was created and not written yet

VARIABLES
    lock,    \* the lock file: None, Blank or the identity of its holder
    guard,   \* the break guard exists
    at,      \* [Procs -> Steps], where each process stands
    me,      \* [Procs -> Identity], the identity of its current or last call
    saw,     \* [Procs -> the lock it read and judges, or None]
    seen,    \* [Procs -> the order file it loaded and judges, or None]
    calls    \* tokens drawn so far

vars == <<lock, guard, orders, at, me, saw, seen, calls>>

Identity == [token : 0..MaxCalls, pid : Pids, place : Places]

ASSUME LockAssumption ==
    /\ MaxCalls \in Nat
    /\ None \notin Identity /\ Blank \notin Identity /\ None # Blank

\* down: not running.  judge: a lock was read.  break: it is dead.  under: the
\* guard is held.  fill: the lock was created.  done: the token is given up.
Steps == {"down", "idle", "try", "judge", "break", "under", "unlink", "unguard", "failed",
          "fill", "load", "save", "done", "drop"}

Goes(p, step) == at' = [at EXCEPT ![p] = step]

Forgets(p) == saw' = [saw EXCEPT ![p] = None]

Drops(p) == seen' = [seen EXCEPT ![p] = None]

\* The tokens process p holds, by `held`.
held(p) == IF at[p] \in {"load", "save"} THEN {me[p].token} ELSE {}

isAlive(pid, place) ==
    \E q \in Procs : at[q] # "down" /\ me[q].pid = pid /\ me[q].place = place

holderIsDead(i, p) ==
    /\ i.place = me[p].place
    /\ IF i.pid = me[p].pid THEN i.token \notin held(p) ELSE ~isAlive(i.pid, i.place)

(***************************************************************************)
(* withOrdersLock: take the lock, or find out who holds it.                *)
(***************************************************************************)
Call(p) ==
    /\ at[p] = "idle" /\ calls < MaxCalls
    /\ calls' = calls + 1
    /\ me' = [me EXCEPT ![p] = [token |-> calls + 1, pid |-> me[p].pid, place |-> me[p].place]]
    /\ Goes(p, "try")
    /\ UNCHANGED <<lock, guard, orders, saw, seen>>

CreateLock(p) ==
    /\ at[p] = "try" /\ lock = None
    /\ lock' = Blank /\ Goes(p, "fill")
    /\ UNCHANGED <<guard, orders, me, saw, seen, calls>>

FillLock(p) ==
    /\ at[p] = "fill"
    /\ lock' = me[p] /\ Goes(p, "load")
    /\ UNCHANGED <<guard, orders, me, saw, seen, calls>>

ReadLock(p) ==
    /\ at[p] = "try" /\ lock # None
    /\ saw' = [saw EXCEPT ![p] = lock] /\ Goes(p, "judge")
    /\ UNCHANGED <<lock, guard, orders, me, seen, calls>>

\* Only a lock that names its holder can be judged.
FindsDead(p) == saw[p] \in Identity /\ holderIsDead(saw[p], p)

Judge(p) ==
    /\ at[p] = "judge"
    /\ IF FindsDead(p) THEN Goes(p, "break") /\ UNCHANGED saw
       ELSE Goes(p, "try") /\ Forgets(p)
    /\ UNCHANGED <<lock, guard, orders, me, seen, calls>>

\* Mutant: a breaker waits for the guard without a deadline.
GiveUpAtLock(p) ==
    /\ at[p] = "judge" /\ ~FindsDead(p)
    /\ Goes(p, "idle") /\ Forgets(p)
    /\ UNCHANGED <<lock, guard, orders, me, seen, calls>>

\* The deadline passed, or the guard is stale: OrdersLockedError.
GiveUp(p) ==
    /\ (at[p] = "judge" /\ ~FindsDead(p)) \/ (at[p] = "break" /\ guard)
    /\ Goes(p, "idle") /\ Forgets(p)
    /\ UNCHANGED <<lock, guard, orders, me, seen, calls>>

(***************************************************************************)
(* breakDeadLock: one breaker at a time removes exactly the lock it judged. *)
(***************************************************************************)
TakeGuard(p) ==
    /\ at[p] = "break" /\ ~guard
    /\ guard' = TRUE /\ Goes(p, "under")
    /\ UNCHANGED <<lock, orders, me, saw, seen, calls>>

\* Mutant: the lock is not read again.
UnlinkAtOnce(p) ==
    /\ at[p] = "under" /\ Goes(p, "unlink")
    /\ UNCHANGED <<lock, guard, orders, me, saw, seen, calls>>

ReadAgain(p) ==
    /\ at[p] = "under"
    /\ Goes(p, IF lock \in Identity /\ lock.token = saw[p].token THEN "unlink" ELSE "unguard")
    /\ UNCHANGED <<lock, guard, orders, me, saw, seen, calls>>

\* A failure is thrown once the guard is dropped.
UnlinkDead(p) ==
    /\ at[p] = "unlink"
    /\ \/ lock' = None /\ Goes(p, "unguard")
       \/ lock' = lock /\ Goes(p, "failed")
    /\ UNCHANGED <<guard, orders, me, saw, seen, calls>>

\* A guard that cannot be removed stays.
DropGuard(p) ==
    /\ at[p] \in {"unguard", "failed"}
    /\ guard' \in BOOLEAN
    /\ Goes(p, IF at[p] = "failed" THEN "idle" ELSE "try") /\ Forgets(p)
    /\ UNCHANGED <<lock, orders, me, seen, calls>>

(***************************************************************************)
(* transactProduct under the lock, and its release.                        *)
(***************************************************************************)
Load(p) ==
    /\ at[p] = "load"
    /\ seen' = [seen EXCEPT ![p] = orders] /\ Goes(p, "save")
    /\ UNCHANGED <<lock, guard, orders, me, saw, calls>>

\* Mutant: the file grows without a bound.
SaveUncapped(p, o) ==
    /\ at[p] = "save" /\ seen[p][o] \in DOMAIN Following
    /\ orders' = [seen[p] EXCEPT ![o] = Following[@]]
    /\ Goes(p, "done") /\ Drops(p)
    /\ UNCHANGED <<lock, guard, me, saw, calls>>

\* One record moves on, and the file is replaced by what was loaded with it.
Save(p, o) ==
    /\ at[p] = "save"
    /\ orders' \in Updates(seen[p], o) /\ Goes(p, "done") /\ Drops(p)
    /\ UNCHANGED <<lock, guard, me, saw, calls>>

\* The judgement refuses, or too many orders are open.
Refuse(p) ==
    /\ at[p] = "save" /\ Goes(p, "done") /\ Drops(p)
    /\ UNCHANGED <<lock, guard, orders, me, saw, calls>>

Release(p) ==
    /\ at[p] = "done"
    /\ Goes(p, IF lock \in Identity /\ lock.token = me[p].token THEN "drop" ELSE "idle")
    /\ UNCHANGED <<lock, guard, orders, me, saw, seen, calls>>

\* A lock that cannot be removed stays, with a token its process does not hold.
DropLock(p) ==
    /\ at[p] = "drop"
    /\ lock' \in {None, lock} /\ Goes(p, "idle")
    /\ UNCHANGED <<guard, orders, me, saw, seen, calls>>

(***************************************************************************)
(* Processes, and the user who is told to remove a file.                   *)
(***************************************************************************)
Crash(p) ==
    /\ at[p] # "down" /\ Goes(p, "down") /\ Forgets(p) /\ Drops(p)
    /\ UNCHANGED <<lock, guard, orders, me, calls>>

\* A pid is free in its place; processIdentity is read at the call.
Start(p) ==
    /\ at[p] = "down"
    /\ \E pid \in Pids, place \in Places :
          /\ ~isAlive(pid, place)
          /\ me' = [me EXCEPT ![p] = [token |-> 0, pid |-> pid, place |-> place]]
    /\ Goes(p, "idle")
    /\ UNCHANGED <<lock, guard, orders, saw, seen, calls>>

\* "if no elisym MCP is running, remove that file"
RemoveByHand ==
    /\ \A p \in Procs : at[p] = "down"
    /\ lock # None \/ guard
    /\ lock' = None /\ guard' = FALSE
    /\ UNCHANGED <<orders, at, me, saw, seen, calls>>

Init ==
    /\ lock = None /\ guard = FALSE
    /\ FileInit
    /\ at = [p \in Procs |-> "down"]
    /\ me \in [Procs -> [token : {0}, pid : Pids, place : Places]]
    /\ saw = [p \in Procs |-> None]
    /\ seen = [p \in Procs |-> None]
    /\ calls = 0

\* What a running call does next.
Step(p) ==
    \/ CreateLock(p) \/ FillLock(p) \/ ReadLock(p) \/ Judge(p) \/ GiveUp(p)
    \/ TakeGuard(p) \/ ReadAgain(p) \/ UnlinkDead(p) \/ DropGuard(p)
    \/ Load(p) \/ (\E o \in Orders : Save(p, o)) \/ Refuse(p) \/ Release(p) \/ DropLock(p)

Next ==
    \/ \E p \in Procs : Call(p) \/ Step(p) \/ Crash(p) \/ Start(p)
    \/ RemoveByHand

Spec == Init /\ [][Next]_vars

\* File operations return, and time passes: a call whose deadline lies behind
\* it gives up when it next may.
FairSpec == Spec /\ \A p \in Procs : WF_vars(Step(p)) /\ SF_vars(GiveUp(p))

-----------------------------------------------------------------------------
\* Every variable keeps its type, and the file its limit.
TypeOK ==
    /\ lock \in Identity \cup {None, Blank} /\ guard \in BOOLEAN
    /\ orders \in [Orders -> States]
    /\ Cardinality(Present(orders)) <= MaxOrders
    /\ at \in [Procs -> Steps]
    /\ me \in [Procs -> Identity]
    /\ saw \in [Procs -> Identity \cup {None, Blank}]
    /\ seen \in [Procs -> [Orders -> States] \cup {None}]
    /\ calls \in 0..MaxCalls

\* No update is lost: whoever dies holding the lock, and however many others
\* find it dead at once, the file changes as if each update were one step, and
\* a record of use is never dropped (breakDeadLock, capped).
UpdatesAreKept == FileSpec

\* A call ends, with an answer or an error: neither a lock nor a guard that a
\* dead process left makes one wait for ever (LOCK_WAIT_MS, the stale guard).
CallsEnd == \A p \in Procs : at[p] = "try" ~> at[p] \in {"idle", "down"}
=============================================================================
