------------------------ MODULE DelegatedPullProofs -------------------------
(***************************************************************************)
(* Proofs about DelegatedPull, for any jobs, proofs, owners, prices, caps  *)
(* and times: a nonce is burned once, "you were not charged" is true, who  *)
(* was charged stays on record until an answer is out, what is reserved is *)
(* what the live jobs hold, and the pulls implement Settlement.            *)
(***************************************************************************)
EXTENDS DelegatedPull, FiniteSetTheorems, TLAPS

(***************************************************************************)
(* Sums.  A total is taken by a function that recurses over the subsets of *)
(* a finite set.  Each fact below is proved from a least set that breaks   *)
(* it: without the element the total takes first the set no longer does.   *)
(***************************************************************************)
\* The element a sum takes first, and a running sum over the subsets of S.
Pick(T) == CHOOSE x \in T : TRUE

Sums(g, f, S) ==
    g = [T \in SUBSET S |-> IF T = {} THEN 0 ELSE f[Pick(T)] + g[T \ {Pick(T)}]]

\* A set that is not empty has a first element.
LEMMA PickIn == \A T : T # {} => Pick(T) \in T
BY DEF Pick

\* Among finitely many elements, a collection of sets has a least one.
LEMMA Least ==
    ASSUME NEW S, IsFiniteSet(S), NEW W \in SUBSET (SUBSET S), W # {}
    PROVE  \E T \in W : \A U \in W : ~(U \subseteq T /\ U # T)
<1>1. IsWellFoundedOn(StrictSubsetOrdering(S), SUBSET S)
  BY FS_StrictSubsetOrderingWellFounded, FS_FiniteSubsetsOfFinite
<1>2. PICK T \in W : \A U \in W : <<U, T>> \notin StrictSubsetOrdering(S)
  BY <1>1, WFMin
<1> QED BY <1>2 DEF StrictSubsetOrdering

\* One step of the recursion.
LEMMA SumStep ==
    ASSUME NEW f, NEW S, NEW g, Sums(g, f, S), NEW T \in SUBSET S
    PROVE  /\ T = {} => g[T] = 0
           /\ T # {} => /\ Pick(T) \in T /\ T \ {Pick(T)} \in SUBSET S
                        /\ g[T] = f[Pick(T)] + g[T \ {Pick(T)}]
<1>1. g[T] = IF T = {} THEN 0 ELSE f[Pick(T)] + g[T \ {Pick(T)}]
  BY Zenon DEF Sums
<1> QED BY <1>1, PickIn

LEMMA SumEmpty ==
    ASSUME NEW f, NEW S, NEW g, Sums(g, f, S)
    PROVE  g[{}] = 0
<1>1. {} \in SUBSET S
  OBVIOUS
<1> QED BY <1>1, SumStep

\* Two running sums of one function agree where both are defined.
LEMMA SumsAgree ==
    ASSUME NEW f, NEW S, NEW R, NEW g, NEW h, Sums(g, f, S), Sums(h, f, R),
           NEW C, IsFiniteSet(C), C \subseteq S, C \subseteq R
    PROVE  g[C] = h[C]
<1> DEFINE W == {T \in SUBSET C : g[T] # h[T]}
<1> SUFFICES ASSUME W # {} PROVE FALSE
  OBVIOUS
<1>0. W \in SUBSET (SUBSET C)
  OBVIOUS
<1>1. PICK T \in W : \A U \in W : ~(U \subseteq T /\ U # T)
  <2> HIDE DEF W
  <2> QED BY <1>0, Least
<1>2. T \in SUBSET S /\ T \in SUBSET R /\ g[T] # h[T]
  BY <1>1
<1> DEFINE U == T \ {Pick(T)}
<1>3. T # {} => g[T] = f[Pick(T)] + g[U] /\ h[T] = f[Pick(T)] + h[U] /\ Pick(T) \in T
  BY <1>2, SumStep
<1>4. T # {}
  <2>1. g[{}] = 0 /\ h[{}] = 0
    BY SumEmpty
  <2> QED BY <1>2, <2>1
<1>5. U \in SUBSET C /\ U \subseteq T /\ U # T
  BY <1>1, <1>3, <1>4
<1>6. g[U] = h[U]
  BY <1>1, <1>5
<1> QED BY <1>2, <1>3, <1>4, <1>6

\* There is a running sum over any finite set.
LEMMA SumsExist ==
    ASSUME NEW f, NEW S, IsFiniteSet(S)
    PROVE  \E g : Sums(g, f, S)
<1> DEFINE W == {T \in SUBSET S : ~\E g : Sums(g, f, T)}
<1> SUFFICES ASSUME W # {} PROVE FALSE
  OBVIOUS
<1>0. W \in SUBSET (SUBSET S)
  OBVIOUS
<1>1. PICK T \in W : \A U \in W : ~(U \subseteq T /\ U # T)
  <2> HIDE DEF W
  <2> QED BY <1>0, Least
<1> DEFINE G(V) == CHOOSE g : Sums(g, f, V)
           h == [V \in SUBSET T |-> IF V = {} THEN 0
                                    ELSE f[Pick(V)] + G(V \ {Pick(V)})[V \ {Pick(V)}]]
<1>2. ASSUME NEW V \in SUBSET T, V # T PROVE Sums(G(V), f, V)
  <2>1. \E g : Sums(g, f, V)
    BY <1>1, <1>2
  <2> QED BY <2>1
<1>3. ASSUME NEW V \in SUBSET T, V # T PROVE h[V] = G(V)[V]
  <2>1. Sums(G(V), f, V)
    BY <1>2, <1>3
  <2>2. CASE V = {}
    BY <2>1, <2>2, SumStep
  <2>3. CASE V # {}
    <3> DEFINE U == V \ {Pick(V)}
    <3>1. Pick(V) \in V /\ U \in SUBSET V /\ U \in SUBSET T /\ U # T
      BY <1>3, <2>3, PickIn
    <3>2. Sums(G(U), f, U)
      BY <1>2, <3>1
    <3>3. G(V)[V] = f[Pick(V)] + G(V)[U]
      BY <2>1, <2>3, SumStep
    <3>4. IsFiniteSet(U)
      BY <3>1, FS_Subset
    <3>5. G(V)[U] = G(U)[U]
      <4> HIDE DEF G, U
      <4> QED BY <2>1, <3>1, <3>2, <3>4, SumsAgree
    <3>6. h[V] = f[Pick(V)] + G(U)[U]
      BY <2>3
    <3> QED BY <3>3, <3>5, <3>6
  <2> QED BY <2>2, <2>3
<1>4. Sums(h, f, T)
  <2>1. ASSUME NEW V \in SUBSET T
        PROVE  h[V] = IF V = {} THEN 0 ELSE f[Pick(V)] + h[V \ {Pick(V)}]
    <3>1. CASE V = {}
      BY <3>1
    <3>2. CASE V # {}
      <4>1. V \ {Pick(V)} \in SUBSET T /\ V \ {Pick(V)} # T
        BY <3>2, PickIn
      <4>2. h[V \ {Pick(V)}] = G(V \ {Pick(V)})[V \ {Pick(V)}]
        BY <1>3, <4>1
      <4>3. h[V] = f[Pick(V)] + G(V \ {Pick(V)})[V \ {Pick(V)}]
        BY <3>2
      <4> QED BY <3>2, <4>2, <4>3
    <3> QED BY <3>1, <3>2
  <2>2. h = [V \in SUBSET T |-> h[V]]
    OBVIOUS
  <2> HIDE DEF h
  <2>3. [V \in SUBSET T |-> h[V]]
           = [V \in SUBSET T |-> IF V = {} THEN 0 ELSE f[Pick(V)] + h[V \ {Pick(V)}]]
    BY <2>1
  <2> QED BY <2>2, <2>3 DEF Sums
<1> HIDE DEF h
<1> QED BY <1>1, <1>4

\* A total of MapThenSumSet is such a sum.
LEMMA TotalSums ==
    ASSUME NEW f, NEW S, IsFiniteSet(S)
    PROVE  \E g : Sums(g, f, S) /\ Total(f, S) = g[S]
<1> DEFINE g == CHOOSE g : Sums(g, f, S)
<1>1. Total(f, S) = g[S]
  BY Zenon DEF Total, MapThenSumSet, MapThenFoldSet, Sums, Pick
<1>2. Sums(g, f, S)
  BY SumsExist
<1> QED BY <1>1, <1>2

\* A total is what its first element adds to the total of the others.
LEMMA TotalStep ==
    ASSUME NEW f, NEW S, IsFiniteSet(S)
    PROVE  /\ S = {} => Total(f, S) = 0
           /\ S # {} => /\ Pick(S) \in S /\ IsFiniteSet(S \ {Pick(S)})
                        /\ Total(f, S) = f[Pick(S)] + Total(f, S \ {Pick(S)})
<1>1. PICK g : Sums(g, f, S) /\ Total(f, S) = g[S]
  BY TotalSums
<1>2. CASE S = {}
  BY <1>1, <1>2, SumStep
<1>3. CASE S # {}
  <2> DEFINE R == S \ {Pick(S)}
  <2>1. Pick(S) \in S /\ IsFiniteSet(R) /\ g[S] = f[Pick(S)] + g[R]
    BY <1>1, <1>3, SumStep, FS_Subset
  <2> HIDE DEF R
  <2>2. PICK h : Sums(h, f, R) /\ Total(f, R) = h[R]
    BY <2>1, TotalSums
  <2>3. R \subseteq S
    BY DEF R
  <2>4. g[R] = h[R]
    BY <1>1, <2>1, <2>2, <2>3, SumsAgree
  <2> QED BY <1>1, <1>3, <2>1, <2>2, <2>4 DEF R
<1> QED BY <1>2, <1>3

LEMMA TotalEmpty == ASSUME NEW f PROVE Total(f, {}) = 0
BY TotalStep, FS_EmptySet

\* A sum of naturals is a natural.
LEMMA TotalNat ==
    ASSUME NEW f, NEW S, IsFiniteSet(S), \A x \in S : f[x] \in Nat
    PROVE  Total(f, S) \in Nat
<1> DEFINE W == {T \in SUBSET S : Total(f, T) \notin Nat}
<1> SUFFICES ASSUME W # {} PROVE FALSE
  OBVIOUS
<1>0. W \in SUBSET (SUBSET S)
  OBVIOUS
<1>1. PICK T \in W : \A U \in W : ~(U \subseteq T /\ U # T)
  <2> HIDE DEF W
  <2> QED BY <1>0, Least
<1>2. T \subseteq S /\ IsFiniteSet(T) /\ Total(f, T) \notin Nat
  BY <1>1, FS_Subset
<1>3. T # {}
  BY <1>2, TotalEmpty
<1> DEFINE R == T \ {Pick(T)}
<1>4. Pick(T) \in T /\ Total(f, T) = f[Pick(T)] + Total(f, R)
  BY <1>2, <1>3, TotalStep
<1>5. Total(f, R) \in Nat
  BY <1>1, <1>2, <1>4
<1> QED BY <1>2, <1>4, <1>5

\* A sum depends on the values that are added, and on nothing else.
LEMMA TotalAgree ==
    ASSUME NEW f, NEW g, NEW S, IsFiniteSet(S), \A x \in S : f[x] = g[x]
    PROVE  Total(f, S) = Total(g, S)
<1> DEFINE W == {T \in SUBSET S : Total(f, T) # Total(g, T)}
<1> SUFFICES ASSUME W # {} PROVE FALSE
  OBVIOUS
<1>0. W \in SUBSET (SUBSET S)
  OBVIOUS
<1>1. PICK T \in W : \A U \in W : ~(U \subseteq T /\ U # T)
  <2> HIDE DEF W
  <2> QED BY <1>0, Least
<1>2. T \subseteq S /\ IsFiniteSet(T) /\ Total(f, T) # Total(g, T)
  BY <1>1, FS_Subset
<1>3. T # {}
  BY <1>2, TotalStep
<1> DEFINE R == T \ {Pick(T)}
<1>4. /\ Pick(T) \in T /\ Total(f, T) = f[Pick(T)] + Total(f, R)
      /\ Total(g, T) = g[Pick(T)] + Total(g, R)
  BY <1>2, <1>3, TotalStep
<1>5. Total(f, R) = Total(g, R)
  BY <1>1, <1>2, <1>4
<1>6. f[Pick(T)] = g[Pick(T)]
  BY <1>2, <1>4
<1> QED BY <1>2, <1>4, <1>5, <1>6

\* Any element may be taken out of a sum of naturals, not only the first.
LEMMA TotalSplit ==
    ASSUME NEW f, NEW S, IsFiniteSet(S), \A x \in S : f[x] \in Nat, NEW x \in S
    PROVE  Total(f, S) = Total(f, S \ {x}) + f[x]
<1> DEFINE Odd(T) == \E y \in T : Total(f, T) # Total(f, T \ {y}) + f[y]
           W == {T \in SUBSET S : Odd(T)}
<1> SUFFICES ASSUME W # {} PROVE FALSE
  OBVIOUS
<1>0. W \in SUBSET (SUBSET S)
  OBVIOUS
<1>1. PICK T \in W : \A U \in W : ~(U \subseteq T /\ U # T)
  <2> HIDE DEF W
  <2> QED BY <1>0, Least
<1>2. T \subseteq S /\ IsFiniteSet(T)
  BY <1>1, FS_Subset
<1>3. PICK y \in T : Total(f, T) # Total(f, T \ {y}) + f[y]
  BY <1>1
<1>4. \A U \in SUBSET T : IsFiniteSet(U) /\ Total(f, U) \in Nat
  <2>1. ASSUME NEW U \in SUBSET T PROVE IsFiniteSet(U) /\ Total(f, U) \in Nat
    <3>1. IsFiniteSet(U) /\ \A z \in U : f[z] \in Nat
      BY <1>2, FS_Subset
    <3> QED BY <3>1, TotalNat
  <2> QED BY <2>1
<1> DEFINE p == Pick(T)
<1>5. p \in T /\ Total(f, T) = f[p] + Total(f, T \ {p})
  BY <1>2, <1>3, TotalStep
<1> HIDE DEF p
<1>6. f[p] \in Nat /\ f[y] \in Nat /\ Total(f, T \ {p}) \in Nat
  BY <1>2, <1>3, <1>4, <1>5
<1>7. p # y
  BY <1>3, <1>5, <1>6
<1>8. \A U \in SUBSET T : U # T => \A z \in U : Total(f, U) = Total(f, U \ {z}) + f[z]
  BY <1>1, <1>2
<1>9. Total(f, T \ {p}) = Total(f, (T \ {p}) \ {y}) + f[y]
  BY <1>3, <1>5, <1>7, <1>8
<1>10. Total(f, T \ {y}) = Total(f, (T \ {y}) \ {p}) + f[p]
  BY <1>3, <1>5, <1>7, <1>8
<1>11. (T \ {p}) \ {y} = (T \ {y}) \ {p}
  OBVIOUS
<1>12. Total(f, (T \ {p}) \ {y}) \in Nat
  BY <1>4
<1>13. \A a, b, c, m, n, t \in Nat : a = n + b /\ m = n + c /\ t = c + a => t = m + b
  OBVIOUS
<1>14. Total(f, T \ {y}) \in Nat /\ Total(f, T) \in Nat
  BY <1>4
<1> QED BY <1>3, <1>5, <1>6, <1>9, <1>10, <1>11, <1>12, <1>13, <1>14

\* An element outside may be added.
LEMMA TotalAdd ==
    ASSUME NEW f, NEW S, IsFiniteSet(S), NEW x, x \notin S,
           \A y \in S \cup {x} : f[y] \in Nat
    PROVE  Total(f, S \cup {x}) = Total(f, S) + f[x]
<1>1. IsFiniteSet(S \cup {x})
  BY FS_AddElement
<1>2. (S \cup {x}) \ {x} = S
  OBVIOUS
<1> QED BY <1>1, <1>2, TotalSplit

-----------------------------------------------------------------------------
USE DelegationAssumption

\* The stages of a job whose pull has not been sent.
Unsent == {"verifying", "asking", "working", "signing", "sending"}

Recoverable(e) == e.content /\ e.pull /\ e.status \in {"paid", "executed"}

\* The pull has moved money, or still may.
Charging(j) == tx[j] = "landed" \/ (tx[j] = "sent" /\ j \notin over) \/ stage[j] = "sending"

Answered(j) == told[j] \in {"result", "lost"}

(***************************************************************************)
(* What memory, file, chain and customer agree on, job by job.             *)
(***************************************************************************)
\* A handler runs in a process, and a process knows what its file knows.
Awake(j) ==
    /\ stage[j] # "idle" => up /\ entries[j].status # "absent"
    /\ up /\ entries[j].status = "absent" => file[j].status = "absent"

\* A proof is verified while its nonce is retained.
InTime(j) == stage[j] = "verifying" => checked[j] < Expiry /\ now <= checked[j] + Skew

\* A job that works is on file; its pull follows its stage, and an entry without
\* a pull has sent none.
OnFile(j) ==
    /\ stage[j] \in Unsent => file[j].status # "absent" /\ entries[j].status = "paid"
    /\ stage[j] \in Unsent \ {"sending"} => tx[j] = "none"
    /\ stage[j] = "signing" => entries[j].content
    /\ stage[j] = "sending" => tx[j] = "signed"
    /\ tx[j] # "none" => file[j].status # "absent"
    /\ tx[j] \in {"sent", "landed", "reverted"} \/ stage[j] = "sending" =>
          file[j].pull /\ (up => entries[j].pull)

ChargeIsKept(j) ==
    Charging(j) => Answered(j) \/ (Recoverable(file[j]) /\ (up => Recoverable(entries[j])))

\* A job that was called uncharged is past its stages, and its pull is dead.
DenialIsKept(j) ==
    told[j] = "uncharged" =>
        /\ stage[j] \notin Unsent
        /\ tx[j] # "landed" /\ (tx[j] = "sent" => j \in over)

JobInv(j) == Awake(j) /\ InTime(j) /\ OnFile(j) /\ ChargeIsKept(j) /\ DenialIsKept(j)

\* A burned nonce is refused, or can be burned again from the ledger at a start,
\* for as long as a proof can be presented.
Burned(p) ==
    /\ burns[p] <= 1
    /\ burns[p] = 1 /\ Retained =>
          /\ \E j \in Jobs : ProofOf[j] = p /\ file[j].status # "absent"
          /\ up => p \in used

IInv == TypeOK /\ (\A j \in Jobs : JobInv(j)) /\ \A p \in Proofs : Burned(p)

-----------------------------------------------------------------------------
(***************************************************************************)
(* Types.                                                                  *)
(***************************************************************************)
LEMMA ChargeInRange ==
    ASSUME NEW j \in Jobs, NEW reported \in Nat
    PROVE  Charge(j, reported) \in Floor[j]..Price[j] /\ Charge(j, reported) \in Nat
BY DEF Charge

LEMMA OwnerTyped == \A j \in Jobs : Owner(j) \in Owners
BY DEF Owner

LEMMA LeaveTypes ==
    ASSUME TypeOK, NEW j \in Jobs, Leave(j)
    PROVE  inFlight' \in [Owners -> Nat] /\ stage' \in [Jobs -> Stages]
           /\ checked' \in [Jobs -> 0..Expiry + Skew]
<1>1. Owner(j) \in Owners /\ Price[j] \in Nat /\ inFlight[Owner(j)] \in Nat
  BY OwnerTyped DEF TypeOK
<1>2. inFlight' \in [Owners -> Nat]
  <2>1. CASE stage[j] \notin Holding
    BY <2>1 DEF Leave, TypeOK
  <2>2. CASE stage[j] \in Holding
    <3> DEFINE n == IF inFlight[Owner(j)] > Price[j] THEN inFlight[Owner(j)] - Price[j] ELSE 0
    <3>1. n \in Nat
      BY <1>1
    <3>2. inFlight' = [inFlight EXCEPT ![Owner(j)] = n]
      BY <2>2 DEF Leave, ReleaseReserved
    <3> HIDE DEF n
    <3> QED BY <3>1, <3>2 DEF TypeOK
  <2> QED BY <2>1, <2>2
<1>3. stage' \in [Jobs -> Stages]
  BY DEF Leave, TypeOK, Stages
<1>4. 0 \in 0..Expiry + Skew
  OBVIOUS
<1>5. checked' \in [Jobs -> 0..Expiry + Skew]
  BY <1>4 DEF Leave, TypeOK
<1> QED BY <1>2, <1>3, <1>5

(***************************************************************************)
(* What a step of the handler or the recovery of job j leaves alone.       *)
(***************************************************************************)
\* The ledger es, which the step of job j writes, has the other entries as they were.
Entered(j, es) ==
    /\ es \in [Jobs -> Entry] /\ es[j].status # "absent"
    /\ \A k \in Jobs \ {j} : es[k] = entries[k]

Wrote(j) == Entered(j, entries') /\ file' \in {file, entries'}

Moved(j) ==
    /\ Wrote(j)
    /\ \A k \in Jobs \ {j} : /\ stage'[k] = stage[k] /\ checked'[k] = checked[k]
                             /\ told'[k] = told[k] /\ tx'[k] = tx[k]
    /\ up /\ up' /\ over' = over /\ now' = now

LEMMA OthersKeep ==
    ASSUME TypeOK, NEW j \in Jobs, NEW k \in Jobs \ {j}, JobInv(k), Moved(j)
    PROVE  JobInv(k)'
<1>1. entries'[k] = entries[k] /\ file'[k] \in {file[k], entries[k]}
  BY DEF Moved, Wrote, Entered
<1>2. /\ stage'[k] = stage[k] /\ checked'[k] = checked[k] /\ told'[k] = told[k]
      /\ tx'[k] = tx[k] /\ up /\ up' /\ over' = over /\ now' = now
  BY DEF Moved
<1>3. Awake(k)' /\ InTime(k)' /\ DenialIsKept(k)'
  BY <1>1, <1>2 DEF JobInv, Awake, InTime, DenialIsKept
<1>4. OnFile(k)'
  BY <1>1, <1>2 DEF JobInv, Awake, OnFile, Unsent
<1>5. ChargeIsKept(k)'
  BY <1>1, <1>2 DEF JobInv, ChargeIsKept, Charging, Answered
<1> QED BY <1>3, <1>4, <1>5 DEF JobInv

LEMMA FileGrows ==
    ASSUME TypeOK, NEW j \in Jobs, \A k \in Jobs : JobInv(k), Moved(j)
    PROVE  \A k \in Jobs : file[k].status # "absent" => file'[k].status # "absent"
<1>1. ASSUME NEW k \in Jobs, file[k].status # "absent" PROVE file'[k].status # "absent"
  <2>1. entries[k].status # "absent"
    BY <1>1 DEF JobInv, Awake, Moved
  <2> QED BY <1>1, <2>1 DEF Moved, Wrote, Entered
<1> QED BY <1>1

LEMMA NoncesKeep ==
    ASSUME TypeOK, NEW j \in Jobs, \A k \in Jobs : JobInv(k), \A p \in Proofs : Burned(p),
           Moved(j), used' = used, burns' = burns
    PROVE  \A p \in Proofs : Burned(p)'
BY FileGrows DEF Burned, Retained, Moved

LEMMA Stepped ==
    ASSUME IInv, NEW j \in Jobs, Moved(j), JobInv(j)', TypeOK', used' = used, burns' = burns
    PROVE  IInv'
<1>1. \A k \in Jobs : JobInv(k)'
  BY OthersKeep DEF IInv
<1>2. \A p \in Proofs : Burned(p)'
  BY NoncesKeep DEF IInv
<1> QED BY <1>1, <1>2 DEF IInv

(***************************************************************************)
(* The ways out of the handler.                                            *)
(***************************************************************************)
LEMMA FlushWrites ==
    ASSUME TypeOK, NEW j \in Jobs, NEW es, Entered(j, es), Flush(es)
    PROVE  Wrote(j) /\ entries' = es /\ (writable => file' = es)
BY DEF Flush, Wrote

LEMMA CloseWrites ==
    ASSUME TypeOK, NEW j \in Jobs, NEW es, Entered(j, es), NEW m, Close(j, es, m)
    PROVE  /\ Wrote(j) /\ told' = [told EXCEPT ![j] = m]
           /\ entries'[j].status = "failed" /\ entries'[j].pull = es[j].pull
<1> DEFINE fs == [es EXCEPT ![j].status = "failed", ![j].content = FALSE]
<1>1. es \in [Jobs -> Entry] /\ es[j] \in Entry
  BY DEF Entered
<1> DEFINE e == [[es[j] EXCEPT !.status = "failed"] EXCEPT !.content = FALSE]
<1>2. e \in Entry /\ e.status = "failed" /\ e.pull = es[j].pull
  BY <1>1 DEF Entry, Statuses
<1>3. fs = [es EXCEPT ![j] = e]
  BY <1>1
<1> HIDE DEF e
<1>4. Entered(j, fs) /\ fs[j] = e
  BY <1>1, <1>2, <1>3 DEF Entered
<1>5. Flush(fs) /\ told' = [told EXCEPT ![j] = m]
  BY DEF Close
<1> HIDE DEF fs
<1> QED BY <1>2, <1>4, <1>5, FlushWrites

LEMMA ThrowWrites ==
    ASSUME TypeOK, NEW j \in Jobs, NEW es, Entered(j, es), Throw(j, es)
    PROVE  /\ Wrote(j) /\ stage' = [stage EXCEPT ![j] = "idle"]
           /\ entries'[j].pull = es[j].pull
           /\ told' = told \/ told' = [told EXCEPT ![j] = "failed"]
<1>1. CASE Close(j, es, "failed")
  BY <1>1, CloseWrites DEF Throw, Leave
<1>2. CASE entries' = es /\ UNCHANGED <<file, told>>
  BY <1>2 DEF Throw, Leave, Wrote
<1> QED BY <1>1, <1>2 DEF Throw

\* The types of what a step of the handler changes.
TaskTypes ==
    /\ entries \in [Jobs -> Entry] /\ file \in [Jobs -> Entry]
    /\ inFlight \in [Owners -> Nat] /\ stage \in [Jobs -> Stages]
    /\ checked \in [Jobs -> 0..Expiry + Skew]
    /\ told \in [Jobs -> {"nothing", "failed", "uncharged", "lost", "result"}]

LEMMA CloseTypes ==
    ASSUME TypeOK, NEW j \in Jobs, NEW es, Entered(j, es), NEW m \in {"failed", "uncharged", "lost"},
           Close(j, es, m), Leave(j)
    PROVE  TaskTypes'
<1>1. Wrote(j) /\ told' = [told EXCEPT ![j] = m]
  BY CloseWrites
<1> QED BY <1>1, LeaveTypes DEF TaskTypes, TypeOK, Wrote, Entered

LEMMA ThrowTypes ==
    ASSUME TypeOK, NEW j \in Jobs, NEW es, Entered(j, es), Throw(j, es)
    PROVE  TaskTypes'
<1>1. Leave(j)
  BY DEF Throw
<1>2. CASE Close(j, es, "failed")
  BY <1>1, <1>2, CloseTypes
<1>3. CASE entries' = es /\ UNCHANGED <<file, told>>
  BY <1>1, <1>3, LeaveTypes DEF TaskTypes, TypeOK, Entered
<1> QED BY <1>2, <1>3 DEF Throw

LEMMA PersistTypes ==
    ASSUME TypeOK, NEW j \in Jobs, NEW es, Entered(j, es), NEW step \in Stages, Persist(j, es, step)
    PROVE  TaskTypes'
<1>1. CASE writable
  <2>1. Flush(es) /\ Goto(j, step) /\ told' = told
    BY <1>1 DEF Persist
  <2>2. Wrote(j)
    BY <2>1, FlushWrites
  <2> QED BY <2>1, <2>2 DEF Goto, TaskTypes, TypeOK, Wrote, Entered
<1>2. CASE ~writable
  BY <1>2, ThrowTypes DEF Persist
<1> QED BY <1>1, <1>2 DEF TypeOK

\* A ledger in which only the entry of job j is another.
LEMMA EnteredOne ==
    ASSUME TypeOK, NEW j \in Jobs, NEW e \in Entry, e.status # "absent"
    PROVE  Entered(j, [entries EXCEPT ![j] = e]) /\ [entries EXCEPT ![j] = e][j] = e
BY DEF TypeOK, Entered

LEMMA EnteredNone ==
    ASSUME TypeOK, NEW j \in Jobs, entries[j].status # "absent"
    PROVE  Entered(j, entries)
BY DEF TypeOK, Entered

\* The other variables keep their types.
ElseTypes ==
    /\ used \subseteq Proofs /\ usedFile \subseteq Proofs /\ burns \in [Proofs -> Nat]
    /\ tx \in [Jobs -> {"none", "signed", "sent", "landed", "reverted"}]
    /\ amount \in [Jobs -> Nat]
    /\ \A j \in Jobs : amount[j] \in {0} \cup Floor[j]..Price[j]
    /\ over \subseteq Jobs /\ settled \subseteq Jobs /\ late \subseteq Jobs
    /\ now \in 0..Expiry + Skew /\ crashes \in 0..MaxCrashes
    /\ calm \in BOOLEAN /\ writable \in BOOLEAN /\ up \in BOOLEAN

LEMMA TypesSplit == TypeOK <=> TaskTypes /\ ElseTypes
BY DEF TypeOK, TaskTypes, ElseTypes

LEMMA TypesSplitNext == TypeOK' <=> TaskTypes' /\ ElseTypes'
BY DEF TypeOK, TaskTypes, ElseTypes

LEMMA ElseKept ==
    ASSUME TypeOK, UNCHANGED <<nonces, chain, world>>
    PROVE  ElseTypes'
BY DEF TypeOK, ElseTypes, nonces, chain, world

(***************************************************************************)
(* The handler, step by step.                                              *)
(***************************************************************************)
LEMMA RecordKeeps == ASSUME IInv, NEW j \in Jobs, Record(j) PROVE IInv'
<1> DEFINE e == [Absent EXCEPT !.status = "paid"]
           es == [entries EXCEPT ![j] = e]
<1>1. TypeOK /\ JobInv(j)
  BY DEF IInv
<1>2. e \in Entry /\ e.status = "paid"
  BY DEF Absent, Entry, Statuses
<1>3. Entered(j, es) /\ es[j] = e
  BY <1>1, <1>2, EnteredOne
<1>4. /\ up /\ stage[j] = "idle" /\ entries[j].status = "absent" /\ told[j] # "uncharged"
      /\ \/ ~writable /\ Throw(j, es)
         \/ writable /\ Expiry <= now /\ Leave(j) /\ Close(j, es, "failed")
         \/ /\ writable /\ Expiry > now
            /\ Flush(es)
            /\ stage' = [stage EXCEPT ![j] = "verifying"]
            /\ checked' = [checked EXCEPT ![j] = now]
            /\ UNCHANGED <<inFlight, told>>
      /\ UNCHANGED <<nonces, chain, world>>
  BY DEF Record
<1> HIDE DEF e, es
<1>5. tx[j] = "none" /\ file[j].status = "absent"
  BY <1>1, <1>4 DEF JobInv, Awake, OnFile
<1>6. ElseTypes'
  BY <1>1, <1>4, ElseKept
<1>7. /\ up' /\ used' = used /\ burns' = burns /\ tx' = tx /\ over' = over /\ now' = now
  BY <1>4 DEF nonces, chain, world
<1>8. CASE stage'[j] = "idle" /\ (Throw(j, es) \/ (Leave(j) /\ Close(j, es, "failed")))
  <2>1. Wrote(j) /\ TaskTypes'
    BY <1>1, <1>3, <1>8, ThrowWrites, ThrowTypes, CloseWrites, CloseTypes
  <2>2. /\ stage' = [stage EXCEPT ![j] = "idle"] /\ checked' = [checked EXCEPT ![j] = 0]
        /\ told' = told \/ told' = [told EXCEPT ![j] = "failed"]
    BY <1>8 DEF Throw, Leave, Close
  <2>3. Moved(j) /\ TypeOK'
    BY <1>1, <1>4, <1>6, <1>7, <2>1, <2>2, TypesSplitNext DEF Moved, TypeOK
  <2>4. JobInv(j)'
    BY <1>1, <1>4, <1>5, <1>7, <2>1, <2>2
       DEF JobInv, Awake, InTime, OnFile, ChargeIsKept, DenialIsKept, Charging, Unsent, Wrote,
           Entered, TypeOK
  <2> QED BY <1>7, <2>3, <2>4, Stepped
<1>9. CASE /\ writable /\ Expiry > now /\ Flush(es)
           /\ stage' = [stage EXCEPT ![j] = "verifying"]
           /\ checked' = [checked EXCEPT ![j] = now]
           /\ UNCHANGED <<inFlight, told>>
  <2>1. Wrote(j) /\ entries' = es /\ file' = es
    BY <1>1, <1>3, <1>9, FlushWrites
  <2>2. TaskTypes'
    BY <1>1, <1>9, <2>1, <1>3 DEF TaskTypes, TypeOK, Stages, Entered
  <2>3. Moved(j) /\ TypeOK'
    BY <1>1, <1>4, <1>6, <1>7, <1>9, <2>1, <2>2, TypesSplitNext DEF Moved, TypeOK
  <2>4. now <= now + Skew
    BY <1>1 DEF TypeOK
  <2>5. JobInv(j)'
    BY <1>1, <1>2, <1>3, <1>4, <1>5, <1>7, <1>9, <2>1, <2>4
       DEF JobInv, Awake, InTime, OnFile, ChargeIsKept, DenialIsKept, Charging, Unsent, TypeOK
  <2> QED BY <1>7, <2>3, <2>5, Stepped
<1>10. stage'[j] = "idle" \/ ~(Throw(j, es) \/ (Leave(j) /\ Close(j, es, "failed")))
  BY <1>1 DEF Throw, Leave, TypeOK
<1> QED BY <1>4, <1>8, <1>9, <1>10

(***************************************************************************)
(* A way out of the handler is safe for a job whose pull is dead, whatever *)
(* its customer is told, and for any job whose customer is told it is lost.*)
(***************************************************************************)
Dead(state, j) == state # "landed" /\ (state = "sent" => j \in over)

LEMMA ExitMoves ==
    ASSUME TypeOK, NEW j \in Jobs, JobInv(j), up,
           NEW es, Entered(j, es), es[j].pull \/ es[j].pull = entries[j].pull,
           NEW m \in {"failed", "uncharged", "lost"},
           Throw(j, es) \/ (Leave(j) /\ Close(j, es, m)),
           over' = over, now' = now, up' = up,
           NEW state, tx' = [tx EXCEPT ![j] = state], state = tx[j] \/ state = "signed",
           state # "none" => file[j].status # "absent",
           Dead(state, j) \/ (m = "lost" /\ Leave(j) /\ Close(j, es, m)),
           m = "uncharged" => Dead(state, j),
           ElseTypes'
    PROVE  Moved(j) /\ TypeOK' /\ JobInv(j)'
<1>1. Wrote(j) /\ TaskTypes' /\ (entries'[j].pull \/ entries'[j].pull = entries[j].pull)
  BY ThrowWrites, ThrowTypes, CloseWrites, CloseTypes
<1>2. TypeOK'
  BY <1>1, TypesSplitNext
<1>3. /\ stage' = [stage EXCEPT ![j] = "idle"] /\ checked' = [checked EXCEPT ![j] = 0]
      /\ told' = told \/ told' = [told EXCEPT ![j] = "failed"] \/ told' = [told EXCEPT ![j] = m]
      /\ m = "lost" /\ ~Dead(state, j) => told' = [told EXCEPT ![j] = m]
  BY DEF Throw, Leave, Close
<1>4. tx'[j] = state /\ \A k \in Jobs \ {j} : tx'[k] = tx[k]
  BY DEF TypeOK
<1>5. Moved(j)
  BY <1>1, <1>3, <1>4 DEF Moved, TypeOK
<1>6. stage'[j] = "idle" /\ entries'[j].status # "absent"
  BY <1>1, <1>3 DEF TypeOK, Wrote, Entered
<1>7. Awake(j)' /\ InTime(j)'
  BY <1>6 DEF Awake, InTime
<1>8. OnFile(j)'
  <2>1. state \in {"sent", "landed", "reverted"} => file[j].pull /\ entries[j].pull
    BY DEF JobInv, OnFile
  <2>2. file'[j] = file[j] \/ file'[j] = entries'[j]
    BY <1>1 DEF Wrote
  <2> QED BY <1>1, <1>4, <1>6, <2>1, <2>2 DEF OnFile, Unsent
<1>9. ChargeIsKept(j)'
  <2>1. CASE Dead(state, j)
    BY <2>1, <1>4, <1>6 DEF ChargeIsKept, Charging, Dead
  <2>2. CASE ~Dead(state, j)
    BY <2>2, <1>3 DEF ChargeIsKept, Answered, TypeOK
  <2> QED BY <2>1, <2>2
<1>10. DenialIsKept(j)'
  <2>1. CASE Dead(state, j)
    BY <2>1, <1>4, <1>6 DEF DenialIsKept, Dead, Unsent
  <2>2. CASE ~Dead(state, j)
    BY <2>2, <1>3 DEF DenialIsKept, TypeOK
  <2> QED BY <2>1, <2>2
<1> QED BY <1>2, <1>5, <1>7, <1>8, <1>9, <1>10 DEF JobInv

LEMMA RefuseKeeps == ASSUME IInv, NEW j \in Jobs, Refuse(j) PROVE IInv'
<1>1. TypeOK /\ JobInv(j) /\ stage[j] = "verifying"
  BY DEF IInv, Refuse
<1>2. up /\ entries[j].status # "absent" /\ tx[j] = "none"
  BY <1>1 DEF JobInv, Awake, OnFile, Unsent
<1>3. Leave(j) /\ Close(j, entries, "failed") /\ ElseTypes'
      /\ over' = over /\ now' = now /\ up' = up /\ used' = used /\ burns' = burns
      /\ tx' = [tx EXCEPT ![j] = "none"]
  BY <1>1, <1>2, ElseKept DEF Refuse, Reject, nonces, chain, world, TypeOK
<1>4. Moved(j) /\ TypeOK' /\ JobInv(j)'
  BY <1>1, <1>2, <1>3, ExitMoves, EnteredNone DEF Dead
<1> QED BY <1>3, <1>4, Stepped

LEMMA BurnKeeps == ASSUME IInv, NEW j \in Jobs, Burn(j) PROVE IInv'
<1>1. TypeOK /\ JobInv(j) /\ stage[j] = "verifying" /\ ProofOf[j] \notin used
  BY DEF IInv, Burn
<1>2. /\ up /\ entries[j].status = "paid" /\ tx[j] = "none" /\ file[j].status # "absent"
      /\ told[j] # "uncharged"
  BY <1>1 DEF JobInv, Awake, OnFile, DenialIsKept, Unsent
<1>3. Retained
  BY <1>1 DEF JobInv, InTime, Retained, TypeOK
<1>4. ProofOf[j] \in Proofs
  OBVIOUS
<1>5. burns[ProofOf[j]] = 0 /\ \A p \in Proofs : burns[p] \in Nat
  BY <1>1, <1>2, <1>3, <1>4 DEF IInv, Burned, TypeOK
<1>6. /\ used' = used \cup {ProofOf[j]}
      /\ burns' = [burns EXCEPT ![ProofOf[j]] = burns[ProofOf[j]] + 1]
      /\ UNCHANGED <<chain, world>>
      /\ usedFile' = used' \/ usedFile' = usedFile
      /\ \/ writable /\ Flush(entries) /\ Goto(j, "asking") /\ told' = told
         \/ ~writable /\ Throw(j, entries)
  BY DEF Burn, Persist
<1>7. ElseTypes'
  BY <1>1, <1>4, <1>5, <1>6 DEF TypeOK, ElseTypes, chain, world
<1>8. /\ over' = over /\ now' = now /\ up' = up /\ tx' = tx /\ writable' = writable
      /\ tx' = [tx EXCEPT ![j] = "none"]
  BY <1>1, <1>2, <1>6 DEF chain, world, TypeOK
<1>9. Moved(j) /\ TypeOK' /\ JobInv(j)'
  <2>1. CASE ~writable /\ Throw(j, entries)
    BY <2>1, <1>1, <1>2, <1>7, <1>8, ExitMoves, EnteredNone DEF Dead
  <2>2. CASE writable /\ Flush(entries) /\ Goto(j, "asking") /\ told' = told
    <3>1. Wrote(j) /\ entries' = entries /\ file' = entries
      BY <2>2, <1>1, <1>2, EnteredNone, FlushWrites
    <3>2. TaskTypes'
      BY <2>2, <3>1, <1>1 DEF TaskTypes, TypeOK, Goto, Stages
    <3>3. Moved(j) /\ TypeOK'
      BY <2>2, <3>1, <3>2, <1>1, <1>2, <1>7, <1>8, TypesSplitNext DEF Moved, TypeOK, Goto
    <3>4. JobInv(j)'
      BY <2>2, <3>1, <1>1, <1>2, <1>8
         DEF JobInv, Awake, InTime, OnFile, ChargeIsKept, DenialIsKept, Charging, Unsent, Goto,
             TypeOK
    <3> QED BY <3>3, <3>4
  <2> QED BY <1>6, <2>1, <2>2
<1>10. \A k \in Jobs : JobInv(k)'
  BY <1>1, <1>9, OthersKeep DEF IInv
<1>11. file'[j].status # "absent"
       /\ \A k \in Jobs : file[k].status # "absent" => file'[k].status # "absent"
  BY <1>1, <1>2, <1>9, FileGrows DEF IInv
<1>12. \A p \in Proofs : Burned(p)'
  <2> SUFFICES ASSUME NEW p \in Proofs PROVE Burned(p)'
    OBVIOUS
  <2>1. CASE p = ProofOf[j]
    BY <2>1, <1>1, <1>5, <1>6, <1>11 DEF Burned, TypeOK
  <2>2. CASE p # ProofOf[j]
    <3>1. burns'[p] = burns[p] /\ Burned(p) /\ Retained' = Retained /\ up' = up
      BY <2>2, <1>1, <1>6, <1>8 DEF IInv, TypeOK, Retained
    <3> QED BY <3>1, <1>6, <1>11 DEF Burned
  <2> QED BY <2>1, <2>2
<1> QED BY <1>9, <1>10, <1>12 DEF IInv
(***************************************************************************)
(* The ways on: with a ledger that reached the disk, and with no write.    *)
(***************************************************************************)
LEMMA GoMoves ==
    ASSUME TypeOK, NEW j \in Jobs, up, up' = up, over' = over, now' = now,
           NEW es, Entered(j, es), writable, Flush(es), NEW step \in Stages, Goto(j, step),
           told' = told, NEW state, tx' = [tx EXCEPT ![j] = state], ElseTypes'
    PROVE  Moved(j) /\ TypeOK' /\ entries' = es /\ file' = es
<1>1. Wrote(j) /\ entries' = es /\ file' = es
  BY FlushWrites
<1>2. TaskTypes'
  BY <1>1 DEF TaskTypes, TypeOK, Goto, Entered
<1>3. Moved(j)
  BY <1>1 DEF Moved, TypeOK, Goto
<1> QED BY <1>1, <1>2, <1>3, TypesSplitNext

LEMMA StayMoves ==
    ASSUME TypeOK, NEW j \in Jobs, up, up' = up, over' = over, now' = now,
           entries[j].status # "absent", UNCHANGED <<ledger, told>>,
           NEW step \in Stages, stage' = [stage EXCEPT ![j] = step],
           checked' = checked \/ checked' = [checked EXCEPT ![j] = 0],
           inFlight' \in [Owners -> Nat],
           NEW state, tx' = [tx EXCEPT ![j] = state], ElseTypes'
    PROVE  Moved(j) /\ TypeOK' /\ entries' = entries /\ file' = file
<1>1. entries' = entries /\ file' = file /\ told' = told
  BY DEF ledger
<1>2. 0 \in 0..Expiry + Skew
  OBVIOUS
<1>3. TaskTypes'
  BY <1>1, <1>2 DEF TaskTypes, TypeOK
<1>4. Moved(j)
  BY <1>1, EnteredNone DEF Moved, Wrote, TypeOK
<1> QED BY <1>1, <1>3, <1>4, TypesSplitNext

\* A handler that leaves with nothing written keeps what holds of its job.
LEMMA RestMoves ==
    ASSUME TypeOK, NEW j \in Jobs, JobInv(j), up, up' = up, over' = over, now' = now,
           entries[j].status # "absent", UNCHANGED <<ledger, told>>, Leave(j), tx' = tx, ElseTypes'
    PROVE  Moved(j) /\ TypeOK' /\ JobInv(j)'
<1>1. /\ stage' = [stage EXCEPT ![j] = "idle"] /\ checked' = [checked EXCEPT ![j] = 0]
      /\ inFlight' \in [Owners -> Nat] /\ tx' = [tx EXCEPT ![j] = tx[j]] /\ "idle" \in Stages
  BY LeaveTypes DEF Leave, TypeOK, Stages
<1>2. Moved(j) /\ TypeOK' /\ entries' = entries /\ file' = file
  BY <1>1, StayMoves
<1>3. told' = told /\ stage'[j] = "idle"
  BY <1>1 DEF TypeOK
<1>4. JobInv(j)'
  BY <1>1, <1>2, <1>3
     DEF JobInv, Awake, InTime, OnFile, ChargeIsKept, DenialIsKept, Charging, Answered, Unsent
<1> QED BY <1>2, <1>4

LEMMA AdmitKeeps == ASSUME IInv, NEW j \in Jobs, Admit(j) PROVE IInv'
<1>1. TypeOK /\ JobInv(j) /\ stage[j] = "asking"
  BY DEF IInv, Admit
<1>2. /\ up /\ entries[j].status = "paid" /\ tx[j] = "none" /\ file[j].status # "absent"
      /\ told[j] # "uncharged"
  BY <1>1 DEF JobInv, Awake, OnFile, DenialIsKept, Unsent
<1>3. UNCHANGED <<nonces, chain, world>>
  BY DEF Admit
<1>4. /\ ElseTypes' /\ over' = over /\ now' = now /\ up' = up /\ used' = used /\ burns' = burns
      /\ tx' = [tx EXCEPT ![j] = "none"]
  BY <1>1, <1>2, <1>3, ElseKept DEF nonces, chain, world, TypeOK
<1>5. CASE Reject(j)
  <2>1. Moved(j) /\ TypeOK' /\ JobInv(j)'
    BY <1>1, <1>2, <1>4, <1>5, ExitMoves, EnteredNone DEF Dead, Reject
  <2> QED BY <2>1, <1>4, Stepped
<1>6. CASE /\ stage' = [stage EXCEPT ![j] = "working"]
           /\ inFlight' = [inFlight EXCEPT ![Owner(j)] = inFlight[Owner(j)] + Price[j]]
           /\ UNCHANGED <<checked, ledger, told>>
  <2>1. Owner(j) \in Owners /\ Price[j] \in Nat /\ inFlight[Owner(j)] \in Nat
    BY <1>1, OwnerTyped DEF TypeOK
  <2>2. inFlight' \in [Owners -> Nat] /\ "working" \in Stages
    BY <2>1, <1>1, <1>6 DEF TypeOK, Stages
  <2>3. Moved(j) /\ TypeOK' /\ entries' = entries /\ file' = file
    BY <2>2, <1>1, <1>2, <1>4, <1>6, StayMoves
  <2>4. JobInv(j)'
    BY <2>3, <1>1, <1>2, <1>4, <1>6
       DEF JobInv, Awake, InTime, OnFile, ChargeIsKept, DenialIsKept, Charging, Unsent, TypeOK
  <2> QED BY <2>3, <2>4, <1>4, Stepped
<1> QED BY <1>5, <1>6 DEF Admit

LEMMA WorkKeeps == ASSUME IInv, NEW j \in Jobs, Work(j) PROVE IInv'
<1> DEFINE e == [entries[j] EXCEPT !.content = TRUE]
           es == [entries EXCEPT ![j].content = TRUE]
<1>1. TypeOK /\ JobInv(j) /\ stage[j] = "working"
  BY DEF IInv, Work
<1>2. /\ up /\ entries[j].status = "paid" /\ tx[j] = "none" /\ file[j].status # "absent"
      /\ told[j] # "uncharged"
  BY <1>1 DEF JobInv, Awake, OnFile, DenialIsKept, Unsent
<1>3. /\ UNCHANGED <<nonces, tx, over, settled, world>>
      /\ \/ (Throw(j, entries) \/ CloseUncharged(j)) /\ UNCHANGED amount
         \/ /\ \E reported \in 0..Price[j] + 1 : amount' = [amount EXCEPT ![j] = Charge(j, reported)]
            /\ Persist(j, es, "signing")
  BY DEF Work
<1>4. /\ entries[j] \in Entry
      /\ e \in Entry /\ e.status = "paid" /\ e.content /\ e.pull = entries[j].pull
      /\ es = [entries EXCEPT ![j] = e]
  <2>1. entries[j] \in Entry
    BY <1>1 DEF TypeOK
  <2>2. e \in Entry /\ e.status = "paid" /\ e.content /\ e.pull = entries[j].pull
    BY <1>2, <2>1 DEF Entry
  <2>3. es = [entries EXCEPT ![j] = e]
    BY <1>1 DEF TypeOK
  <2> QED BY <2>1, <2>2, <2>3
<1>5. Entered(j, es) /\ es[j] = e
  BY <1>1, <1>4, EnteredOne
<1> HIDE DEF e, es
<1>6. amount' \in [Jobs -> Nat] /\ \A k \in Jobs : amount'[k] \in {0} \cup Floor[k]..Price[k]
  <2>1. CASE amount' = amount
    BY <2>1, <1>1 DEF TypeOK
  <2>2. CASE \E reported \in 0..Price[j] + 1 : amount' = [amount EXCEPT ![j] = Charge(j, reported)]
    <3>1. PICK reported \in 0..Price[j] + 1 : amount' = [amount EXCEPT ![j] = Charge(j, reported)]
      BY <2>2
    <3>2. Charge(j, reported) \in Floor[j]..Price[j] /\ Charge(j, reported) \in Nat
      BY ChargeInRange
    <3> QED BY <3>1, <3>2, <1>1 DEF TypeOK
  <2> QED BY <1>3, <2>1, <2>2
<1>7. /\ ElseTypes' /\ over' = over /\ now' = now /\ up' = up /\ used' = used /\ burns' = burns
      /\ tx' = [tx EXCEPT ![j] = "none"]
  BY <1>1, <1>2, <1>3, <1>6 DEF nonces, world, TypeOK, ElseTypes
<1>8. Moved(j) /\ TypeOK' /\ JobInv(j)'
  <2>1. CASE Throw(j, entries)
    BY <2>1, <1>1, <1>2, <1>7, ExitMoves, EnteredNone DEF Dead
  <2>2. CASE CloseUncharged(j)
    BY <2>2, <1>1, <1>2, <1>7, ExitMoves, EnteredNone DEF Dead, CloseUncharged
  <2>3. CASE Throw(j, es)
    BY <2>3, <1>1, <1>2, <1>4, <1>5, <1>7, ExitMoves DEF Dead
  <2>4. CASE writable /\ Flush(es) /\ Goto(j, "signing") /\ told' = told
    <3>1. Moved(j) /\ TypeOK' /\ entries' = es /\ file' = es
      BY <2>4, <1>1, <1>2, <1>5, <1>7, GoMoves DEF Stages
    <3>2. JobInv(j)'
      BY <2>4, <3>1, <1>1, <1>2, <1>4, <1>5, <1>7
         DEF JobInv, Awake, InTime, OnFile, ChargeIsKept, DenialIsKept, Charging, Unsent, TypeOK,
             Goto
    <3> QED BY <3>1, <3>2
  <2> QED BY <1>3, <2>1, <2>2, <2>3, <2>4 DEF Persist
<1> QED BY <1>7, <1>8, Stepped

LEMMA SignKeeps == ASSUME IInv, NEW j \in Jobs, Sign(j) PROVE IInv'
<1> DEFINE e == [entries[j] EXCEPT !.pull = TRUE]
           es == [entries EXCEPT ![j].pull = TRUE]
<1>1. TypeOK /\ JobInv(j) /\ stage[j] = "signing"
  BY DEF IInv, Sign
<1>2. /\ up /\ entries[j].status = "paid" /\ tx[j] = "none" /\ file[j].status # "absent"
      /\ told[j] # "uncharged" /\ entries[j].content
  BY <1>1 DEF JobInv, Awake, OnFile, DenialIsKept, Unsent
<1>3. /\ UNCHANGED <<nonces, amount, over, settled, world>>
      /\ \/ Throw(j, entries) /\ UNCHANGED tx
         \/ tx' = [tx EXCEPT ![j] = "signed"] /\ Persist(j, es, "sending")
  BY DEF Sign
<1>4. /\ e \in Entry /\ e.status = "paid" /\ e.content /\ e.pull
      /\ es = [entries EXCEPT ![j] = e]
  BY <1>1, <1>2 DEF TypeOK, Entry
<1>5. Entered(j, es) /\ es[j] = e
  BY <1>1, <1>4, EnteredOne
<1> HIDE DEF e, es
<1>6. /\ ElseTypes' /\ over' = over /\ now' = now /\ up' = up /\ used' = used /\ burns' = burns
      /\ \/ tx' = [tx EXCEPT ![j] = "none"] /\ Throw(j, entries)
         \/ tx' = [tx EXCEPT ![j] = "signed"] /\ Persist(j, es, "sending")
  BY <1>1, <1>2, <1>3 DEF nonces, world, TypeOK, ElseTypes
<1>7. Moved(j) /\ TypeOK' /\ JobInv(j)'
  <2>1. CASE tx' = [tx EXCEPT ![j] = "none"] /\ Throw(j, entries)
    BY <2>1, <1>1, <1>2, <1>6, ExitMoves, EnteredNone DEF Dead
  <2>2. CASE tx' = [tx EXCEPT ![j] = "signed"] /\ Throw(j, es)
    BY <2>2, <1>1, <1>2, <1>4, <1>5, <1>6, ExitMoves DEF Dead
  <2>3. CASE /\ tx' = [tx EXCEPT ![j] = "signed"]
             /\ writable /\ Flush(es) /\ Goto(j, "sending") /\ told' = told
    <3>1. Moved(j) /\ TypeOK' /\ entries' = es /\ file' = es
      BY <2>3, <1>1, <1>2, <1>5, <1>6, GoMoves DEF Stages
    <3>2. JobInv(j)'
      BY <2>3, <3>1, <1>1, <1>2, <1>4, <1>5, <1>6
         DEF JobInv, Awake, InTime, OnFile, ChargeIsKept, DenialIsKept, Charging, Unsent, TypeOK,
             Goto, Recoverable
    <3> QED BY <3>1, <3>2
  <2> QED BY <1>6, <2>1, <2>2, <2>3 DEF Persist
<1> QED BY <1>6, <1>7, Stepped
LEMMA SendKeeps == ASSUME IInv, NEW j \in Jobs, Send(j) PROVE IInv'
<1>1. TypeOK /\ JobInv(j) /\ stage[j] = "sending"
  BY DEF IInv, Send
<1>2. /\ up /\ entries[j].status = "paid" /\ tx[j] = "signed" /\ file[j].status # "absent"
      /\ told[j] # "uncharged" /\ file[j].pull /\ entries[j].pull
  BY <1>1 DEF JobInv, Awake, OnFile, DenialIsKept, Unsent
<1>3. PICK arrived \in {"sent", "signed"} : tx' = [tx EXCEPT ![j] = arrived]
  BY DEF Send
<1>4. /\ Goto(j, "confirming") /\ "confirming" \in Stages
      /\ UNCHANGED <<ledger, nonces, amount, over, settled, world, told>>
  BY DEF Send, Stages
<1>5. /\ ElseTypes' /\ over' = over /\ now' = now /\ up' = up /\ used' = used /\ burns' = burns
  BY <1>1, <1>3, <1>4 DEF nonces, world, TypeOK, ElseTypes
<1>6. /\ stage' = [stage EXCEPT ![j] = "confirming"] /\ checked' = checked
      /\ inFlight' \in [Owners -> Nat] /\ UNCHANGED <<ledger, told>>
  BY <1>1, <1>4 DEF Goto, TypeOK
<1>7. Moved(j) /\ TypeOK' /\ entries' = entries /\ file' = file
  BY <1>1, <1>2, <1>3, <1>4, <1>5, <1>6, StayMoves
<1>8. JobInv(j)'
  BY <1>7, <1>1, <1>2, <1>3, <1>5, <1>6
     DEF JobInv, Awake, InTime, OnFile, ChargeIsKept, DenialIsKept, Charging, Answered, Unsent,
         TypeOK
<1> QED BY <1>5, <1>7, <1>8, Stepped

\* A job past its pull that is called executed keeps its content and its pull.
LEMMA ExecutedKeeps ==
    ASSUME IInv, NEW j \in Jobs, stage[j] \in {"confirming", "reconciling"},
           NEW step \in {"delivering", "redelivering"}, Executed(j, step),
           UNCHANGED <<nonces, chain, world>>
    PROVE  IInv'
<1> DEFINE e == [entries[j] EXCEPT !.status = "executed"]
           es == [entries EXCEPT ![j].status = "executed"]
<1>1. TypeOK /\ JobInv(j)
  BY DEF IInv
<1>2. up /\ entries[j].status # "absent"
  BY <1>1 DEF JobInv, Awake
<1>3. /\ e \in Entry /\ e.status = "executed" /\ e.content = entries[j].content
      /\ e.pull = entries[j].pull /\ es = [entries EXCEPT ![j] = e]
  <2>1. entries[j] \in Entry
    BY <1>1 DEF TypeOK
  <2>2. /\ e \in Entry /\ e.status = "executed" /\ e.content = entries[j].content
        /\ e.pull = entries[j].pull
    BY <2>1 DEF Entry, Statuses
  <2>3. es = [entries EXCEPT ![j] = e]
    BY <1>1 DEF TypeOK
  <2> QED BY <2>2, <2>3
<1>4. Entered(j, es) /\ es[j] = e
  BY <1>1, <1>3, EnteredOne
<1>5. Flush(es) /\ told' = told /\ IF writable THEN Goto(j, step) ELSE Leave(j)
  BY DEF Executed
<1> HIDE DEF e, es
<1>6. Wrote(j) /\ entries' = es
  BY <1>1, <1>4, <1>5, FlushWrites
<1>7. /\ ElseTypes' /\ over' = over /\ now' = now /\ up' = up /\ used' = used /\ burns' = burns
      /\ tx' = tx
  BY <1>1, ElseKept DEF nonces, chain, world
<1>8. /\ stage' = [stage EXCEPT ![j] = step] \/ stage' = [stage EXCEPT ![j] = "idle"]
      /\ checked' = checked \/ checked' = [checked EXCEPT ![j] = 0]
      /\ inFlight' \in [Owners -> Nat]
  <2>1. CASE writable
    BY <2>1, <1>1, <1>5 DEF Goto, TypeOK
  <2>2. CASE ~writable
    BY <2>2, <1>1, <1>5, LeaveTypes DEF Leave
  <2> QED BY <2>1, <2>2
<1>9. TaskTypes'
  <2>1. 0 \in 0..Expiry + Skew /\ step \in Stages /\ "idle" \in Stages
    BY DEF Stages
  <2> QED BY <2>1, <1>1, <1>4, <1>5, <1>6, <1>8 DEF TaskTypes, TypeOK, Wrote, Entered
<1>10. Moved(j) /\ TypeOK'
  BY <1>1, <1>2, <1>5, <1>6, <1>7, <1>8, <1>9, TypesSplitNext DEF Moved, TypeOK
<1>11. stage'[j] \in {step, "idle"} /\ (file' = file \/ file' = es)
  BY <1>1, <1>6, <1>8 DEF TypeOK, Wrote
<1>12. Awake(j)' /\ InTime(j)' /\ DenialIsKept(j)'
  BY <1>1, <1>2, <1>3, <1>4, <1>5, <1>6, <1>7, <1>11
     DEF JobInv, Awake, InTime, DenialIsKept, Unsent
<1>13. OnFile(j)'
  BY <1>1, <1>2, <1>3, <1>4, <1>6, <1>7, <1>11 DEF JobInv, OnFile, Unsent
<1>14. ChargeIsKept(j)'
  BY <1>1, <1>2, <1>3, <1>4, <1>5, <1>6, <1>7, <1>11
     DEF JobInv, ChargeIsKept, Charging, Answered, Recoverable
<1>15. JobInv(j)'
  BY <1>12, <1>13, <1>14 DEF JobInv
<1> QED BY <1>7, <1>10, <1>15, Stepped

\* A pull whose confirmation ends in "dead" moves no money, then or later.
LEMMA DeadIsDead ==
    ASSUME TypeOK, NEW j \in Jobs, "dead" \in Outcomes(j)
    PROVE  Dead(tx[j], j)
<1>1. CASE tx[j] = "landed"
  <2>1. Outcomes(j) \subseteq {"landed", "unresolved"}
    BY <1>1 DEF Outcomes
  <2> QED BY <2>1
<1>2. CASE tx[j] # "landed" /\ tx[j] # "reverted" /\ j \notin over
  <2>1. Outcomes(j) \subseteq {"unresolved"}
    BY <1>2 DEF Outcomes
  <2> QED BY <2>1
<1> QED BY <1>1, <1>2 DEF Dead

\* The ways that a confirmation, live or recovered, has in common.
LEMMA SettledKeeps ==
    ASSUME IInv, NEW j \in Jobs, stage[j] \in {"confirming", "reconciling"},
           UNCHANGED <<nonces, chain, world>>,
           NEW step \in {"delivering", "redelivering"},
           \/ Leave(j) /\ UNCHANGED <<ledger, told>>
           \/ "dead" \in Outcomes(j) /\ CloseUncharged(j)
           \/ Executed(j, step)
           \/ Leave(j) /\ Close(j, entries, "lost") /\ stage[j] = "reconciling"
    PROVE  IInv'
<1>1. TypeOK /\ JobInv(j)
  BY DEF IInv
<1>2. up /\ entries[j].status # "absent"
  BY <1>1 DEF JobInv, Awake
<1>3. /\ ElseTypes' /\ over' = over /\ now' = now /\ up' = up /\ used' = used /\ burns' = burns
      /\ tx' = tx /\ tx' = [tx EXCEPT ![j] = tx[j]]
  BY <1>1, ElseKept DEF nonces, chain, world, TypeOK
<1>4. tx[j] # "none" => file[j].status # "absent"
  BY <1>1 DEF JobInv, OnFile
<1>5. CASE Leave(j) /\ UNCHANGED <<ledger, told>>
  <2>1. Moved(j) /\ TypeOK' /\ JobInv(j)'
    BY <1>1, <1>2, <1>3, <1>5, RestMoves
  <2> QED BY <2>1, <1>3, Stepped
<1>6. CASE "dead" \in Outcomes(j) /\ CloseUncharged(j)
  <2>1. Moved(j) /\ TypeOK' /\ JobInv(j)'
    BY <1>1, <1>2, <1>3, <1>4, <1>6, DeadIsDead, ExitMoves, EnteredNone DEF CloseUncharged
  <2> QED BY <2>1, <1>3, Stepped
<1>7. CASE Executed(j, step)
  BY <1>7, ExecutedKeeps
<1>8. CASE Leave(j) /\ Close(j, entries, "lost")
  <2>1. Moved(j) /\ TypeOK' /\ JobInv(j)'
    BY <1>1, <1>2, <1>3, <1>4, <1>8, ExitMoves, EnteredNone
  <2> QED BY <2>1, <1>3, Stepped
<1> QED BY <1>5, <1>6, <1>7, <1>8

LEMMA ConfirmKeeps == ASSUME IInv, NEW j \in Jobs, Confirm(j) PROVE IInv'
BY SettledKeeps DEF Confirm

LEMMA ReconcileKeeps == ASSUME IInv, NEW j \in Jobs, Reconcile(j) PROVE IInv'
BY SettledKeeps DEF Reconcile

LEMMA DeliverKeeps == ASSUME IInv, NEW j \in Jobs, Deliver(j) PROVE IInv'
<1> DEFINE e == [[entries[j] EXCEPT !.status = "delivered"] EXCEPT !.content = FALSE]
           es == [entries EXCEPT ![j].status = "delivered", ![j].content = FALSE]
<1>1. TypeOK /\ JobInv(j) /\ stage[j] \in {"delivering", "redelivering"}
  BY DEF IInv, Deliver
<1>2. up /\ entries[j].status # "absent"
  BY <1>1 DEF JobInv, Awake
<1>3. /\ Leave(j)
      /\ \/ UNCHANGED <<ledger, told>>
         \/ Flush(es) /\ told' = [told EXCEPT ![j] = "result"]
      /\ UNCHANGED <<nonces, chain, world>>
  BY DEF Deliver
<1>4. /\ e \in Entry /\ e.status = "delivered" /\ e.pull = entries[j].pull
      /\ es = [entries EXCEPT ![j] = e]
  <2>1. entries[j] \in Entry
    BY <1>1 DEF TypeOK
  <2>2. e \in Entry /\ e.status = "delivered" /\ e.pull = entries[j].pull
    BY <2>1 DEF Entry, Statuses
  <2>3. es = [entries EXCEPT ![j] = e]
    BY <1>1 DEF TypeOK
  <2> QED BY <2>2, <2>3
<1>5. Entered(j, es) /\ es[j] = e
  BY <1>1, <1>4, EnteredOne
<1> HIDE DEF e, es
<1>6. /\ ElseTypes' /\ over' = over /\ now' = now /\ up' = up /\ used' = used /\ burns' = burns
      /\ tx' = tx
  BY <1>1, <1>3, ElseKept DEF nonces, chain, world
<1>7. CASE UNCHANGED <<ledger, told>>
  <2>1. Moved(j) /\ TypeOK' /\ JobInv(j)'
    BY <1>1, <1>2, <1>3, <1>6, <1>7, RestMoves
  <2> QED BY <2>1, <1>6, Stepped
<1>8. CASE Flush(es) /\ told' = [told EXCEPT ![j] = "result"]
  <2>1. Wrote(j) /\ entries' = es
    BY <1>1, <1>5, <1>8, FlushWrites
  <2>2. /\ stage' = [stage EXCEPT ![j] = "idle"] /\ checked' = [checked EXCEPT ![j] = 0]
    BY <1>3 DEF Leave
  <2>3. TaskTypes'
    BY <2>1, <1>1, <1>3, <1>5, <1>8, LeaveTypes DEF TaskTypes, TypeOK, Wrote, Entered
  <2>4. Moved(j) /\ TypeOK'
    BY <2>1, <2>2, <2>3, <1>1, <1>2, <1>6, <1>8, TypesSplitNext DEF Moved, TypeOK
  <2>5. stage'[j] = "idle" /\ told'[j] = "result" /\ (file' = file \/ file' = es)
    BY <2>1, <2>2, <1>1, <1>8 DEF TypeOK, Wrote
  <2>6. Awake(j)' /\ InTime(j)' /\ DenialIsKept(j)' /\ ChargeIsKept(j)'
    BY <2>1, <2>5, <1>4, <1>5 DEF Awake, InTime, DenialIsKept, ChargeIsKept, Answered
  <2>7. OnFile(j)'
    BY <2>1, <2>5, <1>1, <1>2, <1>4, <1>5, <1>6 DEF JobInv, OnFile, Unsent
  <2>8. JobInv(j)'
    BY <2>6, <2>7 DEF JobInv
  <2> QED BY <2>4, <2>8, <1>6, Stepped
<1> QED BY <1>3, <1>7, <1>8

LEMMA RecoverKeeps == ASSUME IInv, NEW j \in Jobs, Recover(j) PROVE IInv'
<1>1. TypeOK /\ JobInv(j) /\ stage[j] = "idle" /\ up /\ j \in Pending
  BY DEF IInv, Recover
<1>2. entries[j].status # "absent" /\ (tx[j] # "none" => file[j].status # "absent")
  BY <1>1 DEF Pending, JobInv, OnFile
<1>3. UNCHANGED <<nonces, chain, world>>
  BY DEF Recover
<1>4. /\ ElseTypes' /\ over' = over /\ now' = now /\ up' = up /\ used' = used /\ burns' = burns
      /\ tx' = tx /\ tx' = [tx EXCEPT ![j] = tx[j]]
  BY <1>1, <1>3, ElseKept DEF nonces, chain, world, TypeOK
<1>5. ~entries[j].pull => Dead(tx[j], j)
  BY <1>1 DEF JobInv, OnFile, Dead, TypeOK
<1>6. CASE ~entries[j].pull /\ (Reject(j) \/ CloseUncharged(j))
  <2>1. Moved(j) /\ TypeOK' /\ JobInv(j)'
    BY <1>1, <1>2, <1>4, <1>5, <1>6, ExitMoves, EnteredNone DEF CloseUncharged, Reject
  <2> QED BY <2>1, <1>4, Stepped
<1>7. CASE Goto(j, "reconciling") /\ UNCHANGED <<ledger, told>>
  <2>1. /\ stage' = [stage EXCEPT ![j] = "reconciling"] /\ checked' = checked
        /\ inFlight' \in [Owners -> Nat] /\ "reconciling" \in Stages
    BY <1>1, <1>7 DEF Goto, TypeOK, Stages
  <2>2. Moved(j) /\ TypeOK' /\ entries' = entries /\ file' = file
    BY <2>1, <1>1, <1>2, <1>4, <1>7, StayMoves
  <2>3. stage'[j] = "reconciling" /\ told' = told
    BY <2>1, <1>1, <1>7 DEF TypeOK
  <2>4. JobInv(j)'
    BY <2>2, <2>3, <1>1, <1>2, <1>4
       DEF JobInv, Awake, InTime, OnFile, ChargeIsKept, DenialIsKept, Charging, Answered, Unsent
  <2> QED BY <2>2, <2>4, <1>4, Stepped
<1>8. CASE writable /\ Flush(entries) /\ Goto(j, "redelivering") /\ UNCHANGED told
  <2>1. Moved(j) /\ TypeOK' /\ entries' = entries /\ file' = entries
    BY <1>1, <1>2, <1>4, <1>8, GoMoves, EnteredNone DEF Stages
  <2>2. stage'[j] = "redelivering" /\ told' = told
    BY <1>1, <1>8 DEF Goto, TypeOK
  <2>3. JobInv(j)'
    BY <2>1, <2>2, <1>1, <1>2, <1>4
       DEF JobInv, Awake, InTime, OnFile, ChargeIsKept, DenialIsKept, Charging, Answered, Unsent
  <2> QED BY <2>1, <2>3, <1>4, Stepped
<1>9. CASE Leave(j) /\ Close(j, entries, "lost")
  <2>1. Moved(j) /\ TypeOK' /\ JobInv(j)'
    BY <1>1, <1>2, <1>4, <1>9, ExitMoves, EnteredNone
  <2> QED BY <2>1, <1>4, Stepped
<1> QED BY <1>6, <1>7, <1>8, <1>9 DEF Recover, CutOff

(***************************************************************************)
(* The chain, the clock, the disk and the process.                         *)
(***************************************************************************)
\* A step that leaves the ledger, the handlers and the nonces alone.
Aside == UNCHANGED <<ledger, nonces, task, told, up, crashes>>

LEMMA AsideKeeps ==
    ASSUME IInv, Aside, ElseTypes', \A j \in Jobs : JobInv(j)', Retained' => Retained
    PROVE  IInv'
<1>1. TypeOK'
  BY TypesSplitNext DEF IInv, Aside, ledger, task, TypeOK, TaskTypes
<1>2. \A p \in Proofs : Burned(p)'
  <2>1. used' = used /\ burns' = burns /\ file' = file /\ up' = up
    BY DEF Aside, nonces, ledger
  <2>2. ASSUME NEW p \in Proofs PROVE Burned(p)'
    <3>1. Burned(p)
      BY DEF IInv
    <3> QED BY <2>1, <3>1 DEF Burned
  <2> QED BY <2>2
<1> QED BY <1>1, <1>2 DEF IInv

LEMMA LandKeeps == ASSUME IInv, NEW j \in Jobs, Land(j) PROVE IInv'
<1>1. TypeOK /\ (\A k \in Jobs : JobInv(k)) /\ tx[j] = "sent" /\ j \notin over
  BY DEF IInv, Land
<1>2. PICK state \in {"landed", "reverted"} : tx' = [tx EXCEPT ![j] = state]
  BY DEF Land
<1>3. UNCHANGED <<ledger, nonces, task, amount, over, settled, world, told>>
  BY DEF Land
<1>4. Aside /\ ElseTypes' /\ (Retained' => Retained)
  BY <1>1, <1>2, <1>3 DEF Aside, ElseTypes, TypeOK, world, nonces, Retained
<1>5. ASSUME NEW k \in Jobs PROVE JobInv(k)'
  <2>1. JobInv(k) /\ entries' = entries /\ file' = file /\ stage' = stage /\ checked' = checked
        /\ told' = told /\ up' = up /\ over' = over /\ now' = now
    BY <1>1, <1>3 DEF ledger, task, world
  <2>2. CASE k # j
    <3>1. tx'[k] = tx[k]
      BY <2>2, <1>1, <1>2 DEF TypeOK
    <3> QED BY <2>1, <3>1 DEF JobInv, Awake, InTime, OnFile, ChargeIsKept, DenialIsKept, Charging,
                              Answered
  <2>3. CASE k = j
    <3>1. tx'[k] = state
      BY <2>3, <1>1, <1>2 DEF TypeOK
    <3>2. told[k] # "uncharged" /\ stage[k] \notin Unsent
      BY <2>1, <2>3, <1>1 DEF JobInv, OnFile, DenialIsKept
    <3> QED BY <2>1, <2>3, <3>1, <3>2, <1>1
            DEF JobInv, Awake, InTime, OnFile, ChargeIsKept, DenialIsKept, Charging, Answered,
                Unsent
  <2> QED BY <2>2, <2>3
<1> QED BY <1>4, <1>5, AsideKeeps

LEMMA RunOutKeeps == ASSUME IInv, NEW j \in Jobs, RunOut(j) PROVE IInv'
<1>1. TypeOK /\ (\A k \in Jobs : JobInv(k)) /\ over' = over \cup {j}
      /\ UNCHANGED <<ledger, nonces, task, tx, amount, settled, world, told>>
  BY DEF IInv, RunOut
<1>2. Aside /\ ElseTypes' /\ (Retained' => Retained)
  BY <1>1 DEF Aside, ElseTypes, TypeOK, world, nonces, Retained
<1>3. \A k \in Jobs : JobInv(k)'
  BY <1>1 DEF ledger, task, world, JobInv, Awake, InTime, OnFile, ChargeIsKept, DenialIsKept,
              Charging, Answered
<1> QED BY <1>2, <1>3, AsideKeeps

\* What is finalized, how old a job is and whether writes succeed bear on no job.
LEMMA WorldKeeps ==
    ASSUME IInv, Aside, UNCHANGED <<tx, amount, over, now>>,
           settled' \subseteq Jobs, late' \subseteq Jobs, calm' \in BOOLEAN, writable' \in BOOLEAN
    PROVE  IInv'
<1>1. TypeOK /\ \A k \in Jobs : JobInv(k)
  BY DEF IInv
<1>2. ElseTypes' /\ (Retained' => Retained)
  BY <1>1 DEF Aside, ElseTypes, TypeOK, nonces, Retained
<1>3. \A k \in Jobs : JobInv(k)'
  BY <1>1 DEF Aside, ledger, task, JobInv, Awake, InTime, OnFile, ChargeIsKept, DenialIsKept,
              Charging, Answered
<1> QED BY <1>2, <1>3, AsideKeeps

LEMMA PassKeeps == ASSUME IInv, Pass PROVE IInv'
<1>1. /\ TypeOK /\ (\A k \in Jobs : JobInv(k)) /\ now < Expiry + Skew /\ now' = now + 1
      /\ \A k \in Jobs : stage[k] = "verifying" => now < checked[k] + Skew
      /\ UNCHANGED <<ledger, nonces, task, chain, late, calm, writable, up, crashes, told>>
  BY DEF IInv, Pass
<1>2. now \in Nat /\ Expiry + Skew \in Nat
  BY <1>1 DEF TypeOK
<1>3. Aside /\ ElseTypes' /\ (Retained' => Retained)
  BY <1>1, <1>2 DEF Aside, ElseTypes, TypeOK, nonces, chain, Retained
<1>4. ASSUME NEW k \in Jobs PROVE JobInv(k)'
  <2>1. /\ JobInv(k) /\ entries' = entries /\ file' = file /\ stage' = stage /\ checked' = checked
        /\ told' = told /\ up' = up /\ over' = over /\ tx' = tx
    BY <1>1 DEF ledger, task, chain
  <2>2. checked[k] \in Nat
    BY <1>1 DEF TypeOK
  <2>3. InTime(k)'
    BY <2>1, <2>2, <1>1, <1>2 DEF JobInv, InTime
  <2> QED BY <2>1, <2>3 DEF JobInv, Awake, OnFile, ChargeIsKept, DenialIsKept, Charging, Answered
<1> QED BY <1>3, <1>4, AsideKeeps

LEMMA PruneKeeps == ASSUME IInv, Prune PROVE IInv'
<1>1. /\ TypeOK /\ (\A k \in Jobs : JobInv(k)) /\ \A p \in Proofs : Burned(p)
      /\ ~Retained /\ used' = {} /\ usedFile' \in {{}, usedFile}
      /\ UNCHANGED <<ledger, burns, task, chain, world, told>>
  BY DEF IInv, Prune
<1>2. TypeOK'
  BY <1>1 DEF TypeOK, ledger, task, chain, world
<1>3. \A k \in Jobs : JobInv(k)'
  BY <1>1 DEF ledger, task, chain, world, JobInv, Awake, InTime, OnFile, ChargeIsKept,
              DenialIsKept, Charging, Answered
<1>4. ~Retained' /\ burns' = burns
  BY <1>1 DEF Retained, world
<1>5. \A p \in Proofs : Burned(p)'
  BY <1>1, <1>4 DEF Burned
<1> QED BY <1>2, <1>3, <1>5 DEF IInv

LEMMA CrashKeeps == ASSUME IInv, Crash PROVE IInv'
<1>1. /\ TypeOK /\ (\A k \in Jobs : JobInv(k)) /\ (\A p \in Proofs : Burned(p))
      /\ crashes < MaxCrashes /\ up' = FALSE /\ crashes' = crashes + 1
      /\ entries' = [k \in Jobs |-> Absent] /\ used' = {}
      /\ stage' = [k \in Jobs |-> "idle"] /\ checked' = [k \in Jobs |-> 0]
      /\ inFlight' = [o \in Owners |-> 0]
      /\ UNCHANGED <<file, usedFile, burns, chain, now, late, calm, writable, told>>
  BY DEF IInv, Crash
<1>2. Absent \in Entry /\ "idle" \in Stages /\ 0 \in 0..Expiry + Skew
  BY DEF Absent, Entry, Statuses, Stages
<1>3. TypeOK'
  <2>1. MaxCrashes \in Nat /\ crashes \in 0..MaxCrashes
    BY <1>1 DEF TypeOK
  <2>2. crashes' \in 0..MaxCrashes
    BY <2>1, <1>1
  <2>3. /\ entries' \in [Jobs -> Entry] /\ stage' \in [Jobs -> Stages]
        /\ checked' \in [Jobs -> 0..Expiry + Skew] /\ inFlight' \in [Owners -> Nat]
    BY <1>1, <1>2
  <2> QED BY <2>2, <2>3, <1>1 DEF TypeOK, chain
<1>4. ASSUME NEW k \in Jobs PROVE JobInv(k)'
  BY <1>1 DEF chain, JobInv, Awake, InTime, OnFile, ChargeIsKept, DenialIsKept, Charging, Answered,
              Unsent
<1>5. \A p \in Proofs : Burned(p)'
  BY <1>1 DEF Burned, Retained
<1> QED BY <1>3, <1>4, <1>5 DEF IInv

LEMMA StartKeeps == ASSUME IInv, Start PROVE IInv'
<1>1. /\ TypeOK /\ (\A k \in Jobs : JobInv(k)) /\ (\A p \in Proofs : Burned(p))
      /\ ~up /\ up' = TRUE /\ entries' = file
      /\ UNCHANGED <<file, burns, task, chain, now, late, calm, writable, crashes, told>>
  BY DEF IInv, Start
<1>2. PICK stored \in {usedFile, {}} :
          /\ used' = stored \cup Reburned(file)
          /\ usedFile' = IF used' # stored /\ writable THEN used' ELSE stored
  BY DEF Start
<1>3. used' \subseteq Proofs /\ usedFile' \subseteq Proofs
  BY <1>1, <1>2 DEF Reburned, TypeOK
<1>4. TypeOK'
  BY <1>1, <1>3 DEF TypeOK, task, chain
<1>5. ASSUME NEW k \in Jobs PROVE JobInv(k)'
  <2>1. /\ JobInv(k) /\ stage[k] = "idle" /\ stage'[k] = "idle" /\ entries'[k] = file[k]
        /\ file' = file /\ told' = told /\ tx' = tx /\ over' = over
    BY <1>1 DEF JobInv, Awake, task, chain
  <2> QED BY <2>1, <1>1 DEF JobInv, Awake, InTime, OnFile, ChargeIsKept, DenialIsKept, Charging,
                            Answered, Unsent
<1>6. ASSUME NEW p \in Proofs PROVE Burned(p)'
  <2>1. Retained' = Retained /\ burns' = burns /\ file' = file /\ Burned(p)
    BY <1>1 DEF Retained
  <2>2. Retained /\ (\E j \in Jobs : ProofOf[j] = p /\ file[j].status # "absent") => p \in used'
    BY <1>2 DEF Reburned
  <2> QED BY <2>1, <2>2 DEF Burned
<1> QED BY <1>4, <1>5, <1>6 DEF IInv

-----------------------------------------------------------------------------
(***************************************************************************)
(* The theorems.                                                           *)
(***************************************************************************)
LEMMA Initially == Init => IInv
<1> SUFFICES ASSUME Init PROVE IInv
  OBVIOUS
<1>1. Absent \in Entry /\ "idle" \in Stages /\ 0 \in 0..Expiry + Skew /\ 0 \in 0..MaxCrashes
  BY DEF Absent, Entry, Statuses, Stages
<1>2. TypeOK
  BY <1>1 DEF Init, TypeOK
<1>3. ASSUME NEW j \in Jobs PROVE JobInv(j)
  BY DEF Init, Absent, JobInv, Awake, InTime, OnFile, ChargeIsKept, DenialIsKept, Charging, Unsent
<1>4. \A p \in Proofs : Burned(p)
  BY DEF Init, Burned
<1> QED BY <1>2, <1>3, <1>4 DEF IInv

LEMMA StutterKeeps == ASSUME IInv, UNCHANGED vars PROVE IInv'
<1>1. Aside /\ UNCHANGED <<tx, amount, over, settled, now, late, calm, writable>>
  BY DEF vars, Aside, ledger, nonces, task, chain, world
<1>2. settled \subseteq Jobs /\ late \subseteq Jobs /\ calm \in BOOLEAN /\ writable \in BOOLEAN
  BY DEF IInv, TypeOK
<1> QED BY <1>1, <1>2, WorldKeeps

LEMMA StepsKeep == IInv /\ [Next]_vars => IInv'
<1> SUFFICES ASSUME IInv, [Next]_vars PROVE IInv'
  OBVIOUS
<1>1. settled \subseteq Jobs /\ late \subseteq Jobs /\ calm \in BOOLEAN /\ writable \in BOOLEAN
  BY DEF IInv, TypeOK
<1>2. ASSUME NEW j \in Jobs, Record(j) PROVE IInv'
  BY <1>2, RecordKeeps
<1>3. ASSUME NEW j \in Jobs, LiveStep(j) PROVE IInv'
  BY <1>3, RefuseKeeps, BurnKeeps, AdmitKeeps, WorkKeeps, SignKeeps, SendKeeps, ConfirmKeeps,
     DeliverKeeps DEF LiveStep
<1>4. ASSUME NEW j \in Jobs, RecoveryStep(j) PROVE IInv'
  BY <1>4, RecoverKeeps, ReconcileKeeps DEF RecoveryStep
<1>5. ASSUME NEW j \in Jobs, ChainStep(j) PROVE IInv'
  <2>1. CASE Finalize(j)
    <3>1. Aside /\ UNCHANGED <<tx, amount, over, now>> /\ settled' = settled \cup {j}
          /\ UNCHANGED <<late, calm, writable>>
      BY <2>1 DEF Finalize, Aside, world
    <3> QED BY <3>1, <1>1, WorldKeeps
  <2> QED BY <1>5, <2>1, LandKeeps, RunOutKeeps DEF ChainStep
<1>6. ASSUME NEW j \in Jobs, GrowOld(j) PROVE IInv'
  <2>1. Aside /\ UNCHANGED <<tx, amount, over, now>> /\ late' = late \cup {j}
        /\ UNCHANGED <<settled, calm, writable>>
    BY <1>6 DEF GrowOld, Aside, chain
  <2> QED BY <2>1, <1>1, WorldKeeps
<1>7. CASE Disk \/ Calm
  <2>1. Aside /\ UNCHANGED <<tx, amount, over, now, settled, late>>
        /\ calm' \in BOOLEAN /\ writable' \in BOOLEAN
    BY <1>1, <1>7 DEF Disk, Calm, Aside, chain
  <2> QED BY <2>1, <1>1, WorldKeeps
<1> QED BY <1>2, <1>3, <1>4, <1>5, <1>6, <1>7, PassKeeps, PruneKeeps, CrashKeeps, StartKeeps,
           StutterKeeps DEF Next

\* What memory, file, chain and customer agree on job by job, and that a burned
\* nonce stays refused while its proof can be presented, holds in every state.
THEOREM InductiveInvariant == Spec => []IInv
BY Initially, StepsKeep, PTL DEF Spec

\* Every variable has its type, whatever a metered skill reports: a charge lies
\* between the floor and the price that the card published (resolveMeteredCharge).
THEOREM TypeCorrect == Spec => []TypeOK
<1>1. IInv => TypeOK
  BY DEF IInv
<1> QED BY <1>1, InductiveInvariant, PTL

\* No nonce is burned twice, for any number of jobs that present it, of crashes,
\* of lost nonce files and of failed writes (UsedNonceStore, reconcileUsedNonces).
THEOREM NonceOnce == Spec => []NonceIsBurnedOnce
<1>1. IInv => NonceIsBurnedOnce
  BY DEF IInv, Burned, NonceIsBurnedOnce
<1> QED BY <1>1, InductiveInvariant, PTL

\* "You were not charged" is true when it is said and stays true, although a pull
\* that was signed can land until its blockhash is over (confirmPullToTerminal).
THEOREM UnchargedTrue == Spec => []UnchargedIsTrue
<1>1. IInv => UnchargedIsTrue
  BY DEF IInv, JobInv, DenialIsKept, UnchargedIsTrue
<1> QED BY <1>1, InductiveInvariant, PTL

\* Who was charged has an answer or an entry that recovery delivers from, for any
\* failed writes and crashes (recordDeliveredContent, recordPullSignature).
THEOREM ChargedRecoverable == Spec => []ChargedIsRecoverable
<1>1. IInv => ChargedIsRecoverable
  BY DEF IInv, JobInv, ChargeIsKept, Charging, Answered, Recoverable, ChargedIsRecoverable, Landed
<1> QED BY <1>1, InductiveInvariant, PTL
-----------------------------------------------------------------------------
(***************************************************************************)
(* Reservations.                                                           *)
(***************************************************************************)
\* The jobs that hold a reservation of an owner are finitely many, and what is in
\* flight for the owner is their price.
Held(o) == {j \in Jobs : stage[j] \in Holding /\ Owner(j) = o}

Reserved == \A o \in Owners : IsFiniteSet(Held(o)) /\ inFlight[o] = Total(Price, Held(o))

\* A step that neither takes nor gives up a reservation.
LEMMA HoldersStay ==
    ASSUME Reserved, inFlight' = inFlight,
           \A k \in Jobs : stage'[k] \in Holding <=> stage[k] \in Holding
    PROVE  Reserved'
<1>1. \A o \in Owners : Held(o)' = Held(o)
  BY DEF Held, Owner
<1> QED BY <1>1 DEF Reserved

LEMMA GotoStays ==
    ASSUME TypeOK, Reserved, NEW j \in Jobs, NEW step, Goto(j, step),
           stage[j] \in Holding <=> step \in Holding
    PROVE  Reserved'
<1>1. \A k \in Jobs : stage'[k] \in Holding <=> stage[k] \in Holding
  BY DEF Goto, TypeOK
<1> QED BY <1>1, HoldersStay DEF Goto

\* The finally block gives back exactly what the job held: the subtraction never
\* saturates.
LEMMA LeaveReleases ==
    ASSUME TypeOK, Reserved, NEW j \in Jobs, Leave(j)
    PROVE  Reserved'
<1>1. stage' = [stage EXCEPT ![j] = "idle"] /\ "idle" \notin Holding
  BY DEF Leave, Holding
<1>2. CASE stage[j] \notin Holding
  <2>1. \A k \in Jobs : stage'[k] \in Holding <=> stage[k] \in Holding
    BY <1>1, <1>2 DEF TypeOK
  <2>2. inFlight' = inFlight
    BY <1>2 DEF Leave
  <2> QED BY <2>1, <2>2, HoldersStay
<1>3. CASE stage[j] \in Holding
  <2> DEFINE u == Owner(j)
  <2>1. /\ u \in Owners /\ j \in Held(u) /\ IsFiniteSet(Held(u))
        /\ \A k \in Held(u) : Price[k] \in Nat
    BY <1>3, OwnerTyped DEF Held, Reserved
  <2>2. \A o \in Owners : Held(o)' = IF o = u THEN Held(u) \ {j} ELSE Held(o)
    BY <1>1 DEF Held, Owner, TypeOK
  <2>3. Total(Price, Held(u)) = Total(Price, Held(u) \ {j}) + Price[j]
    BY <2>1, TotalSplit
  <2>4. IsFiniteSet(Held(u) \ {j}) /\ Total(Price, Held(u) \ {j}) \in Nat
    BY <2>1, FS_RemoveElement, TotalNat
  <2>5. inFlight[u] = Total(Price, Held(u) \ {j}) + Price[j]
    BY <2>1, <2>3 DEF Reserved
  <2>6. inFlight' = [inFlight EXCEPT ![u] = IF inFlight[u] > Price[j]
                                            THEN inFlight[u] - Price[j] ELSE 0]
    BY <1>3 DEF Leave, ReleaseReserved
  <2>7. (IF inFlight[u] > Price[j] THEN inFlight[u] - Price[j] ELSE 0) = Total(Price, Held(u) \ {j})
    BY <2>4, <2>5
  <2>8. \A o \in Owners : inFlight'[o] = IF o = u THEN Total(Price, Held(u) \ {j}) ELSE inFlight[o]
    BY <2>6, <2>7 DEF TypeOK
  <2> HIDE DEF u
  <2>9. ASSUME NEW o \in Owners PROVE IsFiniteSet(Held(o)') /\ inFlight'[o] = Total(Price, Held(o)')
    <3>1. CASE o = u
      BY <3>1, <2>2, <2>4, <2>8
    <3>2. CASE o # u
      BY <3>2, <2>2, <2>8 DEF Reserved
    <3> QED BY <3>1, <3>2
  <2> QED BY <2>9 DEF Reserved
<1> QED BY <1>2, <1>3

LEMMA AdmitReserves ==
    ASSUME TypeOK, Reserved, NEW j \in Jobs, Admit(j)
    PROVE  Reserved'
<1>1. CASE Reject(j)
  BY <1>1, LeaveReleases DEF Reject
<1>2. CASE /\ stage[j] = "asking" /\ stage' = [stage EXCEPT ![j] = "working"]
           /\ inFlight' = [inFlight EXCEPT ![Owner(j)] = inFlight[Owner(j)] + Price[j]]
  <2> DEFINE u == Owner(j)
  <2>1. /\ u \in Owners /\ j \notin Held(u) /\ IsFiniteSet(Held(u))
        /\ \A k \in Held(u) \cup {j} : Price[k] \in Nat
    BY <1>2, OwnerTyped DEF Held, Reserved, Holding
  <2>2. \A o \in Owners : Held(o)' = IF o = u THEN Held(u) \cup {j} ELSE Held(o)
    BY <1>2 DEF Held, Owner, TypeOK, Holding
  <2>3. Total(Price, Held(u) \cup {j}) = Total(Price, Held(u)) + Price[j]
    BY <2>1, TotalAdd
  <2>4. IsFiniteSet(Held(u) \cup {j})
    BY <2>1, FS_AddElement
  <2>5. \A o \in Owners : inFlight'[o] = IF o = u THEN inFlight[u] + Price[j] ELSE inFlight[o]
    BY <1>2 DEF TypeOK
  <2>6. inFlight[u] = Total(Price, Held(u))
    BY <2>1 DEF Reserved
  <2> HIDE DEF u
  <2>7. ASSUME NEW o \in Owners PROVE IsFiniteSet(Held(o)') /\ inFlight'[o] = Total(Price, Held(o)')
    <3>1. CASE o = u
      BY <3>1, <2>2, <2>3, <2>4, <2>5, <2>6
    <3>2. CASE o # u
      BY <3>2, <2>2, <2>5 DEF Reserved
    <3> QED BY <3>1, <3>2
  <2> QED BY <2>7 DEF Reserved
<1> QED BY <1>1, <1>2 DEF Admit

LEMMA PersistReserves ==
    ASSUME TypeOK, Reserved, NEW j \in Jobs, NEW es, NEW step, Persist(j, es, step),
           stage[j] \in Holding <=> step \in Holding
    PROVE  Reserved'
BY GotoStays, LeaveReleases DEF Persist, Throw

LEMMA ReservedKept == TypeOK /\ Reserved /\ [Next]_vars => Reserved'
<1> SUFFICES ASSUME TypeOK, Reserved, [Next]_vars PROVE Reserved'
  OBVIOUS
<1>1. ASSUME NEW j \in Jobs, Record(j) PROVE Reserved'
  <2>1. CASE Leave(j)
    BY <2>1, LeaveReleases
  <2>2. CASE stage' = [stage EXCEPT ![j] = "verifying"] /\ inFlight' = inFlight
    <3>1. \A k \in Jobs : stage'[k] \in Holding <=> stage[k] \in Holding
      BY <1>1, <2>2 DEF Record, TypeOK, Holding
    <3> QED BY <2>2, <3>1, HoldersStay
  <2> QED BY <1>1, <2>1, <2>2 DEF Record, Throw
<1>2. ASSUME NEW j \in Jobs, LiveStep(j) PROVE Reserved'
  <2>1. CASE Refuse(j)
    BY <2>1, LeaveReleases DEF Refuse, Reject
  <2>2. CASE Burn(j)
    BY <2>2, PersistReserves DEF Burn, Holding
  <2>3. CASE Admit(j)
    BY <2>3, AdmitReserves
  <2>4. CASE Work(j)
    BY <2>4, PersistReserves, LeaveReleases DEF Work, Holding, Throw, CloseUncharged
  <2>5. CASE Sign(j)
    BY <2>5, PersistReserves, LeaveReleases DEF Sign, Holding, Throw
  <2>6. CASE Send(j)
    BY <2>6, GotoStays DEF Send, Holding
  <2>7. CASE Confirm(j)
    BY <2>7, GotoStays, LeaveReleases DEF Confirm, Holding, CloseUncharged, Executed
  <2>8. CASE Deliver(j)
    BY <2>8, LeaveReleases DEF Deliver
  <2> QED BY <1>2, <2>1, <2>2, <2>3, <2>4, <2>5, <2>6, <2>7, <2>8 DEF LiveStep
<1>3. ASSUME NEW j \in Jobs, RecoveryStep(j) PROVE Reserved'
  <2>1. CASE Recover(j)
    BY <2>1, GotoStays, LeaveReleases DEF Recover, Holding, Reject, CloseUncharged
  <2>2. CASE Reconcile(j)
    BY <2>2, GotoStays, LeaveReleases DEF Reconcile, Holding, CloseUncharged, Executed
  <2> QED BY <1>3, <2>1, <2>2 DEF RecoveryStep
<1>4. CASE Crash
  <2>1. \A o \in Owners : Held(o)' = {}
    BY <1>4 DEF Crash, Held, Holding
  <2>2. \A o \in Owners : inFlight'[o] = 0
    BY <1>4 DEF Crash
  <2> QED BY <2>1, <2>2, TotalEmpty, FS_EmptySet DEF Reserved
<1>5. CASE \/ \E j \in Jobs : ChainStep(j) \/ GrowOld(j)
           \/ Pass \/ Prune \/ Disk \/ Calm \/ Start \/ UNCHANGED vars
  <2>1. UNCHANGED task
    BY <1>5 DEF ChainStep, Land, RunOut, Finalize, GrowOld, Pass, Prune, Disk, Calm, Start, vars
  <2> QED BY <2>1, HoldersStay DEF task
<1> QED BY <1>1, <1>2, <1>3, <1>4, <1>5 DEF Next

\* What is reserved for an owner is the price of the live jobs that hold a
\* reservation, at any moment, for any number of jobs and owners, though a metered
\* job charges less than it reserved and though any write may fail
\* (delegationInFlight, releaseDelegationReservation, the finally of executeJob).
THEOREM ReservationsExact == Spec => []ReservationsAreExact
<1>1. Init => Reserved
  <2> SUFFICES ASSUME Init, NEW o \in Owners
               PROVE  IsFiniteSet(Held(o)) /\ inFlight[o] = Total(Price, Held(o))
    BY DEF Reserved
  <2>1. Held(o) = {} /\ inFlight[o] = 0
    BY DEF Init, Held, Holding
  <2> QED BY <2>1, TotalEmpty, FS_EmptySet
<1>2. Reserved => ReservationsAreExact
  BY DEF Reserved, Held, ReservationsAreExact
<1> QED BY <1>1, <1>2, ReservedKept, TypeCorrect, PTL DEF Spec
-----------------------------------------------------------------------------
(***************************************************************************)
(* One proof, one charge.  Between its burn and its pull a job runs on     *)
(* stages that only a burn leads to, and a proof is burned once.           *)
(***************************************************************************)
Past(j) ==
    \/ stage[j] \in {"asking", "working", "signing", "sending", "confirming", "delivering"}
    \/ tx[j] # "none"

OneCharge ==
    /\ \A j \in Jobs : Past(j) => burns[ProofOf[j]] # 0
    /\ \A j, k \in Jobs : Past(j) /\ Past(k) /\ ProofOf[j] = ProofOf[k] => j = k

\* A burn is the first of its proof.
LEMMA FirstBurn ==
    ASSUME IInv, NEW j \in Jobs, Burn(j)
    PROVE  /\ burns[ProofOf[j]] = 0 /\ burns'[ProofOf[j]] = 1
           /\ \A p \in Proofs : p # ProofOf[j] => burns'[p] = burns[p]
           /\ \A k \in Jobs : k # j => (Past(k)' => Past(k))
<1>1. TypeOK /\ JobInv(j) /\ stage[j] = "verifying" /\ ProofOf[j] \notin used
  BY DEF IInv, Burn
<1>2. /\ up /\ file[j].status # "absent"
  BY <1>1 DEF JobInv, Awake, OnFile, Unsent
<1>3. Retained
  BY <1>1 DEF JobInv, InTime, Retained, TypeOK
<1>4. ProofOf[j] \in Proofs
  OBVIOUS
<1>5. burns[ProofOf[j]] = 0
  <2>1. burns[ProofOf[j]] \in Nat /\ Burned(ProofOf[j])
    BY <1>1, <1>4 DEF IInv, TypeOK
  <2> QED BY <1>1, <1>2, <1>3, <2>1 DEF Burned
<1>6. burns' = [burns EXCEPT ![ProofOf[j]] = 0 + 1] /\ burns \in [Proofs -> Nat]
  BY <1>1, <1>5 DEF Burn, TypeOK
<1>7. tx' = tx /\ \A k \in Jobs : k # j => stage'[k] = stage[k]
  BY <1>1 DEF Burn, Persist, Throw, Leave, Goto, chain, TypeOK
<1> QED BY <1>4, <1>5, <1>6, <1>7 DEF Past

\* No other step leads a job past its burn.
LEMMA PastStays ==
    ASSUME IInv, [Next]_vars, NEW k \in Jobs, ~\E j \in Jobs : Burn(j)
    PROVE  Past(k)' => Past(k)
<1>0. TypeOK
  BY DEF IInv
<1>1. ASSUME NEW j \in Jobs, LiveStep(j) PROVE Past(k)' => Past(k)
  <2>1. CASE Refuse(j)
    BY <1>0, <2>1 DEF Refuse, Reject, Leave, chain, TypeOK, Past
  <2>2. CASE Admit(j)
    BY <1>0, <2>2 DEF Admit, Reject, Leave, chain, TypeOK, Past
  <2>3. CASE Work(j)
    BY <1>0, <2>3 DEF Work, Throw, CloseUncharged, Persist, Leave, Goto, TypeOK, Past
  <2>4. CASE Sign(j)
    BY <1>0, <2>4 DEF Sign, Throw, Persist, Leave, Goto, TypeOK, Past
  <2>5. CASE Send(j)
    BY <1>0, <2>5 DEF Send, Goto, TypeOK, Past
  <2>6. CASE Confirm(j)
    BY <1>0, <2>6 DEF Confirm, Executed, CloseUncharged, Leave, Goto, chain, TypeOK, Past
  <2>7. CASE Deliver(j)
    BY <1>0, <2>7 DEF Deliver, Leave, chain, TypeOK, Past
  <2> QED BY <1>1, <2>1, <2>2, <2>3, <2>4, <2>5, <2>6, <2>7 DEF LiveStep
<1>2. ASSUME NEW j \in Jobs, Record(j) PROVE Past(k)' => Past(k)
  BY <1>0, <1>2 DEF Record, Throw, Leave, chain, TypeOK, Past
<1>3. ASSUME NEW j \in Jobs, RecoveryStep(j) PROVE Past(k)' => Past(k)
  <2>1. CASE Recover(j)
    BY <1>0, <2>1 DEF Recover, Reject, CloseUncharged, Leave, Goto, chain, TypeOK, Past
  <2>2. CASE Reconcile(j)
    BY <1>0, <2>2 DEF Reconcile, Executed, CloseUncharged, Leave, Goto, chain, TypeOK, Past
  <2> QED BY <1>3, <2>1, <2>2 DEF RecoveryStep
<1>4. ASSUME NEW j \in Jobs, ChainStep(j) PROVE Past(k)' => Past(k)
  BY <1>0, <1>4 DEF ChainStep, Land, RunOut, Finalize, task, TypeOK, Past
<1>5. CASE (\E j \in Jobs : GrowOld(j)) \/ Pass \/ Prune \/ Disk \/ Calm \/ Start \/ UNCHANGED vars
  BY <1>5 DEF GrowOld, Pass, Prune, Disk, Calm, Start, vars, task, chain, Past
<1>6. CASE Crash
  BY <1>6 DEF Crash, chain, Past
<1> QED BY <1>1, <1>2, <1>3, <1>4, <1>5, <1>6 DEF Next

LEMMA BurnsStay ==
    ASSUME [Next]_vars, ~\E j \in Jobs : Burn(j)
    PROVE  burns' = burns
<1>1. ASSUME NEW j \in Jobs, LiveStep(j) PROVE burns' = burns
  BY <1>1 DEF LiveStep, Refuse, Admit, Work, Sign, Send, Confirm, Deliver, nonces
<1>2. ASSUME NEW j \in Jobs, Record(j) \/ RecoveryStep(j) \/ ChainStep(j) \/ GrowOld(j)
      PROVE  burns' = burns
  BY <1>2 DEF Record, RecoveryStep, Recover, Reconcile, ChainStep, Land, RunOut, Finalize, GrowOld,
              nonces
<1>3. CASE Pass \/ Prune \/ Disk \/ Calm \/ Crash \/ Start \/ UNCHANGED vars
  BY <1>3 DEF Pass, Prune, Disk, Calm, Crash, Start, vars, nonces
<1> QED BY <1>1, <1>2, <1>3 DEF Next

LEMMA OneChargeKept == IInv /\ OneCharge /\ [Next]_vars => OneCharge'
<1> SUFFICES ASSUME IInv, OneCharge, [Next]_vars PROVE OneCharge'
  OBVIOUS
<1>1. CASE \E j \in Jobs : Burn(j)
  <2> PICK j \in Jobs : Burn(j)
    BY <1>1
  <2>1. /\ burns[ProofOf[j]] = 0 /\ burns'[ProofOf[j]] = 1
        /\ \A p \in Proofs : p # ProofOf[j] => burns'[p] = burns[p]
        /\ \A k \in Jobs : k # j => (Past(k)' => Past(k))
    BY FirstBurn
  <2>2. \A k \in Jobs : k # j /\ Past(k)' => ProofOf[k] # ProofOf[j]
    BY <2>1 DEF OneCharge
  <2>3. ASSUME NEW k \in Jobs, Past(k)' PROVE burns'[ProofOf[k]] # 0
    BY <2>1, <2>2, <2>3 DEF OneCharge
  <2>4. ASSUME NEW k \in Jobs, NEW l \in Jobs, Past(k)', Past(l)', ProofOf[k] = ProofOf[l]
        PROVE  k = l
    BY <2>1, <2>2, <2>4 DEF OneCharge
  <2> QED BY <2>3, <2>4 DEF OneCharge
<1>2. CASE ~\E j \in Jobs : Burn(j)
  <2>1. burns' = burns /\ \A k \in Jobs : Past(k)' => Past(k)
    BY <1>2, PastStays, BurnsStay
  <2> QED BY <2>1 DEF OneCharge
<1> QED BY <1>1, <1>2

\* What landed stays landed.
LEMMA LandedStays ==
    ASSUME IInv, [Next]_vars, NEW k \in Jobs, tx[k] = "landed"
    PROVE  tx'[k] = "landed"
<1>0. TypeOK
  BY DEF IInv
<1>1. ASSUME NEW j \in Jobs, Sign(j) \/ Send(j) PROVE tx'[k] = "landed"
  <2>1. JobInv(j) /\ tx[j] # "landed"
    BY <1>1 DEF IInv, JobInv, OnFile, Unsent, Sign, Send
  <2> QED BY <1>0, <1>1, <2>1 DEF Sign, Send, TypeOK
<1>2. ASSUME NEW j \in Jobs, Land(j) PROVE tx'[k] = "landed"
  BY <1>0, <1>2 DEF Land, TypeOK
<1>3. ASSUME NEW j \in Jobs, Work(j) \/ RunOut(j) \/ Finalize(j) PROVE tx'[k] = "landed"
  BY <1>3 DEF Work, RunOut, Finalize
<1>4. ASSUME NEW j \in Jobs, Record(j) \/ Refuse(j) \/ Burn(j) \/ Admit(j) \/ Confirm(j) \/ Deliver(j)
                             \/ RecoveryStep(j) \/ GrowOld(j)
      PROVE  tx'[k] = "landed"
  BY <1>4 DEF Record, Refuse, Burn, Admit, Confirm, Deliver, RecoveryStep, Recover, Reconcile, GrowOld,
              chain
<1>5. CASE Pass \/ Prune \/ Disk \/ Calm \/ Crash \/ Start \/ UNCHANGED vars
  BY <1>5 DEF Pass, Prune, Disk, Calm, Crash, Start, vars, chain
<1> QED BY <1>1, <1>2, <1>3, <1>4, <1>5 DEF Next, LiveStep, ChainStep

\* What the pulls move implements Settlement: over crashes that lose the nonce
\* file and proofs presented for several jobs, a proof is charged for one job.
THEOREM PullsSettle == Spec => PullsAreSettled
<1>1. OneCharge => Pulls!Once(pulled) /\ pulled \subseteq Proofs \X Jobs
  <2> SUFFICES ASSUME OneCharge PROVE Pulls!Once(pulled) /\ pulled \subseteq Proofs \X Jobs
    OBVIOUS
  <2>1. \A j \in Landed : j \in Jobs /\ Past(j)
    BY DEF Landed, Past
  <2>2. \A a \in pulled : \E j \in Landed : a = <<ProofOf[j], j>>
    BY DEF pulled
  <2>3. ASSUME NEW a \in pulled, NEW b \in pulled, a[1] = b[1] PROVE a = b
    <3>1. PICK j \in Landed : a = <<ProofOf[j], j>>
      BY <2>2
    <3>2. PICK k \in Landed : b = <<ProofOf[k], k>>
      BY <2>2
    <3>3. j = k
      BY <2>1, <2>3, <3>1, <3>2 DEF OneCharge
    <3> QED BY <3>1, <3>2, <3>3
  <2>4. pulled \subseteq Proofs \X Jobs
    BY <2>1 DEF pulled
  <2> QED BY <2>3, <2>4 DEF Pulls!Once
<1>2. Init => OneCharge
  BY DEF Init, OneCharge, Past
<1>3. Init => Pulls!Init
  BY <1>1, <1>2 DEF Pulls!Init
<1>4. IInv /\ OneCharge /\ [Next]_vars => [Pulls!Spend]_pulled
  <2> SUFFICES ASSUME IInv, OneCharge, [Next]_vars PROVE Pulls!Spend
    OBVIOUS
  <2>1. OneCharge'
    BY OneChargeKept
  <2>2. pulled' \subseteq Proofs \X Jobs /\ Pulls!Once(pulled')
    <3>1. (Pulls!Once(pulled) /\ pulled \subseteq Proofs \X Jobs)'
      BY <1>1, <2>1, PTL
    <3> QED BY <3>1
  <2>3. pulled \subseteq pulled'
    BY LandedStays DEF pulled, Landed
  <2> QED BY <2>2, <2>3 DEF Pulls!Spend
<1> QED BY <1>2, <1>3, <1>4, OneChargeKept, InductiveInvariant, PTL DEF PullsAreSettled, Pulls!Spec, Spec
=============================================================================
