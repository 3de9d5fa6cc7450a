----------------------------- MODULE OrderFile ------------------------------
(***************************************************************************)
(* What the agent's order file promises: each update reads the file and    *)
(* replaces it as one step, whatever other process updates it              *)
(* (packages/mcp/src/storage/orders.ts).                                   *)
(***************************************************************************)
EXTENDS Naturals, FiniteSets

CONSTANTS
    Orders,    \* order ids
    MaxOrders  \* MAX_ORDER_RECORDS

ASSUME CapAssumption == IsFiniteSet(Orders) /\ MaxOrders \in Nat

VARIABLE orders  \* [Orders -> States], the file

\* A record as far as pruning tells it apart: not acknowledged yet, of use, or
\* ended unpaid.
States == {"absent", "created", "open", "ended"}

Following == [absent |-> "created", created |-> "open", open |-> "ended"]

Present(f) == {o \in Orders : f[o] # "absent"}

Prunable(f) == {o \in Orders : f[o] \in {"created", "ended"}}


\* The files that capped may leave of f, whose newest record is o: the oldest
\* record that holds nothing goes, and none when there is room.
capped(f, o) ==
    IF Cardinality(Present(f)) <= MaxOrders THEN {f}
    ELSE {[f EXCEPT ![q] = "absent"] : q \in Prunable(f) \ {o}}

\* The files that an update of order o, judged on f, may write: none when the
\* record has no next state, or no room can be made.
Updates(f, o) ==
    IF f[o] \in DOMAIN Following THEN capped([f EXCEPT ![o] = Following[@]], o) ELSE {}

FileInit == orders = [o \in Orders |-> "absent"]

Update(o) == orders' \in Updates(orders, o)

FileNext == \E o \in Orders : Update(o)

FileSpec == FileInit /\ [][FileNext]_orders
=============================================================================
