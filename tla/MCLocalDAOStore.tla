-------------------------- MODULE MCLocalDAOStore ---------------------------
(***************************************************************************)
(* Model checking of AspectStore: the adds of one writer at a time are     *)
(* more, and of more kinds, than those that overlap.                       *)
(***************************************************************************)
EXTENDS MCLocalDAO, AspectStore

CONSTANT MaxOverlapping    \* bound: adds that may overlap

(* The writers that were heard of since the server was started.            *)
Heard == {p \in Writers : call[p] # IdleCall}

Overlapping ==
    /\ used.adds <= MaxOverlapping
    /\ \A p \in Writers : pc[p] # "idle" => call[p].lambda.value # Invalid \/ call[p].id = 0

BoundedNext ==
    /\ StoreNext
    /\ IF serial THEN Cardinality(Heard') <= 1 ELSE Overlapping'

BoundedSpec == StoreInit /\ [][BoundedNext]_<<serial, vars>>
=============================================================================
