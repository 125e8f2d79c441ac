----------------------------- MODULE ServedFile -----------------------------
(***************************************************************************)
(* What an uploaded tabular file promises to chat: at any time at most one *)
(* of its versions has a contract, the one the file points at; a           *)
(* publication moves the pointer and the contract in one step, and a       *)
(* deletion takes both away for good.                                      *)
(***************************************************************************)
EXTENDS Naturals

CONSTANT Versions       \* version numbers, from 1; served is 0 when there is none

VARIABLES served, contracts, deleted

vars == <<served, contracts, deleted>>

Init == served = 0 /\ contracts = {} /\ deleted = FALSE

Publish(v) ==
    /\ ~deleted
    /\ served' = v
    /\ contracts' = {v}
    /\ UNCHANGED deleted

Delete ==
    /\ ~deleted
    /\ served' = 0
    /\ contracts' = {}
    /\ deleted' = TRUE

Next == Delete \/ \E v \in Versions : Publish(v)

Spec == Init /\ [][Next]_vars
=============================================================================
