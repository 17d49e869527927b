------------------------------ MODULE OneConnect ------------------------------
(***************************************************************************)
(* What the connect lock promises its callers: one connect at a time,      *)
(* machine-wide, and the place is never handed from one live holder to     *)
(* another without being vacated in between.                               *)
(***************************************************************************)
CONSTANT Procs      \* the pvpn commands that may run

VARIABLE inside     \* the commands that hold the place

Init == inside = {}

Enter(p) == inside = {} /\ inside' = {p}

Leave(p) == inside = {p} /\ inside' = {}

Next == \E p \in Procs : Enter(p) \/ Leave(p)

Spec == Init /\ [][Next]_inside
===============================================================================
