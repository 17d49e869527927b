-------------------------------- MODULE MCHop ---------------------------------
(***************************************************************************)
(* Hop for TLC: a server that is proven, one whose profile can be built, one *)
(* only Proton's client can reach; each asked for by name, and the last two by *)
(* pattern. `up` keeps one attempt: MCUpConnect looks at its loop.         *)
(***************************************************************************)
EXTENDS Hop

CONSTANTS jp, sg, us, none

Asks == {[servers |-> {jp}, exact |-> TRUE], [servers |-> {us}, exact |-> TRUE],
         [servers |-> {sg, us}, exact |-> FALSE]}

===============================================================================
