-------------------------------- MODULE MCSteer -------------------------------
(***************************************************************************)
(* Steer for TLC: a hop that may ask for one server or for two, a query    *)
(* that heals, and the background chore that refreshes the list; Proton    *)
(* may take one of the servers down.                                       *)
(***************************************************************************)
EXTENDS Steer

CONSTANTS jp, sg, us, nl, none, hop, query, chore

===============================================================================
