-------------------------------- MODULE MCVerify ------------------------------
(***************************************************************************)
(* Verify for TLC: an uplink that answers, one whose gateway drops ICMP,   *)
(* one the kernel has given up on; a window with room for two link checks  *)
(* and one too short for any.                                              *)
(***************************************************************************)
EXTENDS Verify

Answering == [devices |-> TRUE, route |-> TRUE, ping |-> TRUE, neighbour |-> "confirmed"]
Seen == {Answering,
         [Answering EXCEPT !.ping = FALSE, !.neighbour = "stale"],
         [Answering EXCEPT !.ping = FALSE, !.neighbour = "failed"]}

===============================================================================
