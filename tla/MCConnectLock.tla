---------------------------- MODULE MCConnectLock ----------------------------
(***************************************************************************)
(* ConnectLock for TLC: one named command slot per kind of command.        *)
(***************************************************************************)
EXTENDS ConnectLock

CONSTANTS auto, watch, down, try, hop

===============================================================================
