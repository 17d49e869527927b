------------------------------- MODULE MCWindow --------------------------------
(***************************************************************************)
(* Window for TLC: one change from outside and one child of ours, whose    *)
(* turns with the lock may come in either order and cross any reading.     *)
(***************************************************************************)
EXTENDS Window
================================================================================
