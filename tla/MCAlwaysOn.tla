------------------------------ MODULE MCAlwaysOn ------------------------------
(***************************************************************************)
(* AlwaysOn for TLC: one or two terminals, the hook and the timer's check, *)
(* two networks to roam between.                                           *)
(***************************************************************************)
EXTENDS AlwaysOn

CONSTANTS alice, hook, timer, nobody, home, cafe, offline, nowhere

===============================================================================
