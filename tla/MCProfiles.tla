------------------------------- MODULE MCProfiles -------------------------------
(* Profiles over two servers and three profile paths. *)
EXTENDS Profiles, TLC

SymmetricProfiles == Permutations(Slots) \cup Permutations(Servers)
===============================================================================
