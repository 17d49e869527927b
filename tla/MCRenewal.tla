------------------------------ MODULE MCRenewal -------------------------------
(***************************************************************************)
(* Renewal for TLC: one background renewal, one connect and one person.    *)
(***************************************************************************)
EXTENDS Renewal

CONSTANTS after, up, person, nocert

===============================================================================
