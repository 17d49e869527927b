------------------------------ MODULE MCUpConnect -----------------------------
(***************************************************************************)
(* UpConnect for TLC: two proven servers, one that only Proton's client    *)
(* can build, one more to run out of attempts on; the limits are scaled    *)
(* down so that each of them bites.                                        *)
(***************************************************************************)
EXTENDS UpConnect

CONSTANTS jp, sg, us, nl, none

===============================================================================
