----------------------------- MODULE MCServerBook -----------------------------
(***************************************************************************)
(* ServerBook for TLC: one server seen from two networks, long enough for  *)
(* the escalation to reach its cap with expiries in between.               *)
(***************************************************************************)
EXTENDS ServerBook

CONSTANTS school, hotspot, jp

\* Each phrase where it decides, and with every phrase it wins over.
PrintedLogs ==
  {{}, {"refused"}, {"timeout"}, {"timeout", "refused"}, {"tls", "timeout"},
   {"certificate", "tls", "timeout", "refused"}}

\* Enough at school for the escalation to reach its cap and pass it.
Bounds == [n \in Networks |-> IF n = school THEN 5 ELSE 2]

===============================================================================
