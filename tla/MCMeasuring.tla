------------------------------ MODULE MCMeasuring ------------------------------
(***************************************************************************)
(* Measuring for TLC: four servers of which one is far, one is near, one   *)
(* nowhere and one beyond the account, a shortlist of one fewer than there *)
(* are, and a book in which one server has carried and one was once fast.  *)
(***************************************************************************)
EXTENDS Measuring, TLC

CONSTANTS jp, sg, nl, us

Node(up) == [enabled |-> up, down |-> FALSE, addressed |-> TRUE]
Line(tier, km, load) ==
  [enabled |-> TRUE, tier |-> tier, slow |-> FALSE, country |-> "jp",
   nodes |-> {Node(FALSE), Node(TRUE)}, km |-> km, load |-> load, score |-> load]

Lines == (jp :> Line(0, 7500, 60)) @@ (sg :> Line(0, 300, 80))
      @@ (nl :> Line(0, None, 10)) @@ (us :> Line(2, 9000, 5))
ProtonsOrder == <<us, jp, sg, nl>>

AskedOf == {[country |-> None, free |-> FALSE, quick |-> q] : q \in BOOLEAN}

Known == [Empty EXCEPT !.stats[jp].carried = 1, !.stats[jp].attempts = 1,
                       !.stats[sg].ema = 40]
Held == [Known EXCEPT !.stats[nl].blocked = TRUE, !.stats[nl].attempts = 2]
BooksAtFirst == {None, Known, Held}
================================================================================
