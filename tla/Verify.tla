---------------------------------- MODULE Verify --------------------------------
(***************************************************************************)
(* What a connect asks the network, before and after it builds a tunnel:   *)
(* the ordinary connection and its sign-in page (connect.rs, net.rs,       *)
(* portal_note.rs), then whether the tunnel carries or who is to blame     *)
(* (verify.rs, pvpn-core/src/link.rs). A reconnect may ask twice.          *)
(*                                                                         *)
(* Time is counted in polls of the verification loop. Every await in it is *)
(* a step of its own, and the network may change between two of them.      *)
(***************************************************************************)
EXTENDS Integers, Sequences

CONSTANTS
  Windows,      \* settle windows a caller may give, in polls
  CheckEvery,   \* LINK_CHECK_EVERY, in polls
  Confirm,      \* LINK_DOWN_CONFIRMATIONS
  InFlight,     \* PROVE_MAX_IN_FLIGHT
  Uplinks       \* [devices, route, ping, neighbour]: what the uplink may look like

ASSUME VerifyAssumption ==
  /\ Windows \subseteq Nat \ {0} /\ CheckEvery \in Nat \ {0}
  /\ Confirm \in Nat \ {0} /\ InFlight \in Nat \ {0}
  /\ Uplinks \subseteq [devices : BOOLEAN, route : BOOLEAN, ping : BOOLEAN,
                        neighbour : {"confirmed", "stale", "failed"}]

VARIABLES
  stage,      \* where the connect is
  outside,    \* the ordinary network: it "works", answers with its sign-in "page",
              \* has no name service or does not answer
  uplink,     \* one of Uplinks
  home,       \* the network the connect was made on is still the active one
  egress,     \* "none" (no profile active), "bypassed" (active, routes elsewhere),
              \* "routed", "carrying", or "over" in Proton's log
  again,      \* a reconnect whose first half may fail and leave it to `up`
  waiting,    \* WAITING: a sign-in was asked for and has not happened
  addresses,  \* of the probe hosts: the "real" ones or the sign-in page's
  window,     \* the settle window of this verification
  now,        \* polls since it began
  checked,    \* when the link was last looked at
  downs,      \* link_down_seen
  rounds,     \* probe rounds in flight, by the way they left
  napping,    \* the prover waits out a poll before it asks again
  heard,      \* history: what the last link checks said
  verdict,    \* of the verification
  exit        \* the command's exit code; -1 while it runs

verifyVars == <<stage, outside, uplink, home, egress, again, waiting, addresses, window, now,
                checked, downs, rounds, napping, heard, verdict, exit>>
network == <<outside, uplink, home, egress>>
request == <<again, waiting, addresses, window>>
clock == <<now, checked, downs, heard>>
prover == <<rounds, napping>>

Verdicts == {"carrying", "session-died", "link-down", "quiet"}
UnsignedPortalExit == 77   \* EX_NOPERM: the hook stops on it

NoRounds == [through |-> 0, beside |-> 0]

VerifyTypeOK ==
  /\ stage \in {"baseline", "sign-in", "recheck", "watch", "gate", "log", "key", "health",
                "deadline", "blocked", "unsigned", "over", "done"}
  /\ outside \in {"works", "page", "no names", "silent"} /\ uplink \in Uplinks
  /\ home \in BOOLEAN /\ egress \in {"none", "bypassed", "routed", "carrying", "over"}
  /\ again \in BOOLEAN /\ waiting \in BOOLEAN /\ addresses \in {"real", "page"}
  /\ window \in Windows /\ now \in 0 .. window + 2 /\ checked \in 0 .. now
  /\ downs \in 0 .. Confirm /\ rounds.through + rounds.beside \in 0 .. InFlight
  /\ napping \in BOOLEAN /\ verdict \in Verdicts \cup {"none"}
  /\ exit \in {-1, 0, 1, UnsignedPortalExit}

VerifyInit ==
  /\ stage = "baseline" /\ outside \in {"works", "page", "no names", "silent"}
  /\ uplink \in Uplinks /\ home = TRUE /\ egress = "none"
  /\ again \in BOOLEAN /\ waiting = FALSE /\ addresses = "real" /\ window \in Windows
  /\ now = 0 /\ checked = 0 /\ downs = 0 /\ rounds = NoRounds /\ napping = FALSE
  /\ heard = << >> /\ verdict = "none" /\ exit = -1

-------------------------------------------------------------------------------
(* local_network_problem *)

\* A page that stands in for the internet answers as well as the internet does.
Answers(seen) == seen \in {"works", "page"}

\* Given up before any server: a reconnect's first half leaves it to `up`.
GivesUp(why) ==
  IF again THEN stage' = "baseline" /\ again' = FALSE ELSE stage' = why /\ UNCHANGED again

\* The tunnel is built while the probes' addresses are kept; how far it has got
\* when verification begins is the network's.
Builds ==
  /\ stage' = "watch"
  /\ egress' \in {"none", "bypassed", "routed", "carrying"}

\* ask_sign_in: a background connect raises a note, and remembers that it has; a
\* terminal's opens the browser.
AsksSignIn == waiting' \in {TRUE, waiting}

\* Names, internet and sign-in page are asked at once, and the addresses of the
\* probe hosts looked up beside them.
Baseline ==
  /\ stage = "baseline"
  /\ addresses' \in IF outside = "page" THEN {"real", "page"} ELSE {"real"}
  /\ \/ outside = "page" /\ stage' = "sign-in" /\ AsksSignIn /\ UNCHANGED <<egress, again>>
     \/ outside = "works" /\ Builds /\ UNCHANGED <<waiting, again>>
     \/ outside \in {"no names", "silent"} /\ GivesUp("blocked") /\ UNCHANGED <<egress, waiting>>
  /\ UNCHANGED <<exit, outside, uplink, home, window, clock, prover, verdict>>

\* wait_for_portal_sign_in: open at a poll, or out of patience.
SignedIn ==
  /\ stage = "sign-in" /\ outside = "works"
  /\ waiting' = FALSE /\ stage' = "recheck"
  /\ UNCHANGED <<exit, network, again, addresses, window, clock, prover, verdict>>

PatienceEnds ==
  /\ stage = "sign-in" /\ GivesUp("unsigned")
  /\ UNCHANGED <<exit, network, waiting, addresses, window, clock, prover, verdict>>

\* Names and internet are asked again; the sign-in page is not.
Recheck ==
  /\ stage = "recheck"
  /\ IF Answers(outside) THEN Builds /\ UNCHANGED again
     ELSE GivesUp("blocked") /\ UNCHANGED egress
  /\ UNCHANGED <<exit, outside, uplink, home, waiting, addresses, window, clock, prover, verdict>>

-------------------------------------------------------------------------------
(* prove_traffic *)

Routed == egress \in {"routed", "carrying", "over"}

\* A round goes where the routes point when it is sent, without waiting for the
\* one before.
RoundSent ==
  /\ stage = "watch" /\ ~napping
  /\ rounds.through + rounds.beside < InFlight
  /\ rounds' = IF Routed THEN [rounds EXCEPT !.through = @ + 1] ELSE [rounds EXCEPT !.beside = @ + 1]
  /\ UNCHANGED <<exit, stage, network, request, clock, napping, verdict>>

RoundTimesOut ==
  /\ stage = "watch"
  /\ \E way \in {"through", "beside"} :
       rounds[way] > 0 /\ rounds' = [rounds EXCEPT ![way] = @ - 1]
  /\ UNCHANGED <<exit, stage, network, request, clock, napping, verdict>>

\* The first answer ends the prover; the other rounds are aborted.
Answered ==
  /\ stage = "watch"
  /\ \/ rounds.beside > 0 /\ Answers(outside)
     \/ rounds.through > 0 /\ egress = "carrying" /\ addresses = "real"
  /\ stage' = "gate" /\ rounds' = NoRounds
  /\ UNCHANGED <<exit, network, request, clock, napping, verdict>>

-------------------------------------------------------------------------------
(* verify_with *)

Concludes(what) == stage' = "over" /\ verdict' = what
Watches == stage' = "watch" /\ UNCHANGED verdict

\* verified_tunnel_active: a profile is active and the routes do not bypass it.
VerifiedTunnelActive == egress \notin {"none", "bypassed"}

\* Mutant: ask again at once, past the deadline: what the code used to do.
AsksAtOnce == Watches /\ UNCHANGED napping

\* An answer that is no tunnel's: past the deadline that is all there will be,
\* before it the prover starts again after a poll.
AsksAgain ==
  IF now >= window THEN Concludes("quiet") /\ UNCHANGED napping
  ELSE Watches /\ napping' = TRUE

Gate ==
  /\ stage = "gate"
  /\ IF VerifiedTunnelActive THEN Concludes("carrying") /\ UNCHANGED napping ELSE AsksAgain
  /\ UNCHANGED <<exit, network, request, clock, rounds>>

\* A poll has passed: evidence is due, and a napping prover asks again.
Poll ==
  /\ stage = "watch" /\ stage' = "log"
  /\ now' = now + 1 /\ napping' = FALSE
  /\ UNCHANGED <<exit, network, request, checked, downs, heard, rounds, verdict>>

\* session_death_since: Proton's own log says so.
SessionOver == egress = "over"

\* The log, then the link when it is due.
Log ==
  /\ stage = "log"
  /\ IF SessionOver THEN Concludes("session-died") /\ UNCHANGED checked
     ELSE IF now - checked >= CheckEvery
     THEN stage' = "key" /\ checked' = now /\ UNCHANGED verdict
     ELSE stage' = "deadline" /\ UNCHANGED <<checked, verdict>>
  /\ UNCHANGED <<exit, network, request, now, downs, heard, prover>>

Key ==
  /\ stage = "key"
  /\ IF home THEN stage' = "health" /\ UNCHANGED <<heard, verdict>>
     ELSE Concludes("link-down") /\ heard' = <<"Moved">>
  /\ UNCHANGED <<exit, network, request, now, checked, downs, prover>>

\* uplink: the default route that leaves by a connected physical device.
HasUplink(link) == link.devices /\ link.route

\* link::health, as decide does it. Only positive evidence is Down.
LinkHealth(link) ==
  IF ~HasUplink(link) THEN IF link.devices THEN "Unknown" ELSE "Down"
  ELSE IF link.ping \/ link.neighbour = "confirmed" THEN "Up"
  ELSE IF link.neighbour = "failed" THEN "Down" ELSE "Unknown"

\* Mutant: only an answer from the gateway starts the count afresh.
CountedUnlessUp(health) ==
  downs' = IF health = "Down" THEN downs + 1 ELSE IF health = "Up" THEN 0 ELSE downs

\* Anything short of Down starts the count afresh.
Counted(health) == downs' = IF health = "Down" THEN downs + 1 ELSE 0

\* The look takes up to a poll's time.
Health ==
  /\ stage = "health"
  /\ LET health == LinkHealth(uplink) IN
     /\ Counted(health)
     /\ heard' = <<health>> \o SubSeq(heard, 1, IF Len(heard) < Confirm THEN Len(heard) ELSE Confirm - 1)
     /\ IF downs' >= Confirm THEN Concludes("link-down") ELSE stage' = "deadline" /\ UNCHANGED verdict
  /\ now' \in {now, now + 1}
  /\ UNCHANGED <<exit, network, request, checked, prover>>

\* Mutant: only the prover looks at the deadline.
LeftToTheProver == stage = "deadline" /\ Watches /\ UNCHANGED <<exit, network, request, clock, prover>>

Deadline ==
  /\ stage = "deadline"
  /\ IF now >= window THEN Concludes("quiet") ELSE Watches
  /\ UNCHANGED <<exit, network, request, clock, prover>>

-------------------------------------------------------------------------------
(* report, portal_note::finish *)

\* finish: the connect failed and the sign-in it asked for never happened.
Unanswered == verdict # "carrying" /\ waiting

\* It has an exit code of its own.
Report ==
  /\ stage \in {"over", "blocked", "unsigned"} /\ stage' = "done"
  /\ exit' = IF verdict = "carrying" THEN 0 ELSE IF Unanswered THEN UnsignedPortalExit ELSE 1
  /\ waiting' = (waiting /\ ~Unanswered)
  /\ UNCHANGED <<network, again, addresses, window, clock, prover, verdict>>

-------------------------------------------------------------------------------
(* The network *)

Measuring == stage \in {"watch", "gate", "log", "key", "health", "deadline"}

\* Before the tunnel: the page comes and goes, names and answers fail.
OutsideChanges ==
  /\ outside' \in {"works", "page", "no names", "silent"} \ {outside}
  /\ \/ stage \in {"baseline", "sign-in", "recheck"}
     \/ Measuring /\ egress \in {"none", "bypassed"}
  /\ UNCHANGED <<exit, stage, uplink, home, egress, request, clock, prover, verdict>>

\* The uplink loses or regains its gateway, the machine roams and may return.
LinkMoves ==
  /\ Measuring
  /\ \/ uplink' \in Uplinks \ {uplink} /\ UNCHANGED home
     \/ home' = ~home /\ UNCHANGED uplink
  /\ UNCHANGED <<exit, stage, outside, egress, request, clock, prover, verdict>>

\* The tunnel comes up, stalls, is routed around, or is declared over.
TunnelMoves ==
  /\ Measuring /\ egress # "over"
  /\ egress' \in {"none", "bypassed", "routed", "carrying", "over"} \ {egress}
  /\ UNCHANGED <<exit, stage, outside, uplink, home, request, clock, prover, verdict>>

\* The loop; the prover's answers are its own.
VerifyStep == Gate \/ Poll \/ Log \/ Key \/ Health \/ Deadline
PreflightStep == Baseline \/ SignedIn \/ PatienceEnds \/ Recheck

VerifyNext ==
  \/ PreflightStep \/ RoundSent \/ RoundTimesOut \/ Answered \/ VerifyStep \/ Report
  \/ OutsideChanges \/ LinkMoves \/ TunnelMoves

VerifySpec == VerifyInit /\ [][VerifyNext]_verifyVars

\* Every wait has a deadline of its own, so the connect keeps moving; the prover
\* and the network need not.
VerifyFairSpec ==
  VerifySpec /\ WF_verifyVars(PreflightStep \/ VerifyStep \/ Report)

-------------------------------------------------------------------------------
(* Properties *)

\* Our own uplink is blamed only for a roam seen or for Confirm link checks in a
\* row that each found it down: silence never adds up to a verdict.
LinkDownEarned ==
  verdict = "link-down" =>
    \/ heard = <<"Moved">>
    \/ Len(heard) >= Confirm /\ \A i \in 1 .. Confirm : heard[i] = "Down"

\* Whatever answers, however often, and whatever the routes do, the connect gets
\* to a verdict or gives up before the first server.
VerdictComes == <>(exit # -1)

===============================================================================
