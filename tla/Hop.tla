----------------------------------- MODULE Hop ---------------------------------
(***************************************************************************)
(* `pvpn hop`, `pvpn hop <name>` and `pvpn reconnect` (pvpn/src/connect.rs)*)
(* over the machinery of UpConnect, and into `up` where the code calls it: *)
(* a hop with nothing attached, and a reconnect whose target did not carry.*)
(*                                                                         *)
(* What steering the server list comes to (see Steer) is a choice here.    *)
(***************************************************************************)
EXTENDS UpConnect

CONSTANTS
  HopAttempts,   \* HOP_ATTEMPTS: 4
  Wants          \* [servers, exact]: what a hop may be asked for

\* A hop with no name; nothing has been asked of anybody.
NextBest == [servers |-> {}, exact |-> FALSE]

ASSUME HopAssumption ==
  /\ HopAttempts \in Nat \ {0}
  /\ Wants \subseteq [servers : SUBSET Servers \ {{}}, exact : BOOLEAN]
  /\ \A w \in Wants : w.exact => Cardinality(w.servers) = 1

VARIABLES
  asked,    \* what the hop is for: a want, or NextBest
  resume,   \* the hop is the first half of `reconnect`: "no", "yes", or it has
            \* failed and `up` has followed
  before,   \* the server the command found attached
  how,      \* how the named server is asked for: Proton's client with the list
            \* "steered" or "forced", a "local" profile; "none" before that
  primary,  \* outcome of Proton's client for it
  got,      \* the server that attempt is about
  strayed   \* history: NetworkManager activated another profile than asked

hopOnly == <<asked, resume, before, how, primary, got, strayed>>
hopVars == <<vars, hopOnly>>
setup == <<asked, resume, before>>

Outcomes == {"none", "ok", "link-down", "cert-expired", "session-killed", "no-traffic",
             "refused", "client-error", "keyring-locked"}
HopPlaces == {"hop", "hop check", "hop next", "hop try", "named", "saved", "steer",
              "named connect", "fallback", "judge"}

HopTypeOK ==
  /\ pc \in HopPlaces \cup {"entry", "preflight", "fast", "rank", "loop", "direct", "client",
                            "cert", "done"}
  /\ tunnel \in [server : Servers \cup {NoServer},
                 state : {"none", "old", "half", "quiet", "died", "link-down", "carrying"}]
  /\ blamed \subseteq Servers /\ n <= attempts
  /\ asked \in Wants \cup {NextBest} /\ resume \in {"no", "yes", "up"}
  /\ before \in Servers \cup {NoServer}
  /\ how \in {"none", "steered", "forced", "local"} /\ primary \in Outcomes
  /\ got \in Servers \cup {NoServer} /\ strayed \in BOOLEAN

HopInit ==
  /\ pc = "hop"
  /\ tunnel \in {Detached} \cup [server : Servers, state : {"old", "carrying"}]
  /\ link \in {"up", "down"} /\ cert \in {"valid", "lapsed"} /\ keyring \in BOOLEAN
  /\ blamed = WrittenOff /\ fast = {} /\ targets = << >> /\ n = 0 /\ attempts = 0
  /\ tried = FALSE /\ renewed = FALSE /\ quiet = 0 /\ report = Running
  /\ asked \in Wants \cup {NextBest}
  /\ resume \in (IF asked.exact THEN {"no", "yes"} ELSE {"no"})
  /\ before = tunnel.server /\ how = "none" /\ primary = "none" /\ got = NoServer /\ strayed = FALSE

Named == asked # NextBest
Attached == tunnel.server # NoServer

\* preserve_then_disconnect is asked only of a server proven here; any other
\* tunnel stays until disconnect_and_wait.
Preserved == IF tunnel.server \in Proven THEN Detached ELSE tunnel

Hops(to) == pc' = to /\ UNCHANGED report

\* A hop's failure is a reconnect's cue for `up`.
HopFails ==
  IF resume = "yes" THEN pc' = "entry" /\ resume' = "up" /\ UNCHANGED report
  ELSE Fail /\ UNCHANGED resume

\* Mutant: as it stands, without restore().
HopFailsAsIs == HopFails /\ UNCHANGED tunnel

HopFailsRestored == HopFails /\ tunnel' = Detached

HopSucceeds(server) == Succeed(server) /\ UNCHANGED resume

-------------------------------------------------------------------------------
(* hop *)

\* With a name and nothing attached, the checks `up` begins with; with neither,
\* `up` itself.
HopStart ==
  /\ pc = "hop"
  /\ IF Named
     THEN Hops(IF Attached THEN "named" ELSE "hop check") /\ UNCHANGED tunnel
     ELSE /\ Hops(IF Attached THEN "hop next" ELSE "entry")
          /\ tunnel' = Preserved
  /\ UNCHANGED <<world, blamed, plan, count, hopOnly>>

HopCheck ==
  /\ pc = "hop check"
  /\ \/ HopFails /\ UNCHANGED cert
     \/ ~Broken /\ Hops("named") /\ cert' = (IF keyring THEN "valid" ELSE cert) /\ UNCHANGED resume
  /\ UNCHANGED <<tunnel, link, keyring, blamed, plan, count, asked, before, how, primary,
                 got, strayed>>

-------------------------------------------------------------------------------
(* hop_to_next_best *)

\* hop_candidates, or a full rank where they are none: proven servers, then the
\* measured ones, without the blocked ones and the one we are on. No protocol, no
\* rank and no candidate end it as it stands.
HopCandidates ==
  /\ pc = "hop next"
  /\ \/ \E cands \in SetToSeqs(NotBlocked(Servers) \ {before}) :
          /\ cands # << >>
          /\ targets' = cands /\ n' = 0
          /\ attempts' = IF Len(cands) < HopAttempts THEN Len(cands) ELSE HopAttempts
          /\ Hops("hop try") /\ UNCHANGED resume
     \/ HopFails /\ UNCHANGED <<targets, n, attempts>>
  /\ UNCHANGED <<world, tunnel, blamed, fast, tried, renewed, quiet, asked, before, how,
                 primary, got, strayed>>

HopExhausted ==
  /\ pc = "hop try" /\ n >= attempts
  /\ HopFailsRestored
  /\ UNCHANGED <<world, blamed, plan, count, asked, before, how, primary, got, strayed>>

\* Mutant: `continue` without the iterator.
HopSameAgain == Hops("hop try") /\ UNCHANGED <<n, resume>>

HopNextTry == Hops("hop try") /\ n' = n + 1 /\ UNCHANGED resume

\* What a verified attempt leads to; `left` is what it leaves attached.
HopTried(outcome, left) ==
  \/ outcome = "ok" /\ HopSucceeds(Target) /\ UNCHANGED n
     /\ tunnel' = [server |-> Target, state |-> "carrying"]
  \/ outcome \in {"link-down", "cert-expired"} /\ HopFailsRestored /\ UNCHANGED n
  \/ outcome \in Dead /\ HopNextTry /\ tunnel' = left

\* A plausible saved or built profile; if it does not come up, on to the next.
HopDirect ==
  /\ pc = "hop try" /\ n < attempts /\ Target \in Direct
  /\ \/ HopNextTry /\ tunnel' = Detached /\ UNCHANGED blamed
     \/ \E verdict \in Verdicts :
          /\ Record(Target, OutcomeFor(verdict, FALSE))
          /\ HopTried(OutcomeFor(verdict, FALSE), Detached)
  /\ UNCHANGED <<world, plan, tried, renewed, quiet, asked, before, how, primary, got,
                 strayed>>

\* connect_and_verify: disconnect_and_wait, Proton's client, and then the server
\* asked for, another one -- disconnected again -- or nothing.
HopByClient ==
  /\ pc = "hop try" /\ n < attempts
  /\ \/ \E verdict \in Verdicts :
          /\ Record(Target, OutcomeFor(verdict, TRUE))
          /\ HopTried(OutcomeFor(verdict, TRUE), [server |-> Target, state |-> verdict])
     \/ \E outcome \in Diagnoses \cup {"client-error"} :
          /\ Record(Target, outcome)
          /\ HopNextTry /\ tunnel' \in {Detached, [server |-> NoServer, state |-> "half"]}
  /\ UNCHANGED <<world, plan, tried, renewed, quiet, asked, before, how, primary, got,
                 strayed>>

-------------------------------------------------------------------------------
(* hop_to_pattern *)

\* A full name of where we are already, and it carries: nothing to do. Any other
\* full name goes to its profile first.
HopNamed ==
  /\ pc = "named"
  /\ \/ /\ asked.exact /\ tunnel.server \in asked.servers
        /\ tunnel.state = "carrying" /\ ~Broken
        /\ HopSucceeds(tunnel.server)
     \/ Hops(IF asked.exact /\ asked.servers \subseteq Direct THEN "saved" ELSE "steer")
        /\ UNCHANGED resume
  /\ UNCHANGED <<world, tunnel, blamed, plan, count, asked, before, how, primary, got,
                 strayed>>

\* hop_via_saved_profile: anything short of carrying falls through.
HopSaved ==
  /\ pc = "saved"
  /\ \/ Hops("steer") /\ tunnel' \in {tunnel, Detached} /\ UNCHANGED <<blamed, resume>>
     \/ \E verdict \in Verdicts, s \in asked.servers :
          /\ Record(s, OutcomeFor(verdict, FALSE))
          /\ IF verdict = "carrying"
             THEN HopSucceeds(s) /\ tunnel' = [server |-> s, state |-> verdict]
             ELSE Hops("steer") /\ tunnel' = Detached /\ UNCHANGED resume
  /\ UNCHANGED <<world, plan, count, asked, before, how, primary, got, strayed>>

\* steer_cache and prepare_protocol; an unknown pattern or an unset protocol ends
\* it before the old tunnel is touched.
HopSteer ==
  /\ pc = "steer"
  /\ \/ HopFails /\ UNCHANGED <<tunnel, how>>
     \/ /\ how' \in {"steered", "forced", "local"}
        /\ Hops("named connect") /\ tunnel' = Preserved /\ UNCHANGED resume
  /\ UNCHANGED <<world, blamed, plan, count, asked, before, primary, got, strayed>>

\* activate_saved_and_verify: verified and recorded, or there was no profile, it
\* did not come up, or something else did.
Activates(s) ==
  \E verdict \in Verdicts :
    /\ Record(s, OutcomeFor(verdict, FALSE))
    /\ tunnel' = [server |-> s, state |-> verdict]
    /\ primary' = OutcomeFor(verdict, FALSE) /\ got' = s
    /\ Hops("judge") /\ UNCHANGED <<resume, strayed>>

DoesNotActivate(left) ==
  \/ tunnel' = left /\ UNCHANGED strayed
  \/ \E other \in Servers \ asked.servers :
       tunnel' = [server |-> other, state |-> "old"] /\ strayed' = TRUE

HopLocal ==
  /\ pc = "named connect" /\ how = "local"
  /\ \/ \E s \in asked.servers : asked.exact /\ s \in Proven /\ Activates(s)
     \/ HopFailsRestored /\ UNCHANGED <<blamed, primary, got, strayed>>
  /\ UNCHANGED <<world, plan, count, asked, before, how>>

\* Mutant: whatever Proton's client picked will do.
AnyServer == Servers

\* selected_server_matches.
Matching == asked.servers

\* connect_and_verify with the list steered; a forced server's failure is not
\* recorded yet.
HopConnect ==
  /\ pc = "named connect" /\ how # "local"
  /\ UNCHANGED <<world, plan, count, asked, before, how, strayed>>
  /\ \/ \E s \in Matching, verdict \in Verdicts :
          LET outcome == OutcomeFor(verdict, TRUE) IN
          /\ got' = s /\ primary' = outcome
          /\ IF how = "forced" /\ outcome # "ok"
             THEN tunnel' = Detached /\ Hops("fallback") /\ UNCHANGED blamed
             ELSE tunnel' = [server |-> s, state |-> verdict] /\ Hops("judge") /\ Record(s, outcome)
          /\ UNCHANGED resume
     \/ \E outcome \in Diagnoses \cup {"client-error"} :
          /\ got' = NoServer /\ primary' = outcome /\ tunnel' = Detached
          /\ IF asked.exact /\ how # "forced"
             THEN \E s \in asked.servers : Record(s, outcome)
             ELSE UNCHANGED blamed
          /\ IF how = "forced" \/ outcome = "keyring-locked"
             THEN Hops("fallback") /\ UNCHANGED resume
             ELSE HopFails

\* The saved profile after Proton's client did not do it. Without one, what was
\* held back is recorded; a tunnel that had been up and was restored away still
\* goes to be judged, a failure is reported as it stands.
HopFallback ==
  /\ pc = "fallback"
  /\ \/ \E s \in asked.servers : asked.exact /\ s \in Proven /\ Activates(s)
     \/ /\ DoesNotActivate(Detached)
        /\ IF got = NoServer THEN HopFails ELSE Hops("judge") /\ UNCHANGED resume
        /\ IF how = "forced" /\ (got # NoServer \/ asked.exact)
           THEN \E s \in (IF got = NoServer THEN asked.servers ELSE {got}) : Record(s, primary)
           ELSE UNCHANGED blamed
        /\ UNCHANGED <<primary, got>>
  /\ UNCHANGED <<world, plan, count, asked, before, how>>

\* The link and a dead session end it; anything else is kept.
HopJudge ==
  /\ pc = "judge"
  /\ IF primary \in {"link-down", "session-killed"}
     THEN HopFailsRestored
     ELSE HopSucceeds(got) /\ UNCHANGED tunnel
  /\ UNCHANGED <<world, blamed, plan, count, asked, before, how, primary, got, strayed>>

-------------------------------------------------------------------------------
(* The machine *)

HopStep ==
  \/ HopStart \/ HopCheck \/ HopCandidates \/ HopExhausted \/ HopDirect \/ HopByClient
  \/ HopNamed \/ HopSaved \/ HopSteer \/ HopLocal \/ HopConnect \/ HopFallback \/ HopJudge

HopOrUp == HopStep \/ (Step /\ UNCHANGED hopOnly)

HopNext == HopOrUp \/ ((LinkChanges \/ CertLapses) /\ UNCHANGED hopOnly)

HopSpec == HopInit /\ [][HopNext]_hopVars

\* Every wait in it has a deadline.
HopFairSpec == HopSpec /\ WF_hopVars(HopOrUp)

-------------------------------------------------------------------------------
(* Properties *)

\* A named hop that reports success names a server it was asked for; and unless
\* the server was forced, that is the server attached, in a session that is not
\* over -- or is, only because our certificate has lapsed.
HopLandsAsAsked ==
  report.ok = "yes" /\ Named /\ resume # "up" =>
    /\ report.server \in asked.servers
    /\ how # "forced" =>
         /\ tunnel.server = report.server
         /\ tunnel.state = "died" => primary = "cert-expired"

\* A hop that fails leaves nothing attached but the tunnel it found, untouched,
\* through every fallback and through the `up` that follows a reconnect;
\* except where NetworkManager brought up a profile nobody asked for.
HopLeavesNothing ==
  report.ok = "no" =>
    \/ tunnel = Detached
    \/ /\ tunnel.server = before /\ tunnel.state \in {"old", "carrying"}
       /\ resume # "up" /\ how = "none"
    \/ strayed

\* Hop, its fallbacks and the `up` it may turn into come to an end.
HopFinishes == <>(pc = "done")
===============================================================================
