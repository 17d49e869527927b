------------------------------- MODULE UpConnect ------------------------------
(***************************************************************************)
(* One `pvpn up` (pvpn/src/connect.rs): preflight, the fast path over      *)
(* saved profiles, the ranked list, and the loop that tries one server     *)
(* after another, directly or through Proton's client, until one carries,  *)
(* a limit is reached or something of ours is at fault.                    *)
(*                                                                         *)
(* The connect lock is held throughout, so nobody else moves the tunnel.   *)
(* Verification is abstracted to its verdict, a run of Proton's client to  *)
(* what it builds or prints; taking a tunnel down is taken to succeed.     *)
(***************************************************************************)
EXTENDS Naturals, Sequences, SequencesExt, FiniteSets

CONSTANTS
  Servers,         \* logical server names
  NoServer,        \* no server: none attached, none named
  Proven,          \* servers with a saved profile that have carried here
  Direct,          \* servers a profile can be found or built for
  WrittenOff,      \* servers blocked here when the command starts
  FastCandidates,  \* FAST_PATH_CANDIDATES
  QuietLimit,      \* QUIET_TUNNELS_BEFORE_GIVING_UP
  Blind,           \* attempts when there is no ranked list: 3
  MaxAttempts      \* attempts of a run over a ranked list: 8

ASSUME UpAssumption ==
  /\ IsFiniteSet(Servers) /\ NoServer \notin Servers
  /\ Proven \cup Direct \cup WrittenOff \subseteq Servers
  /\ FastCandidates \in Nat /\ QuietLimit \in Nat \ {0}
  /\ Blind \in Nat \ {0} /\ MaxAttempts \in Nat \ {0}

VARIABLES
  pc,         \* where the command is
  tunnel,     \* [server, state] of what is attached; state "none" when nothing
  link,       \* "up", "down" (still attached, the uplink gone), or off the
              \* network we began on: "moved" to another, or "offline"
  cert,       \* "valid" or "lapsed": the client certificate
  keyring,    \* the desktop keyring can be read
  blamed,     \* servers blocked on this network now
  fast,       \* servers the fast path has been to
  targets,    \* the ranked list this run works through
  n,          \* index into it of the next server, from 0
  attempts,   \* how far n may go
  tried,      \* the loop has made a try: attempt > 1 from the next one on
  renewed,    \* the loop has renewed the certificate once
  quiet,      \* quiet_tunnels
  report      \* UpReport: ok, and the server it names; "none" while running

vars == <<pc, tunnel, link, cert, keyring, blamed, fast, targets, n, attempts, tried,
          renewed, quiet, report>>
world == <<link, cert, keyring>>
plan == <<fast, targets, attempts>>
count == <<n, tried, renewed, quiet>>

Detached == [server |-> NoServer, state |-> "none"]
Links == {"up", "down", "moved", "offline"}
Running == [ok |-> "none", server |-> NoServer]

TypeOK ==
  /\ pc \in {"entry", "preflight", "fast", "rank", "loop", "direct", "client", "cert", "done"}
  /\ tunnel \in [server : Servers \cup {NoServer},
                 state : {"none", "old", "half", "quiet", "died", "carrying"}]
  /\ link \in Links /\ cert \in {"valid", "lapsed"} /\ keyring \in BOOLEAN
  /\ blamed \subseteq Servers /\ fast \subseteq Servers
  /\ targets \in Seq(Servers) /\ Len(targets) <= Cardinality(Servers)
  /\ n \in Nat /\ attempts \in Nat /\ n <= attempts
  /\ tried \in BOOLEAN /\ renewed \in BOOLEAN /\ quiet \in 0 .. QuietLimit
  /\ report \in [ok : {"none", "yes", "no"}, server : Servers \cup {NoServer}]

Init ==
  /\ pc = "entry"
  /\ tunnel \in {Detached} \cup [server : Servers, state : {"old", "carrying"}]
  /\ link \in {"up", "down"} /\ cert \in {"valid", "lapsed"} /\ keyring \in BOOLEAN
  /\ blamed = WrittenOff /\ fast = {}
  /\ targets = << >> /\ n = 0 /\ attempts = 0
  /\ tried = FALSE /\ renewed = FALSE /\ quiet = 0
  /\ report = Running

\* link::health has something to find wrong; the network key has changed.
Broken == link \in {"down", "offline"}
Elsewhere == link \in {"moved", "offline"}

-------------------------------------------------------------------------------
(* Ends of the command *)

Succeed(server) ==
  /\ pc' = "done"
  /\ report' = [ok |-> "yes", server |-> server]

\* A failure reported as it stands.
Fail ==
  /\ pc' = "done"
  /\ report' = [ok |-> "no", server |-> NoServer]

\* Mutant: a failure is reported without restore().
FailAsIs == Fail /\ UNCHANGED tunnel

\* A failure after restore(): whatever was built is taken down first.
FailRestored == Fail /\ tunnel' = Detached

Continue(to) == pc' = to /\ UNCHANGED report

-------------------------------------------------------------------------------
(* Blame *)

\* certificate_is_to_blame: the keyring's expiry, or Proton's log, which only
\* its own client writes.
CertificateIsToBlame(byClient) == cert = "lapsed" /\ (keyring \/ byClient)

\* Mutant: a session Proton declared over is the server's, certificate or no.
OutcomeServerFirst(verdict, byClient) ==
  IF verdict = "carrying" THEN "ok"
  ELSE IF verdict = "link-down" THEN "link-down"
  ELSE IF verdict = "died" THEN "session-killed"
  ELSE IF CertificateIsToBlame(byClient) THEN "cert-expired"
  ELSE "no-traffic"

\* outcome_for: our certificate outranks what the tunnel looks like.
OutcomeFor(verdict, byClient) ==
  IF verdict = "carrying" THEN "ok"
  ELSE IF verdict = "link-down" THEN "link-down"
  ELSE IF CertificateIsToBlame(byClient) THEN "cert-expired"
  ELSE IF verdict = "died" THEN "session-killed"
  ELSE "no-traffic"

Dead == {"session-killed", "no-traffic", "refused"}

\* record, of what it does to the blocks.
Record(server, outcome) ==
  blamed' = IF outcome \in Dead THEN blamed \cup ({server} \cap Servers)
            ELSE IF outcome = "ok" THEN blamed \ {server} ELSE blamed

\* What verify may find: nothing carries without a link or under a certificate
\* the node refuses, and the link is only called down when it is not as it was.
Verdicts ==
  {"died", "quiet"}
    \cup (IF ~Broken /\ cert = "valid" THEN {"carrying"} ELSE {})
    \cup (IF link # "up" THEN {"link-down"} ELSE {})

-------------------------------------------------------------------------------
(* Before the first server *)

\* reuse_healthy_tunnel, which gives an answer two seconds to come; else
\* whatever is attached is restored away.
Entry ==
  /\ pc = "entry"
  /\ \/ /\ tunnel.state = "carrying" /\ ~Broken
        /\ Succeed(tunnel.server)
        /\ UNCHANGED tunnel
     \/ Continue("preflight") /\ tunnel' = Detached
  /\ UNCHANGED <<world, blamed, plan, count>>

\* local_network_problem (no answer, no name service, a sign-in page nobody got
\* through) and ensure_usable_certificate, asked together; an unreadable keyring
\* is no opinion.
Preflight ==
  /\ pc = "preflight"
  /\ \/ Fail /\ UNCHANGED cert
     \/ ~Broken /\ keyring /\ Continue("fast") /\ cert' = "valid"
     \/ ~Broken /\ ~keyring /\ Continue("fast") /\ UNCHANGED cert
  /\ UNCHANGED <<link, keyring, tunnel, blamed, plan, count>>

\* fast_path_candidates: proven servers whose saved profile may be worth a try.
FastLeft == (Proven \ blamed) \ fast

\* activate_saved_fast_path, one candidate: NetworkManager would not start it
\* (nothing is recorded), or it was verified and recorded, and taken down again
\* unless it carries.
FastTry(s) ==
  /\ pc = "fast" /\ s \in FastLeft
  /\ Cardinality(fast) < FastCandidates
  /\ fast' = fast \cup {s}
  /\ \/ Continue("fast") /\ UNCHANGED <<tunnel, blamed>>
     \/ \E verdict \in Verdicts :
          LET outcome == OutcomeFor(verdict, FALSE) IN
          /\ Record(s, outcome)
          /\ IF outcome = "ok"
             THEN Succeed(s) /\ tunnel' = [server |-> s, state |-> "carrying"]
             ELSE /\ Continue(IF outcome \in {"link-down", "cert-expired"} THEN "rank" ELSE "fast")
                  /\ UNCHANGED tunnel
  /\ UNCHANGED <<world, targets, attempts, count>>

\* activate_saved_via_nmcli: without the bus there are no profiles to choose from,
\* and the best proven server's is asked for once, by name.
FastByNmcli(s) ==
  /\ pc = "fast" /\ fast = {} /\ s \in FastLeft
  /\ \/ Continue("rank") /\ UNCHANGED <<tunnel, blamed>>
     \/ \E verdict \in Verdicts :
          LET outcome == OutcomeFor(verdict, FALSE) IN
          /\ Record(s, outcome)
          /\ IF outcome = "ok"
             THEN Succeed(s) /\ tunnel' = [server |-> s, state |-> "carrying"]
             ELSE Continue("rank") /\ tunnel' = Detached
  /\ UNCHANGED <<world, plan, count>>

FastOver ==
  /\ pc = "fast"
  /\ FastLeft = {} \/ Cardinality(fast) >= FastCandidates
  /\ Continue("rank")
  /\ UNCHANGED <<world, tunnel, blamed, plan, count>>

\* No protocol could be set, or there is no usable inventory.
CannotPrepare ==
  /\ pc = "rank" /\ Fail
  /\ UNCHANGED <<world, tunnel, blamed, plan, count>>

\* Mutant: the cached order is used as it was ranked.
AsRanked(servers) == servers

\* ranked_targets, and what a fresh full rank returns: the blocked ones dropped.
NotBlocked(servers) == servers \ blamed

\* The cached or fresh order, of the servers it keeps, or none when it could not
\* be made.
Ranked ==
  /\ pc = "rank"
  /\ \E order \in SetToSeqs(NotBlocked(Servers)) \cup {<< >>} :
       /\ targets' = order
       /\ attempts' = IF targets' = << >> THEN Blind
                      ELSE IF Len(targets') < MaxAttempts THEN Len(targets') ELSE MaxAttempts
  /\ Continue("loop")
  /\ tunnel' = Detached
  /\ UNCHANGED <<world, blamed, fast, count>>

-------------------------------------------------------------------------------
(* The loop *)

\* The server this turn is for; none when Proton is to choose.
Target == IF n < Len(targets) THEN targets[n + 1] ELSE NoServer

NextServer == Continue("loop") /\ n' = n + 1

\* The loop is over without a tunnel.
Exhausted ==
  /\ pc = "loop" /\ n >= attempts
  /\ FailRestored
  /\ UNCHANGED <<world, blamed, plan, count>>

\* The top of a turn: from the second on, the last tunnel goes first; on another
\* network than the servers were chosen for, nothing is tried.
Turn ==
  /\ pc = "loop" /\ n < attempts
  /\ IF Elsewhere
     THEN FailRestored /\ UNCHANGED tried
     ELSE /\ Continue(IF Target \in Direct THEN "direct" ELSE "client")
          /\ tunnel' = IF tried THEN Detached ELSE tunnel
          /\ tried' = TRUE
  /\ UNCHANGED <<world, blamed, plan, n, renewed, quiet>>

\* Mutant: the count is kept, and not looked at.
NeverEnough == quiet' = quiet + 1 /\ NextServer /\ UNCHANGED tunnel

\* A directly activated tunnel, already deactivated, was one more quiet one.
OneMoreQuiet ==
  /\ quiet' = quiet + 1
  /\ IF quiet + 1 >= QuietLimit
     THEN FailRestored /\ UNCHANGED n
     ELSE NextServer /\ UNCHANGED tunnel

\* activate_profile_and_verify on the target.
TryDirect ==
  /\ pc = "direct"
  /\ \/ Continue("client") /\ UNCHANGED <<tunnel, blamed, n, quiet>>
     \/ \E verdict \in Verdicts :
          LET outcome == OutcomeFor(verdict, FALSE) IN
          /\ Record(Target, outcome)
          /\ \/ /\ outcome = "ok" /\ Succeed(Target)
                /\ tunnel' = [server |-> Target, state |-> "carrying"]
                /\ UNCHANGED <<n, quiet>>
             \/ outcome = "link-down" /\ FailRestored /\ UNCHANGED <<n, quiet>>
             \/ outcome = "cert-expired" /\ Continue("client") /\ UNCHANGED <<tunnel, n, quiet>>
             \/ outcome \in Dead /\ OneMoreQuiet
  /\ UNCHANGED <<world, plan, tried, renewed>>

\* Mutant: every refused certificate is renewed and the server tried again.
RenewEveryTime == Continue("cert") /\ UNCHANGED renewed

\* Our certificate: renew once and try the same server again, else give up.
RenewOnce ==
  IF renewed
  THEN FailRestored /\ UNCHANGED renewed
  ELSE Continue("cert") /\ renewed' = TRUE

Renew ==
  /\ pc = "cert"
  /\ \/ Continue("loop") /\ cert' = "valid" /\ UNCHANGED tunnel
     \/ FailRestored /\ UNCHANGED cert
  /\ UNCHANGED <<link, keyring, blamed, plan, count>>

\* Mutant: a session Proton has declared over is kept as a slow one is.
KeepDead(got, state) == Succeed(got) /\ tunnel' = [server |-> got, state |-> state]

\* The last tunnel worth having carried nothing: a dead session is taken down, a
\* silent one is kept.
KeepOrRestore(got, state) ==
  IF state = "died"
  THEN FailRestored
  ELSE Succeed(got) /\ tunnel' = [server |-> got, state |-> state]

\* Proton's client built a tunnel to `got`.
ClientBuilds(got) ==
  /\ pc = "client"
  /\ IF Target \notin {NoServer, got} /\ n + 1 < attempts
     THEN \* landed elsewhere: neither verified nor recorded
          /\ NextServer
          /\ tunnel' = [server |-> got, state |-> "old"]
          /\ UNCHANGED <<blamed, renewed, quiet>>
     ELSE \E verdict \in Verdicts :
          LET outcome == OutcomeFor(verdict, TRUE)
              built == [server |-> got, state |-> verdict] IN
          /\ IF outcome = "cert-expired" THEN UNCHANGED blamed ELSE Record(got, outcome)
          /\ \/ /\ outcome = "cert-expired" /\ RenewOnce
                /\ pc' = "cert" => tunnel' = built
                /\ UNCHANGED <<n, quiet>>
             \/ outcome = "link-down" /\ FailRestored /\ UNCHANGED <<n, renewed, quiet>>
             \/ /\ outcome = "ok" /\ Succeed(got) /\ tunnel' = built
                /\ UNCHANGED <<n, renewed, quiet>>
             \/ /\ outcome \in Dead
                /\ quiet' = quiet + 1
                /\ IF quiet + 1 < QuietLimit /\ n + 1 < attempts /\ targets # << >>
                   THEN NextServer /\ tunnel' = built
                   ELSE KeepOrRestore(got, verdict) /\ UNCHANGED n
                /\ UNCHANGED renewed
  /\ UNCHANGED <<world, plan, tried>>

\* What Proton's client may have logged since the attempt began.
LogSays ==
  {"session-killed"} \cup (IF cert = "lapsed" THEN {"cert-expired"} ELSE {})
    \cup (IF keyring THEN {} ELSE {"keyring-locked"})

\* What a failed `protonvpn connect` turns out to have been, as diagnose asks:
\* Proton's client logs a certificate that is refused; a gateway that is gone may
\* go unnoticed.
Diagnoses ==
  IF "cert-expired" \in LogSays THEN {"cert-expired"}
  ELSE {"refused", "client-error"} \cup LogSays \cup (IF Broken THEN {"link-down"} ELSE {})

\* Proton's client built nothing, or half of something. `says` is the line of
\* its output that `up` acts on.
ClientFails(outcome, says) ==
  /\ pc = "client" /\ outcome \in Diagnoses
  /\ IF Target # NoServer /\ outcome # "cert-expired"
     THEN Record(Target, outcome)
     ELSE UNCHANGED blamed
  /\ LET left == IF says = "nothing" THEN [server |-> NoServer, state |-> "half"] ELSE tunnel IN
     \/ /\ outcome = "cert-expired" /\ RenewOnce
        /\ pc' = "cert" => tunnel' = left
        /\ UNCHANGED <<targets, n>>
     \/ outcome = "keyring-locked" /\ FailRestored /\ UNCHANGED <<targets, n, renewed>>
     \/ /\ outcome \notin {"cert-expired", "keyring-locked"}
        /\ \/ says = "no backend" /\ Fail /\ UNCHANGED <<targets, n, tunnel>>
           \/ /\ says = "free plan" /\ Target # NoServer
              /\ targets' = << >> /\ NextServer /\ tunnel' = left
           \/ /\ says = "refused" \/ (says = "free plan" /\ Target = NoServer)
              /\ FailRestored /\ UNCHANGED <<targets, n>>
           \/ says = "nothing" /\ NextServer /\ tunnel' = left /\ UNCHANGED targets
        /\ UNCHANGED renewed
  /\ UNCHANGED <<world, fast, attempts, tried, quiet>>

\* The client could not even be started.
SpawnFails ==
  /\ pc = "client" /\ NextServer
  /\ UNCHANGED <<world, tunnel, blamed, plan, tried, renewed, quiet>>

-------------------------------------------------------------------------------
(* The machine *)

LinkChanges ==
  /\ pc # "done"
  /\ \E l \in Links : l # link /\ link' = l
  /\ UNCHANGED <<pc, tunnel, cert, keyring, blamed, plan, count, report>>

CertLapses ==
  /\ pc # "done" /\ cert = "valid" /\ cert' = "lapsed"
  /\ UNCHANGED <<pc, tunnel, link, keyring, blamed, plan, count, report>>

-------------------------------------------------------------------------------
Step ==
  \/ Entry \/ Preflight
  \/ \E s \in Servers : FastTry(s) \/ FastByNmcli(s)
  \/ FastOver \/ CannotPrepare \/ Ranked
  \/ Exhausted \/ Turn \/ TryDirect \/ Renew
  \/ \E s \in Servers : ClientBuilds(s)
  \/ \E outcome \in Dead \cup {"cert-expired", "link-down", "keyring-locked", "client-error"},
        says \in {"nothing", "no backend", "free plan", "refused"} : ClientFails(outcome, says)
  \/ SpawnFails

Next == Step \/ LinkChanges \/ CertLapses

Spec == Init /\ [][Next]_vars

\* The command runs on by itself: every wait in it has a deadline.
FairSpec == Spec /\ WF_vars(Step)

-------------------------------------------------------------------------------
(* Properties *)

\* Success is never reported over a tunnel that is not there, is another
\* server's, or whose session Proton has declared over.
HonestSuccess ==
  report.ok = "yes" =>
    tunnel.server = report.server /\ tunnel.state \in {"carrying", "quiet"}

\* Whatever mix of failed, half-built and landed-elsewhere attempts came before,
\* a failure is reported with the normal connection back.
NothingLeftBehind == report.ok = "no" => tunnel = Detached

\* No turn of the loop goes to a server this very command has written off, on
\* the fast path or in the loop (state.rs:280-285).
NeverBackToBlamed == pc \in {"direct", "client"} => Target \notin blamed

\* A lapsed certificate of ours gets no server blocked, as long as either of the
\* two places that tell can be read.
CertBlamesNobody ==
  [][cert = "lapsed" /\ (keyring \/ pc = "client") => blamed' \subseteq blamed]_vars

\* The command ends, however often the link moves or the certificate lapses.
Finishes == <>(pc = "done")

===============================================================================
