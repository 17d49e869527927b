--------------------------------- MODULE Renewal -------------------------------
(***************************************************************************)
(* The client certificate: the one in the keyring, the expiry remembered   *)
(* in cert.json (pvpn-core/src/cert.rs), and the processes that read and   *)
(* renew it without a lock: `cert --renew --if-due` after a connect, a     *)
(* connect's own preflight, and `pvpn cert --renew`.                       *)
(*                                                                         *)
(* A certificate is kept as its phase -- fresh, due (past Proton's renewal *)
(* point), lapsed (unusable) -- and a copy of one also as whether it is    *)
(* still the keyring's. Certificates are issued in order, so a copy of an  *)
(* earlier one is never in an earlier phase.                               *)
(***************************************************************************)
EXTENDS Naturals

CONSTANTS
  Background,   \* renew_if_due, in after-connect or by a health check
  Connects,     \* ensure_usable_certificate, before a connect
  Persons,      \* pvpn cert --renew
  NoCert        \* no certificate in the keyring, no file, nothing read

Renewers == Background \cup Connects \cup Persons

Phases == {"fresh", "due", "lapsed"}
Rank(phase) == CASE phase = "fresh" -> 0 [] phase = "due" -> 1 [] phase = "lapsed" -> 2

Copies == [phase : Phases, same : BOOLEAN, tried : BOOLEAN]

ASSUME NoCertAssumption == NoCert \notin Phases \cup Copies

VARIABLES
  keyring,    \* phase of the certificate in the keyring
  file,       \* cert.json: a copy, and whether last_renewal_attempt is recent
  step,       \* where each process is
  seen,       \* the copy it has read
  login,      \* sign-in or sign-out: the keyring is changed, then the file
  route       \* Proton's API answers, directly or over Tor

certVars == <<keyring, file, step, seen, login, route>>

CertTypeOK ==
  /\ keyring \in Phases \cup {NoCert}
  /\ file \in Copies \cup {NoCert}
  /\ step \in [Renewers -> {"rest", "fast", "read", "remember", "know", "note", "noted",
                            "renew", "keep", "go"}]
  /\ seen \in [Renewers -> Copies \cup {NoCert}]
  /\ login \in {"rest", "forget"} /\ route \in BOOLEAN

CertInit ==
  /\ keyring \in Phases /\ route \in BOOLEAN
  /\ file = NoCert /\ login = "rest"
  /\ step = [p \in Renewers |-> "rest"] /\ seen = [p \in Renewers |-> NoCert]

Moves(p, to) == step' = [step EXCEPT ![p] = to]
Sees(p, copy) == seen' = [seen EXCEPT ![p] = copy]
CertRest(p) == Moves(p, "rest") /\ Sees(p, NoCert)

\* Every copy after a step that changed the keyring's certificate.
Replaced(copy) == IF copy = NoCert THEN NoCert ELSE [copy EXCEPT !.same = FALSE]

-------------------------------------------------------------------------------
(* Reading *)

RenewerBegins(p) ==
  /\ step[p] = "rest"
  /\ Moves(p, IF p \in Persons THEN "read" ELSE "fast")
  /\ UNCHANGED <<keyring, file, seen, login, route>>

\* status_fast: the file, while its renewal point lies ahead.
StatusFast(p) ==
  /\ step[p] = "fast"
  /\ IF file # NoCert /\ file.phase = "fresh"
     THEN Moves(p, "know") /\ Sees(p, file)
     ELSE Moves(p, "read") /\ UNCHANGED seen
  /\ UNCHANGED <<keyring, file, login, route>>

\* status: the keyring, which may not answer. Not knowing never stops a
\* connect and never renews anything.
ReadKeyring(p) ==
  /\ step[p] = "read"
  /\ \/ /\ keyring # NoCert
        /\ Moves(p, "remember")
        /\ Sees(p, [phase |-> keyring, same |-> TRUE, tried |-> FALSE])
     \/ /\ Moves(p, IF p \in Connects THEN "go" ELSE "rest")
        /\ UNCHANGED seen
  /\ UNCHANGED <<keyring, file, login, route>>

\* remember_at keeps the attempt only for the certificate it was made for:
\* two copies of earlier certificates may be of one or of two.
RememberAs(copy) ==
  \E kept \in IF file = NoCert THEN {FALSE} ELSE IF file.same # copy.same THEN {FALSE}
              ELSE IF copy.same THEN {file.tried} ELSE {file.tried, FALSE} :
    file' = [copy EXCEPT !.tried = kept]

Remember(p) ==
  /\ step[p] = "remember"
  /\ RememberAs(seen[p])
  /\ Moves(p, "know")
  /\ UNCHANGED <<keyring, seen, login, route>>

-------------------------------------------------------------------------------
(* Deciding *)

\* Mutant: an attempt is never too long ago.
TriedEver == file # NoCert

\* renewal_attempted_within RENEWAL_RETRY_AFTER: the file's word.
TriedLately == file # NoCert /\ file.tried

\* renew_if_due.
DecideBackground(p) ==
  /\ step[p] = "know" /\ p \in Background
  /\ IF seen[p].phase = "fresh" \/ TriedLately THEN CertRest(p)
     ELSE Moves(p, "note") /\ UNCHANGED seen
  /\ UNCHANGED <<keyring, file, login, route>>

\* Mutant: a certificate past its expiry counts as due, like any other.
DecideConnectLax(p) ==
  /\ step[p] = "know" /\ p \in Connects
  /\ Moves(p, "go")
  /\ UNCHANGED <<keyring, file, seen, login, route>>

\* ensure_usable_certificate.
DecideConnect(p) ==
  /\ step[p] = "know" /\ p \in Connects
  /\ Moves(p, IF seen[p].phase = "lapsed" THEN "renew" ELSE "go")
  /\ UNCHANGED <<keyring, file, seen, login, route>>

\* cmd_cert: with --renew, whatever the phase.
DecidePerson(p) ==
  /\ step[p] = "know" /\ p \in Persons
  /\ \/ Moves(p, "renew") /\ UNCHANGED seen
     \/ CertRest(p)
  /\ UNCHANGED <<keyring, file, login, route>>

\* note_renewal_attempt: the file is read, then written with the stamp. With
\* no file there is nothing to stamp.
NoteReads(p) ==
  /\ step[p] = "note"
  /\ IF file = NoCert THEN Moves(p, "renew") /\ UNCHANGED seen
     ELSE Moves(p, "noted") /\ Sees(p, file)
  /\ UNCHANGED <<keyring, file, login, route>>

NoteWrites(p) ==
  /\ step[p] = "noted"
  /\ file' = [seen[p] EXCEPT !.tried = TRUE]
  /\ Moves(p, "renew")
  /\ UNCHANGED <<keyring, seen, login, route>>

-------------------------------------------------------------------------------
(* Renewing *)

\* renew_certificate: one API call, directly or over Tor. The keyring has the
\* new certificate before the helper returns.
RenewLands(p) ==
  /\ step[p] = "renew" /\ route /\ keyring # NoCert
  /\ keyring' = "fresh"
  /\ file' = Replaced(file)
  /\ seen' = [q \in Renewers |->
       IF q = p THEN [phase |-> "fresh", same |-> TRUE, tried |-> FALSE] ELSE Replaced(seen[q])]
  /\ Moves(p, "keep")
  /\ UNCHANGED <<login, route>>

\* No way to the API, or it fails. A connect on a certificate that has lapsed
\* stops here.
RenewFails(p) ==
  /\ step[p] = "renew" /\ (~route \/ keyring = NoCert)
  /\ CertRest(p)
  /\ UNCHANGED <<keyring, file, login, route>>

Keep(p) ==
  /\ step[p] = "keep"
  /\ RememberAs(seen[p])
  /\ IF p \in Connects THEN Moves(p, "go") /\ UNCHANGED seen ELSE CertRest(p)
  /\ UNCHANGED <<keyring, login, route>>

SetsOut(p) ==
  /\ step[p] = "go"
  /\ CertRest(p)
  /\ UNCHANGED <<keyring, file, login, route>>

-------------------------------------------------------------------------------
(* Around them *)

\* Proton's own refresher, which only knows the direct way.
ProtonRenews ==
  /\ keyring \in {"due", "lapsed"} /\ route
  /\ keyring' = "fresh"
  /\ file' = Replaced(file) /\ seen' = [q \in Renewers |-> Replaced(seen[q])]
  /\ UNCHANGED <<step, login, route>>

\* The keyring changes hands, and cert::forget is still to come.
Signs(cert) ==
  /\ login = "rest" /\ login' = "forget"
  /\ keyring' = cert
  /\ file' = Replaced(file) /\ seen' = [q \in Renewers |-> Replaced(seen[q])]
  /\ UNCHANGED <<step, route>>

SignsIn == Signs("fresh")
SignsOut == Signs(NoCert)

Forget ==
  /\ login = "forget" /\ login' = "rest"
  /\ file' = NoCert
  /\ UNCHANGED <<keyring, step, seen, route>>

\* Days pass. MINIMUM_VALIDITY_SECS is longer than a preflight takes, so a
\* certificate does not lapse between a connect's look and its setting out.
Older(copy, phase) ==
  IF copy # NoCert /\ Rank(copy.phase) < Rank(phase) THEN [copy EXCEPT !.phase = phase] ELSE copy

CertAges ==
  \E next \in {"due", "lapsed"} :
    /\ keyring # NoCert /\ Rank(next) = Rank(keyring) + 1
    /\ next = "lapsed" => \A p \in Connects : step[p] \in {"rest", "fast", "renew"}
    /\ keyring' = next
    /\ file' = Older(file, next) /\ seen' = [p \in Renewers |-> Older(seen[p], next)]
    /\ UNCHANGED <<step, login, route>>

\* RENEWAL_RETRY_AFTER passes.
AttemptForgotten ==
  /\ TriedLately
  /\ file' = [file EXCEPT !.tried = FALSE]
  /\ UNCHANGED <<keyring, step, seen, login, route>>

RouteChanges ==
  /\ route' = ~route
  /\ UNCHANGED <<keyring, file, step, seen, login>>

RenewerSteps(p) ==
  \/ StatusFast(p) \/ ReadKeyring(p) \/ Remember(p) \/ DecideBackground(p) \/ DecideConnect(p)
  \/ DecidePerson(p) \/ NoteReads(p) \/ NoteWrites(p) \/ RenewLands(p) \/ RenewFails(p)
  \/ Keep(p) \/ SetsOut(p)

CertNext ==
  \/ \E p \in Renewers : RenewerBegins(p) \/ RenewerSteps(p)
  \/ ProtonRenews \/ SignsIn \/ SignsOut \/ Forget \/ CertAges \/ AttemptForgotten \/ RouteChanges

\* Processes run on, health checks keep starting background renewals, the
\* quarter of an hour passes, and a keyring asked again and again answers.
KeyringAnswers(p) == ReadKeyring(p) /\ step'[p] = "remember"

CertFairness ==
  /\ \A p \in Renewers : WF_certVars(RenewerSteps(p))
  /\ \A p \in Background : WF_certVars(RenewerBegins(p)) /\ SF_certVars(KeyringAnswers(p))
  /\ WF_certVars(AttemptForgotten) /\ WF_certVars(Forget)

CertSpec == CertInit /\ [][CertNext]_certVars /\ CertFairness

-------------------------------------------------------------------------------
(* Properties *)

\* A connect that knows the certificate's state sets out only on one the node
\* accepts, whoever wrote the file it believed and whatever was renewed,
\* remembered or signed in meanwhile.
SetsOutUsable ==
  \A p \in Connects :
    step[p] = "go" /\ seen[p] # NoCert /\ keyring # NoCert => keyring # "lapsed"

\* Where the API comes within reach for good and somebody stays signed in, a
\* certificate past its renewal point does not stay there: no stamp, stale
\* copy or crossing of renewers keeps the background renewal from happening.
RenewedInTheEnd ==
  <>[](route /\ keyring # NoCert) => []<>(keyring = "fresh")
===============================================================================
