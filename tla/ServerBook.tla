------------------------------ MODULE ServerBook ------------------------------
(***************************************************************************)
(* What pvpn remembers of each server on each network                      *)
(* (pvpn-core/src/state.rs) and who gets the blame for a connect that did  *)
(* not work (pvpn/src/blocklist.rs): blocks, their escalation and expiry,  *)
(* attempt and success counts, and the lists the choosers read.            *)
(*                                                                         *)
(* One pvpn command at a time reads the file, works on its copy and saves  *)
(* it (pvpn/src/session.rs). Latencies are abstracted to the label a probe *)
(* leaves; timestamps are ticks of a clock that does not step back.        *)
(***************************************************************************)
EXTENDS Integers

CONSTANTS
  Networks,     \* network keys: one per wifi, one per wired link
  Servers,      \* logical server names
  Logs,         \* sets of phrases a failed `protonvpn connect` may print
  RetryAfter,   \* blocked_retry_after, in ticks
  MaxNow,       \* bound on the clock
  MaxAttempts   \* bound, per network, on the attempts made to one server there

MaxBlockEscalation == 4

ASSUME BookAssumption ==
  RetryAfter \in Nat \ {0} /\ MaxNow \in Nat /\ MaxAttempts \in [Networks -> Nat]

Never == -1     \* an absent timestamp

VARIABLES
  book,      \* state.json: what each network has taught about each server
  copy,      \* the running command's own copy of it
  network,   \* State::current: the network every accessor reads and writes
  now,       \* the wall clock
  verdict,   \* history: the last verdict a connect earned: "none", "ok", "dead"
  spoke,     \* history: when that verdict fell
  deaths     \* history: dead verdicts since the last success or `pvpn forget`

history == <<verdict, spoke, deaths>>
vars == <<book, copy, network, now, verdict, spoke, deaths>>

ServerStatus == {"fast", "known", "blocked"}

ServerStat ==
  [status: ServerStatus, blocked_since: Nat \cup {Never}, failures: Nat,
   attempts: Nat, successes: Nat]

\* ServerStat::default
Unknown == [status |-> "known", blocked_since |-> Never, failures |-> 0,
            attempts |-> 0, successes |-> 0]

TypeOK ==
  /\ book \in [Networks -> [Servers -> ServerStat]]
  /\ copy \in [Networks -> [Servers -> ServerStat]]
  /\ network \in Networks
  /\ now \in 0 .. MaxNow
  /\ verdict \in [Networks -> [Servers -> {"none", "ok", "dead"}]]
  /\ spoke \in [Networks -> [Servers -> Nat \cup {Never}]]
  /\ deaths \in [Networks -> [Servers -> Nat]]

Init ==
  /\ book = [n \in Networks |-> [s \in Servers |-> Unknown]]
  /\ copy = book
  /\ network \in Networks
  /\ now = 0
  /\ verdict = [n \in Networks |-> [s \in Servers |-> "none"]]
  /\ spoke = [n \in Networks |-> [s \in Servers |-> Never]]
  /\ deaths = [n \in Networks |-> [s \in Servers |-> 0]]

-------------------------------------------------------------------------------
(* One server's record *)

\* hold_for: consecutive_connect_failures.clamp(1, MAX_BLOCK_ESCALATION).
Escalation(k) ==
  IF k < 1 THEN 1 ELSE IF k > MaxBlockEscalation THEN MaxBlockEscalation ELSE k

HoldFor(stat) == RetryAfter * Escalation(stat.failures)

IsBlocked(stat, t) ==
  /\ stat.status = "blocked"
  /\ stat.blocked_since # Never => t - stat.blocked_since < HoldFor(stat)

\* record_probe: never touches a block.
Probed(stat, label) ==
  IF stat.status = "blocked" THEN stat ELSE [stat EXCEPT !.status = label]

\* Mutant: a success takes back one failure instead of all of them.
SucceededDecaying(stat) ==
  [stat EXCEPT !.failures = @ - 1, !.blocked_since = Never,
               !.attempts = @ + 1, !.successes = @ + 1,
               !.status = IF @ = "blocked" THEN "known" ELSE @]

\* record_connect_success
Succeeded(stat) ==
  [stat EXCEPT !.failures = 0, !.blocked_since = Never,
               !.attempts = @ + 1, !.successes = @ + 1,
               !.status = IF @ = "blocked" THEN "known" ELSE @]

\* record_connect_attempt
Attempted(stat) == [stat EXCEPT !.attempts = @ + 1]

\* Mutant: a second death during a block keeps the first one's date.
BlamedOnce(stat, t) ==
  [stat EXCEPT !.attempts = @ + 1, !.failures = @ + 1, !.status = "blocked",
               !.blocked_since = IF @ = Never THEN t ELSE @]

\* record_connect_blocked
Blamed(stat, t) ==
  [stat EXCEPT !.attempts = @ + 1, !.failures = @ + 1,
               !.status = "blocked", !.blocked_since = t]

\* Mutant: an expiry forgives the failures as well.
ExpiredForgiving(stat, t) ==
  IF stat.status = "blocked" /\ ~IsBlocked(stat, t)
  THEN [stat EXCEPT !.status = "known", !.blocked_since = Never, !.failures = 0]
  ELSE stat

\* expire_blocks, of one server: the failure count survives.
Expired(stat, t) ==
  IF stat.status = "blocked" /\ ~IsBlocked(stat, t)
  THEN [stat EXCEPT !.status = "known", !.blocked_since = Never]
  ELSE stat

\* unblock: a person's word, so the failure count goes too.
Unblocked(stat) ==
  IF stat.status = "blocked"
  THEN [stat EXCEPT !.status = "known", !.blocked_since = Never, !.failures = 0]
  ELSE stat

-------------------------------------------------------------------------------
(* Blame *)

Innocent == {"cert-expired", "client-error", "keyring-locked", "link-down"}
Dead == {"no-traffic", "refused", "handshake-closed", "session-killed"}
\* What verification, watch and diagnose's own checks come to, of all of these.
Observed ==
  {"ok", "no-traffic", "session-killed", "cert-expired", "link-down", "keyring-locked"}

\* Mutant: our own uplink going away is held against the server.
BlamesTheServerForTheLink(outcome) == outcome \in Dead \cup {"link-down"}

\* ConnectOutcome::reason: the whole of the blame policy.
BlamesTheServer(outcome) == outcome \in Dead

\* blocklist::apply
Applied(stat, outcome, t) ==
  IF outcome = "ok" THEN Succeeded(stat)
  ELSE IF BlamesTheServer(outcome) THEN Blamed(stat, t)
  ELSE Attempted(stat)

ASSUME LogsAssumption == Logs \subseteq SUBSET {"certificate", "tls", "timeout", "refused"}

\* classify_failure: which of the phrases it knows decides when several are there.
ClassifyFailure(log) ==
  IF "certificate" \in log THEN "cert-expired"
  ELSE IF "tls" \in log THEN "handshake-closed"
  ELSE IF "timeout" \in log THEN "session-killed"
  ELSE IF "refused" \in log THEN "refused"
  ELSE "client-error"

-------------------------------------------------------------------------------
(* The book *)

\* Mutant: one flat map, every network's observations filed together.
HereOnEveryNetwork(s, stat) == [n \in Networks |-> [copy[n] EXCEPT ![s] = stat]]

\* here_mut: what is learned is filed under the current network only.
Here(s, stat) == [copy EXCEPT ![network][s] = stat]

\* Session::save: the whole copy replaces the file.
Save(learned) == copy' = learned /\ book' = learned

\* Session::load: a command starts on the network the machine is on.
Load(n) ==
  /\ copy' = book
  /\ network' = n
  /\ UNCHANGED <<book, now, history>>

\* sync_network: the link moved, and every accessor with it.
SyncNetwork(n) ==
  /\ network' = n
  /\ UNCHANGED <<book, copy, now, history>>

\* The history variables' own view of an outcome, from the code's comments and
\* not from the records: cert, client, keyring and link say nothing of a server.
Witness(s, outcome) ==
  IF outcome \in Innocent
  THEN UNCHANGED history
  ELSE /\ verdict' = [verdict EXCEPT ![network][s] = IF outcome = "ok" THEN "ok" ELSE "dead"]
       /\ spoke' = [spoke EXCEPT ![network][s] = now]
       /\ deaths' = [deaths EXCEPT ![network][s] = IF outcome = "ok" THEN 0 ELSE @ + 1]

\* connect::record: apply the outcome to the copy and save it.
Record(s, outcome) ==
  /\ copy[network][s].attempts < MaxAttempts[network]
  /\ Save(Here(s, Applied(copy[network][s], outcome, now)))
  /\ Witness(s, outcome)
  /\ UNCHANGED <<network, now>>

\* A failed `protonvpn connect`, classified by what it printed.
RecordFailure(s, log) == Record(s, ClassifyFailure(log))

\* compute_full_rank, the ranking itself failing: blocks have been expired in
\* the copy, which the command goes on to connect with.
RankFails ==
  /\ copy' = [copy EXCEPT ![network] = [s \in Servers |-> Expired(@[s], now)]]
  /\ UNCHANGED <<book, network, now, history>>

\* compute_full_rank: reload_state drops the copy, expired blocks and all, for
\* the file; what was measured of the servers not blocked is recorded and saved.
RankSucceeds(probe) ==
  /\ \A s \in Servers : IsBlocked(copy[network][s], now) => probe[s] = "none"
  /\ Save([book EXCEPT ![network] =
             [s \in Servers |-> IF probe[s] = "none" THEN @[s] ELSE Probed(@[s], probe[s])]])
  /\ UNCHANGED <<network, now, history>>

\* `pvpn forget SERVER`, a command of its own
Forget(s) ==
  /\ copy = book /\ book[network][s].status = "blocked"
  /\ Save(Here(s, Unblocked(book[network][s])))
  /\ deaths' = [deaths EXCEPT ![network][s] = 0]
  /\ UNCHANGED <<network, now, verdict, spoke>>

\* `pvpn forget --all`
ForgetAll ==
  /\ copy = book
  /\ Save([book EXCEPT ![network] = [s \in Servers |-> Unblocked(@[s])]])
  /\ deaths' = [deaths EXCEPT ![network] =
                  [s \in Servers |-> IF book[network][s].status = "blocked" THEN 0 ELSE @[s]]]
  /\ UNCHANGED <<network, now, verdict, spoke>>

Tick ==
  /\ now < MaxNow
  /\ now' = now + 1
  /\ UNCHANGED <<book, copy, network, history>>

Next ==
  \/ \E s \in Servers :
       \/ \E outcome \in Observed : Record(s, outcome)
       \/ \E log \in Logs : RecordFailure(s, log)
       \/ Forget(s)
  \/ RankFails
  \/ \E probe \in [Servers -> {"none", "fast", "known"}] : RankSucceeds(probe)
  \/ ForgetAll
  \/ \E n \in Networks : Load(n) \/ SyncNetwork(n)
  \/ Tick

Spec == Init /\ [][Next]_vars

-------------------------------------------------------------------------------
(* What choosers read *)

\* working_list: what `pvpn hop` tries first and the fast path activates.
WorkingList(n) ==
  {s \in Servers : book[n][s].status # "blocked" /\ book[n][s].successes > 0}

\* blocked_names: what the ranker and ranked_targets skip.
BlockedNames(n, t) == {s \in Servers : IsBlocked(book[n][s], t)}

-------------------------------------------------------------------------------
(* Properties *)

\* A server is written off on a network only by its own last verdict there, a
\* tunnel that did not carry, dated when that happened: no probe, no lapsed
\* certificate, no lost uplink, no other network's verdict, and never for longer
\* than MaxBlockEscalation windows ("blocks are never permanent").
BlockedForCause ==
  \A n \in Networks, s \in Servers :
    /\ book[n][s].status = "blocked" =>
         verdict[n][s] = "dead" /\ book[n][s].blocked_since = spoke[n][s]
    /\ s \in BlockedNames(n, now) =>
         now - spoke[n][s] < MaxBlockEscalation * RetryAfter

\* However many expiries, probes, roams and blameless failures lie in between,
\* the k-th death since the server last carried is held for min(k, 4) windows.
HoldMatchesRecord ==
  \A n \in Networks, s \in Servers :
    book[n][s].status = "blocked" =>
      HoldFor(book[n][s]) = RetryAfter * Escalation(deaths[n][s])

\* A server whose last verdict here is a tunnel that carried stays among those
\* known to work here, whatever happens to our certificate, keyring or link.
ProvenStaysWorking ==
  \A n \in Networks, s \in Servers : verdict[n][s] = "ok" => s \in WorkingList(n)

\* What happens on one network teaches nothing about another, not even through a
\* command that roams half-way: elsewhere only time changes a record.
OtherNetworksUntouched ==
  [][\A n \in Networks \ {network}, s \in Servers :
       book'[n][s] \in {book[n][s], Expired(book[n][s], now)}]_vars

===============================================================================
