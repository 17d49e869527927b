------------------------------- MODULE AlwaysOn -------------------------------
(***************************************************************************)
(* Who may rebuild the tunnel, and on whose word: commands a person types  *)
(* (main.rs, connect.rs), the hook `pvpn-autoconnect` that a resume or a   *)
(* link coming up starts, and the `pvpn watch` a timer starts, with the    *)
(* two markers (intent.rs), the network the person last asked on           *)
(* (scope.rs) and the connect lock between them.                           *)
(*                                                                         *)
(* The lock is what ConnectLock proves of it: one holder. A connect is     *)
(* abstracted to its entry (marker cleared, old tunnel kept or taken down) *)
(* and its end (a tunnel that carries, one that does not, or none).        *)
(***************************************************************************)
EXTENDS Naturals

CONSTANTS
  Users,       \* slots for commands typed at a terminal
  Script,      \* the one pvpn-autoconnect its own flock lets run
  Watch,       \* the one pvpn watch its timer has running
  NoProc,      \* nobody
  Networks,    \* network keys
  Offline,     \* the network key when nothing is attached
  NoNetwork,   \* nothing recorded yet
  Listed,      \* networks autoconnect_networks allows whatever was asked where
  Never,       \* autoconnect_never
  Targets,     \* networks with a reconnect target (`pvpn reconnect to S`)
  DownHolds,   \* reconnect_mode = "previous"
  Attempts     \* attempts of one run of the hook

ASSUME AlwaysOnAssumption ==
  /\ Script # Watch /\ Users \cap {Script, Watch, NoProc} = {}
  /\ NoProc \notin {Script, Watch}
  /\ Networks \cap {Offline, NoNetwork} = {} /\ Offline # NoNetwork
  /\ Never \cup Listed \cup Targets \subseteq Networks
  /\ DownHolds \in BOOLEAN /\ Attempts \in Nat \ {0}

Automatic == {Script, Watch}
Procs == Users \cup Automatic

VARIABLES
  net,       \* the network this machine is on
  tunnel,    \* "none", "carrying" (an answer within the two seconds `up` gives
             \* it), or "dead": up, routed into, nothing back
  down,      \* the down-by-user marker
  off,       \* the autoconnect-off marker
  started,   \* the network recorded by the last manual up or hop
  lock,      \* who holds the connect lock
  pc,        \* where each process is
  cmd,       \* what each person's slot was asked to do
  tries,     \* attempts the hook has made
  seen,      \* the network `pvpn watch` began its check on, while it checks
  grant,     \* history: the network each automatic run was allowed on
  askedOn,   \* history: networks a person's up or hop began on
  builder    \* history: whose connect built the tunnel that is there

vars == <<net, tunnel, down, off, started, lock, pc, cmd, tries, seen, grant, askedOn,
          builder>>
world == <<net, off>>
script == <<tries>>
history == <<grant, askedOn, builder>>

Commands == {"up", "hop", "reconnect", "down"}
Connecting == {"entering", "building"}

TypeOK ==
  /\ net \in Networks \cup {Offline}
  /\ tunnel \in {"none", "carrying", "dead"}
  /\ down \in BOOLEAN /\ off \in BOOLEAN
  /\ started \in Networks \cup {NoNetwork}
  /\ lock \in Procs \cup {NoProc}
  /\ pc \in [Procs -> {"idle", "linkwait", "scope", "attempt", "backoff", "checking",
                       "queued", "recheck", "marking", "teardown"} \cup Connecting]
  /\ cmd \in [Users -> Commands]
  /\ tries \in 0 .. Attempts
  /\ seen \in Networks \cup {Offline}
  /\ grant \in [Automatic -> Networks \cup {NoNetwork}]
  /\ askedOn \subseteq Networks
  /\ builder \in Procs \cup {NoProc}

Init ==
  /\ net \in Networks \cup {Offline}
  /\ tunnel = "none"
  /\ down = FALSE /\ off = FALSE
  /\ started = NoNetwork
  /\ lock = NoProc
  /\ pc = [p \in Procs |-> "idle"]
  /\ cmd = [u \in Users |-> "up"]
  /\ tries = 0
  /\ seen = Offline
  /\ grant = [p \in Automatic |-> NoNetwork]
  /\ askedOn = {}
  /\ builder = NoProc

-------------------------------------------------------------------------------
(* Markers and scope *)

\* intent::is_holding
IsHolding == DownHolds /\ down

\* scope::allowed, for the network it is asked about.
Allowed(n) == n \in Networks \ Never /\ (n \in Listed \/ n = started)

Goto(p, from, to) == pc[p] = from /\ pc' = [pc EXCEPT ![p] = to]

\* A process ends: the kernel drops its lock.
Ends(p) ==
  /\ pc' = [pc EXCEPT ![p] = "idle"]
  /\ lock' = IF lock = p THEN NoProc ELSE lock

-------------------------------------------------------------------------------
(* Commands typed at a terminal *)

Type(u, c) ==
  /\ Goto(u, "idle", "queued")
  /\ cmd' = [cmd EXCEPT ![u] = c]
  /\ UNCHANGED <<world, tunnel, down, started, lock, script, seen, history>>

\* Mutant: every connect moves the network autoconnect is allowed on.
RememberedAlways(p) == IF net \in Networks THEN net ELSE started

\* remember_where_asked: `up` and `hop` only, and never for the hook; offline
\* is not a network.
Remembered(p) ==
  IF p \in Users /\ cmd[p] \in {"up", "hop"} /\ net \in Networks THEN net ELSE started

\* Mutant: `let _ = lock::acquire().await` in watch drops the guard at once.
DroppedByWatch(p) == IF p = Watch THEN NoProc ELSE p

\* Whose guard it is after acquire(): the caller's, to the end of its block.
Guard(p) == p

\* The lock is had, by whoever queued for it: a connect of a person's or the
\* hook's goes in, `down` goes on to its marker, watch looks again first.
TakeLock(p) ==
  /\ pc[p] = "queued" /\ lock = NoProc
  /\ lock' = Guard(p)
  /\ pc' = [pc EXCEPT ![p] =
              IF p = Watch THEN "recheck"
              ELSE IF p \in Users /\ cmd[p] = "down" THEN "marking" ELSE "entering"]
  /\ started' = IF p \in Users /\ cmd[p] = "down" THEN started ELSE Remembered(p)
  /\ askedOn' = IF p \in Users /\ cmd[p] \in {"up", "hop"}
                THEN askedOn \cup ({net} \cap Networks) ELSE askedOn
  /\ UNCHANGED <<world, tunnel, down, cmd, script, seen, grant, builder>>

\* DOWN_LOCK_PATIENCE is over: `down` goes on without the lock.
DownUnlocked(u) ==
  /\ cmd[u] = "down" /\ lock # NoProc
  /\ Goto(u, "queued", "marking")
  /\ UNCHANGED <<world, tunnel, down, started, lock, cmd, script, seen, history>>

\* connect::down: the marker first, so it holds whatever the teardown does.
MarkDown(u) ==
  /\ Goto(u, "marking", "teardown")
  /\ down' = TRUE
  /\ UNCHANGED <<world, tunnel, started, lock, cmd, script, seen, history>>

TearDown(u) ==
  /\ pc[u] = "teardown"
  /\ tunnel' = "none" /\ builder' = NoProc
  /\ Ends(u)
  /\ UNCHANGED <<world, down, started, cmd, script, seen, grant, askedOn>>

\* Ctrl-C, or systemd's SIGINT when a unit takes too long. A connect restores,
\* and so does `pvpn watch` at any point of its life, holding the lock or not;
\* a process that waits for the lock, and `down`, just end.
Stopped(p) ==
  /\ pc[p] # "idle"
  /\ IF pc[p] \in Connecting \/ p = Watch
     THEN tunnel' = "none" /\ builder' = NoProc ELSE UNCHANGED <<tunnel, builder>>
  /\ Ends(p)
  /\ tries' = IF p = Script THEN 0 ELSE tries
  /\ seen' = IF p = Watch THEN Offline ELSE seen
  /\ UNCHANGED <<world, down, started, cmd, grant, askedOn>>

\* SIGKILL, from --force, the OOM killer or anyone: nothing is restored. The hook
\* outlives its `pvpn reconnect` and takes it for one more failed attempt.
Killed(p) ==
  /\ pc[p] # "idle"
  /\ \/ Ends(p) /\ tries' = IF p = Script THEN 0 ELSE tries
     \/ /\ p = Script /\ pc[p] \in {"queued"} \cup Connecting /\ tries < Attempts
        /\ pc' = [pc EXCEPT ![p] = "backoff"]
        /\ lock' = IF lock = p THEN NoProc ELSE lock
        /\ UNCHANGED tries
  /\ seen' = IF p = Watch THEN Offline ELSE seen
  /\ UNCHANGED <<world, tunnel, down, started, cmd, history>>

-------------------------------------------------------------------------------
(* A connect, whoever makes it *)

How(p) == IF p \in Users THEN cmd[p] ELSE "reconnect"

\* `up` keeps a tunnel that carries; a hop keeps one that is the named server's
\* and carries, or whatever there is when the name is nobody's.
MayKeep(p) == tunnel = "carrying" \/ How(p) = "hop"

\* Mutant: a reconnect starts afresh, as a bare hop does.
MayReplaceAny(p) == TRUE

\* A reconnect is a hop to its target where there is one.
MayReplace(p) ==
  tunnel # "carrying" \/ How(p) = "hop" \/ (How(p) = "reconnect" /\ net \in Targets)

\* up, hop and reconnect, on entry: the marker goes, and an existing tunnel is
\* kept (then the connect is over) or taken down.
Enter(p) ==
  /\ pc[p] = "entering"
  /\ down' = FALSE
  /\ \/ /\ MayKeep(p)
        /\ Ends(p)
        /\ tries' = IF p = Script THEN 0 ELSE tries
        /\ UNCHANGED <<tunnel, builder>>
     \/ /\ MayReplace(p)
        /\ tunnel' = "none" /\ builder' = NoProc
        /\ pc' = [pc EXCEPT ![p] = "building"]
        /\ UNCHANGED <<lock, tries>>
  /\ UNCHANGED <<world, started, cmd, seen, grant, askedOn>>

\* While it builds, a tunnel is there before it is known to carry.
TunnelAppears(p) ==
  /\ pc[p] = "building" /\ tunnel = "none" /\ net # Offline
  /\ tunnel' = "dead"
  /\ builder' = p
  /\ UNCHANGED <<world, down, started, lock, pc, cmd, script, seen, grant, askedOn>>

\* reconnect: the target did not carry, so `up` is entered after it, and clears
\* the marker a second time.
FallsBack(p) ==
  /\ pc[p] = "building" /\ How(p) = "reconnect" /\ Targets # {}
  /\ down' = FALSE
  /\ tunnel' = "none" /\ builder' = NoProc
  /\ UNCHANGED <<world, started, lock, pc, cmd, script, seen, grant, askedOn>>

\* Mutant: the hook retries for as long as nothing carries.
AfterForEver(p, result) == IF p = Script /\ result # "carrying" THEN "backoff" ELSE "idle"

\* What the process does once its connect has reported.
After(p, result) ==
  IF p = Script /\ result # "carrying" /\ tries < Attempts THEN "backoff" ELSE "idle"

\* A tunnel that carried, a quiet one that was kept, or none and the normal
\* connection back. A hook that exhausts a sign-in page (exit 77) stops too.
Report(p) ==
  /\ pc[p] = "building"
  /\ \E result \in {"carrying", "dead", "none"} :
       /\ result # "none" => net # Offline
       /\ tunnel' = result
       /\ builder' = IF result = "none" THEN NoProc ELSE p
       /\ \/ pc' = [pc EXCEPT ![p] = After(p, result)]
          \/ p = Script /\ result = "none" /\ pc' = [pc EXCEPT ![p] = "idle"]
  /\ lock' = IF lock = p THEN NoProc ELSE lock
  /\ tries' = IF p = Script /\ pc'[p] = "idle" THEN 0 ELSE tries
  /\ UNCHANGED <<world, down, started, cmd, seen, grant, askedOn>>

-------------------------------------------------------------------------------
(* pvpn-autoconnect *)

\* Mutant: the hook does not look at the down marker.
ScriptStartsUnasked ==
  /\ ~off
  /\ Goto(Script, "idle", "linkwait")
  /\ UNCHANGED <<world, tunnel, down, started, lock, cmd, script, seen, history>>

\* A resume, or a physical link coming up: both markers are read here and
\* nowhere else.
ScriptStarts ==
  /\ ~off /\ ~IsHolding
  /\ Goto(Script, "idle", "linkwait")
  /\ UNCHANGED <<world, tunnel, down, started, lock, cmd, script, seen, history>>

\* The wait ends: a tunnel is routed, a link is there, or LINK_WAIT is over.
LinkSettles ==
  /\ Goto(Script, "linkwait", IF tunnel = "carrying" \/ net = Offline THEN "idle" ELSE "scope")
  /\ UNCHANGED <<world, tunnel, down, started, lock, cmd, script, seen, history>>

\* autoconnect-check, once per run, before the first attempt.
ScopeChecked ==
  /\ Goto(Script, "scope", IF Allowed(net) THEN "attempt" ELSE "idle")
  /\ grant' = [grant EXCEPT ![Script] = IF Allowed(net) THEN net ELSE @]
  /\ UNCHANGED <<world, tunnel, down, started, lock, cmd, script, seen, askedOn, builder>>

\* One `pvpn reconnect`, which queues for the lock like any other.
Attempt ==
  /\ Goto(Script, "attempt", IF tunnel = "carrying" THEN "idle" ELSE "queued")
  /\ tries' = IF tunnel = "carrying" THEN 0 ELSE tries + 1
  /\ UNCHANGED <<world, tunnel, down, started, lock, cmd, seen, history>>

\* sleep $((attempt * 20))
BackoffEnds ==
  /\ Goto(Script, "backoff", "attempt")
  /\ UNCHANGED <<world, tunnel, down, started, lock, cmd, script, seen, history>>

\* A command typed meanwhile asks the hook's connect to step aside: it restores
\* and exits 75, and the hook with it.
StepAside(u) ==
  /\ pc[u] = "queued" /\ cmd[u] # "down" /\ lock = Script
  /\ tunnel' = "none" /\ builder' = NoProc
  /\ Ends(Script)
  /\ tries' = 0
  /\ UNCHANGED <<world, down, started, cmd, seen, grant, askedOn>>

-------------------------------------------------------------------------------
(* pvpn watch *)

\* The timer fires; with no tunnel there is nothing to watch.
WatchStarts ==
  /\ tunnel # "none"
  /\ Goto(Watch, "idle", "checking")
  /\ seen' = net
  /\ UNCHANGED <<world, tunnel, down, started, lock, cmd, script, history>>

\* Carrying, gone, offline, on another network, opted out or out of scope.
WatchLeavesIt ==
  /\ tunnel # "dead" \/ net = Offline \/ net # seen \/ off \/ ~Allowed(net)
  /\ Goto(Watch, "checking", "idle")
  /\ seen' = Offline
  /\ UNCHANGED <<world, tunnel, down, started, lock, cmd, script, history>>

\* Dead through every confirmation and the grace, on the network it began on.
WatchFindsDead ==
  /\ tunnel = "dead" /\ net = seen /\ ~off /\ Allowed(net)
  /\ Goto(Watch, "checking", "queued")
  /\ grant' = [grant EXCEPT ![Watch] = net]
  /\ seen' = Offline
  /\ UNCHANGED <<world, tunnel, down, started, lock, cmd, script, askedOn, builder>>

\* With the lock: is a tunnel carrying by now? The markers are not read again.
WatchRechecks ==
  /\ pc[Watch] = "recheck"
  /\ IF tunnel = "carrying"
     THEN Ends(Watch)
     ELSE pc' = [pc EXCEPT ![Watch] = "entering"] /\ UNCHANGED lock
  /\ UNCHANGED <<world, tunnel, down, started, cmd, script, seen, history>>

-------------------------------------------------------------------------------
(* The machine, and the person at it *)

\* Roam, lose the link, suspend: a tunnel may survive, stall or be torn down.
LinkMoves ==
  /\ \E n \in Networks \cup {Offline} : n # net /\ net' = n
  /\ tunnel' \in {"none", tunnel} \cup (IF tunnel = "carrying" THEN {"dead"} ELSE {})
  /\ builder' = IF tunnel' = "none" THEN NoProc ELSE builder
  /\ UNCHANGED <<off, down, started, lock, pc, cmd, script, seen, grant, askedOn>>

\* The network kills the session behind a tunnel, or Proton's client heals it.
SessionChanges ==
  /\ tunnel # "none" /\ (tunnel = "dead" => net # Offline)
  /\ tunnel' = IF tunnel = "dead" THEN "carrying" ELSE "dead"
  /\ UNCHANGED <<world, down, started, lock, pc, cmd, script, seen, history>>

\* pvpn-autoconnect --off and --on
OptOut ==
  /\ off' = ~off
  /\ UNCHANGED <<net, tunnel, down, started, lock, pc, cmd, script, seen, history>>

\* The Release button of the GUI's preferences.
Release ==
  /\ down /\ down' = FALSE
  /\ UNCHANGED <<world, tunnel, started, lock, pc, cmd, script, seen, history>>

-------------------------------------------------------------------------------
UserStep(u) ==
  \/ \E c \in Commands : Type(u, c)
  \/ DownUnlocked(u) \/ MarkDown(u) \/ TearDown(u) \/ StepAside(u)

ScriptStep == ScriptStarts \/ LinkSettles \/ ScopeChecked \/ Attempt \/ BackoffEnds

WatchStep == WatchStarts \/ WatchLeavesIt \/ WatchFindsDead \/ WatchRechecks

Connect(p) == TakeLock(p) \/ Enter(p) \/ TunnelAppears(p) \/ FallsBack(p) \/ Report(p)

Next ==
  \/ \E u \in Users : UserStep(u)
  \/ ScriptStep
  \/ WatchStep
  \/ \E p \in Procs : Connect(p) \/ Stopped(p) \/ Killed(p)
  \/ LinkMoves \/ SessionChanges \/ OptOut \/ Release

Spec == Init /\ [][Next]_vars

-------------------------------------------------------------------------------
(* What the hooks promise *)

\* An automatic run that has been told it may rebuild the tunnel.
Licensed(p) ==
  p \in Automatic /\ pc[p] \in {"attempt", "backoff", "queued", "recheck"} \cup Connecting

\* The licence to rebuild is only ever given on a network a person asked for a
\* tunnel on, or listed, and never on one of autoconnect_never (scope.rs:3-18):
\* no chain of roams and automatic reconnects spreads it to another network.
LicensedWhereAsked ==
  \A p \in Automatic : Licensed(p) => grant[p] \in (askedOn \cup Listed) \ Never

\* On a network without a reconnect target, no step of an automatic connect takes
\* away a tunnel that carries, unless it built that tunnel itself: whatever
\* another command built while it queued, or builds without waiting, is safe.
CarryingLeftAlone ==
  [][\A p \in Automatic :
       Connect(p) /\ tunnel = "carrying" /\ tunnel' # "carrying" /\ net \notin Targets
         => builder = p]_vars

\* Nobody is left to bring the tunnel back: the marker holds, no tunnel is up,
\* and no command or automatic run that may connect is under way.
Resting ==
  /\ IsHolding /\ tunnel = "none"
  /\ \A u \in Users : pc[u] # "idle" => cmd[u] = "down"
  /\ pc[Script] = "idle"
  /\ ~Licensed(Watch)

UserAsks == \E u \in Users, c \in Commands \ {"down"} : Type(u, c)

\* A `pvpn down` at rest stays in force until a person asks otherwise, through
\* any number of resumes, link changes, timers and further downs
\* (README.md, "A deliberate `pvpn down` is never undone").
RestingDownStays == [][Resting => Resting' \/ UserAsks \/ Release]_vars

\* While a `down` that has the lock tears the tunnel down, nothing but the
\* person's own Release takes its marker back, and no tunnel appears.
LockedDownLands ==
  [][\A u \in Users :
       pc[u] = "teardown" /\ lock = u =>
         /\ down /\ ~down' => Release
         /\ tunnel = "none" => tunnel' = "none"]_vars

===============================================================================
