--------------------------------- MODULE Profiles -------------------------------
(***************************************************************************)
(* The NetworkManager profiles of the tunnels: what `pvpn down` and the    *)
(* start of `pvpn up` do to them (teardown.rs, connect.rs, proc.rs), how   *)
(* a saved profile is built, keyed and activated (profiles.rs, dbus.rs),   *)
(* and what a verdict does to the copies of its server.                    *)
(*                                                                         *)
(* Every call that changes NetworkManager is a step, and the command may   *)
(* be killed before any of them.                                           *)
(***************************************************************************)
EXTENDS Integers, FiniteSets

CONSTANTS
  Servers,
  Slots,     \* profile paths NetworkManager may give out; the bound on duplicates
  Gone,      \* the content of a path that names no profile
  Faults     \* what may go wrong: "bus", "call", "keyring", "orphan", "linger"

ASSUME ProfilesAssumption ==
  /\ Gone \notin Servers
  /\ Gone \notin [server : Servers, saved : BOOLEAN, keyed : BOOLEAN, auto : BOOLEAN]
  /\ 0 \notin Slots /\ Faults \subseteq {"bus", "call", "keyring", "orphan", "linger"}

VARIABLES
  profile,    \* by path: a profile, in memory only unless saved, or Gone
  active,     \* the path activated, or 0: the plugin allows one
  believes,   \* connection_persistence.json: Proton's client thinks it is connected
  guard,      \* a kill-switch profile stands
  bus,        \* the system bus answers; as it was when the commands began
  keyring,    \* the keyring gives up the session's key
  orphan,     \* a `protonvpn connect` left by a killed command is still at work
  at,         \* the step the command is about to take
  job,        \* "down", or the "up" whose teardown comes first
  live,       \* down's LiveProfile: [path, server, transient], or NoTunnel
  keep,       \* it is to be kept
  former,     \* former_active of a restore
  target,     \* the server an attempt is for
  rekeyed,    \* of an attempt over a saved profile
  proven,     \* servers that have carried and are not blocked here
  had,        \* history: proven servers a profile was kept for when the command began
  missed      \* history: what went wrong in it: "call", "key", "bus", "tidied", "landed",
              \* "started" (by NetworkManager itself), "killed"

pvars == <<profile, active, believes, guard, bus, keyring, orphan, at, job, live, keep, former,
           target, rekeyed, proven, had, missed>>
world == <<bus, keyring>>
client == <<believes, guard, orphan>>
request == <<job, live, keep, former, target, rekeyed>>
record == <<proven, had>>

Profile == [server : Servers, saved : BOOLEAN, keyed : BOOLEAN, auto : BOOLEAN]
NoTunnel == [path |-> 0, server |-> Gone, transient |-> FALSE]

Paths == {s \in Slots : profile[s] # Gone}
Free == Slots \ Paths
Live == IF active = 0 THEN NoTunnel
        ELSE [path |-> active, server |-> profile[active].server,
              transient |-> ~profile[active].saved]

\* Matching ignores case and the older "(verified)" tag, so a server's copies are one set.
CopiesOf(s) == {p \in Paths : profile[p].server = s}
StaleCopiesAndLive(s, kept) == CopiesOf(s)
StaleCopies(s, kept) == CopiesOf(s) \ {kept}

\* In Network Settings, or as the tunnel in use.
Kept(s) == \E p \in CopiesOf(s) : profile[p].saved \/ p = active

\* A killed client's profile, in memory and not in use.
LeftOver(s) == \E p \in CopiesOf(s) : ~profile[p].saved /\ p # active

ProfilesTypeOK ==
  /\ profile \in [Slots -> Profile \cup {Gone}] /\ active \in Paths \cup {0}
  /\ believes \in BOOLEAN /\ guard \in BOOLEAN /\ bus \in BOOLEAN /\ keyring \in BOOLEAN
  /\ orphan \in BOOLEAN /\ job \in {"none", "down", "up", "over"}
  /\ at \in {"idle", "look", "stale", "persist", "deactivate", "release", "guard", "autos", "kill",
             "begin", "preserve", "copies", "save", "disconnect", "restore", "drop", "duplicates",
             "clear", "unguard", "tidy", "attempt", "activate", "await", "rekey", "client", "verdict", "deactivated"}
  /\ live.path \in Slots \cup {0} /\ keep \in BOOLEAN /\ former \subseteq Slots
  /\ target \in Servers /\ rekeyed \in BOOLEAN
  /\ proven \subseteq Servers /\ had \subseteq Servers
  /\ missed \subseteq {"call", "key", "bus", "tidied", "landed", "started", "killed"}

Fails(kind) == IF kind \in Faults THEN BOOLEAN ELSE {FALSE}
Put(p, r) == profile' = [profile EXCEPT ![p] = r]
Delete(ps) == profile' = [p \in Slots |-> IF p \in ps THEN Gone ELSE profile[p]]

\* Deleting the active profile takes its tunnel down.
Remove(ps) == Delete(ps) /\ active' = (IF active \in ps THEN 0 ELSE active)
Go(step) == at' = step
Noting(bad, what) == IF bad THEN missed \cup {what} ELSE missed

ProfilesInit ==
  /\ profile \in [Slots -> {r \in Profile : r.saved} \cup {Gone}]
  /\ active \in {0} \cup Paths /\ believes = FALSE
  /\ guard = FALSE /\ bus \in {TRUE} \cup {~b : b \in Fails("bus")}
  /\ keyring \in {TRUE} \cup {~b : b \in Fails("keyring")} /\ orphan = FALSE
  /\ at = "idle" /\ job = "none" /\ live = NoTunnel /\ keep = FALSE /\ former = {}
  /\ target \in Servers /\ rekeyed = FALSE
  /\ proven \in SUBSET Servers /\ had = {} /\ missed = {}

Begin(j, step) ==
  /\ at = "idle" /\ job' = j /\ Go(step)
  /\ had' = {s \in proven : Kept(s) /\ ~LeftOver(s)} /\ missed' = {}
  /\ live' = NoTunnel /\ keep' = FALSE /\ former' = {} /\ rekeyed' = FALSE
  /\ target' \in (IF j = "up" THEN Servers ELSE {target})
  /\ UNCHANGED <<profile, active, world, client, proven>>

-------------------------------------------------------------------------------
(* teardown::down: over the bus *)

DownBegins == Begin("down", "look")

\* Without the bus the slow path takes over; with nothing live only the clean-up is left.
\* One read of several that fails passes for either.
DownLooks ==
  /\ at = "look"
  /\ \/ /\ live' = Live /\ keep' = (Live.transient /\ Live.server \in proven)
        /\ Go(CASE ~bus -> "begin" [] bus /\ active = 0 -> "guard"
                [] bus /\ active # 0 -> IF keep' THEN "stale" ELSE "deactivate")
        /\ missed' = missed
     \/ /\ "call" \in Faults /\ bus /\ live' = NoTunnel /\ keep' = FALSE
        /\ \E step \in {"guard", "begin"} : Go(step)
        /\ missed' = Noting(TRUE, "call")
  /\ UNCHANGED <<profile, active, world, client, job, former, target, rekeyed, record>>

\* One profile per server: stale saved copies first. A delete that fails is let go.
DownDropsStale ==
  /\ at = "stale"
  /\ \E failed \in Fails("call") :
       IF failed THEN profile' = profile ELSE Delete(StaleCopies(live.server, live.path))
  /\ Go("persist")
  /\ UNCHANGED <<active, world, client, request, record, missed>>

\* Update2 to disk, in place, by hand only from now on.
DownPersists ==
  /\ at = "persist"
  /\ \/ /\ bus /\ profile[live.path] # Gone
        /\ Put(live.path, [profile[live.path] EXCEPT !.saved = TRUE, !.auto = FALSE])
        /\ Go("deactivate")
     \/ /\ ~bus \/ "call" \in Faults \/ profile[live.path] = Gone
        /\ Go("begin") /\ profile' = profile
  /\ UNCHANGED <<active, world, client, request, record, missed>>

\* Refused, or still held after wait_released: the slow path.
DownDeactivates ==
  /\ at = "deactivate"
  /\ \/ bus /\ active' = 0 /\ Go("release")
     \/ (~bus \/ "call" \in Faults) /\ active' = active /\ Go("begin")
  /\ UNCHANGED <<profile, world, client, request, record, missed>>

\* What Proton's own disconnect does with its profile and its record.
DownReleases ==
  /\ at = "release"
  /\ IF live.transient /\ ~keep THEN Remove({live.path}) ELSE UNCHANGED <<profile, active>>
  /\ believes' = (believes /\ ~live.transient) /\ Go("guard")
  /\ UNCHANGED <<world, guard, orphan, request, record, missed>>

DownDropsGuard ==
  /\ at = "guard"
  /\ \E failed \in Fails("call") : guard' = (guard /\ failed) /\ missed' = Noting(failed, "call")
  /\ Go("autos") /\ UNCHANGED <<profile, active, world, believes, orphan, request, record>>

ByHandUnlessActive == [p \in Slots |-> IF profile[p] = Gone \/ p = active THEN profile[p]
                                       ELSE [profile[p] EXCEPT !.auto = FALSE]]
ByHand == [p \in Slots |-> IF profile[p] = Gone THEN Gone ELSE [profile[p] EXCEPT !.auto = FALSE]]

\* A Proton profile left on autoconnect puts the tunnel straight back.
DownClearsAutos ==
  /\ at = "autos"
  /\ \E failed \in Fails("call") :
       profile' = (IF failed THEN profile ELSE ByHand) /\ missed' = Noting(failed, "call")
  /\ Go("kill") /\ UNCHANGED <<active, world, client, request, record>>

\* kill_in_flight_connect, after all of the above.
DownKills ==
  /\ at = "kill" /\ orphan' = FALSE /\ Go("idle")
  /\ UNCHANGED <<profile, active, world, believes, guard, request, record, missed>>

-------------------------------------------------------------------------------
(* The slow path, and the entry of `up` *)

UpBegins == Begin("up", "begin")

\* NetworkManager's word on what is attached, then Proton's own record. `down` restores
\* anyway. Without the bus there are no settings to keep a copy of.
EntryLooks ==
  /\ at = "begin" /\ live' = Live
  /\ Go(IF Live.server \in proven /\ bus THEN "preserve"
        ELSE IF active # 0 \/ believes \/ job = "down" THEN "restore" ELSE "attempt")
  /\ missed' = Noting(Live.server \in proven /\ ~bus, "bus")
  /\ UNCHANGED <<profile, active, world, client, job, keep, former, target, rekeyed, record>>

\* disconnect_preserving_verified_connection: a transient profile is copied to disk first.
PreserveLooks ==
  /\ at = "preserve" /\ live' = Live
  /\ Go(IF ~bus \/ Live.server # live.server THEN "restore"
        ELSE IF Live.transient THEN "copies" ELSE "disconnect")
  /\ missed' = Noting(~bus, "bus")
  /\ UNCHANGED <<profile, active, world, client, job, keep, former, target, rekeyed, record>>

\* wireguard_key: the session's key comes from the keyring, as Proton itself takes it.
KeyRead == keyring

PreserveDropsStale ==
  /\ at = "copies" /\ Delete(StaleCopies(live.server, live.path)) /\ Go("save")
  /\ UNCHANGED <<active, world, client, request, record, missed>>

Fresh(s) == [server |-> s, saved |-> TRUE, keyed |-> TRUE, auto |-> FALSE]

\* save_live: without the key it warns, and the teardown goes on.
PreserveSaves ==
  /\ at = "save" /\ Go("disconnect")
  /\ IF KeyRead /\ bus /\ Free # {}
     THEN \E p \in Free : Put(p, Fresh(live.server)) /\ missed' = missed
     ELSE profile' = profile /\ missed' = Noting(TRUE, "key")
  /\ UNCHANGED <<active, world, client, request, record>>

\* Proton's client removes its transient profile; the profile may outlive the call.
ClientDisconnects(others) ==
  /\ believes' = FALSE
  /\ LET mine == {p \in Paths : p = active /\ ~profile[p].saved}
     IN  \E lingers \in Fails("linger") :
           IF believes /\ ~lingers THEN Delete(mine) ELSE profile' = profile
  /\ active' = IF others \/ (believes /\ active # 0 /\ ~profile[active].saved) THEN 0 ELSE active

PreserveDisconnects ==
  /\ at = "disconnect" /\ Go("restore")
  /\ IF live.transient THEN ClientDisconnects(TRUE)
     ELSE active' = (IF active = live.path THEN 0 ELSE active) /\ UNCHANGED <<profile, believes>>
  /\ UNCHANGED <<world, guard, orphan, request, record, missed>>

\* restore: the clients still at work go before anything they could undo.
RestoreKills ==
  /\ at = "restore" /\ orphan' = FALSE /\ Go("drop")
  /\ former' = (IF active = 0 THEN {} ELSE {active})
  /\ UNCHANGED <<profile, active, world, believes, guard, job, live, keep, target, rekeyed, record, missed>>

RestoreDisconnects ==
  /\ at = "drop" /\ ClientDisconnects(TRUE) /\ Go("duplicates")
  /\ UNCHANGED <<world, guard, orphan, request, record, missed>>

\* The former active profile goes where another of its name is left.
RestoreDropsDuplicates ==
  /\ at = "duplicates" /\ Go("clear")
  /\ Remove({p \in former \cap Paths : Cardinality(CopiesOf(profile[p].server)) > 1})
  /\ UNCHANGED <<world, client, request, record, missed>>

RestoreClears ==
  /\ at = "clear" /\ profile' = ByHand /\ Go("unguard")
  /\ UNCHANGED <<active, world, client, request, record, missed>>

RestoreDropsGuard ==
  /\ at = "unguard" /\ guard' = FALSE
  /\ Go(CASE job = "down" -> "tidy" [] job = "up" -> "attempt" [] job = "over" -> "idle")
  /\ UNCHANGED <<profile, active, world, believes, orphan, request, record, missed>>

\* dedupe_proton_connections: the active copy of a name, or the first one listed, survives.
Dedupes ==
  \E survivor \in [Servers -> Slots] :
    /\ \A s \in Servers : CopiesOf(s) # {} =>
         survivor[s] \in CopiesOf(s) /\ (active \in CopiesOf(s) => survivor[s] = active)
    /\ profile' = [p \in Slots |-> IF p \in Paths /\ survivor[profile[p].server] # p THEN Gone ELSE profile[p]]
    /\ missed' = Noting(\E p \in Paths : LET q == survivor[profile[p].server] IN
                           profile[p].saved /\ ~profile[q].saved /\ q # active, "tidied")

Tidies ==
  /\ at = "tidy" /\ Dedupes /\ Go("idle")
  /\ UNCHANGED <<active, world, client, request, record>>

-------------------------------------------------------------------------------
(* An attempt: over a saved profile, or Proton's client *)

\* peers_from_inventory: Proton's list has an endpoint and its key for some of them.
Peers(servers) == SUBSET servers

\* ensure_profiles: a missing profile is built from another one, and keyed.
EnsuresProfile ==
  /\ at = "attempt"
  /\ \E peers \in Peers({target}) :
       IF CopiesOf(target) = {} /\ Paths # {} /\ peers # {} /\ KeyRead /\ bus /\ Free # {}
       THEN \E p \in Free : Put(p, Fresh(target)) ELSE profile' = profile
  /\ Go("activate") /\ UNCHANGED <<active, world, client, request, record, missed>>

\* One ActivateConnection; the plugin refuses a second tunnel.
Activates ==
  /\ at = "activate"
  /\ \/ /\ bus /\ active = 0
        /\ \E p \in CopiesOf(target) : live' = [path |-> p, server |-> target, transient |-> FALSE]
        /\ active' = live'.path /\ Go("await")
     \/ /\ ~bus \/ active # 0 \/ CopiesOf(target) = {}
        /\ Go("client") /\ UNCHANGED <<active, live>>
  /\ UNCHANGED <<profile, world, client, job, keep, former, target, rekeyed, record, missed>>

\* Activated, or it asks for a key: then it is let go of, once rekeyed and tried again.
Awaits ==
  /\ at = "await"
  /\ IF profile[live.path].keyed
     THEN \/ Go("verdict") /\ active' = active
          \/ Go("client") /\ active' = 0
     ELSE Go(IF rekeyed THEN "client" ELSE "rekey") /\ active' = 0
  /\ UNCHANGED <<profile, world, client, request, record, missed>>

\* rekey_all: the key is the session's, so one reading repairs every profile.
Rekeys ==
  /\ at = "rekey" /\ rekeyed' = TRUE
  /\ IF KeyRead
     THEN /\ profile' = [p \in Slots |-> IF profile[p] = Gone THEN Gone ELSE [profile[p] EXCEPT !.keyed = TRUE]]
          /\ Go("activate")
     ELSE profile' = profile /\ Go("client")
  /\ UNCHANGED <<active, world, client, job, live, keep, former, target, record, missed>>

\* disconnect_and_wait: whatever is attached goes before Proton's client is asked.
ClientClears ==
  /\ at = "client" /\ active # 0 /\ ClientDisconnects(TRUE)
  /\ UNCHANGED <<world, guard, orphan, at, request, record, missed>>

\* `protonvpn connect`: a profile in memory, on autoconnect, or nothing.
ClientConnects ==
  /\ at = "client" /\ active = 0
  /\ \/ /\ \E p \in Free :
             /\ Put(p, [server |-> target, saved |-> FALSE, keyed |-> TRUE, auto |-> TRUE])
             /\ live' = [path |-> p, server |-> target, transient |-> TRUE] /\ active' = p
        /\ believes' = TRUE /\ guard' \in BOOLEAN /\ Go("verdict")
     \/ Go("idle") /\ UNCHANGED <<profile, active, believes, guard, live>>
  /\ UNCHANGED <<world, orphan, job, keep, former, target, rekeyed, record, missed>>

\* It carries: the live profile becomes the server's only one (Proton's client only).
Carried ==
  /\ at = "verdict" /\ proven' = proven \cup {target}
  /\ IF live.transient THEN Delete(StaleCopies(target, active)) ELSE profile' = profile
  /\ Go(IF live.transient THEN "tidy" ELSE "idle")
  /\ UNCHANGED <<active, world, client, request, had, missed>>

\* It is blamed: the inactive copies go, while the blamed one is still active; then
\* a saved profile is let go of, and Proton's tunnel restored from.
Blamed ==
  /\ at = "verdict" /\ proven' = proven \ {target} /\ Delete(StaleCopies(target, active))
  /\ Go("deactivated") /\ UNCHANGED <<active, world, client, request, had, missed>>

\* Our own fault: nothing is recorded against the server.
Excused ==
  /\ at = "verdict" /\ Go("deactivated")
  /\ UNCHANGED <<profile, active, world, client, request, record, missed>>

AfterFailure ==
  /\ at = "deactivated"
  /\ \/ ~live.transient /\ active' = 0 /\ Go("client") /\ UNCHANGED job
     \/ live.transient /\ active' = active /\ Go("restore") /\ job' = "over"
  /\ UNCHANGED <<profile, world, client, live, keep, former, target, rekeyed, record, missed>>

-------------------------------------------------------------------------------
(* What happens around the command *)

\* NetworkManager starts a profile on autoconnect where none is active.
NMStarts ==
  /\ active = 0 /\ \E p \in Paths : profile[p].auto /\ profile[p].keyed /\ active' = p
  /\ missed' = Noting(TRUE, "started")
  /\ UNCHANGED <<profile, world, client, at, request, record>>

\* SIGKILL, or a panic: an attempt of Proton's client may outlive the command.
Crashes ==
  /\ at # "idle" /\ Go("idle") /\ missed' = Noting(TRUE, "killed")
  /\ orphan' = (orphan \/ (at = "client" /\ "orphan" \in Faults))
  /\ UNCHANGED <<profile, active, world, believes, guard, request, record>>

OrphanLands ==
  /\ orphan /\ active = 0 /\ orphan' = FALSE /\ believes' = TRUE
  /\ missed' = Noting(TRUE, "landed")
  /\ \E p \in Free :
       /\ Put(p, [server |-> target, saved |-> FALSE, keyed |-> TRUE, auto |-> TRUE]) /\ active' = p
  /\ UNCHANGED <<world, guard, at, request, record>>

\* Proton's client removes at last a profile it had left behind.
LingererGoes ==
  /\ \E p \in Paths \ {active} : ~profile[p].saved /\ Delete({p})
  /\ UNCHANGED <<active, world, client, at, request, record, missed>>

Downs ==
  \/ DownBegins \/ DownLooks \/ DownDropsStale \/ DownPersists \/ DownDeactivates
  \/ DownReleases \/ DownDropsGuard \/ DownClearsAutos \/ DownKills
Restores ==
  \/ EntryLooks \/ PreserveLooks \/ PreserveDropsStale \/ PreserveSaves \/ PreserveDisconnects
  \/ RestoreKills \/ RestoreDisconnects \/ RestoreDropsDuplicates \/ RestoreClears
  \/ RestoreDropsGuard \/ Tidies
Ups ==
  \/ UpBegins \/ EnsuresProfile \/ Activates \/ Awaits \/ Rekeys \/ ClientClears
  \/ ClientConnects \/ Carried \/ Blamed \/ Excused \/ AfterFailure
Around == NMStarts \/ Crashes \/ OrphanLands \/ LingererGoes

ProfilesNext == Downs \/ Restores \/ Ups \/ Around
ProfilesSpec == ProfilesInit /\ [][ProfilesNext]_pvars

-------------------------------------------------------------------------------
(* Properties *)

\* After a `pvpn down` in which no call failed and no client that outlived its command
\* landed a profile, the tunnel is down, and nothing NetworkManager holds will bring it
\* back or stand in the way of ordinary traffic, whichever path took it down
\* (teardown.rs:99, proc.rs:960). A profile that NetworkManager starts by itself between
\* the deactivation and the clearing stays up, as the code does not look again; it is
\* by hand from then on.
NothingPutsItBack ==
  at = "idle" /\ job = "down" /\ missed \subseteq {"started"} =>
    /\ ~guard /\ \A p \in Paths : ~profile[p].auto
    /\ active # 0 => missed = {"started"}

\* A proven server that has a profile when a command begins, and no killed client's
\* leftover besides, has one at every step of it, so that an interrupted teardown loses
\* nothing, unless the keyring refused the key, the bus the settings, or dedupe chose the
\* wrong copy (proc.rs:817-820, teardown.rs:74).
ProvenKept == missed \cap {"key", "bus", "tidied"} = {} => \A s \in had \cap proven : Kept(s)

===============================================================================
