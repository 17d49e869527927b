---------------------------------- MODULE Steer --------------------------------
(***************************************************************************)
(* Steering Proton's cached server list (pvpn-core/src/cache.rs, and its   *)
(* users in connect.rs): a hop hides the servers it was not asked for in   *)
(* serverlist.json, lets Proton's client pick, and puts the list back.     *)
(*                                                                         *)
(* Hops hold the connect lock, so there is one; everyone else reads, heals,*)
(* extends and refreshes the same file without any lock. Every step is one *)
(* file operation. A write or copy cut in half by a crash is left out.     *)
(***************************************************************************)
EXTENDS Naturals, FiniteSets

CONSTANTS
  Servers,     \* the free servers of the list
  Patterns,    \* sets of servers a hop may be asked for
  Outages,     \* sets of servers Proton may have down
  Endpointed,  \* servers with a cached endpoint: what ForceOnly can switch on
  Hop,         \* the command that holds the connect lock
  Readers,     \* commands that heal or extend without it: query, best
  Chore,       \* after-connect's refresh of the list
  None         \* no process, server, backup or copy

SteerProcs == {Hop, Chore} \cup Readers

ASSUME SteerAssumption ==
  /\ IsFiniteSet(Servers)
  /\ Patterns \subseteq SUBSET Servers /\ {} \notin Patterns
  /\ Outages \subseteq SUBSET Servers /\ Endpointed \subseteq Servers
  /\ Hop # Chore /\ {Hop, Chore} \cap Readers = {}
  /\ None \notin SteerProcs \cup Servers

Dead == "dead"   \* in the marker: a pid that is no pvpn's

\* What serverlist.json says: the free servers offline, whose work that is,
\* whether each expiry lies ahead, and whether it is what was last fetched.
Lists == [off : SUBSET Servers, by : {"proton", "steer", "resaved", "healed"},
          fresh : BOOLEAN, loads : BOOLEAN, latest : BOOLEAN]

ASSUME MarksAssumption == None \notin Lists /\ Dead \notin {Hop, None}

VARIABLES
  list,      \* serverlist.json
  backup,    \* serverlist.json.pvpn-bak
  marker,    \* serverlist.json.pvpn-steer
  at,        \* where each process is
  mem,       \* the list each has read and not yet written
  want,      \* what the hop's pattern matches
  pick,      \* the server Proton's client picked for the hop
  client,    \* offline servers in Proton's own client, if it read a steer
  fetched,   \* the inventory-fetched marker is recent
  was,       \* history: the list the hop copied aside
  raced      \* history: a step was taken on a look that had gone stale

steerVars == <<list, backup, marker, at, mem, want, pick, client, fetched, was, raced>>

SteerTypeOK ==
  /\ list \in Lists /\ backup \in Lists \cup {None}
  /\ marker \in {None, Dead, Hop}
  /\ at \in [SteerProcs -> {"rest", "look", "mend", "release", "reenable", "stale", "pad", "fetch",
                       "read", "copy", "claim", "write", "pick", "restore", "unmark", "done"}]
  /\ mem \in [SteerProcs -> Lists \cup {None}]
  /\ want \in Patterns /\ pick \in Servers \cup {None}
  /\ client \in (SUBSET Servers) \cup {None}
  /\ fetched \in BOOLEAN /\ was \in Lists \cup {None} /\ raced \in BOOLEAN

SteerInit ==
  /\ list \in [off : Outages, by : {"proton"}, fresh : BOOLEAN, loads : BOOLEAN,
               latest : {FALSE}]
  /\ backup = None /\ marker = None
  /\ at = [p \in SteerProcs |-> "rest"] /\ mem = [p \in SteerProcs |-> None]
  /\ want \in Patterns /\ pick = None /\ client = None
  /\ fetched = FALSE /\ was = None /\ raced = FALSE

Goes(p, to) == at' = [at EXCEPT ![p] = to]
Forgets(p) == mem' = [mem EXCEPT ![p] = None]
Reads(p) == mem' = [mem EXCEPT ![p] = list]

\* Someone wrote between p's read and p's write.
Overtaken(p) == list # mem[p]

\* Mutant: any marker counts.
OwnerAliveAny == marker # None

\* steer_owner_is_alive: the pid in the marker is still a pvpn.
OwnerAlive == marker = Hop
-------------------------------------------------------------------------------
(* heal_stranded_steer, extend_inventory_expiry: anybody *)

\* Every reader begins by healing; a hop does, under the lock.
SteerBegin(p) ==
  /\ at[p] = "rest" /\ p # Chore
  /\ Goes(p, "look")
  /\ IF p = Hop THEN want' \in Patterns /\ pick' = None /\ was' = None
     ELSE UNCHANGED <<want, pick, was>>
  /\ UNCHANGED <<list, backup, marker, mem, client, fetched, raced>>

HealLook(p) ==
  /\ at[p] = "look"
  /\ Goes(p, IF OwnerAlive THEN "stale" ELSE "mend")
  /\ UNCHANGED <<list, backup, marker, mem, want, pick, client, fetched, was, raced>>

MinFreeToJudge == 4

\* At least three quarters of the free servers are offline.
LooksSteered(l) ==
  /\ Cardinality(Servers) >= MinFreeToJudge
  /\ 4 * Cardinality(l.off) >= 3 * Cardinality(Servers)

\* A backup goes back as it is; without one the list's shape decides.
HealMend(p) ==
  /\ at[p] = "mend"
  /\ IF backup # None
     THEN list' = backup /\ backup' = None /\ Goes(p, "release") /\ UNCHANGED mem
     ELSE IF LooksSteered(list)
     THEN Reads(p) /\ Goes(p, "reenable") /\ UNCHANGED <<list, backup>>
     ELSE Goes(p, "stale") /\ UNCHANGED <<list, backup, mem>>
  /\ UNCHANGED <<marker, want, pick, client, fetched, was, raced>>

HealRelease(p) ==
  /\ at[p] = "release"
  /\ marker' = None
  /\ Goes(p, "stale")
  /\ UNCHANGED <<list, backup, mem, want, pick, client, fetched, was, raced>>

\* Everything on again; LastModifiedTime is cleared, so the next refresh is
\* a real one.
HealReenable(p) ==
  /\ at[p] = "reenable"
  /\ list' = [mem[p] EXCEPT !.off = {}, !.by = "healed"]
  /\ raced' = (raced \/ Overtaken(p))
  /\ Goes(p, "stale") /\ Forgets(p)
  /\ UNCHANGED <<backup, marker, want, pick, client, fetched, was>>

\* extend_inventory_expiry, unless the list is fresh; `query inventory` only
\* heals.
ExtendLook(p) ==
  /\ at[p] = "stale"
  /\ LET next == IF p = Hop THEN "read" ELSE "rest" IN
     \/ (list.fresh \/ p \in Readers) /\ Goes(p, next) /\ UNCHANGED mem
     \/ ~list.fresh /\ Goes(p, "pad") /\ Reads(p)
  /\ UNCHANGED <<list, backup, marker, want, pick, client, fetched, was, raced>>

ExtendWrite(p) ==
  /\ at[p] = "pad"
  /\ list' = [mem[p] EXCEPT !.fresh = TRUE, !.loads = TRUE]
  /\ raced' = (raced \/ Overtaken(p))
  /\ Goes(p, IF p = Hop THEN "read" ELSE "rest") /\ Forgets(p)
  /\ UNCHANGED <<backup, marker, want, pick, client, fetched, was>>

-------------------------------------------------------------------------------
(* steer_cache and what the hop does with it *)

\* Only, then ForceOnly where every match is offline; with no endpoint to
\* force, the hop goes on without a steer.
SteerRead ==
  /\ at[Hop] = "read"
  /\ IF want \ list.off # {} \/ want \cap Endpointed # {}
     THEN Reads(Hop) /\ Goes(Hop, "copy")
     ELSE Goes(Hop, "done") /\ UNCHANGED mem
  /\ UNCHANGED <<list, backup, marker, want, pick, client, fetched, was, raced>>

SteerCopy ==
  /\ at[Hop] = "copy"
  /\ backup' = list /\ was' = list
  /\ Goes(Hop, "claim")
  /\ UNCHANGED <<list, marker, mem, want, pick, client, fetched, raced>>

\* claim_steer. A heal or a refresh that looked before this is not stopped
\* by it, and one that came in since the copy has taken the backup.
SteerClaim ==
  /\ at[Hop] = "claim"
  /\ marker' = Hop
  /\ raced' = (\/ raced \/ backup = None
               \/ \E q \in SteerProcs \ {Hop} : at[q] \in {"mend", "release", "fetch"})
  /\ Goes(Hop, "write")
  /\ UNCHANGED <<list, backup, mem, want, pick, client, fetched, was>>

\* Mutant: no hold_off_refresh.
SteeredNoHold(l) ==
  [l EXCEPT !.off = (Servers \ want)
                     \cup (want \cap (IF want \ l.off # {} THEN l.off ELSE l.off \ Endpointed)),
            !.by = "steer"]

\* Everything else hidden; a match that is offline is only switched on when
\* none is available. hold_off_refresh keeps Proton from un-hiding the rest.
Steered(l) ==
  [l EXCEPT !.off = (Servers \ want)
                     \cup (want \cap (IF want \ l.off # {} THEN l.off ELSE l.off \ Endpointed)),
            !.by = "steer", !.fresh = TRUE, !.loads = TRUE]

SteerWrite ==
  /\ at[Hop] = "write"
  /\ list' = Steered(mem[Hop])
  /\ raced' = (raced \/ Overtaken(Hop))
  /\ Goes(Hop, "pick") /\ Forgets(Hop)
  /\ UNCHANGED <<backup, marker, want, pick, client, fetched, was>>

\* `protonvpn connect`: refuses an expired list, refreshes expired loads --
\* which writes every server's real status -- and picks among what is online.
ClientPicks ==
  /\ at[Hop] = "pick"
  /\ \E down \in IF list.loads THEN {list.off} ELSE Outages :
       /\ list' = IF list.loads THEN list
                  ELSE [list EXCEPT !.off = down, !.by = "proton", !.loads = TRUE]
       /\ IF ~list.fresh \/ down = Servers THEN pick' = None
          ELSE pick' \in Servers \ down
  /\ Goes(Hop, "restore")
  /\ UNCHANGED <<backup, marker, mem, want, client, fetched, was, raced>>

\* Mutant: the backup is left where it is.
SteerForget ==
  /\ at[Hop] \in {"pick", "restore"}
  /\ Goes(Hop, "unmark")
  /\ UNCHANGED <<list, backup, marker, mem, want, pick, client, fetched, was, raced>>

\* restore_cache: after the connect, or when an interrupted hop drops its
\* SteerResult. The drop after an explicit restore finds nothing to do.
SteerRestore ==
  /\ at[Hop] \in {"pick", "restore"}
  /\ IF backup # None THEN list' = backup /\ backup' = None ELSE UNCHANGED <<list, backup>>
  /\ Goes(Hop, "unmark")
  /\ UNCHANGED <<marker, mem, want, pick, client, fetched, was, raced>>

SteerUnmark ==
  /\ at[Hop] = "unmark"
  /\ marker' = None
  /\ Goes(Hop, "done")
  /\ UNCHANGED <<list, backup, mem, want, pick, client, fetched, was, raced>>

SteerEnds ==
  /\ at[Hop] = "done" /\ Goes(Hop, "rest")
  /\ pick' = None /\ was' = None
  /\ UNCHANGED <<list, backup, marker, mem, want, client, fetched, raced>>

-------------------------------------------------------------------------------
(* refresh_inventory_if_due, Proton's client, time and crashes *)

\* fetched_within and steer_in_flight, then minutes of fetching.
FetchDue ==
  /\ at[Chore] = "rest" /\ ~fetched /\ ~OwnerAlive
  /\ Goes(Chore, "fetch")
  /\ UNCHANGED <<list, backup, marker, mem, want, pick, client, fetched, was, raced>>

FetchLands ==
  /\ at[Chore] = "fetch"
  /\ \E down \in Outages :
       list' = [off |-> down, by |-> "proton", fresh |-> TRUE, loads |-> TRUE, latest |-> TRUE]
  /\ fetched' = TRUE
  /\ Goes(Chore, "rest")
  /\ UNCHANGED <<backup, marker, mem, want, pick, client, was, raced>>

FetchFails ==
  /\ at[Chore] = "fetch"
  /\ Goes(Chore, "stale")
  /\ UNCHANGED <<list, backup, marker, mem, want, pick, client, fetched, was, raced>>

\* Proton's own client, running beside us, reads the list while it is
\* narrowed and writes its copy back when a refresh answers 304.
ClientReads ==
  /\ list.by = "steer" /\ client = None
  /\ client' = list.off
  /\ UNCHANGED <<list, backup, marker, at, mem, want, pick, fetched, was, raced>>

ClientResaves ==
  /\ client # None
  /\ list' = [off |-> client, by |-> "resaved", fresh |-> TRUE, loads |-> TRUE, latest |-> FALSE]
  /\ raced' = (raced \/ at[Hop] \notin {"rest", "done"})
  /\ client' = None
  /\ UNCHANGED <<backup, marker, at, mem, want, pick, fetched, was>>

\* Hours go by, with nobody at work: STEER_FRESH_SECS outlasts a connect.
Ages(l) == [l EXCEPT !.fresh = FALSE, !.loads = FALSE, !.latest = FALSE]
HoursPass ==
  /\ \A p \in SteerProcs : at[p] = "rest"
  /\ list' = Ages(list)
  /\ backup' = IF backup = None THEN None ELSE Ages(backup)
  /\ fetched' = FALSE
  /\ UNCHANGED <<marker, at, mem, want, pick, client, was, raced>>

\* SIGKILL, or an exit while steer_cache runs on its blocking thread.
SteerCrash(p) ==
  /\ at[p] \notin {"rest", "done"}
  /\ Goes(p, "rest") /\ Forgets(p)
  /\ marker' = IF p = Hop /\ marker = Hop THEN Dead ELSE marker
  /\ UNCHANGED <<list, backup, want, pick, client, fetched, was, raced>>

SteerNext ==
  \/ \E p \in SteerProcs :
       \/ SteerBegin(p) \/ HealLook(p) \/ HealMend(p) \/ HealRelease(p) \/ HealReenable(p)
       \/ ExtendLook(p) \/ ExtendWrite(p) \/ SteerCrash(p)
  \/ SteerRead \/ SteerCopy \/ SteerClaim \/ SteerWrite \/ ClientPicks
  \/ SteerRestore \/ SteerUnmark \/ SteerEnds
  \/ FetchDue \/ FetchLands \/ FetchFails
  \/ ClientReads \/ ClientResaves \/ HoursPass

SteerSpec == SteerInit /\ [][SteerNext]_steerVars

-------------------------------------------------------------------------------
(* Properties *)

\* A hop whose claim nobody overtook lands on a server it was asked for, or on
\* none: neither a heal, an extension, nor Proton's loads refresh un-hides the
\* others meanwhile.
PicksNamed == pick # None /\ ~raced => pick \in want

\* As long as nobody acted on a stale look, a narrowed list -- live, crashed
\* or killed at any step -- has Proton's own beside it to go back to, and a
\* marker that says whose it is.
Recoverable ==
  list.by = "steer" /\ ~raced => backup # None /\ backup.by # "steer" /\ marker # None

\* A hop that has ended, steered and not overtaken, has put back exactly the
\* list it copied aside.
PutsBack ==
  [][at[Hop] = "unmark" /\ at'[Hop] = "done" /\ ~raced => list = was]_steerVars

===============================================================================
