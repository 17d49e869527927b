----------------------------- MODULE ProfilesProofs ----------------------------
(***************************************************************************)
(* What a `pvpn down` leaves in NetworkManager, and the last profile of a  *)
(* server that has carried, at every step of a teardown or an attempt: for *)
(* every set of servers, any number of profiles and all that may go wrong. *)
(***************************************************************************)
EXTENDS Profiles, FiniteSetTheorems, TLAPS

\* A profile has its four fields, whatever they hold.
Formed(r) == r \in [server : {r.server}, saved : {r.saved}, keyed : {r.keyed}, auto : {r.auto}]

AllFormed ==
  /\ profile = [p \in Slots |-> profile[p]]
  /\ \A p \in Paths : Formed(profile[p])

\* The steps of either way down.
DownSteps ==
  {"idle", "look", "stale", "persist", "deactivate", "release", "guard", "autos", "kill",
   "begin", "preserve", "copies", "save", "disconnect", "restore", "drop", "duplicates",
   "clear", "unguard", "tidy"}

NoAutos == \A p \in Paths : ~profile[p].auto

\* Nothing has gone wrong so far, but that NetworkManager may have started a
\* profile of its own; of a down, if one is at work.
Tolerated == missed \subseteq {"started"}
Clean == job = "down" /\ Tolerated

\* How much of its work is done, and stays done.
Inductive ==
  /\ AllFormed
  /\ job = "down" => at \in DownSteps
  /\ Clean /\ at \in {"autos", "kill", "tidy", "idle"} => guard = FALSE
  /\ Clean /\ at \in {"kill", "unguard", "tidy", "idle"} => NoAutos

-------------------------------------------------------------------------------
\* Deleting profiles leaves the others as they were.
LEMMA DeleteKeeps ==
  ASSUME AllFormed, NEW ps, Delete(ps)
  PROVE  AllFormed' /\ (NoAutos => NoAutos')
BY DEF AllFormed, NoAutos, Delete, Paths

\* So does leaving them.
LEMMA SameKeeps ==
  ASSUME AllFormed, profile' = profile
  PROVE  AllFormed' /\ (NoAutos => NoAutos')
BY DEF AllFormed, NoAutos, Paths

\* A profile put anywhere is one.
LEMMA PutKeeps ==
  ASSUME AllFormed, NEW p, NEW r, Put(p, r), Formed(r)
  PROVE  AllFormed' /\ (NoAutos /\ ~r.auto => NoAutos')
BY DEF AllFormed, NoAutos, Put, Paths

\* A formed profile with a field set to something is formed, and holds it.
LEMMA FieldSet ==
  ASSUME NEW r, Formed(r)
  PROVE  /\ LET byHand == [r EXCEPT !.auto = FALSE] IN Formed(byHand) /\ byHand.auto = FALSE
         /\ LET onDisk == [r EXCEPT !.saved = TRUE, !.auto = FALSE]
            IN  Formed(onDisk) /\ onDisk.auto = FALSE
         /\ LET keyed == [r EXCEPT !.keyed = TRUE] IN Formed(keyed) /\ keyed.auto = r.auto
<1>1. \A new : (\E d, k, a : new \in [server : {r.server}, saved : {d}, keyed : {k}, auto : {a}])
                => Formed(new)
  BY DEF Formed
<1>2. LET byHand == [r EXCEPT !.auto = FALSE]
      IN  byHand \in [server : {r.server}, saved : {r.saved}, keyed : {r.keyed}, auto : {FALSE}]
  BY DEF Formed
<1>3. LET onDisk == [r EXCEPT !.saved = TRUE, !.auto = FALSE]
      IN  onDisk \in [server : {r.server}, saved : {TRUE}, keyed : {r.keyed}, auto : {FALSE}]
  BY DEF Formed
<1>4. LET keyed == [r EXCEPT !.keyed = TRUE]
      IN  keyed \in [server : {r.server}, saved : {r.saved}, keyed : {TRUE}, auto : {r.auto}]
  BY DEF Formed
<1>5. QED
  BY <1>1, <1>2, <1>3, <1>4

\* Clearing autoconnect clears it everywhere.
LEMMA ByHandKeeps ==
  ASSUME AllFormed, profile' = ByHand
  PROVE  AllFormed' /\ NoAutos'
<1>1. \A p \in Paths : LET r == [profile[p] EXCEPT !.auto = FALSE] IN Formed(r) /\ ~r.auto
  BY FieldSet DEF AllFormed
<1>2. /\ profile' = [p \in Slots |-> profile'[p]]
      /\ \A p \in Slots : profile[p] = Gone => profile'[p] = Gone
      /\ \A p \in Slots : profile[p] # Gone => profile'[p] = [profile[p] EXCEPT !.auto = FALSE]
  BY DEF ByHand
<1>3. Paths' \subseteq Paths
  BY <1>2 DEF Paths
<1>4. \A p \in Paths' : profile'[p] = [profile[p] EXCEPT !.auto = FALSE]
  <2>1. ASSUME NEW p \in Paths
        PROVE  p \in Slots /\ profile[p] # Gone
    BY DEF Paths
  <2>2. QED
    BY <1>2, <1>3, <2>1
<1>5. \A p \in Paths' : Formed(profile'[p]) /\ ~profile'[p].auto
  <2>1. ASSUME NEW p \in Paths'
        PROVE  Formed(profile'[p]) /\ ~profile'[p].auto
    BY <1>1, <1>3, <1>4, <2>1
  <2>2. QED
    BY <2>1
<1>6. AllFormed'
  BY <1>2, <1>5 DEF AllFormed
<1>7. NoAutos'
  BY <1>5 DEF NoAutos
<1>8. QED
  BY <1>6, <1>7

\* What Proton's client puts on disk or in memory is formed.
LEMMA NewFormed ==
  ASSUME NEW s, NEW saved, NEW auto
  PROVE  /\ Formed([server |-> s, saved |-> saved, keyed |-> TRUE, auto |-> auto])
         /\ Formed(Fresh(s)) /\ ~Fresh(s).auto
BY DEF Formed, Fresh

\* Nothing happens to autoconnect in the steps down and restore share, except
\* where it is cleared.
THEOREM InductiveAlways == ProfilesSpec => []Inductive
<1>1. ProfilesInit => Inductive
  <2> SUFFICES ASSUME ProfilesInit
               PROVE  Inductive
    OBVIOUS
  <2>1. profile \in [Slots -> Profile \cup {Gone}] /\ job = "none"
    BY DEF ProfilesInit
  <2>2. \A p \in Paths : Formed(profile[p])
    BY <2>1 DEF Paths, Formed, Profile
  <2>3. QED
    BY <2>1, <2>2 DEF Inductive, AllFormed, Clean
<1>2. Inductive /\ [ProfilesNext]_pvars => Inductive'
  <2> SUFFICES ASSUME Inductive, [ProfilesNext]_pvars
               PROVE  Inductive'
    OBVIOUS
  <2>1. AllFormed
    BY DEF Inductive
  <2> USE DEF Inductive, Clean, Tolerated, Go, Noting, DownSteps
  \* A step that changes no profile but by deleting some.
  <2>2. ASSUME AllFormed' /\ (NoAutos => NoAutos'), UNCHANGED <<guard, job>>,
               Tolerated' => Tolerated,
               job = "down" => at' \in DownSteps,
               at' \in {"autos", "kill", "tidy", "idle"} => at \in {"autos", "kill", "tidy", "idle"} \/ ~Tolerated',
               at' \in {"kill", "unguard", "tidy", "idle"} => at \in {"kill", "unguard", "tidy", "idle"} \/ ~Tolerated'
        PROVE  Inductive'
    BY <2>2
  <2>3. ASSUME DownBegins \/ UpBegins
        PROVE  Inductive'
    BY <2>1, <2>3, SameKeeps DEF DownBegins, UpBegins, Begin
  <2>4. ASSUME DownLooks
        PROVE  Inductive'
    BY <2>1, <2>4, SameKeeps DEF DownLooks, client
  <2>5. ASSUME DownDropsStale
        PROVE  Inductive'
    BY <2>1, <2>5, SameKeeps, DeleteKeeps DEF DownDropsStale, client, request
  <2>6. ASSUME DownPersists
        PROVE  Inductive'
    <3>1. CASE profile' = profile
      BY <2>1, <2>6, <3>1, SameKeeps DEF DownPersists, client, request
    <3>2. CASE /\ profile[live.path] # Gone
               /\ Put(live.path, [profile[live.path] EXCEPT !.saved = TRUE, !.auto = FALSE])
      <4>1. AllFormed'
        BY <2>1, <3>2, PutKeeps, FieldSet DEF AllFormed, Paths, Put
      <4>2. QED
        BY <2>6, <4>1 DEF DownPersists, client, request
    <3>3. QED
      BY <2>6, <3>1, <3>2 DEF DownPersists
  <2>7. ASSUME DownDeactivates
        PROVE  Inductive'
    BY <2>1, <2>7, SameKeeps DEF DownDeactivates, client, request
  <2>8. ASSUME DownReleases
        PROVE  Inductive'
    BY <2>1, <2>8, SameKeeps, DeleteKeeps DEF DownReleases, Remove, request
  <2>9. ASSUME DownDropsGuard
        PROVE  Inductive'
    <3>1. PICK failed \in BOOLEAN :
            guard' = (guard /\ failed) /\ missed' = IF failed THEN missed \cup {"call"} ELSE missed
      BY <2>9 DEF DownDropsGuard, Fails
    <3>2. Tolerated' => guard' = FALSE
      BY <3>1
    <3>3. QED
      BY <2>1, <2>9, <3>2, SameKeeps DEF DownDropsGuard, request
  <2>10. ASSUME DownClearsAutos
         PROVE  Inductive'
    <3>1. CASE profile' = profile /\ ~Tolerated'
      BY <2>1, <2>10, <3>1, SameKeeps DEF DownClearsAutos, client, request
    <3>2. CASE profile' = ByHand /\ missed' = missed
      BY <2>1, <2>10, <3>2, ByHandKeeps DEF DownClearsAutos, client, request
    <3>3. PICK failed \in BOOLEAN :
            /\ profile' = IF failed THEN profile ELSE ByHand
            /\ missed' = IF failed THEN missed \cup {"call"} ELSE missed
      BY <2>10 DEF DownClearsAutos, Fails
    <3>4. failed => ~Tolerated'
      BY <3>3
    <3>5. QED
      BY <3>1, <3>2, <3>3, <3>4
  <2>11. ASSUME DownKills
         PROVE  Inductive'
    BY <2>1, <2>11, SameKeeps DEF DownKills, request
  <2>12. ASSUME EntryLooks
         PROVE  Inductive'
    BY <2>1, <2>12, SameKeeps DEF EntryLooks, client
  <2>13. ASSUME PreserveLooks
         PROVE  Inductive'
    BY <2>1, <2>13, SameKeeps DEF PreserveLooks, client
  <2>14. ASSUME PreserveDropsStale
         PROVE  Inductive'
    BY <2>1, <2>14, DeleteKeeps DEF PreserveDropsStale, client, request
  <2>15. ASSUME PreserveSaves
         PROVE  Inductive'
    <3>1. AllFormed'
      BY <2>1, <2>15, SameKeeps, PutKeeps, NewFormed DEF PreserveSaves
    <3>2. QED
      BY <2>15, <3>1 DEF PreserveSaves, client, request
  <2>16. ASSUME NEW others, ClientDisconnects(others)
         PROVE  AllFormed' /\ (NoAutos => NoAutos')
    BY <2>1, <2>16, SameKeeps, DeleteKeeps DEF ClientDisconnects
  <2>17. ASSUME PreserveDisconnects
         PROVE  Inductive'
    BY <2>1, <2>16, <2>17, SameKeeps DEF PreserveDisconnects, request
  <2>18. ASSUME RestoreKills
         PROVE  Inductive'
    BY <2>1, <2>18, SameKeeps DEF RestoreKills
  <2>19. ASSUME RestoreDisconnects
         PROVE  Inductive'
    BY <2>16, <2>19 DEF RestoreDisconnects, request
  <2>20. ASSUME RestoreDropsDuplicates
         PROVE  Inductive'
    BY <2>1, <2>20, DeleteKeeps DEF RestoreDropsDuplicates, Remove, client, request
  <2>21. ASSUME RestoreClears
         PROVE  Inductive'
    BY <2>1, <2>21, ByHandKeeps DEF RestoreClears, client, request
  <2>22. ASSUME RestoreDropsGuard
         PROVE  Inductive'
    BY <2>1, <2>22, SameKeeps DEF RestoreDropsGuard, request
  <2>23. ASSUME Dedupes
         PROVE  AllFormed' /\ (NoAutos => NoAutos') /\ (Tolerated' => Tolerated)
    BY <2>1, <2>23 DEF Dedupes, AllFormed, NoAutos, Paths
  <2>24. ASSUME Tidies
         PROVE  Inductive'
    BY <2>23, <2>24 DEF Tidies, client, request
  \* A step only `up` takes.
  <2>25. ASSUME AllFormed', job # "down", job' # "down"
         PROVE  Inductive'
    BY <2>25
  <2>26. ASSUME EnsuresProfile
         PROVE  Inductive'
    BY <2>1, <2>25, <2>26, SameKeeps, PutKeeps, NewFormed DEF EnsuresProfile, request
  <2>27. ASSUME Activates \/ Awaits
         PROVE  Inductive'
    BY <2>1, <2>25, <2>27, SameKeeps DEF Activates, Awaits, request
  <2>28. ASSUME Rekeys
         PROVE  Inductive'
    <3>1. CASE profile' = [p \in Slots |-> IF profile[p] = Gone THEN Gone ELSE [profile[p] EXCEPT !.keyed = TRUE]]
      <4>1. AllFormed'
        BY <2>1, <3>1, FieldSet DEF AllFormed, Paths
      <4>2. QED
        BY <2>25, <2>28, <4>1 DEF Rekeys
    <3>2. CASE profile' = profile
      BY <2>1, <2>25, <2>28, <3>2, SameKeeps DEF Rekeys
    <3>3. QED
      BY <2>28, <3>1, <3>2 DEF Rekeys
  <2>29. ASSUME ClientClears
         PROVE  Inductive'
    BY <2>16, <2>25, <2>29 DEF ClientClears, request
  <2>30. ASSUME ClientConnects
         PROVE  Inductive'
    BY <2>1, <2>25, <2>30, SameKeeps, PutKeeps, NewFormed DEF ClientConnects
  <2>31. ASSUME Carried \/ Blamed \/ Excused \/ AfterFailure
         PROVE  Inductive'
    BY <2>1, <2>25, <2>31, SameKeeps, DeleteKeeps DEF Carried, Blamed, Excused, AfterFailure, request
  <2>32. ASSUME NMStarts
         PROVE  Inductive'
    BY <2>1, <2>32, SameKeeps DEF NMStarts, client, request
  <2>33. ASSUME Crashes
         PROVE  Inductive'
    BY <2>1, <2>33, SameKeeps DEF Crashes, request
  <2>34. ASSUME OrphanLands
         PROVE  Inductive'
    <3>1. AllFormed'
      BY <2>1, <2>34, PutKeeps, NewFormed DEF OrphanLands
    <3>2. ~Tolerated' /\ UNCHANGED <<job, at>>
      BY <2>34 DEF OrphanLands, request
    <3>3. QED
      BY <3>1, <3>2
  <2>35. ASSUME LingererGoes
         PROVE  Inductive'
    BY <2>1, <2>35, DeleteKeeps DEF LingererGoes, client, request
  <2>36. CASE UNCHANGED pvars
    BY <2>1, <2>36, SameKeeps DEF pvars
  <2>37. QED
    BY <2>3, <2>4, <2>5, <2>6, <2>7, <2>8, <2>9, <2>10, <2>11, <2>12, <2>13, <2>14, <2>15, <2>17,
       <2>18, <2>19, <2>20, <2>21, <2>22, <2>24, <2>26, <2>27, <2>28, <2>29, <2>30, <2>31, <2>32,
       <2>33, <2>34, <2>35, <2>36
       DEF ProfilesNext, Downs, Restores, Ups, Around
<1>3. QED
  BY <1>1, <1>2, PTL DEF ProfilesSpec

\* The steps at which either way down has let go of the tunnel, and a down that
\* is at none of them or has been started beside.
Released ==
  {"release", "guard", "autos", "kill", "duplicates", "clear", "unguard", "tidy", "idle"}
TunnelGone == job = "down" /\ missed = {} /\ at \in Released => active = 0

LEMMA TunnelGoneAlways == ProfilesSpec => []TunnelGone
<1>1. ProfilesInit => TunnelGone
  BY DEF ProfilesInit, TunnelGone
<1>2. Inductive /\ TunnelGone /\ [ProfilesNext]_pvars => TunnelGone'
  <2> SUFFICES ASSUME Inductive, TunnelGone, [ProfilesNext]_pvars,
                      job' = "down", missed' = {}, at' \in Released
               PROVE  active' = 0
    BY DEF TunnelGone
  <2> USE DEF TunnelGone, Go, Noting, Released
  <2>1. ASSUME active' \in {0, active}, UNCHANGED job, missed = {}, at \in Released
        PROVE  active' = 0
    BY <2>1
  <2>2. CASE DownBegins \/ UpBegins
    BY <2>2 DEF DownBegins, UpBegins, Begin
  <2>3. CASE DownLooks \/ DownDropsStale \/ DownPersists \/ DownDeactivates
    BY <2>3 DEF DownLooks, DownDropsStale, DownPersists, DownDeactivates
  <2>4. CASE DownReleases \/ DownDropsGuard \/ DownClearsAutos \/ DownKills
    BY <2>1, <2>4 DEF DownReleases, DownDropsGuard, DownClearsAutos, DownKills, Remove,
       request, record
  <2>5. CASE EntryLooks \/ PreserveLooks \/ PreserveDropsStale \/ PreserveSaves
             \/ PreserveDisconnects \/ RestoreKills
    BY <2>5 DEF EntryLooks, PreserveLooks, PreserveDropsStale, PreserveSaves,
       PreserveDisconnects, RestoreKills, Inductive, DownSteps
  <2>6. CASE RestoreDisconnects
    BY <2>6 DEF RestoreDisconnects, ClientDisconnects
  <2>7. CASE RestoreDropsDuplicates \/ RestoreClears \/ RestoreDropsGuard
    BY <2>1, <2>7 DEF RestoreDropsDuplicates, RestoreClears, RestoreDropsGuard, Remove, request
  <2>8. CASE Tidies
    BY <2>1, <2>8 DEF Tidies, Dedupes, request
  <2>9. CASE Ups
    BY <2>2, <2>9 DEF Ups, EnsuresProfile, Activates, Awaits, Rekeys, ClientClears,
       ClientConnects, Carried, Blamed, Excused, AfterFailure, Inductive, DownSteps, request
  <2>10. CASE Around
    BY <2>1, <2>10 DEF Around, NMStarts, Crashes, OrphanLands, LingererGoes, request
  <2>11. CASE UNCHANGED pvars
    BY <2>1, <2>11 DEF pvars
  <2>12. QED
    BY <2>2, <2>3, <2>4, <2>5, <2>6, <2>7, <2>8, <2>9, <2>10, <2>11
       DEF ProfilesNext, Downs, Restores
<1>3. QED
  BY <1>1, <1>2, InductiveAlways, PTL DEF ProfilesSpec

\* NothingPutsItBack, for every set of servers and any number of profiles: a
\* `pvpn down` no call of which failed, and in the midst of which no client that
\* outlived its command landed a profile, leaves the tunnel down, unless
\* NetworkManager itself started one meanwhile, and in either case no kill switch
\* and nothing on autoconnect (teardown.rs down, connect.rs restore).
THEOREM NothingPutsItBackAlways == ProfilesSpec => []NothingPutsItBack
<1>1. Inductive /\ TunnelGone => NothingPutsItBack
  BY DEF Inductive, TunnelGone, Released, NothingPutsItBack, Clean, Tolerated, NoAutos
<1>2. QED
  BY <1>1, InductiveAlways, TunnelGoneAlways, PTL

-------------------------------------------------------------------------------
(* Types *)

Profiled == profile \in [Slots -> Profile \cup {Gone}]

\* Some profiles are gone, and no other is touched.
Loses(ps) == Profiled' /\ Paths' = Paths \ ps /\ \A p \in Paths' : profile'[p] = profile[p]

\* There is one more.
Gains(p, r) ==
  /\ Profiled' /\ Paths' = Paths \cup {p} /\ profile'[p] = r
  /\ \A q \in Paths \ {p} : profile'[q] = profile[q]

\* The same profiles of the same servers, in memory or on disk as they were.
Alike ==
  /\ Profiled' /\ Paths' = Paths
  /\ \A p \in Paths : profile'[p].server = profile[p].server
                      /\ profile'[p].saved = profile[p].saved

\* A profile, and the profile with a field set to something.
LEMMA FieldsSet ==
  ASSUME NEW r \in Profile
  PROVE  /\ LET byHand == [r EXCEPT !.auto = FALSE]
            IN  byHand \in Profile /\ byHand.server = r.server /\ byHand.saved = r.saved /\ ~byHand.auto
         /\ LET onDisk == [r EXCEPT !.saved = TRUE, !.auto = FALSE]
            IN  onDisk \in Profile /\ onDisk.server = r.server /\ onDisk.saved /\ ~onDisk.auto
         /\ LET keyed == [r EXCEPT !.keyed = TRUE]
            IN  keyed \in Profile /\ keyed.server = r.server /\ keyed.saved = r.saved
BY DEF Profile

\* What each of the ways to change the profiles comes to.
LEMMA SameIs == ASSUME Profiled, profile' = profile PROVE Loses({}) /\ Alike
BY DEF Profiled, Loses, Alike, Paths

\* What `Delete` does, said as a loss of the deleted profiles and of nothing else.
LEMMA DeleteIs == ASSUME Profiled, NEW ps, Delete(ps) PROVE Loses(ps)
<1>1. \A p \in Slots : profile'[p] = IF p \in ps THEN Gone ELSE profile[p]
  BY DEF Delete
<1>2. Profiled'
  BY <1>1 DEF Profiled, Delete
<1>3. QED
  BY <1>1, <1>2 DEF Loses, Paths

\* What `Put` does, said as a gain of one profile in one place.
LEMMA PutIs == ASSUME Profiled, NEW p \in Slots, NEW r \in Profile, Put(p, r) PROVE Gains(p, r)
<1>1. Profiled' /\ profile'[p] = r /\ \A q \in Slots \ {p} : profile'[q] = profile[q]
  BY DEF Profiled, Put
<1>2. r # Gone
  BY ProfilesAssumption DEF ProfilesAssumption, Profile
<1>3. QED
  BY <1>1, <1>2 DEF Gains, Paths

\* Taking everything off autoconnect leaves the same profiles, none of them on it.
LEMMA ByHandIs ==
  ASSUME Profiled, profile' = ByHand
  PROVE  Alike /\ \A p \in Paths : ~profile'[p].auto
<1>1. \A p \in Slots : profile'[p] = IF profile[p] = Gone THEN Gone ELSE [profile[p] EXCEPT !.auto = FALSE]
  BY DEF ByHand
<1>2. \A p \in Paths : profile[p] \in Profile /\ p \in Slots
  BY DEF Profiled, Paths
<1>3. \A p \in Paths : /\ profile'[p] \in Profile /\ profile'[p].server = profile[p].server
                       /\ profile'[p].saved = profile[p].saved /\ ~profile'[p].auto
  <2>1. ASSUME NEW p \in Paths
        PROVE  profile'[p] = [profile[p] EXCEPT !.auto = FALSE] /\ profile[p] \in Profile
    BY <1>1, <1>2 DEF Paths
  <2>2. ASSUME NEW r \in Profile, NEW new, new = [r EXCEPT !.auto = FALSE]
        PROVE  new \in Profile /\ new.server = r.server /\ new.saved = r.saved /\ ~new.auto
    BY <2>2, FieldsSet
  <2>3. QED
    BY <2>1, <2>2
<1>4. Profiled' /\ Paths' = Paths
  <2>1. \A p \in Slots : profile'[p] \in Profile \cup {Gone}
    BY <1>1, <1>3 DEF Paths
  <2>2. Profiled'
    BY <2>1 DEF Profiled, ByHand
  <2>3. \A p \in Paths : profile'[p] # Gone
    BY <1>3, ProfilesAssumption DEF ProfilesAssumption, Profile
  <2>4. QED
    BY <1>1, <2>2, <2>3 DEF Paths
<1>5. QED
  BY <1>3, <1>4 DEF Alike

\* Giving every profile the new key leaves the same profiles.
LEMMA RekeyIs ==
  ASSUME Profiled,
         profile' = [p \in Slots |-> IF profile[p] = Gone THEN Gone ELSE [profile[p] EXCEPT !.keyed = TRUE]]
  PROVE  Alike
<1>1. \A p \in Slots : profile'[p] = IF profile[p] = Gone THEN Gone ELSE [profile[p] EXCEPT !.keyed = TRUE]
  OBVIOUS
<1>2. \A p \in Paths : profile[p] \in Profile /\ p \in Slots
  BY DEF Profiled, Paths
<1>3. \A p \in Paths : /\ profile'[p] \in Profile /\ profile'[p].server = profile[p].server
                       /\ profile'[p].saved = profile[p].saved
  <2>1. ASSUME NEW p \in Paths
        PROVE  profile'[p] = [profile[p] EXCEPT !.keyed = TRUE]
    BY <1>1 DEF Paths
  <2>2. QED
    BY <1>2, <2>1, FieldsSet
<1>4. Profiled' /\ Paths' = Paths
  <2>1. \A p \in Slots : profile'[p] \in Profile \cup {Gone}
    BY <1>1, <1>3 DEF Paths
  <2>2. Profiled'
    BY <2>1 DEF Profiled
  <2>3. \A p \in Paths : profile'[p] # Gone
    BY <1>3, ProfilesAssumption DEF ProfilesAssumption, Profile
  <2>4. QED
    BY <1>1, <2>2, <2>3 DEF Paths
<1>5. QED
  BY <1>3, <1>4 DEF Alike

\* Proton's client, disconnecting, removes no profile but the active one, and
\* that only if it was in memory alone.
LEMMA ClientDisconnectsIs ==
  ASSUME Profiled, NEW others, ClientDisconnects(others)
  PROVE  /\ \E ps \in SUBSET {p \in Paths : p = active /\ ~profile[p].saved} : Loses(ps)
         /\ active' \in {0, active} /\ believes' = FALSE
BY SameIs, DeleteIs DEF ClientDisconnects

\* Of each server's copies `dedupe_proton_connections` keeps one, the active
\* one where there is one; what it cannot keep on disk is put down as `tidied`.
LEMMA DedupesIs ==
  ASSUME Profiled, Dedupes
  PROVE  \E survivor \in [Servers -> Slots] :
           /\ \A s \in Servers : CopiesOf(s) # {} =>
                survivor[s] \in CopiesOf(s) /\ (active \in CopiesOf(s) => survivor[s] = active)
           /\ Loses({p \in Paths : survivor[profile[p].server] # p})
           /\ missed' = {} => missed = {}
           /\ missed' \subseteq missed \cup {"tidied"} /\ missed \subseteq missed'
           /\ missed' \cap {"tidied"} = {} => \A p \in Paths : LET q == survivor[profile[p].server] IN
                profile[p].saved => profile[q].saved \/ q = active
<1>1. PICK survivor \in [Servers -> Slots] :
        /\ \A s \in Servers : CopiesOf(s) # {} =>
             survivor[s] \in CopiesOf(s) /\ (active \in CopiesOf(s) => survivor[s] = active)
        /\ profile' = [p \in Slots |-> IF p \in Paths /\ survivor[profile[p].server] # p THEN Gone ELSE profile[p]]
        /\ missed' = Noting(\E p \in Paths : LET q == survivor[profile[p].server] IN
                              profile[p].saved /\ ~profile[q].saved /\ q # active, "tidied")
  BY DEF Dedupes
<1>2. Delete({p \in Paths : survivor[profile[p].server] # p})
  BY <1>1 DEF Delete, Paths
<1>3. QED
  BY <1>1, <1>2, DeleteIs DEF Noting

Steps ==
  {"idle", "look", "stale", "persist", "deactivate", "release", "guard", "autos", "kill", "begin",
   "preserve", "copies", "save", "disconnect", "restore", "drop", "duplicates", "clear", "unguard",
   "tidy", "attempt", "activate", "await", "rekey", "client", "verdict", "deactivated"}

\* All the type invariant says but where the active path is; and a command has a job.
Typed ==
  /\ Profiled
  /\ believes \in BOOLEAN /\ guard \in BOOLEAN /\ bus \in BOOLEAN /\ keyring \in BOOLEAN /\ orphan \in BOOLEAN
  /\ job \in {"none", "down", "up", "over"} /\ (at # "idle" => job # "none")
  /\ at \in Steps
  /\ live.path \in Slots \cup {0} /\ keep \in BOOLEAN /\ former \subseteq Slots
  /\ target \in Servers /\ rekeyed \in BOOLEAN
  /\ proven \subseteq Servers /\ had \subseteq Servers
  /\ missed \subseteq {"call", "key", "bus", "tidied", "landed", "started", "killed"}

\* What the first state is, as far as the types and the active profile go.
LEMMA TypedStarts == ProfilesInit => Typed /\ active \in Paths \cup {0} /\ job = "none" /\ at = "idle"
<1> SUFFICES ASSUME ProfilesInit
             PROVE  Typed /\ active \in Paths \cup {0} /\ job = "none" /\ at = "idle"
  OBVIOUS
<1>1. Profiled
  BY DEF ProfilesInit, Profiled
<1>2. live.path = 0
  BY DEF ProfilesInit, NoTunnel
<1>3. QED
  BY <1>1, <1>2 DEF ProfilesInit, Typed, Steps, Fails

\* No step leaves the types, whatever goes wrong in it.
LEMMA TypedKept ==
  ASSUME Typed, active \in Paths \cup {0}, at = "save" => live.server \in Servers,
         at = "persist" => live.path \in Slots, [ProfilesNext]_pvars
  PROVE  Typed'
<1> USE DEF Typed, Steps, Go, Noting, Fails, world, client, request, record
<1>0. Paths \subseteq Slots /\ Free \subseteq Slots
  BY DEF Paths, Free
<1>1. Live.path \in Slots \cup {0}
  BY <1>0 DEF Live, NoTunnel
<1>2. CASE DownBegins \/ UpBegins
  <2>1. live'.path = 0 /\ target' \in Servers /\ had' \subseteq Servers /\ Profiled'
    BY <1>2, SameIs DEF DownBegins, UpBegins, Begin, Loses, NoTunnel
  <2>2. job' \in {"down", "up"} /\ at' \in Steps /\ keep' = FALSE /\ former' = {} /\ rekeyed' = FALSE
        /\ missed' = {} /\ UNCHANGED <<world, client, proven>>
    BY <1>2 DEF DownBegins, UpBegins, Begin
  <2>3. QED
    BY <2>1, <2>2
<1>3. CASE DownLooks
  <2>1. keep' \in BOOLEAN /\ at' \in Steps
    BY <1>3 DEF DownLooks
  <2>2. live'.path \in Slots \cup {0} /\ missed' \subseteq missed \cup {"call"}
    BY <1>1, <1>3 DEF DownLooks, NoTunnel
  <2>3. at = "look" /\ profile' = profile
        /\ UNCHANGED <<world, client, job, former, target, rekeyed, record>>
    BY <1>3 DEF DownLooks
  <2>4. Profiled'
    BY <2>3, SameIs DEF Loses
  <2>5. QED
    BY <2>1, <2>2, <2>3, <2>4
<1>4. CASE DownDropsStale
  BY <1>4, SameIs, DeleteIs DEF DownDropsStale, Loses
<1>5. CASE DownPersists
  <2>1. CASE profile[live.path] # Gone
             /\ Put(live.path, [profile[live.path] EXCEPT !.saved = TRUE, !.auto = FALSE])
    <3>1. live.path \in Slots /\ profile[live.path] \in Profile
      BY <1>5, <2>1 DEF DownPersists, Profiled
    <3>2. [profile[live.path] EXCEPT !.saved = TRUE, !.auto = FALSE] \in Profile
      BY <3>1, FieldsSet
    <3>3. Profiled'
      BY <2>1, <3>1, <3>2, PutIs DEF Gains
    <3>4. QED
      BY <1>5, <3>3 DEF DownPersists
  <2>2. QED
    BY <1>5, <2>1, SameIs DEF DownPersists, Loses
<1>6. CASE DownDeactivates \/ DownKills
  <2>1. Profiled'
    BY <1>6, SameIs DEF DownDeactivates, DownKills, Loses
  <2>2. at' \in {"release", "begin", "idle"} /\ orphan' \in BOOLEAN /\ at # "idle"
        /\ UNCHANGED <<world, believes, guard, request, record, missed>>
    BY <1>6 DEF DownDeactivates, DownKills
  <2>3. QED
    BY <2>1, <2>2
<1>7. CASE DownReleases
  BY <1>7, SameIs, DeleteIs DEF DownReleases, Remove, Loses
<1>8. CASE DownDropsGuard
  BY <1>8, SameIs DEF DownDropsGuard, Loses
<1>9. CASE DownClearsAutos
  BY <1>9, SameIs, ByHandIs DEF DownClearsAutos, Loses, Alike
<1>10. CASE EntryLooks
  <2>1. at' \in {"preserve", "restore", "attempt"}
    BY <1>10 DEF EntryLooks
  <2>2. QED
    BY <1>1, <1>10, <2>1, SameIs DEF EntryLooks, Loses
<1>11. CASE PreserveLooks
  <2>1. at' \in {"disconnect", "restore", "copies"}
    BY <1>11 DEF PreserveLooks
  <2>2. QED
    BY <1>1, <1>11, <2>1, SameIs DEF PreserveLooks, Loses
<1>12. CASE PreserveDropsStale
  BY <1>12, DeleteIs DEF PreserveDropsStale, Loses
<1>13. ASSUME NEW s \in Servers, NEW saved \in BOOLEAN, NEW auto \in BOOLEAN
       PROVE  [server |-> s, saved |-> saved, keyed |-> TRUE, auto |-> auto] \in Profile
  BY DEF Profile
<1>14. ASSUME NEW s \in Servers
       PROVE  Fresh(s) \in Profile
  BY DEF Profile, Fresh
<1>15. CASE PreserveSaves
  <2>1. profile' = profile \/ \E p \in Free : Put(p, Fresh(live.server))
    BY <1>15 DEF PreserveSaves
  <2>2. live.server \in Servers
    BY <1>15 DEF PreserveSaves
  <2>3. Profiled'
    BY <1>0, <1>14, <2>1, <2>2, SameIs, PutIs DEF Loses, Gains
  <2>4. at' = "disconnect" /\ at = "save" /\ missed' \in {missed, missed \cup {"key"}}
        /\ UNCHANGED <<active, world, client, request, record>>
    BY <1>15 DEF PreserveSaves
  <2>5. QED
    BY <2>3, <2>4
<1>16. CASE PreserveDisconnects
  <2>1. CASE live.transient
    <3>1. Profiled' /\ believes' = FALSE
      BY <1>16, <2>1, ClientDisconnectsIs DEF PreserveDisconnects, Loses
    <3>2. at' = "restore" /\ at = "disconnect" /\ UNCHANGED <<world, guard, orphan, request, record, missed>>
      BY <1>16 DEF PreserveDisconnects
    <3>3. QED
      BY <3>1, <3>2
  <2>2. CASE ~live.transient
    <3>1. Profiled'
      BY <1>16, <2>2, SameIs DEF PreserveDisconnects, Loses
    <3>2. at' = "restore" /\ at = "disconnect" /\ believes' = believes
          /\ UNCHANGED <<world, guard, orphan, request, record, missed>>
      BY <1>16, <2>2 DEF PreserveDisconnects
    <3>3. QED
      BY <3>1, <3>2
  <2>3. QED
    BY <2>1, <2>2
<1>17. CASE RestoreKills
  BY <1>0, <1>17, SameIs, ZenonT(30) DEF RestoreKills, Loses
<1>18. CASE RestoreDisconnects
  <2>1. Profiled' /\ believes' = FALSE
    BY <1>18, ClientDisconnectsIs DEF RestoreDisconnects, Loses
  <2>2. at' = "duplicates" /\ at = "drop" /\ UNCHANGED <<world, guard, orphan, request, record, missed>>
    BY <1>18 DEF RestoreDisconnects
  <2>3. QED
    BY <2>1, <2>2
<1>19. CASE RestoreDropsDuplicates
  BY <1>19, DeleteIs DEF RestoreDropsDuplicates, Remove, Loses
<1>20. CASE RestoreClears
  BY <1>20, ByHandIs DEF RestoreClears, Alike
<1>21. CASE RestoreDropsGuard
  BY <1>21, SameIs DEF RestoreDropsGuard, Loses
<1>22. CASE Tidies
  <2>1. Profiled' /\ missed' \subseteq missed \cup {"tidied"}
    BY <1>22, DedupesIs DEF Tidies, Loses
  <2>2. at' = "idle" /\ UNCHANGED <<world, client, active, request, record>>
    BY <1>22 DEF Tidies
  <2>3. QED
    BY <2>1, <2>2
<1>23. CASE EnsuresProfile
  BY <1>0, <1>14, <1>23, SameIs, PutIs DEF EnsuresProfile, Loses, Gains
<1>24. CASE Activates
  <2>1. live' = live \/ \E p \in CopiesOf(target) : live' = [path |-> p, server |-> target, transient |-> FALSE]
    BY <1>24 DEF Activates
  <2>2. live'.path \in Slots \cup {0}
    BY <1>0, <2>1 DEF CopiesOf
  <2>3. QED
    BY <1>24, <2>2, SameIs DEF Activates, Loses
<1>25. CASE Awaits
  <2>1. at' \in {"verdict", "client", "rekey"}
    BY <1>25 DEF Awaits
  <2>2. QED
    BY <1>25, <2>1, SameIs DEF Awaits, Loses
<1>26. CASE Rekeys
  BY <1>26, SameIs, RekeyIs DEF Rekeys, Loses, Alike
<1>27. CASE ClientClears
  <2>1. Profiled' /\ believes' = FALSE
    BY <1>27, ClientDisconnectsIs DEF ClientClears, Loses
  <2>2. at' = "client" /\ at = "client" /\ UNCHANGED <<world, guard, orphan, request, record, missed>>
    BY <1>27 DEF ClientClears
  <2>3. QED
    BY <2>1, <2>2
<1>28. CASE ClientConnects
  <2>1. CASE UNCHANGED <<profile, active, believes, guard, live>>
    BY <1>28, <2>1, SameIs DEF ClientConnects, Loses
  <2>2. CASE \E p \in Free :
               /\ Put(p, [server |-> target, saved |-> FALSE, keyed |-> TRUE, auto |-> TRUE])
               /\ live' = [path |-> p, server |-> target, transient |-> TRUE]
    <3>1. PICK p \in Free :
               /\ Put(p, [server |-> target, saved |-> FALSE, keyed |-> TRUE, auto |-> TRUE])
               /\ live' = [path |-> p, server |-> target, transient |-> TRUE]
      BY <2>2
    <3>2. Profiled'
      BY <1>0, <1>13, <3>1, PutIs DEF Gains
    <3>3. live'.path \in Slots \cup {0}
      BY <1>0, <3>1
    <3>4. /\ believes' \in BOOLEAN /\ guard' \in BOOLEAN /\ at' \in {"verdict", "idle"} /\ at = "client"
          /\ UNCHANGED <<world, orphan, job, keep, former, target, rekeyed, record, missed>>
      BY <1>28 DEF ClientConnects
    <3>5. QED
      BY <3>2, <3>3, <3>4
  <2>3. QED
    BY <1>28, <2>1, <2>2 DEF ClientConnects
<1>29. CASE Carried \/ Blamed \/ Excused
  <2>1. Profiled' /\ proven' \subseteq Servers
    BY <1>29, SameIs, DeleteIs DEF Carried, Blamed, Excused, Loses
  <2>2. at = "verdict" /\ at' \in {"tidy", "idle", "deactivated"}
        /\ UNCHANGED <<world, client, request, had, missed>>
    BY <1>29 DEF Carried, Blamed, Excused
  <2>3. QED
    BY <2>1, <2>2
<1>30. CASE AfterFailure
  <2>1. Profiled' /\ at' \in {"client", "restore"} /\ (job' = job \/ job' = "over") /\ at = "deactivated"
        /\ UNCHANGED <<world, client, live, keep, former, target, rekeyed, record, missed>>
    BY <1>30, SameIs DEF AfterFailure, Loses
  <2>2. QED
    BY <2>1
<1>31. CASE NMStarts \/ Crashes
  <2>1. Profiled' /\ at' \in {at, "idle"} /\ orphan' \in BOOLEAN
        /\ missed' \subseteq missed \cup {"started", "killed"}
        /\ UNCHANGED <<world, believes, guard, request, record>>
    BY <1>31, SameIs DEF NMStarts, Crashes, Loses
  <2>2. QED
    BY <2>1
<1>32. CASE OrphanLands
  <2>1. PICK p \in Free :
          Put(p, [server |-> target, saved |-> FALSE, keyed |-> TRUE, auto |-> TRUE])
    BY <1>32 DEF OrphanLands
  <2>2. Profiled'
    BY <1>0, <1>13, <2>1, PutIs DEF Gains
  <2>3. orphan' \in BOOLEAN /\ believes' \in BOOLEAN /\ missed' \subseteq missed \cup {"landed"}
        /\ UNCHANGED <<world, guard, at, request, record>>
    BY <1>32 DEF OrphanLands
  <2>4. QED
    BY <2>2, <2>3
<1>33. CASE LingererGoes
  BY <1>33, DeleteIs DEF LingererGoes, Loses
<1>34. CASE UNCHANGED pvars
  BY <1>34, SameIs DEF pvars, Loses
<1>35. QED
  BY <1>2, <1>3, <1>4, <1>5, <1>6, <1>7, <1>8, <1>9, <1>10, <1>11, <1>12, <1>15, <1>16, <1>17, <1>18,
     <1>19, <1>20, <1>21, <1>22, <1>23, <1>24, <1>25, <1>26, <1>27, <1>28, <1>29, <1>30, <1>31, <1>32,
     <1>33, <1>34
     DEF ProfilesNext, Downs, Restores, Ups, Around

-------------------------------------------------------------------------------
(* The live tunnel *)

\* What the command takes for the live tunnel is the live tunnel, where it acts on it.
Refers ==
  /\ active \in Paths \cup {0}
  /\ at \in {"stale", "persist", "preserve", "copies", "save", "disconnect"} =>
       /\ active \in Paths /\ live.path = active /\ live.server = profile[active].server
       /\ live.transient <=> ~profile[active].saved
  /\ at \in {"copies", "save"} => ~profile[active].saved
  /\ at \in {"stale", "persist"} => keep
  /\ at \in {"await", "verdict"} => active \in CopiesOf(target)
  /\ at = "await" => ~live.transient
  /\ at \in {"verdict", "deactivated"} /\ live.transient => active \in Paths /\ ~profile[active].saved
  /\ at \in {"deactivate", "release"} /\ live.transient /\ ~keep /\ live.path \in Paths =>
       ~profile[live.path].saved

\* No path is 0, and a profile has a server and is saved or not.
LEMMA PathsAre ==
  ASSUME Profiled
  PROVE  0 \notin Paths /\ Paths \subseteq Slots /\ Free \subseteq Slots /\ Free \cap Paths = {}
         /\ \A p \in Paths : profile[p].server \in Servers /\ profile[p].saved \in BOOLEAN
BY ProfilesAssumption DEF ProfilesAssumption, Profiled, Profile, Paths, Free

\* What is asked of the bus is what is attached.
LEMMA LiveIs ==
  ASSUME Profiled, active \in Paths
  PROVE  /\ Live.path = active /\ Live.server = profile[active].server
         /\ Live.transient <=> ~profile[active].saved
BY PathsAre DEF Live

\* With nothing active, nothing is found live.
LEMMA NothingLive ==
  ASSUME active = 0
  PROVE  Live.path = 0 /\ Live.server = Gone /\ Live.transient = FALSE
BY DEF Live, NoTunnel

\* No step of the command, of NetworkManager or of an orphan makes it another.
LEMMA RefersKept ==
  ASSUME Typed, Refers, [ProfilesNext]_pvars
  PROVE  Refers'
<1>1. Profiled /\ 0 \notin Paths /\ Free \cap Paths = {}
  BY PathsAre DEF Typed
<1> USE DEF Refers, Go, world, client, request, record, CopiesOf
<1>2. CASE DownBegins \/ UpBegins
  BY <1>1, <1>2, SameIs DEF DownBegins, UpBegins, Begin, Loses
<1>3. CASE DownLooks
  <2>1. CASE active = 0
    BY <1>1, <1>3, <2>1, SameIs, NothingLive, ProfilesAssumption
       DEF DownLooks, Loses, Typed, ProfilesAssumption
  <2>2. CASE active \in Paths
    <3>1. Paths' = Paths /\ (\A p \in Paths : profile'[p] = profile[p]) /\ active' = active
      BY <1>1, <1>3, SameIs DEF DownLooks, Loses
    <3>2. CASE at' \in {"guard", "begin"}
      BY <2>2, <3>1, <3>2
    <3>3. CASE at' \notin {"guard", "begin"}
      <4>1. at' \in {"stale", "deactivate"} /\ (at' = "stale" => keep') /\ live' = Live
        BY <1>1, <1>3, <2>2, <3>3 DEF DownLooks
      <4>2. /\ live'.path = active /\ live'.server = profile[active].server
            /\ live'.transient <=> ~profile[active].saved
        BY <1>1, <2>2, <4>1, LiveIs
      <4>3. QED
        BY <2>2, <3>1, <4>1, <4>2
    <3>4. QED
      BY <3>2, <3>3
  <2>3. QED
    BY <2>1, <2>2
<1>4. CASE DownDropsStale
  <2>1. PICK ps : Loses(ps) /\ active \notin ps
    BY <1>1, <1>4, SameIs, DeleteIs DEF DownDropsStale, StaleCopies
  <2>2. QED
    BY <1>4, <2>1 DEF DownDropsStale, Loses
<1>5. CASE DownPersists
  <2>1. CASE at' = "begin" /\ profile' = profile
    BY <1>1, <1>5, <2>1, SameIs DEF DownPersists, Loses
  <2>2. CASE /\ at' = "deactivate"
             /\ Put(live.path, [profile[live.path] EXCEPT !.saved = TRUE, !.auto = FALSE])
    <3>1. active \in Paths /\ live.path = active /\ keep /\ active' = active /\ keep' = keep
      BY <1>5 DEF DownPersists
    <3>2. active \in Slots /\ profile[active] \in Profile
      BY <1>1, <3>1 DEF Paths, Profiled
    <3>3. Paths' = Paths \cup {active}
      BY <1>1, <2>2, <3>1, <3>2, PutIs, FieldsSet DEF Gains
    <3>4. QED
      BY <2>2, <3>1, <3>3
  <2>3. QED
    BY <1>5, <2>1, <2>2 DEF DownPersists
<1>6. CASE DownDeactivates
  BY <1>1, <1>6, SameIs DEF DownDeactivates, Loses
<1>7. CASE DownReleases
  <2>1. PICK ps : Loses(ps) /\ active' = IF active \in ps THEN 0 ELSE active
    BY <1>1, <1>7, SameIs, DeleteIs DEF DownReleases, Remove
  <2>2. QED
    BY <1>7, <2>1 DEF DownReleases, Loses
<1>8. CASE DownDropsGuard \/ DownKills
  BY <1>1, <1>8, SameIs DEF DownDropsGuard, DownKills, Loses
<1>9. CASE DownClearsAutos \/ RestoreClears
  <2>1. Paths' = Paths
    BY <1>1, <1>9, SameIs, ByHandIs DEF DownClearsAutos, RestoreClears, Loses, Alike
  <2>2. QED
    BY <1>9, <2>1 DEF DownClearsAutos, RestoreClears
<1>10. CASE EntryLooks
  <2>0. Paths' = Paths /\ (\A p \in Paths : profile'[p] = profile[p]) /\ live' = Live /\ active' = active
    BY <1>1, <1>10, SameIs DEF EntryLooks, Loses
  <2>1. CASE at' = "preserve"
    <3>1. Live.server \in proven
      BY <1>10, <2>1 DEF EntryLooks
    <3>2. active \in Paths
      BY <3>1, NothingLive, ProfilesAssumption DEF ProfilesAssumption, Typed
    <3>3. QED
      BY <1>1, <2>0, <2>1, <3>2, LiveIs
  <2>2. CASE at' \in {"restore", "attempt"}
    BY <2>0, <2>2
  <2>3. QED
    BY <1>10, <2>1, <2>2 DEF EntryLooks
<1>11. CASE PreserveLooks
  <2>1. active \in Paths /\ Paths' = Paths /\ (\A p \in Paths : profile'[p] = profile[p])
        /\ live' = Live /\ active' = active
    BY <1>1, <1>11, SameIs DEF PreserveLooks, Loses
  <2>2. at' \in {"restore", "copies", "disconnect"} /\ (at' = "copies" => Live.transient)
    BY <1>11 DEF PreserveLooks
  <2>3. QED
    BY <1>1, <2>1, <2>2, LiveIs
<1>12. CASE PreserveDropsStale
  <2>1. PICK ps : Loses(ps) /\ active \notin ps
    BY <1>1, <1>12, DeleteIs DEF PreserveDropsStale, StaleCopies
  <2>2. QED
    BY <1>12, <2>1 DEF PreserveDropsStale, Loses
<1>13. ASSUME NEW s \in Servers, NEW saved \in BOOLEAN, NEW auto \in BOOLEAN
       PROVE  [server |-> s, saved |-> saved, keyed |-> TRUE, auto |-> auto] \in Profile
  BY DEF Profile
<1>14. ASSUME NEW s \in Servers
       PROVE  Fresh(s) \in Profile
  BY DEF Profile, Fresh
\* What is put on a free path touches no other.
<1>15. ASSUME NEW p \in Free, NEW r \in Profile, Put(p, r)
       PROVE  Paths' = Paths \cup {p} /\ p \notin Paths /\ profile'[p] = r
              /\ \A q \in Paths : profile'[q] = profile[q]
  BY <1>1, <1>15, PutIs, PathsAre DEF Gains
<1>16. CASE PreserveSaves
  <2>1. live.server \in Servers
    BY <1>1, <1>16, PathsAre DEF PreserveSaves
  <2>2. Paths \subseteq Paths' /\ \A q \in Paths : profile'[q] = profile[q]
    BY <1>1, <1>14, <1>15, <1>16, <2>1, SameIs DEF PreserveSaves, Loses
  <2>3. QED
    BY <1>16, <2>2 DEF PreserveSaves
<1>17. ASSUME NEW others, ClientDisconnects(others)
       PROVE  active' \in Paths' \cup {0}
  BY <1>1, <1>17, SameIs, DeleteIs DEF ClientDisconnects, Loses
<1>18. CASE PreserveDisconnects
  <2>1. active' \in Paths' \cup {0}
    BY <1>1, <1>17, <1>18, SameIs DEF PreserveDisconnects, Loses
  <2>2. QED
    BY <1>18, <2>1 DEF PreserveDisconnects
<1>19. CASE RestoreKills \/ RestoreDropsGuard
  <2>1. at' \notin {"stale", "persist", "preserve", "copies", "save", "disconnect", "await", "verdict",
                    "deactivate", "deactivated", "release"}
    BY <1>19 DEF RestoreKills, RestoreDropsGuard, Typed
  <2>2. QED
    BY <1>1, <1>19, <2>1, SameIs DEF RestoreKills, RestoreDropsGuard, Loses
<1>20. CASE RestoreDisconnects
  BY <1>17, <1>20 DEF RestoreDisconnects
<1>21. CASE RestoreDropsDuplicates
  <2>1. PICK ps : Loses(ps) /\ active' = IF active \in ps THEN 0 ELSE active
    BY <1>1, <1>21, DeleteIs DEF RestoreDropsDuplicates, Remove
  <2>2. QED
    BY <1>21, <2>1 DEF RestoreDropsDuplicates, Loses
<1>22. CASE Tidies
  <2>1. active \in Paths' \cup {0}
    <3>1. PICK survivor \in [Servers -> Slots] :
           /\ \A s \in Servers : CopiesOf(s) # {} =>
                survivor[s] \in CopiesOf(s) /\ (active \in CopiesOf(s) => survivor[s] = active)
           /\ Loses({p \in Paths : survivor[profile[p].server] # p})
      BY <1>1, <1>22, DedupesIs DEF Tidies
    <3>2. active \in Paths => profile[active].server \in Servers /\ active \in CopiesOf(profile[active].server)
      BY <1>1, PathsAre
    <3>3. active \in Paths => survivor[profile[active].server] = active
      BY <3>1, <3>2
    <3>4. QED
      BY <3>1, <3>3 DEF Loses
  <2>2. QED
    BY <1>22, <2>1 DEF Tidies
<1>23. CASE EnsuresProfile
  <2>1. Paths \subseteq Paths'
    BY <1>1, <1>14, <1>15, <1>23, SameIs DEF EnsuresProfile, Loses, Typed
  <2>2. QED
    BY <1>23, <2>1 DEF EnsuresProfile
<1>24. CASE Activates
  <2>1. Paths' = Paths /\ \A p \in Paths : profile'[p] = profile[p]
    BY <1>1, <1>24, SameIs DEF Activates, Loses
  <2>2. CASE \E p \in CopiesOf(target) :
               live' = [path |-> p, server |-> target, transient |-> FALSE] /\ active' = p /\ at' = "await"
    BY <1>24, <2>1, <2>2 DEF Activates
  <2>3. CASE at' = "client" /\ active' = active
    BY <1>24, <2>1, <2>3 DEF Activates
  <2>4. QED
    BY <1>24, <2>2, <2>3 DEF Activates
<1>25. CASE Awaits
  <2>1. Paths' = Paths /\ \A p \in Paths : profile'[p] = profile[p]
    BY <1>1, <1>25, SameIs DEF Awaits, Loses
  <2>2. \/ at' = "verdict" /\ active' = active
        \/ at' \in {"client", "rekey"} /\ active' = 0
    BY <1>25 DEF Awaits
  <2>3. QED
    BY <1>25, <2>1, <2>2 DEF Awaits
<1>26. CASE Rekeys
  <2>1. Paths' = Paths
    BY <1>1, <1>26, SameIs, RekeyIs DEF Rekeys, Loses, Alike
  <2>2. QED
    BY <1>26, <2>1 DEF Rekeys
<1>27. CASE ClientClears
  BY <1>17, <1>27 DEF ClientClears
<1>28. CASE ClientConnects
  <2>1. CASE UNCHANGED <<profile, active, live>> /\ at' = "idle"
    BY <1>1, <1>28, <2>1, SameIs DEF ClientConnects, Loses
  <2>2. CASE \E p \in Free :
               /\ Put(p, [server |-> target, saved |-> FALSE, keyed |-> TRUE, auto |-> TRUE])
               /\ active' = p /\ at' = "verdict"
    <3>1. PICK p \in Free :
               /\ Put(p, [server |-> target, saved |-> FALSE, keyed |-> TRUE, auto |-> TRUE])
               /\ active' = p /\ at' = "verdict"
      BY <2>2
    <3>2. Paths' = Paths \cup {p}
          /\ profile'[p] = [server |-> target, saved |-> FALSE, keyed |-> TRUE, auto |-> TRUE]
      BY <1>13, <1>15, <3>1 DEF Typed
    <3>3. profile'[p].server = target /\ ~profile'[p].saved /\ target' = target
      BY <1>28, <3>2 DEF ClientConnects
    <3>4. QED
      BY <3>1, <3>2, <3>3
  <2>3. QED
    BY <1>28, <2>1, <2>2 DEF ClientConnects
<1>29. CASE Carried \/ Blamed \/ Excused
  <2>1. PICK ps : Loses(ps) /\ active \notin ps
    BY <1>1, <1>29, SameIs, DeleteIs DEF Carried, Blamed, Excused, StaleCopies
  <2>2. QED
    BY <1>29, <2>1 DEF Carried, Blamed, Excused, Loses
<1>30. CASE AfterFailure
  BY <1>1, <1>30, SameIs DEF AfterFailure, Loses
<1>31. CASE NMStarts \/ Crashes
  BY <1>1, <1>31, SameIs DEF NMStarts, Crashes, Loses
<1>32. CASE OrphanLands
  <2>1. PICK p \in Free :
          Put(p, [server |-> target, saved |-> FALSE, keyed |-> TRUE, auto |-> TRUE]) /\ active' = p
    BY <1>32 DEF OrphanLands
  <2>2. Paths' = Paths \cup {p} /\ p \notin Paths /\ (\A q \in Paths : profile'[q] = profile[q])
        /\ profile'[p] = [server |-> target, saved |-> FALSE, keyed |-> TRUE, auto |-> TRUE]
    BY <1>13, <1>15, <2>1 DEF Typed
  <2>3. ~profile'[p].saved /\ active = 0
    BY <1>32, <2>2 DEF OrphanLands
  <2>4. QED
    BY <1>1, <1>32, <2>1, <2>2, <2>3 DEF OrphanLands
<1>33. CASE LingererGoes
  <2>1. PICK ps : Loses(ps) /\ active \notin ps
    BY <1>1, <1>33, DeleteIs DEF LingererGoes
  <2>2. QED
    BY <1>33, <2>1 DEF LingererGoes, Loses
<1>34. CASE UNCHANGED pvars
  BY <1>1, <1>34, SameIs DEF pvars, Loses
<1>35. QED
  BY <1>2, <1>3, <1>4, <1>5, <1>6, <1>7, <1>8, <1>9, <1>10, <1>11, <1>12, <1>16, <1>18, <1>19, <1>20,
     <1>21, <1>22, <1>23, <1>24, <1>25, <1>26, <1>27, <1>28, <1>29, <1>30, <1>31, <1>32, <1>33, <1>34
     DEF ProfilesNext, Downs, Restores, Ups, Around

-------------------------------------------------------------------------------
(* The last copy *)

\* A profile of the server is on disk.
Stored(s) == \E p \in CopiesOf(s) : profile[p].saved

\* None of what may cost a server its profile has happened in this command.
Unspoiled == missed \cap {"key", "bus", "tidied"} = {}

\* The servers the command has to keep a profile of.
Good == had \cap proven

\* Where the tunnel a command found has not been let go of.
Early == {"look", "stale", "persist", "deactivate", "begin", "preserve", "copies", "save", "disconnect"}

\* Where nothing but what is on disk is to be relied on. Where a reading that failed
\* leads a down, the tunnel it found may still be up.
Away == {"deactivate", "release", "disconnect", "restore", "drop", "duplicates",
         "clear", "unguard", "attempt", "activate", "await", "rekey", "client", "verdict", "deactivated"}

\* A saved profile that a restore begins from is not one its deduplication may lose: no
\* killed client's profile of the same server is left besides.
NoLeftOvers ==
  /\ at \in Early => \A s \in Good : ~LeftOver(s)
  /\ at = "save" => CopiesOf(live.server) = {active}
  /\ at = "disconnect" /\ live.transient =>
       \A p \in CopiesOf(live.server) : profile[p].saved => ~profile[p].auto
  /\ at = "restore" =>
       \/ active \in Paths /\ ~profile[active].saved
       \/ \A s \in Good : LeftOver(s) =>
            \A p \in CopiesOf(s) : profile[p].saved => p # active /\ ~profile[p].auto
  /\ at \in {"drop", "duplicates"} =>
       /\ ~orphan
       /\ \A p, q \in former : p = q
       /\ \A p \in former \cap Paths : profile[p].saved /\ profile[p].server \in Good =>
            \A q \in CopiesOf(profile[p].server) : profile[q].saved

LastCopy ==
  /\ \A s \in Good : Kept(s)
  /\ at \in Away => \A s \in Good : Stored(s)

CopySafe == Unspoiled => NoLeftOvers /\ LastCopy

\* What the ways to change the profiles do to a server's copies.
LEMMA AlikeCopies ==
  ASSUME Alike
  PROVE  \A s : CopiesOf(s)' = CopiesOf(s) /\ (Stored(s) => Stored(s)') /\ (Stored(s)' => Stored(s))
BY DEF Alike, CopiesOf, Stored

\* Losing profiles takes them from the copies of each server, and changes no other.
LEMMA LosesCopies ==
  ASSUME NEW ps, Loses(ps)
  PROVE  \A s : CopiesOf(s)' = CopiesOf(s) \ ps /\ \A p \in CopiesOf(s)' : profile'[p] = profile[p]
BY DEF Loses, CopiesOf

\* A profile gained is one more copy of its server, and takes nothing from disk.
LEMMA GainsCopies ==
  ASSUME NEW p, p \notin Paths, NEW r, Gains(p, r)
  PROVE  \A s : /\ CopiesOf(s)' = CopiesOf(s) \cup (IF r.server = s THEN {p} ELSE {})
                /\ \A q \in CopiesOf(s) : profile'[q] = profile[q]
                /\ Stored(s) => Stored(s)'
BY DEF Gains, CopiesOf, Stored

\* Losing copies in memory alone keeps what is on disk.
LEMMA LosesStored ==
  ASSUME NEW ps, Loses(ps), NEW s, Stored(s), \A p \in ps \cap CopiesOf(s) : ~profile[p].saved
  PROVE  Stored(s)'
BY LosesCopies DEF Stored

\* With nothing attached but what is on disk, what is kept is on disk.
LEMMA KeptIsStored ==
  ASSUME NEW s, Kept(s), active \in CopiesOf(s) => profile[active].saved
  PROVE  Stored(s)
BY DEF Kept, Stored

\* A server with a profile on disk has a profile that a reboot leaves.
LEMMA StoredIsKept == ASSUME NEW s, Stored(s) PROVE Kept(s)
BY DEF Kept, Stored

\* Away from the tunnel it found, the command need only leave what is on disk.
LEMMA StaysStored ==
  ASSUME CopySafe, at \in Away, Unspoiled' => Unspoiled,
         at' \notin Early \cup {"restore", "drop", "duplicates"},
         \A s \in Good' : s \in Good /\ (Unspoiled /\ NoLeftOvers /\ Stored(s) => Stored(s)')
  PROVE  CopySafe'
<1> SUFFICES ASSUME Unspoiled'
             PROVE  NoLeftOvers' /\ LastCopy'
  BY DEF CopySafe
<1>1. \A s \in Good' : Stored(s)'
  BY DEF CopySafe, LastCopy
<1>2. \A s \in Good' : Kept(s)'
  BY <1>1 DEF Kept, Stored
<1>3. QED
  BY <1>1, <1>2 DEF NoLeftOvers, LastCopy, Early

-------------------------------------------------------------------------------
\* What a down does keeps them.
LEMMA DownsKeep ==
  ASSUME Typed, Refers, CopySafe, Downs
  PROVE  CopySafe'
<1>1. Profiled /\ 0 \notin Paths /\ Free \cap Paths = {} /\ active \in Paths \cup {0}
  BY PathsAre DEF Typed, Refers
<1> USE DEF Go, world, client, request, record, Good
<1>2. CASE DownBegins
  <2>1. had' = {s \in proven : Kept(s) /\ ~LeftOver(s)} /\ at' = "look"
        /\ profile' = profile /\ active' = active
    BY <1>2 DEF DownBegins, Begin
  <2>2. \A s : (Kept(s) => Kept(s)') /\ (LeftOver(s)' => LeftOver(s))
    BY <2>1 DEF Kept, LeftOver, CopiesOf, Paths
  <2>3. QED
    BY <2>1, <2>2 DEF CopySafe, NoLeftOvers, LastCopy, Away
<1>3. CASE DownLooks
  <2> SUFFICES ASSUME Unspoiled'
               PROVE  NoLeftOvers' /\ LastCopy'
    BY DEF CopySafe
  <2>1. at = "look" /\ UNCHANGED <<profile, active, had, proven>> /\ missed \subseteq missed'
    BY <1>3 DEF DownLooks, Noting
  <2>2. \A s \in Good : Kept(s) /\ ~LeftOver(s)
    BY <2>1 DEF CopySafe, Unspoiled, NoLeftOvers, LastCopy, Early
  <2>3. \A s : (Kept(s) => Kept(s)') /\ (LeftOver(s)' => LeftOver(s)) /\ (Stored(s) => Stored(s)')
    BY <2>1 DEF Kept, LeftOver, Stored, CopiesOf, Paths
  <2>4. at' = "deactivate" => \A s \in Good : Stored(s)
    <3>1. CASE active = 0
      BY <1>1, <2>2, <3>1, KeptIsStored DEF CopiesOf
    <3>2. CASE active \in Paths
      <4>1. at' = "deactivate" => profile[active].saved \/ profile[active].server \notin proven
        BY <1>1, <1>3, <3>2, LiveIs DEF DownLooks
      <4>2. QED
        BY <2>2, <4>1, KeptIsStored DEF CopiesOf
    <3>3. QED
      BY <1>1, <3>1, <3>2
  <2>5. at' \in {"begin", "stale", "guard", "deactivate"}
    BY <1>3 DEF DownLooks
  <2>6. QED
    BY <2>1, <2>2, <2>3, <2>4, <2>5 DEF NoLeftOvers, LastCopy, Away
<1>4. CASE DownDropsStale
  <2> SUFFICES ASSUME Unspoiled'
               PROVE  NoLeftOvers' /\ LastCopy'
    BY DEF CopySafe
  <2>1. at = "stale" /\ at' = "persist" /\ UNCHANGED <<active, had, proven, missed>>
        /\ live.path = active /\ active \in Paths /\ live.server = profile[active].server
    BY <1>4 DEF DownDropsStale, Refers
  <2>2. \A s \in Good : Kept(s) /\ ~LeftOver(s)
    BY <2>1 DEF CopySafe, Unspoiled, NoLeftOvers, LastCopy, Early
  <2>3. PICK ps \in SUBSET (CopiesOf(live.server) \ {active}) : Loses(ps)
    BY <1>1, <1>4, <2>1, SameIs, DeleteIs DEF DownDropsStale, StaleCopies
  <2>4. \A s : CopiesOf(s)' = CopiesOf(s) \ ps /\ \A p \in CopiesOf(s)' : profile'[p] = profile[p]
    BY <2>3, LosesCopies
  <2>5. \A s \in Good : ~LeftOver(s)'
    BY <2>1, <2>2, <2>4 DEF LeftOver
  <2>6. ASSUME NEW s \in Good
        PROVE  Kept(s)'
    <3>1. CASE s = live.server
      BY <2>1, <2>3, <2>4, <3>1 DEF Kept, CopiesOf
    <3>2. CASE s # live.server
      <4>1. CopiesOf(s)' = CopiesOf(s)
        BY <2>3, <2>4, <3>2 DEF CopiesOf
      <4>2. QED
        BY <2>1, <2>2, <2>4, <4>1 DEF Kept
    <3>3. QED
      BY <3>1, <3>2
  <2>7. QED
    BY <2>1, <2>5, <2>6 DEF NoLeftOvers, LastCopy, Away
<1>5. CASE DownPersists
  <2> SUFFICES ASSUME Unspoiled'
               PROVE  NoLeftOvers' /\ LastCopy'
    BY DEF CopySafe
  <2>1. at = "persist" /\ UNCHANGED <<active, had, proven, missed>>
        /\ live.path = active /\ active \in Paths /\ live.server = profile[active].server
    BY <1>5 DEF DownPersists, Refers
  <2>2. \A s \in Good : Kept(s) /\ ~LeftOver(s)
    BY <2>1 DEF CopySafe, Unspoiled, NoLeftOvers, LastCopy, Early
  <2>3. CASE at' = "begin" /\ profile' = profile
    <3>1. \A s : (Kept(s) => Kept(s)') /\ (LeftOver(s)' => LeftOver(s))
      BY <2>1, <2>3 DEF Kept, LeftOver, CopiesOf, Paths
    <3>2. QED
      BY <2>1, <2>2, <2>3, <3>1 DEF NoLeftOvers, LastCopy, Away
  <2>4. CASE /\ at' = "deactivate"
             /\ Put(active, [profile[active] EXCEPT !.saved = TRUE, !.auto = FALSE])
    <3>1. active \in Slots /\ profile[active] \in Profile
      BY <1>1, <2>1 DEF Paths, Profiled
    <3>2. PICK r \in Profile : r.server = live.server /\ r.saved /\ Gains(active, r)
      BY <1>1, <2>1, <2>4, <3>1, PutIs, FieldsSet
    <3>3. /\ \A s : CopiesOf(s)' = CopiesOf(s)
          /\ \A q \in Paths : profile'[q].saved \/ profile'[q] = profile[q]
          /\ profile'[active].saved
      BY <2>1, <3>2 DEF Gains, CopiesOf
    <3>4. \A s \in Good : ~LeftOver(s)'
      BY <2>1, <2>2, <3>3 DEF LeftOver, CopiesOf
    <3>5. \A s \in Good : Stored(s)'
      BY <2>2, <3>3 DEF Kept, Stored, CopiesOf
    <3>6. QED
      BY <2>1, <2>4, <3>4, <3>5, StoredIsKept DEF NoLeftOvers, LastCopy, Kept, Stored
  <2>5. QED
    BY <1>5, <2>1, <2>3, <2>4 DEF DownPersists
<1>6. CASE DownDeactivates
  <2>1. at = "deactivate" /\ UNCHANGED <<profile, had, proven, missed>>
    BY <1>6 DEF DownDeactivates
  <2>2. \A s : (Stored(s) => Stored(s)') /\ (active' = active => (Kept(s) => Kept(s)') /\ (LeftOver(s)' => LeftOver(s)))
    BY <2>1 DEF Kept, LeftOver, Stored, CopiesOf, Paths
  <2>3. CASE at' = "release"
    BY <2>1, <2>2, <2>3, StaysStored DEF Away, Early, Unspoiled
  <2>4. CASE at' = "begin" /\ active' = active
    BY <2>1, <2>2, <2>4 DEF CopySafe, NoLeftOvers, LastCopy, Away, Early, Unspoiled
  <2>5. QED
    BY <1>6, <2>3, <2>4 DEF DownDeactivates
<1>7. CASE DownReleases
  <2>1. at = "release" /\ at' = "guard" /\ UNCHANGED <<had, proven, missed>>
    BY <1>7 DEF DownReleases
  <2>2. PICK ps : Loses(ps) /\ \A p \in ps \cap Paths : ~profile[p].saved
    <3>1. CASE profile' = profile
      BY <1>1, <3>1, SameIs
    <3>2. CASE live.transient /\ ~keep /\ Delete({live.path})
      BY <1>1, <2>1, <3>2, DeleteIs DEF Refers
    <3>3. QED
      BY <1>7, <3>1, <3>2 DEF DownReleases, Remove
  <2>3. \A s : Stored(s) => Stored(s)'
    BY <2>2, LosesStored DEF CopiesOf
  <2>4. QED
    BY <2>1, <2>3, StaysStored DEF Away, Early, Unspoiled
<1>8. CASE DownDropsGuard \/ DownClearsAutos \/ DownKills
  <2>1. at' \in {"autos", "kill", "idle"} /\ UNCHANGED <<active, had, proven>> /\ missed \subseteq missed'
    BY <1>8 DEF DownDropsGuard, DownClearsAutos, DownKills, Noting
  <2>2. Alike
    BY <1>1, <1>8, SameIs, ByHandIs DEF DownDropsGuard, DownClearsAutos, DownKills
  <2>3. \A s : Kept(s) => Kept(s)'
    BY <2>1, <2>2 DEF Alike, Kept, CopiesOf
  <2>4. QED
    BY <2>1, <2>3 DEF CopySafe, Unspoiled, NoLeftOvers, LastCopy, Early, Away
<1>9. QED
  BY <1>2, <1>3, <1>4, <1>5, <1>6, <1>7, <1>8 DEF Downs

\* What a restore does keeps them, unless the keyring, the bus or deduplication spoils it.
LEMMA RestoresKeep ==
  ASSUME Typed, Refers, CopySafe, Restores
  PROVE  CopySafe'
<1>1. Profiled /\ 0 \notin Paths /\ Free \cap Paths = {} /\ active \in Paths \cup {0}
  BY PathsAre DEF Typed, Refers
<1> USE DEF Go, world, client, request, record, Good
<1>2. CASE EntryLooks
  <2> SUFFICES ASSUME Unspoiled'
               PROVE  NoLeftOvers' /\ LastCopy'
    BY DEF CopySafe
  <2>1. at = "begin" /\ UNCHANGED <<profile, active, had, proven>> /\ missed \subseteq missed'
        /\ at' \in {"preserve", "restore", "attempt"}
    BY <1>2 DEF EntryLooks, Noting
  <2>2. \A s \in Good : Kept(s) /\ ~LeftOver(s)
    BY <2>1 DEF CopySafe, Unspoiled, NoLeftOvers, LastCopy, Early
  <2>3. \A s : (Kept(s) => Kept(s)') /\ (LeftOver(s)' => LeftOver(s)) /\ (Stored(s) => Stored(s)')
    BY <2>1 DEF Kept, LeftOver, Stored, CopiesOf, Paths
  <2>4. at' \in {"restore", "attempt"} => \A s \in Good : Stored(s)
    <3>1. CASE active = 0
      BY <1>1, <2>2, <3>1, KeptIsStored DEF CopiesOf
    <3>2. CASE active \in Paths /\ at' \in {"restore", "attempt"}
      <4>1. Live.server \notin proven
        BY <1>2, <3>2 DEF EntryLooks, Noting, Unspoiled
      <4>2. profile[active].server \notin proven
        BY <1>1, <3>2, <4>1, LiveIs
      <4>3. QED
        BY <2>2, <4>2, KeptIsStored DEF CopiesOf
    <3>3. QED
      BY <1>1, <3>1, <3>2
  <2>5. QED
    BY <2>1, <2>2, <2>3, <2>4 DEF NoLeftOvers, LastCopy, Away
<1>3. CASE PreserveLooks
  <2> SUFFICES ASSUME Unspoiled'
               PROVE  NoLeftOvers' /\ LastCopy'
    BY DEF CopySafe
  <2>1. at = "preserve" /\ UNCHANGED <<profile, active, had, proven>> /\ missed \subseteq missed'
        /\ active \in Paths /\ live.server = profile[active].server
    BY <1>3 DEF PreserveLooks, Refers, Noting
  <2>2. \A s \in Good : Kept(s) /\ ~LeftOver(s)
    BY <2>1 DEF CopySafe, Unspoiled, NoLeftOvers, LastCopy, Early
  <2>3. \A s : (Kept(s) => Kept(s)') /\ (LeftOver(s)' => LeftOver(s)) /\ (Stored(s) => Stored(s)')
    BY <2>1 DEF Kept, LeftOver, Stored, CopiesOf, Paths
  <2>4. bus /\ Live.server = live.server /\ (Live.transient <=> ~profile[active].saved)
    BY <1>1, <1>3, <2>1, LiveIs DEF PreserveLooks, Noting, Unspoiled
  <2>5. \/ at' = "copies"
        \/ at' = "disconnect" /\ profile[active].saved /\ ~live'.transient
    BY <1>3, <2>4 DEF PreserveLooks
  <2>6. profile[active].saved => \A s \in Good : Stored(s)
    BY <2>2, KeptIsStored
  <2>7. QED
    BY <2>1, <2>2, <2>3, <2>5, <2>6 DEF NoLeftOvers, LastCopy, Away
<1>4. CASE PreserveDropsStale
  <2> SUFFICES ASSUME Unspoiled'
               PROVE  NoLeftOvers' /\ LastCopy'
    BY DEF CopySafe
  <2>1. at = "copies" /\ at' = "save" /\ UNCHANGED <<active, live, had, proven, missed>>
        /\ live.path = active /\ active \in Paths /\ live.server = profile[active].server
    BY <1>4 DEF PreserveDropsStale, Refers
  <2>2. \A s \in Good : Kept(s) /\ ~LeftOver(s)
    BY <2>1 DEF CopySafe, Unspoiled, NoLeftOvers, LastCopy, Early
  <2>3. PICK mine : mine = live.server
    OBVIOUS
  <2>4. PICK ps : ps = CopiesOf(mine) \ {active} /\ Loses(ps)
    BY <1>1, <1>4, <2>1, <2>3, DeleteIs DEF PreserveDropsStale, StaleCopies
  <2>5. \A s : CopiesOf(s)' = CopiesOf(s) \ ps /\ \A p \in CopiesOf(s)' : profile'[p] = profile[p]
    BY <2>4, LosesCopies
  <2>6. \A s \in Good : ~LeftOver(s)'
    BY <2>1, <2>2, <2>5 DEF LeftOver
  <2>7. active \in CopiesOf(mine) /\ \A s : s # mine => ps \cap CopiesOf(s) = {}
    BY <2>1, <2>3, <2>4 DEF CopiesOf
  <2>8. CopiesOf(mine)' = {active} /\ \A s : s # mine => CopiesOf(s)' = CopiesOf(s)
    BY <2>4, <2>5, <2>7
  <2>9. CopiesOf(live.server)' = {active'}
    BY <2>1, <2>3, <2>8
  <2>10. ASSUME NEW s \in Good
         PROVE  Kept(s)'
    <3>1. CASE s = mine
      BY <2>1, <2>8, <3>1 DEF Kept
    <3>2. CASE s # mine
      BY <2>1, <2>2, <2>5, <2>8, <3>2 DEF Kept
    <3>3. QED
      BY <3>1, <3>2
  <2>11. QED
    BY <2>1, <2>6, <2>9, <2>10 DEF NoLeftOvers, LastCopy, Away
<1>5. CASE PreserveSaves
  <2> SUFFICES ASSUME Unspoiled'
               PROVE  NoLeftOvers' /\ LastCopy'
    BY DEF CopySafe
  <2>1. at = "save" /\ at' = "disconnect" /\ UNCHANGED <<active, live, had, proven>> /\ missed \subseteq missed'
        /\ active \in Paths /\ live.server = profile[active].server /\ ~profile[active].saved
    BY <1>5 DEF PreserveSaves, Refers, Noting
  <2>2. (\A s \in Good : Kept(s) /\ ~LeftOver(s)) /\ CopiesOf(live.server) = {active}
    BY <2>1 DEF CopySafe, Unspoiled, NoLeftOvers, LastCopy, Early
  <2>3. PICK mine : mine = live.server
    OBVIOUS
  <2>4. PICK p \in Free : Put(p, Fresh(mine))
    BY <1>5, <2>3 DEF PreserveSaves, Noting, Unspoiled
  <2>5. Fresh(mine) \in Profile /\ Fresh(mine).server = mine /\ Fresh(mine).saved /\ ~Fresh(mine).auto
    BY <1>1, <2>1, <2>3, PathsAre DEF Fresh, Profile
  <2>6. Gains(p, Fresh(mine)) /\ p \notin Paths /\ p # active
    BY <1>1, <2>1, <2>4, <2>5, PutIs, PathsAre
  <2>7. \A s : /\ CopiesOf(s)' = CopiesOf(s) \cup (IF mine = s THEN {p} ELSE {})
               /\ \A q \in CopiesOf(s) : profile'[q] = profile[q]
               /\ Stored(s) => Stored(s)'
    BY <2>5, <2>6, GainsCopies
  <2>8. profile'[p].saved /\ ~profile'[p].auto
    BY <2>5, <2>6 DEF Gains
  <2>9. \A s \in Good : ~LeftOver(s)'
    BY <2>1, <2>2, <2>7, <2>8 DEF LeftOver
  <2>10. CopiesOf(mine)' = {active, p} /\ profile'[active] = profile[active]
    BY <2>2, <2>3, <2>7
  <2>11. \A q \in CopiesOf(live.server)' : profile'[q].saved => ~profile'[q].auto
    BY <2>1, <2>3, <2>8, <2>10
  <2>12. \A s \in Good : Stored(s)'
    <3>1. \A s \in Good : s # mine => Stored(s)
      BY <2>1, <2>2, <2>3, KeptIsStored DEF CopiesOf
    <3>2. Stored(mine)'
      BY <2>8, <2>10 DEF Stored
    <3>3. QED
      BY <2>7, <3>1, <3>2
  <2>13. \A s \in Good : Kept(s)'
    BY <2>12 DEF Kept, Stored
  <2>14. QED
    BY <2>1, <2>9, <2>11, <2>12, <2>13 DEF NoLeftOvers, LastCopy
<1>6. CASE PreserveDisconnects
  <2> SUFFICES ASSUME Unspoiled'
               PROVE  NoLeftOvers' /\ LastCopy'
    BY DEF CopySafe
  <2>1. at = "disconnect" /\ at' = "restore" /\ UNCHANGED <<live, had, proven, missed>>
        /\ active \in Paths /\ live.path = active /\ live.server = profile[active].server
        /\ (live.transient <=> ~profile[active].saved) /\ active' = 0
    BY <1>6 DEF PreserveDisconnects, Refers, ClientDisconnects
  <2>2. (\A s \in Good : Kept(s) /\ ~LeftOver(s) /\ Stored(s))
        /\ (live.transient => \A p \in CopiesOf(live.server) : profile[p].saved => ~profile[p].auto)
    BY <2>1 DEF CopySafe, Unspoiled, NoLeftOvers, LastCopy, Early, Away
  <2>3. PICK ps \in SUBSET {p \in Paths : p = active /\ ~profile[p].saved} : Loses(ps)
    BY <1>1, <1>6, SameIs, ClientDisconnectsIs DEF PreserveDisconnects
  <2>4. \A s : CopiesOf(s)' = CopiesOf(s) \ ps /\ \A p \in CopiesOf(s)' : profile'[p] = profile[p]
    BY <2>3, LosesCopies
  <2>5. \A s \in Good : Stored(s)'
    BY <2>2, <2>3, LosesStored
  <2>6. ASSUME NEW s \in Good, LeftOver(s)', NEW p \in CopiesOf(s)', profile'[p].saved
        PROVE  p # active' /\ ~profile'[p].auto
    <3>0. p \in CopiesOf(s) /\ profile'[p] = profile[p]
      BY <2>4, <2>6
    <3>1. p \in CopiesOf(s) /\ profile'[p] = profile[p] /\ p # 0
      BY <1>1, <3>0 DEF CopiesOf
    <3>2. PICK q \in CopiesOf(s) : ~profile[q].saved
      BY <2>4, <2>6 DEF LeftOver
    <3>3. q = active
      BY <2>2, <3>2 DEF LeftOver
    <3>4. s = live.server /\ live.transient
      BY <2>1, <3>2, <3>3 DEF CopiesOf
    <3>5. QED
      BY <2>1, <2>2, <2>6, <3>1, <3>4
  <2>7. QED
    BY <2>1, <2>5, <2>6, StoredIsKept DEF NoLeftOvers, LastCopy, Early, Kept, Stored
<1>7. CASE RestoreKills
  <2> SUFFICES ASSUME Unspoiled'
               PROVE  NoLeftOvers' /\ LastCopy'
    BY DEF CopySafe
  <2>1. at = "restore" /\ at' = "drop" /\ UNCHANGED <<profile, active, had, proven, missed>>
        /\ orphan' = FALSE /\ former' = IF active = 0 THEN {} ELSE {active}
    BY <1>7 DEF RestoreKills
  <2>2. /\ \A s \in Good : Stored(s)
        /\ \/ active \in Paths /\ ~profile[active].saved
           \/ \A s \in Good : LeftOver(s) =>
                \A p \in CopiesOf(s) : profile[p].saved => p # active /\ ~profile[p].auto
    BY <2>1 DEF CopySafe, Unspoiled, NoLeftOvers, LastCopy, Away
  <2>3. \A s : Paths' = Paths /\ CopiesOf(s)' = CopiesOf(s) /\ (Stored(s) => Stored(s)')
    BY <2>1 DEF Stored, CopiesOf, Paths
  <2>4. ASSUME NEW p \in former', p \in Paths', profile'[p].saved, NEW s \in Good, s = profile'[p].server,
               NEW q \in CopiesOf(s)'
        PROVE  profile'[q].saved
    <3>1. p = active /\ active \in Paths /\ profile[active].saved /\ s = profile[active].server
      BY <2>1, <2>3, <2>4
    <3>2. active \in CopiesOf(s) /\ q \in CopiesOf(s)
      <4>1. q \in CopiesOf(s)
        BY <2>3, <2>4
      <4>2. QED
        BY <3>1, <4>1 DEF CopiesOf
    <3>3. ~LeftOver(s)
      BY <2>2, <3>1, <3>2
    <3>4. QED
      BY <2>1, <3>2, <3>3, <3>1 DEF LeftOver
  <2>5. \A p, q \in former' : p = q
    BY <2>1
  <2>6. QED
    <3>1. \A s \in Good : Stored(s)' /\ Kept(s)'
      BY <2>2, <2>3 DEF Kept, Stored
    <3>2. \A p \in (former \cap Paths)' : profile'[p].saved /\ profile'[p].server \in Good' =>
            \A q \in CopiesOf(profile[p].server)' : profile'[q].saved
      BY <2>1, <2>4
    <3>3. QED
      BY <2>1, <2>5, <3>1, <3>2 DEF NoLeftOvers, LastCopy, Early
<1>8. CASE RestoreDisconnects
  <2> SUFFICES ASSUME Unspoiled'
               PROVE  NoLeftOvers' /\ LastCopy'
    BY DEF CopySafe
  <2>1. at = "drop" /\ at' = "duplicates" /\ UNCHANGED <<orphan, former, had, proven, missed>>
    BY <1>8 DEF RestoreDisconnects
  <2>2. /\ \A s \in Good : Stored(s)
        /\ ~orphan /\ \A p, q \in former : p = q
        /\ \A p \in former \cap Paths : profile[p].saved /\ profile[p].server \in Good =>
             \A q \in CopiesOf(profile[p].server) : profile[q].saved
    BY <2>1 DEF CopySafe, Unspoiled, NoLeftOvers, LastCopy, Away
  <2>3. PICK ps \in SUBSET {p \in Paths : p = active /\ ~profile[p].saved} : Loses(ps)
    BY <1>1, <1>8, ClientDisconnectsIs DEF RestoreDisconnects
  <2>4. \A s \in Good : Stored(s)'
    BY <2>2, <2>3, LosesStored
  <2>5. Paths' \subseteq Paths /\ (\A p \in Paths' : profile'[p] = profile[p])
        /\ \A s : CopiesOf(s)' \subseteq CopiesOf(s)
    BY <2>3 DEF Loses, CopiesOf
  <2>6. ASSUME NEW p \in former, p \in Paths', profile'[p].saved, NEW s \in Good, s = profile'[p].server,
               NEW q \in CopiesOf(s)'
        PROVE  profile'[q].saved
    <3>1. p \in Paths /\ profile[p].saved /\ s = profile[p].server /\ q \in CopiesOf(s)
      BY <2>5, <2>6
    <3>2. q \in Paths'
      BY <2>6 DEF CopiesOf
    <3>3. QED
      BY <2>2, <2>5, <3>1, <3>2
  <2>7. \A p \in (former \cap Paths)' : profile'[p].saved /\ profile'[p].server \in Good' =>
          \A q \in CopiesOf(profile[p].server)' : profile'[q].saved
    BY <2>1, <2>6
  <2>8. \A s \in Good : Kept(s)'
    BY <2>4 DEF Kept, Stored
  <2>9. QED
    BY <2>1, <2>2, <2>4, <2>7, <2>8 DEF NoLeftOvers, LastCopy, Early
<1>9. CASE RestoreDropsDuplicates
  <2>1. at = "duplicates" /\ at' = "clear" /\ UNCHANGED <<had, proven, missed>>
    BY <1>9 DEF RestoreDropsDuplicates
  <2> DEFINE going == {p \in former \cap Paths : Cardinality(CopiesOf(profile[p].server)) > 1}
  <2>2. Loses(going)
    BY <1>1, <1>9, DeleteIs DEF RestoreDropsDuplicates, Remove
  <2>3. ASSUME Unspoiled, NoLeftOvers, NEW s \in Good, Stored(s)
        PROVE  Stored(s)'
    <3>1. PICK p \in CopiesOf(s) : profile[p].saved
      BY <2>3 DEF Stored
    <3>2. CASE p \notin going
      BY <2>2, <3>1, <3>2, LosesCopies DEF Stored
    <3>3. CASE p \in going
      <4>1. CopiesOf(s) # {p}
        <5>1. profile[p].server = s /\ Cardinality(CopiesOf(s)) > 1
          BY <3>1, <3>3 DEF CopiesOf
        <5>2. Cardinality({p}) = 1
          BY FS_Singleton
        <5>3. QED
          BY <5>1, <5>2
      <4>2. PICK q \in CopiesOf(s) : q # p
        BY <3>1, <4>1
      <4>3. profile[q].saved /\ q \notin going
        BY <2>1, <2>3, <3>1, <3>3, <4>2 DEF NoLeftOvers, CopiesOf
      <4>4. QED
        BY <2>2, <4>2, <4>3, LosesCopies DEF Stored
    <3>4. QED
      BY <3>2, <3>3
  <2>4. QED
    BY <2>1, <2>3, StaysStored DEF Away, Early, Unspoiled
<1>10. CASE RestoreClears \/ RestoreDropsGuard
  <2>1. at \in {"clear", "unguard"} /\ at' \in {"unguard", "tidy", "attempt", "idle"}
        /\ UNCHANGED <<had, proven, missed>>
    BY <1>10 DEF RestoreClears, RestoreDropsGuard, Typed
  <2>2. Alike
    BY <1>1, <1>10, SameIs, ByHandIs DEF RestoreClears, RestoreDropsGuard
  <2>3. QED
    BY <2>1, <2>2, AlikeCopies, StaysStored DEF Away, Early, Unspoiled
<1>11. CASE Tidies
  <2> SUFFICES ASSUME Unspoiled'
               PROVE  NoLeftOvers' /\ LastCopy'
    BY DEF CopySafe
  <2>1. at' = "idle" /\ UNCHANGED <<active, had, proven>>
    BY <1>11 DEF Tidies
  <2>2. PICK survivor \in [Servers -> Slots] :
          /\ \A s \in Servers : CopiesOf(s) # {} =>
               survivor[s] \in CopiesOf(s) /\ (active \in CopiesOf(s) => survivor[s] = active)
          /\ Loses({p \in Paths : survivor[profile[p].server] # p})
          /\ missed \subseteq missed'
          /\ missed' \cap {"tidied"} = {} => \A p \in Paths : LET q == survivor[profile[p].server] IN
               profile[p].saved => profile[q].saved \/ q = active
    BY <1>1, <1>11, DedupesIs DEF Tidies
  <2>3. \A s \in Good : Kept(s)
    BY <2>2 DEF CopySafe, Unspoiled, LastCopy
  <2>4. ASSUME NEW s \in Good
        PROVE  Kept(s)'
    <3>1. PICK p \in CopiesOf(s) : profile[p].saved \/ p = active
      BY <2>3 DEF Kept
    <3>2. survivor[s] \in CopiesOf(s) /\ (profile[survivor[s]].saved \/ survivor[s] = active)
      <4>1. s \in Servers /\ p \in Paths /\ profile[p].server = s
        BY <3>1 DEF Typed, CopiesOf
      <4>2. survivor[s] \in CopiesOf(s) /\ (active \in CopiesOf(s) => survivor[s] = active)
        BY <2>2, <3>1, <4>1
      <4>3. profile[p].saved => profile[survivor[s]].saved \/ survivor[s] = active
        BY <2>2, <4>1 DEF Unspoiled
      <4>4. QED
        BY <3>1, <4>2, <4>3
    <3>3. survivor[s] \notin {q \in Paths : survivor[profile[q].server] # q}
      BY <3>2 DEF CopiesOf
    <3>4. survivor[s] \in CopiesOf(s)' /\ profile'[survivor[s]] = profile[survivor[s]]
      BY <2>2, <3>2, <3>3, LosesCopies
    <3>5. QED
      BY <2>1, <3>2, <3>4 DEF Kept
  <2>5. QED
    BY <2>1, <2>4 DEF NoLeftOvers, LastCopy, Early, Away
<1>12. QED
  BY <1>2, <1>3, <1>4, <1>5, <1>6, <1>7, <1>8, <1>9, <1>10, <1>11 DEF Restores

\* What an attempt does keeps them: the server it is for may be blamed, and then need not
\* be kept, or it carries, and is kept by being in use.
LEMMA UpsKeep ==
  ASSUME Typed, Refers, CopySafe, Ups
  PROVE  CopySafe'
<1>1. Profiled /\ 0 \notin Paths /\ Free \subseteq Slots /\ Free \cap Paths = {} /\ active \in Paths \cup {0}
      /\ target \in Servers
  BY PathsAre DEF Typed, Refers
<1> USE DEF Go, world, client, request, record, Good
<1>2. CASE UpBegins
  <2>1. had' = {s \in proven : Kept(s) /\ ~LeftOver(s)} /\ at' = "begin"
        /\ profile' = profile /\ active' = active
    BY <1>2 DEF UpBegins, Begin
  <2>2. \A s : (Kept(s) => Kept(s)') /\ (LeftOver(s)' => LeftOver(s))
    BY <2>1 DEF Kept, LeftOver, CopiesOf, Paths
  <2>3. QED
    BY <2>1, <2>2 DEF CopySafe, NoLeftOvers, LastCopy, Away
<1>3. CASE EnsuresProfile
  <2>1. at = "attempt" /\ at' = "activate" /\ UNCHANGED <<had, proven, missed>>
    BY <1>3 DEF EnsuresProfile
  <2>2. Fresh(target) \in Profile
    BY <1>1 DEF Fresh, Profile
  <2>3. \A s : Stored(s) => Stored(s)'
    <3>1. CASE profile' = profile
      BY <1>1, <3>1, SameIs, AlikeCopies
    <3>2. CASE \E p \in Free : Put(p, Fresh(target))
      BY <1>1, <2>2, <3>2, PutIs, GainsCopies
    <3>3. QED
      BY <1>3, <3>1, <3>2 DEF EnsuresProfile
  <2>4. QED
    BY <2>1, <2>3, StaysStored DEF Away, Early, Unspoiled
<1>4. CASE Activates \/ Awaits \/ Rekeys \/ Excused
  <2>1. at \in {"activate", "await", "rekey", "verdict"}
        /\ at' \in {"await", "client", "verdict", "rekey", "activate", "deactivated"}
        /\ UNCHANGED <<had, proven, missed>>
    BY <1>4 DEF Activates, Awaits, Rekeys, Excused
  <2>2. Alike
    BY <1>1, <1>4, SameIs, RekeyIs DEF Activates, Awaits, Rekeys, Excused
  <2>3. QED
    BY <2>1, <2>2, AlikeCopies, StaysStored DEF Away, Early, Unspoiled
<1>5. CASE ClientClears
  <2>1. at = "client" /\ at' = "client" /\ UNCHANGED <<had, proven, missed>>
    BY <1>5 DEF ClientClears
  <2>2. PICK ps \in SUBSET {p \in Paths : p = active /\ ~profile[p].saved} : Loses(ps)
    BY <1>1, <1>5, ClientDisconnectsIs DEF ClientClears
  <2>3. \A s : Stored(s) => Stored(s)'
    BY <2>2, LosesStored
  <2>4. QED
    BY <2>1, <2>3, StaysStored DEF Away, Early, Unspoiled
<1>6. CASE ClientConnects
  <2>1. at = "client" /\ at' \in {"verdict", "idle"} /\ UNCHANGED <<had, proven, missed>>
    BY <1>6 DEF ClientConnects
  <2>2. [server |-> target, saved |-> FALSE, keyed |-> TRUE, auto |-> TRUE] \in Profile
    BY <1>1 DEF Profile
  <2>3. \A s : Stored(s) => Stored(s)'
    <3>1. CASE profile' = profile
      BY <1>1, <3>1, SameIs, AlikeCopies
    <3>2. CASE \E p \in Free : Put(p, [server |-> target, saved |-> FALSE, keyed |-> TRUE, auto |-> TRUE])
      BY <1>1, <2>2, <3>2, PutIs, GainsCopies
    <3>3. QED
      BY <1>6, <3>1, <3>2 DEF ClientConnects
  <2>4. QED
    BY <2>1, <2>3, StaysStored DEF Away, Early, Unspoiled
<1>7. CASE Carried
  <2> SUFFICES ASSUME Unspoiled'
               PROVE  NoLeftOvers' /\ LastCopy'
    BY DEF CopySafe
  <2>1. at = "verdict" /\ at' \in {"tidy", "idle"} /\ UNCHANGED <<active, had, missed>>
        /\ proven' = proven \cup {target} /\ active \in CopiesOf(target)
    BY <1>7 DEF Carried, Refers
  <2>2. \A s \in Good : Stored(s)
    BY <2>1 DEF CopySafe, Unspoiled, LastCopy, Away
  <2>3. PICK ps \in SUBSET (CopiesOf(target) \ {active}) : Loses(ps)
    BY <1>1, <1>7, SameIs, DeleteIs DEF Carried, StaleCopies
  <2>4. \A s : CopiesOf(s)' = CopiesOf(s) \ ps
    BY <2>3, LosesCopies
  <2>5. ASSUME NEW s \in Good'
        PROVE  Kept(s)'
    <3>1. CASE s = target
      <4>1. active \in CopiesOf(s)'
        BY <2>1, <2>3, <2>4, <3>1
      <4>2. QED
        BY <2>1, <4>1 DEF Kept
    <3>2. CASE s # target
      <4>1. s \in Good /\ ps \cap CopiesOf(s) = {}
        BY <2>1, <2>3, <3>2 DEF CopiesOf
      <4>2. Stored(s)'
        BY <2>2, <2>3, <4>1, LosesStored
      <4>3. QED
        BY <4>2 DEF Stored, Kept
    <3>3. QED
      BY <3>1, <3>2
  <2>6. QED
    BY <2>1, <2>5 DEF NoLeftOvers, LastCopy, Early, Away
<1>8. CASE Blamed
  <2>1. at = "verdict" /\ at' = "deactivated" /\ UNCHANGED <<had, missed>> /\ proven' = proven \ {target}
    BY <1>8 DEF Blamed
  <2>2. PICK ps \in SUBSET CopiesOf(target) : Loses(ps)
    BY <1>1, <1>8, DeleteIs DEF Blamed, StaleCopies
  <2>3. ASSUME NEW s \in Good', Stored(s)
        PROVE  s \in Good /\ Stored(s)'
    <3>1. s \in Good /\ ps \cap CopiesOf(s) = {}
      BY <2>1, <2>2 DEF CopiesOf
    <3>2. QED
      BY <2>2, <2>3, <3>1, LosesStored
  <2>4. \A s \in Good' : s \in Good
    BY <2>1
  <2>5. QED
    BY <2>1, <2>3, <2>4, StaysStored DEF Away, Early, Unspoiled
<1>9. CASE AfterFailure
  <2>1. at = "deactivated" /\ UNCHANGED <<profile, had, proven, missed>>
    BY <1>9 DEF AfterFailure
  <2>2. \A s : (Stored(s) => Stored(s)') /\ (Stored(s) => Kept(s)')
    BY <2>1 DEF Stored, Kept, CopiesOf, Paths
  <2>3. CASE at' = "client"
    BY <2>1, <2>2, <2>3, StaysStored DEF Away, Early, Unspoiled
  <2>4. CASE at' = "restore" /\ live.transient /\ active' = active
    <3>1. active \in Paths /\ ~profile[active].saved
      BY <2>1, <2>4 DEF Refers
    <3>2. active' \in Paths' /\ ~profile'[active'].saved
      BY <2>1, <2>4, <3>1 DEF Paths
    <3>3. QED
      BY <2>1, <2>2, <2>4, <3>2 DEF CopySafe, NoLeftOvers, LastCopy, Early, Away, Unspoiled
  <2>5. QED
    BY <1>9, <2>3, <2>4 DEF AfterFailure
<1>10. QED
  BY <1>2, <1>3, <1>4, <1>5, <1>6, <1>7, <1>8, <1>9 DEF Ups

\* Neither does what happens meanwhile cost a server its last copy.
LEMMA AroundKeeps ==
  ASSUME Typed, Refers, CopySafe, Around
  PROVE  CopySafe'
<1>1. Profiled /\ 0 \notin Paths /\ Free \subseteq Slots /\ Free \cap Paths = {} /\ active \in Paths \cup {0}
      /\ target \in Servers /\ (at = "save" => active \in Paths)
  BY PathsAre DEF Typed, Refers
<1> USE DEF Go, world, client, request, record, Good
<1>2. CASE NMStarts
  <2> SUFFICES ASSUME Unspoiled'
               PROVE  NoLeftOvers' /\ LastCopy'
    BY DEF CopySafe
  <2>1. /\ UNCHANGED <<profile, at, live, former, had, proven, orphan>> /\ active = 0
        /\ active' \in Paths /\ profile[active'].auto /\ missed \subseteq missed'
    BY <1>2 DEF NMStarts, Noting
  <2>2. NoLeftOvers /\ LastCopy /\ at # "save"
    BY <1>1, <2>1 DEF CopySafe, Unspoiled
  <2>3. Paths' = Paths /\ \A s : CopiesOf(s)' = CopiesOf(s) /\ (LeftOver(s)' => LeftOver(s))
                                 /\ (Kept(s) => Stored(s)' /\ Kept(s)')
    BY <1>1, <2>1 DEF Kept, Stored, LeftOver, CopiesOf, Paths
  <2>4. LastCopy'
    BY <2>1, <2>2, <2>3 DEF LastCopy
  <2>5. at = "restore" => \A s \in Good : LeftOver(s)' =>
          \A p \in CopiesOf(s)' : profile'[p].saved => p # active' /\ ~profile'[p].auto
    BY <1>1, <2>1, <2>2, <2>3 DEF NoLeftOvers
  <2>6. at = "disconnect" /\ live'.transient =>
          \A p \in CopiesOf(live.server)' : profile'[p].saved => ~profile'[p].auto
    <3>1. CopiesOf(live.server)' = CopiesOf(live.server)
      BY <2>1, <2>3
    <3>2. QED
      BY <2>1, <2>2, <3>1 DEF NoLeftOvers
  <2>7. at \in {"drop", "duplicates"} =>
          \A p \in former' \cap Paths' : profile'[p].saved /\ profile'[p].server \in Good' =>
            \A q \in CopiesOf(profile[p].server)' : profile'[q].saved
    <3>1. \A p : CopiesOf(profile[p].server)' = CopiesOf(profile[p].server)
      BY <2>1, <2>3
    <3>2. QED
      BY <2>1, <2>2, <2>3, <3>1 DEF NoLeftOvers
  <2>8. QED
    BY <2>1, <2>2, <2>3, <2>4, <2>5, <2>6, <2>7 DEF NoLeftOvers
<1>3. CASE Crashes
  <2>1. at' = "idle" /\ UNCHANGED <<profile, active, had, proven>> /\ missed \subseteq missed'
    BY <1>3 DEF Crashes, Noting
  <2>2. \A s : Kept(s) => Kept(s)'
    BY <2>1 DEF Kept, CopiesOf, Paths
  <2>3. QED
    BY <2>1, <2>2 DEF CopySafe, Unspoiled, NoLeftOvers, LastCopy, Early, Away
<1>4. CASE OrphanLands
  <2> SUFFICES ASSUME Unspoiled'
               PROVE  NoLeftOvers' /\ LastCopy'
    BY DEF CopySafe
  <2>1. /\ UNCHANGED <<at, live, former, had, proven>> /\ active = 0 /\ orphan /\ missed \subseteq missed'
    BY <1>4 DEF OrphanLands, Noting
  <2>2. NoLeftOvers /\ LastCopy /\ at \notin {"save", "disconnect", "drop", "duplicates"}
    <3>1. NoLeftOvers /\ LastCopy
      BY <2>1 DEF CopySafe, Unspoiled
    <3>2. QED
      BY <1>1, <2>1, <3>1 DEF NoLeftOvers, Refers
  <2>3. PICK p \in Free : Put(p, [server |-> target, saved |-> FALSE, keyed |-> TRUE, auto |-> TRUE]) /\ active' = p
    BY <1>4 DEF OrphanLands
  <2>4. PICK r \in Profile : Gains(p, r) /\ r.server = target /\ ~r.saved
    <3>1. [server |-> target, saved |-> FALSE, keyed |-> TRUE, auto |-> TRUE] \in Profile
      BY <1>1 DEF Profile
    <3>2. QED
      BY <1>1, <2>3, <3>1, PutIs
  <2>5. p \notin Paths /\ \A s : /\ CopiesOf(s)' = CopiesOf(s) \cup (IF target = s THEN {p} ELSE {})
                                 /\ \A q \in CopiesOf(s) : profile'[q] = profile[q]
                                 /\ Stored(s) => Stored(s)'
    BY <1>1, <2>4, GainsCopies
  <2>6. \A s \in Good : Stored(s) /\ Stored(s)'
    BY <1>1, <2>1, <2>2, <2>5, KeptIsStored DEF LastCopy, CopiesOf
  <2>7. \A s : LeftOver(s)' => LeftOver(s)
    <3>1. \A s : 0 \notin CopiesOf(s)
      BY <1>1 DEF CopiesOf
    <3>2. QED
      BY <2>1, <2>3, <2>5, <3>1 DEF LeftOver
  <2>8. profile'[p] = r
    BY <2>4 DEF Gains
  <2>9. at = "restore" => active' \in Paths' /\ ~profile'[active'].saved
    BY <2>3, <2>4, <2>8 DEF Gains
  <2>10. \A s \in Good : Kept(s)'
    BY <2>6 DEF Kept, Stored
  <2>11. QED
    BY <2>1, <2>2, <2>6, <2>7, <2>9, <2>10 DEF NoLeftOvers, LastCopy
<1>5. CASE LingererGoes
  <2> SUFFICES ASSUME Unspoiled'
               PROVE  NoLeftOvers' /\ LastCopy'
    BY DEF CopySafe
  <2>1. UNCHANGED <<active, at, live, former, had, proven, missed, orphan>>
    BY <1>5 DEF LingererGoes
  <2>2. NoLeftOvers /\ LastCopy
    BY <2>1 DEF CopySafe, Unspoiled
  <2>3. PICK p \in Paths : p # active /\ ~profile[p].saved /\ Loses({p})
    BY <1>1, <1>5, DeleteIs DEF LingererGoes
  <2>4. Paths' = Paths \ {p} /\ (\A q \in Paths' : profile'[q] = profile[q])
        /\ \A s : CopiesOf(s)' = CopiesOf(s) \ {p} /\ \A q \in CopiesOf(s)' : profile'[q] = profile[q]
    BY <2>3, LosesCopies DEF Loses
  <2>5. \A s : (Stored(s) => Stored(s)') /\ (Kept(s) => Kept(s)') /\ (LeftOver(s)' => LeftOver(s))
    BY <2>1, <2>3, <2>4 DEF Stored, Kept, LeftOver
  <2>6. CopiesOf(live.server)' = CopiesOf(live.server) \ {p}
        /\ \A q \in CopiesOf(live.server)' : profile'[q] = profile[q]
    BY <2>1, <2>4
  <2>7. at = "restore" => \/ active' \in Paths' /\ ~profile'[active'].saved
                          \/ \A s \in Good : LeftOver(s)' => \A q \in CopiesOf(s)' :
                               profile'[q].saved => q # active' /\ ~profile'[q].auto
    <3>1. active \in Paths => active \in Paths' /\ profile'[active] = profile[active]
      BY <2>3, <2>4
    <3>2. QED
      BY <2>1, <2>2, <2>4, <2>5, <3>1 DEF NoLeftOvers
  <2>8. at \in {"drop", "duplicates"} =>
          \A q \in former' \cap Paths' : profile'[q].saved /\ profile'[q].server \in Good' =>
            \A t \in CopiesOf(profile[q].server)' : profile'[t].saved
    <3>1. ASSUME at \in {"drop", "duplicates"}, NEW q \in former, q \in Paths', profile'[q].saved,
                 NEW s \in Good, s = profile'[q].server, NEW t \in CopiesOf(s)'
          PROVE  profile'[t].saved
      <4>1. q \in Paths /\ profile'[q] = profile[q] /\ t \in CopiesOf(s) /\ profile'[t] = profile[t]
        BY <2>4, <3>1
      <4>2. QED
        BY <2>2, <3>1, <4>1 DEF NoLeftOvers
    <3>2. QED
      BY <2>1, <3>1
  <2>9. NoLeftOvers'
    <3>1. at = "save" => CopiesOf(live.server)' = {active'}
      BY <2>1, <2>2, <2>3, <2>6 DEF NoLeftOvers
    <3>2. at = "disconnect" /\ live'.transient =>
            \A q \in CopiesOf(live.server)' : profile'[q].saved => ~profile'[q].auto
      BY <2>1, <2>2, <2>6 DEF NoLeftOvers
    <3>3. QED
      BY <2>1, <2>2, <2>5, <2>7, <2>8, <3>1, <3>2 DEF NoLeftOvers
  <2>10. QED
    BY <2>1, <2>2, <2>5, <2>9 DEF LastCopy
<1>6. QED
  BY <1>2, <1>3, <1>4, <1>5 DEF Around

\* The types, what is live and the last copies, for every set of servers, any number of
\* profile paths and everything that may go wrong.
THEOREM LastCopyAlways == ProfilesSpec => [](ProfilesTypeOK /\ Refers /\ CopySafe)
<1>1. ProfilesInit => Typed /\ Refers /\ CopySafe
  BY TypedStarts DEF ProfilesInit, Refers, CopySafe, NoLeftOvers, LastCopy, Good, Early, Away
<1>2. Typed /\ Refers /\ CopySafe /\ [ProfilesNext]_pvars => (Typed /\ Refers /\ CopySafe)'
  <2> SUFFICES ASSUME Typed, Refers, CopySafe, [ProfilesNext]_pvars
               PROVE  (Typed /\ Refers /\ CopySafe)'
    OBVIOUS
  <2>1. /\ active \in Paths \cup {0}
        /\ at = "save" => live.server \in Servers
        /\ at = "persist" => live.path \in Slots
    BY PathsAre DEF Typed, Refers
  <2>2. Typed'
    BY <2>1, TypedKept
  <2>3. Refers'
    BY RefersKept
  <2>4. CASE ProfilesNext
    BY <2>2, <2>3, <2>4, DownsKeep, RestoresKeep, UpsKeep, AroundKeeps DEF ProfilesNext
  <2>5. CASE UNCHANGED pvars
    <3>1. CopySafe'
      BY <2>5 DEF pvars, CopySafe, Unspoiled, NoLeftOvers, LastCopy, Good, Kept, Stored, LeftOver, CopiesOf, Paths
    <3>2. QED
      BY <2>2, <2>3, <3>1
  <2>6. QED
    BY <2>4, <2>5
<1>3. Typed /\ Refers => ProfilesTypeOK
  BY DEF Typed, Refers, ProfilesTypeOK, Profiled, Steps
<1>4. QED
  BY <1>1, <1>2, <1>3, PTL DEF ProfilesSpec

\* ProvenKept, for every set of servers and any number of copies: at no step of a
\* teardown or an attempt, with whatever is started, left behind or killed around it, is
\* the last profile of a server that has carried here deleted (teardown.rs down,
\* proc.rs preserve and dedupe, connect.rs restore).
THEOREM ProvenKeptAlways == ProfilesSpec => []ProvenKept
<1>1. CopySafe => ProvenKept
  BY DEF CopySafe, Unspoiled, LastCopy, Good, ProvenKept
<1>2. QED
  BY <1>1, LastCopyAlways, PTL

===============================================================================
