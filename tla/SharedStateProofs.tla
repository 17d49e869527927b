---------------------------- MODULE SharedStateProofs ---------------------------
(***************************************************************************)
(* The two things pvpn shares with Proton's client: Proton's list, while a *)
(* hop narrows it, for every set of servers, of patterns and of processes  *)
(* that heal and extend the list; and the certificate, for every set of    *)
(* processes that read, renew and remember it.                             *)
(***************************************************************************)
EXTENDS Steer, Renewal, FiniteSetTheorems, TLAPS

-------------------------------------------------------------------------------
(***************************************************************************)
(* Proton's list.                                                          *)
(***************************************************************************)
\* A process that is to write has read.
ReadsFirst ==
  /\ \A p \in SteerProcs : at[p] \in {"pad", "reenable"} => mem[p] \in Lists
  /\ at[Hop] \in {"copy", "claim", "write"} => mem[Hop] \in Lists

SteerTyped ==
  /\ list \in Lists /\ backup \in Lists \cup {None} /\ want \in Patterns
  /\ at = [p \in SteerProcs |-> at[p]] /\ mem \in [SteerProcs -> Lists \cup {None}]
  /\ client \in (SUBSET Servers) \cup {None}
  /\ ReadsFirst

\* The marker is the hop's only while the hop is at it.
MarkedAtWork == marker = Hop => at[Hop] \in {"write", "pick", "restore", "unmark"}

\* While nobody has overtaken anybody: the backup is Proton's; the hop has
\* healed before it copies, holds the marker while it writes, and has put the
\* list back before it takes the marker away; nobody else is about to mend,
\* unmark or fetch under its marker.
Guarded ==
  /\ backup # None => backup.by # "steer"
  /\ at[Hop] \in {"release", "reenable", "stale", "pad", "read", "copy", "claim", "write", "unmark"} =>
       list.by # "steer"
  /\ at[Hop] \in {"pad", "reenable", "copy", "claim", "write"} => mem[Hop].by # "steer"
  /\ at[Hop] \in {"write", "pick", "restore", "unmark"} => marker = Hop
  /\ at[Hop] = "write" => backup # None
  /\ marker = Hop => \A q \in SteerProcs \ {Hop} : at[q] \notin {"mend", "release", "fetch"}
  /\ \A q \in SteerProcs : at[q] = "release" => list.by # "steer"
  /\ \A q \in SteerProcs : at[q] = "reenable" => mem[q].by # "steer"

\* What Proton's client is about to read is the narrowed list, whole.
Narrowed ==
  at[Hop] = "pick" =>
    list.by = "steer" /\ list.loads /\ Servers \ want \subseteq list.off

\* The two properties, and what they rest on, as long as nobody was overtaken.
InOrder ==
  /\ Guarded /\ Narrowed
  /\ list.by = "steer" => backup # None /\ marker # None
  /\ pick # None => pick \in want

SteerInductive == MarkedAtWork /\ (~raced => InOrder)

-------------------------------------------------------------------------------
\* What is written to the list is a list, and which servers it hides.
LEMMA Written ==
  ASSUME NEW l \in Lists
  PROVE  /\ [l EXCEPT !.off = {}, !.by = "healed"] \in Lists
         /\ [l EXCEPT !.off = {}, !.by = "healed"].by = "healed"
         /\ [l EXCEPT !.fresh = TRUE, !.loads = TRUE] \in Lists
         /\ [l EXCEPT !.fresh = TRUE, !.loads = TRUE].by = l.by
         /\ [l EXCEPT !.fresh = TRUE, !.loads = TRUE].off = l.off
         /\ [l EXCEPT !.fresh = TRUE, !.loads = TRUE].loads = TRUE
         /\ Ages(l) \in Lists /\ Ages(l).by = l.by
  BY DEF Lists, Ages

\* The narrowed list is a list, marked as such, that hides everything not asked for.
LEMMA SteeredIs ==
  ASSUME NEW l \in Lists, want \in Patterns
  PROVE  /\ Steered(l) \in Lists /\ Steered(l).by = "steer" /\ Steered(l).loads = TRUE
         /\ Servers \ want \subseteq Steered(l).off
<1> DEFINE off == (Servers \ want)
                     \cup (want \cap (IF want \ l.off # {} THEN l.off ELSE l.off \ Endpointed))
<1>1. want \subseteq Servers
  BY SteerAssumption DEF SteerAssumption
<1>2. off \subseteq Servers /\ Servers \ want \subseteq off
  BY <1>1
<1>3. Steered(l) = [l EXCEPT !.off = off, !.by = "steer", !.fresh = TRUE, !.loads = TRUE]
  BY DEF Steered
<1> HIDE DEF off
<1>4. QED
  BY <1>2, <1>3 DEF Lists

\* The types, and that whoever writes has read.
LEMMA SteerTypedAlways == SteerSpec => []SteerTyped
<1> USE SteerAssumption, MarksAssumption DEF SteerAssumption, MarksAssumption
<1>1. SteerInit => SteerTyped
  <2> SUFFICES ASSUME SteerInit
               PROVE  SteerTyped
    OBVIOUS
  <2>1. list \in Lists
    BY DEF SteerInit, Lists
  <2>2. /\ backup = None /\ want \in Patterns /\ client = None
        /\ at = [p \in SteerProcs |-> "rest"] /\ mem = [p \in SteerProcs |-> None]
    BY DEF SteerInit
  <2>3. Hop \in SteerProcs
    BY DEF SteerProcs
  <2>4. \A p \in SteerProcs : at[p] = "rest" /\ mem[p] = None
    BY <2>2
  <2>5. ReadsFirst
    BY <2>3, <2>4 DEF ReadsFirst
  <2>6. at = [p \in SteerProcs |-> at[p]] /\ mem \in [SteerProcs -> Lists \cup {None}]
    BY <2>2
  <2>7. QED
    BY <2>1, <2>2, <2>5, <2>6 DEF SteerTyped
<1>2. SteerTyped /\ [SteerNext]_steerVars => SteerTyped'
  <2> SUFFICES ASSUME SteerTyped, [SteerNext]_steerVars
               PROVE  SteerTyped'
    OBVIOUS
  <2> USE DEF SteerTyped, ReadsFirst, Goes, Reads, Forgets
  <2>0. Hop \in SteerProcs /\ Chore \in SteerProcs
    BY DEF SteerProcs
  <2>1. ASSUME NEW p \in SteerProcs, SteerBegin(p) \/ HealLook(p) \/ HealRelease(p)
        PROVE  SteerTyped'
    BY <2>0, <2>1 DEF SteerBegin, HealLook, HealRelease
  <2>2. ASSUME NEW p \in SteerProcs, HealMend(p)
        PROVE  SteerTyped'
    BY <2>0, <2>2 DEF HealMend
  <2>3. ASSUME NEW p \in SteerProcs, HealReenable(p)
        PROVE  SteerTyped'
    <3>1. mem[p] \in Lists
      BY <2>3 DEF HealReenable
    <3>2. list' \in Lists
      BY <2>3, <3>1, Written DEF HealReenable
    <3>3. QED
      BY <2>0, <2>3, <3>2 DEF HealReenable
  <2>4. ASSUME NEW p \in SteerProcs, ExtendLook(p)
        PROVE  SteerTyped'
    BY <2>0, <2>4 DEF ExtendLook
  <2>5. ASSUME NEW p \in SteerProcs, ExtendWrite(p)
        PROVE  SteerTyped'
    <3>1. mem[p] \in Lists
      BY <2>5 DEF ExtendWrite
    <3>2. list' \in Lists
      BY <2>5, <3>1, Written DEF ExtendWrite
    <3>3. QED
      BY <2>0, <2>5, <3>2 DEF ExtendWrite
  <2>6. ASSUME NEW p \in SteerProcs, SteerCrash(p)
        PROVE  SteerTyped'
    <3>1. at' = [at EXCEPT ![p] = "rest"] /\ mem' = [mem EXCEPT ![p] = None]
          /\ UNCHANGED <<list, backup, want, client>>
      BY <2>6 DEF SteerCrash
    <3>2. QED
      BY <2>0, <3>1
  <2>7. ASSUME SteerRead \/ SteerCopy \/ SteerClaim
        PROVE  SteerTyped'
    <3>1. ASSUME SteerRead
          PROVE  SteerTyped'
      BY <2>0, <3>1 DEF SteerRead
    <3>2. ASSUME SteerCopy
          PROVE  SteerTyped'
      BY <2>0, <3>2 DEF SteerCopy
    <3>3. ASSUME SteerClaim
          PROVE  SteerTyped'
      <4>1. at[Hop] = "claim" /\ at' = [at EXCEPT ![Hop] = "write"]
            /\ UNCHANGED <<list, backup, mem, want, client>>
        BY <3>3 DEF SteerClaim
      <4>2. QED
        BY <2>0, <4>1
    <3>4. QED
      BY <2>7, <3>1, <3>2, <3>3
  <2>8. ASSUME SteerWrite
        PROVE  SteerTyped'
    BY <2>0, <2>8, SteeredIs DEF SteerWrite
  <2>9. ASSUME ClientPicks
        PROVE  SteerTyped'
    <3>1. \A down \in SUBSET Servers :
            [list EXCEPT !.off = down, !.by = "proton", !.loads = TRUE] \in Lists
      BY DEF Lists
    <3>2. \A down \in Outages : down \in SUBSET Servers
      OBVIOUS
    <3>3. \/ list' = list
          \/ \E down \in Outages : list' = [list EXCEPT !.off = down, !.by = "proton", !.loads = TRUE]
      BY <2>9, Zenon DEF ClientPicks
    <3>4. list' \in Lists
      <4>1. list \in Lists
        OBVIOUS
      <4>2. ASSUME NEW down \in Outages,
                   list' = [list EXCEPT !.off = down, !.by = "proton", !.loads = TRUE]
            PROVE  list' \in Lists
        BY <4>2, <3>1, <3>2
      <4>3. QED
        BY <4>1, <4>2, <3>3
    <3>5. QED
      BY <2>0, <2>9, <3>4 DEF ClientPicks
  <2>10. ASSUME SteerRestore \/ SteerUnmark \/ SteerEnds
         PROVE  SteerTyped'
    BY <2>0, <2>10 DEF SteerRestore, SteerUnmark, SteerEnds
  <2>11. ASSUME FetchDue \/ FetchFails
         PROVE  SteerTyped'
    BY <2>0, <2>11 DEF FetchDue, FetchFails
  <2>12. ASSUME FetchLands
         PROVE  SteerTyped'
    <3>1. list' \in Lists
      BY <2>12 DEF FetchLands, Lists
    <3>2. QED
      BY <2>0, <2>12, <3>1 DEF FetchLands
  <2>13. ASSUME ClientReads
         PROVE  SteerTyped'
    <3>1. list.off \in SUBSET Servers
      BY DEF Lists
    <3>2. QED
      BY <2>13, <3>1 DEF ClientReads
  <2>14. ASSUME ClientResaves
         PROVE  SteerTyped'
    <3>1. /\ client # None /\ client' = None /\ UNCHANGED <<backup, at, mem, want>>
          /\ list' = [off |-> client, by |-> "resaved", fresh |-> TRUE, loads |-> TRUE, latest |-> FALSE]
      BY <2>14 DEF ClientResaves
    <3>2. client \in SUBSET Servers
      BY <3>1
    <3>3. \A off \in SUBSET Servers :
            [off |-> off, by |-> "resaved", fresh |-> TRUE, loads |-> TRUE, latest |-> FALSE] \in Lists
      BY DEF Lists
    <3>4. list' \in Lists
      BY <3>1, <3>2, <3>3
    <3>5. client' \in (SUBSET Servers) \cup {None} /\ UNCHANGED <<backup, at, mem, want>>
      BY <3>1
    <3>6. QED
      BY <3>4, <3>5
  <2>15. ASSUME HoursPass
         PROVE  SteerTyped'
    BY <2>15, Written DEF HoursPass
  <2>16. CASE UNCHANGED steerVars
    BY <2>16 DEF steerVars
  <2>17. QED
    BY <2>1, <2>2, <2>3, <2>4, <2>5, <2>6, <2>7, <2>8, <2>9, <2>10, <2>11, <2>12, <2>13, <2>14,
       <2>15, <2>16 DEF SteerNext
<1>3. QED
  BY <1>1, <1>2, PTL DEF SteerSpec

-------------------------------------------------------------------------------
\* The order of a hop's steps (cache.rs steer_cache, restore_cache) against those
\* of everybody who heals, extends or fetches the list: the invariant, always.
THEOREM SteerInductiveAlways == SteerSpec => []SteerInductive
<1> USE SteerAssumption, MarksAssumption DEF SteerAssumption, MarksAssumption
<1>0. Hop \in SteerProcs /\ Chore \in SteerProcs /\ Hop # Chore /\ Hop # None /\ Hop \notin Readers
  BY DEF SteerProcs
<1>1. SteerInit => SteerInductive
  <2> SUFFICES ASSUME SteerInit
               PROVE  SteerInductive
    OBVIOUS
  <2>1. \A p \in SteerProcs : at[p] = "rest"
    BY DEF SteerInit
  <2>2. backup = None /\ marker = None /\ pick = None /\ list.by = "proton"
    BY DEF SteerInit
  <2>3. QED
    BY <1>0, <2>1, <2>2 DEF SteerInductive, MarkedAtWork, InOrder, Guarded, Narrowed
<1>2. SteerTyped /\ SteerInductive /\ [SteerNext]_steerVars => SteerInductive'
  <2> SUFFICES ASSUME SteerTyped, SteerInductive, [SteerNext]_steerVars
               PROVE  SteerInductive'
    OBVIOUS
  <2> USE <1>0 DEF SteerTyped, ReadsFirst, SteerInductive, MarkedAtWork, InOrder, Guarded, Narrowed, Goes, Reads,
                   Forgets, OwnerAlive
  <2>1. ASSUME NEW p \in SteerProcs, SteerBegin(p)
        PROVE  SteerInductive'
    BY <2>1 DEF SteerBegin
  <2>2. ASSUME NEW p \in SteerProcs, HealLook(p)
        PROVE  SteerInductive'
    BY <2>2 DEF HealLook
  <2>3. ASSUME NEW p \in SteerProcs, HealMend(p)
        PROVE  SteerInductive'
    BY <2>3 DEF HealMend
  <2>4. ASSUME NEW p \in SteerProcs, HealRelease(p)
        PROVE  SteerInductive'
    BY <2>4 DEF HealRelease
  <2>5. ASSUME NEW p \in SteerProcs, HealReenable(p)
        PROVE  SteerInductive'
    <3>1. /\ at[p] = "reenable" /\ list' = [mem[p] EXCEPT !.off = {}, !.by = "healed"]
          /\ raced' = (raced \/ list # mem[p])
          /\ at' = [at EXCEPT ![p] = "stale"] /\ mem' = [mem EXCEPT ![p] = None]
          /\ UNCHANGED <<backup, marker, want, pick>>
      BY <2>5 DEF HealReenable, Overtaken
    <3>2. list'.by = "healed"
      BY <3>1, Written
    <3>3. \A q \in SteerProcs : q # p => at'[q] = at[q] /\ mem'[q] = mem[q]
      BY <3>1
    <3>4. at'[p] = "stale"
      BY <3>1
    <3>5. MarkedAtWork'
      BY <3>1, <3>3, <3>4
    <3>6. ASSUME ~raced'
          PROVE  InOrder'
      <4>1. ~raced /\ list = mem[p] /\ InOrder
        BY <3>1, <3>6
      <4>2. list.by # "steer"
        BY <4>1, <3>1
      <4>3. Guarded'
        BY <4>1, <3>1, <3>2, <3>3, <3>4
      <4>4. Narrowed'
        BY <4>1, <4>2, <3>1, <3>3, <3>4
      <4>5. QED
        BY <4>1, <4>3, <4>4, <3>1, <3>2
    <3>7. QED
      BY <3>5, <3>6
  <2>6. ASSUME NEW p \in SteerProcs, ExtendLook(p)
        PROVE  SteerInductive'
    BY <2>6 DEF ExtendLook
  <2>7. ASSUME NEW p \in SteerProcs, ExtendWrite(p)
        PROVE  SteerInductive'
    <3>1. /\ at[p] = "pad" /\ list' = [mem[p] EXCEPT !.fresh = TRUE, !.loads = TRUE]
          /\ raced' = (raced \/ list # mem[p])
          /\ at' \in {[at EXCEPT ![p] = "read"], [at EXCEPT ![p] = "rest"]}
          /\ p # Hop => at' = [at EXCEPT ![p] = "rest"]
          /\ mem' = [mem EXCEPT ![p] = None]
          /\ UNCHANGED <<backup, marker, want, pick>>
      BY <2>7 DEF ExtendWrite, Overtaken
    <3>2. mem[p] \in Lists
      BY <3>1
    <3>3. list'.by = mem[p].by /\ list'.off = mem[p].off /\ list'.loads = TRUE
      BY <3>1, <3>2, Written
    <3>4. \A q \in SteerProcs : q # p => at'[q] = at[q] /\ mem'[q] = mem[q]
      BY <3>1
    <3>5. at'[p] \in {"read", "rest"} /\ (p # Hop => at'[p] = "rest")
      BY <3>1
    <3>6. MarkedAtWork'
      BY <3>1, <3>4, <3>5
    <3>7. ASSUME ~raced'
          PROVE  InOrder'
      <4>1. ~raced /\ list = mem[p] /\ InOrder
        BY <3>1, <3>7
      <4>2. list'.by = list.by /\ list'.off = list.off
        BY <4>1, <3>3
      <4>3. Guarded'
        BY <4>1, <4>2, <3>1, <3>4, <3>5
      <4>4. Narrowed'
        BY <4>1, <4>2, <3>1, <3>3, <3>4, <3>5
      <4>5. QED
        BY <4>1, <4>2, <4>3, <4>4, <3>1
    <3>8. QED
      BY <3>6, <3>7
  <2>8. ASSUME NEW p \in SteerProcs, SteerCrash(p)
        PROVE  SteerInductive'
    BY <2>8 DEF SteerCrash
  <2>9. ASSUME SteerRead
        PROVE  SteerInductive'
    BY <2>9 DEF SteerRead
  <2>10. ASSUME SteerCopy
         PROVE  SteerInductive'
    BY <2>10 DEF SteerCopy
  <2>11. ASSUME SteerClaim
         PROVE  SteerInductive'
    BY <2>11 DEF SteerClaim
  <2>12. ASSUME SteerWrite
         PROVE  SteerInductive'
    BY <2>12, SteeredIs DEF SteerWrite, Overtaken
  <2>13. ASSUME ClientPicks
         PROVE  SteerInductive'
    BY <2>13 DEF ClientPicks
  <2>14. ASSUME SteerRestore
         PROVE  SteerInductive'
    BY <2>14 DEF SteerRestore
  <2>15. ASSUME SteerUnmark \/ SteerEnds
         PROVE  SteerInductive'
    BY <2>15 DEF SteerUnmark, SteerEnds
  <2>16. ASSUME FetchDue \/ FetchFails
         PROVE  SteerInductive'
    BY <2>16 DEF FetchDue, FetchFails
  <2>17. ASSUME FetchLands
         PROVE  SteerInductive'
    BY <2>17 DEF FetchLands
  <2>18. ASSUME ClientReads
         PROVE  SteerInductive'
    BY <2>18 DEF ClientReads
  <2>19. ASSUME ClientResaves
         PROVE  SteerInductive'
    BY <2>19 DEF ClientResaves
  <2>20. ASSUME HoursPass
         PROVE  SteerInductive'
    <3>1. /\ \A p \in SteerProcs : at[p] = "rest"
          /\ list' = Ages(list) /\ backup' = IF backup = None THEN None ELSE Ages(backup)
          /\ UNCHANGED <<marker, at, mem, want, pick, raced>>
      BY <2>20 DEF HoursPass
    <3>2. list'.by = list.by
      BY <3>1, Written
    <3>3. backup = None => backup' = None
      BY <3>1
    <3>4. ASSUME backup # None
          PROVE  backup' # None /\ backup'.by = backup.by
      <4>1. backup \in Lists /\ backup' = Ages(backup)
        BY <3>1, <3>4
      <4>2. Ages(backup) \in Lists /\ Ages(backup).by = backup.by
        BY <4>1, Written
      <4>3. Ages(backup) # None
        BY <4>2
      <4>4. QED
        BY <4>1, <4>2, <4>3
    <3>5. MarkedAtWork' /\ marker # Hop
      BY <3>1
    <3>6. ASSUME ~raced'
          PROVE  InOrder'
      <4>1. InOrder
        BY <3>1, <3>6
      <4>2. Guarded'
        BY <4>1, <3>1, <3>3, <3>4, <3>5
      <4>3. Narrowed'
        BY <3>1
      <4>4. QED
        BY <4>1, <4>2, <4>3, <3>1, <3>2, <3>4
    <3>7. QED
      BY <3>5, <3>6
  <2>21. CASE UNCHANGED steerVars
    BY <2>21 DEF steerVars
  <2>22. QED
    BY <2>1, <2>2, <2>3, <2>4, <2>5, <2>6, <2>7, <2>8, <2>9, <2>10, <2>11, <2>12, <2>13, <2>14,
       <2>15, <2>16, <2>17, <2>18, <2>19, <2>20, <2>21 DEF SteerNext
<1>3. QED
  BY <1>1, <1>2, SteerTypedAlways, PTL DEF SteerSpec

\* Recoverable, for every set of servers and readers: as long as nobody acted on
\* a stale look, a narrowed list has Proton's own beside it, and a marker, at
\* every step at which anybody may be killed (cache.rs steer_cache,
\* heal_stranded_steer, restore_cache).
THEOREM RecoverableAlways == SteerSpec => []Recoverable
<1>1. SteerInductive => Recoverable
  BY DEF SteerInductive, InOrder, Guarded, Recoverable
<1>2. QED
  BY <1>1, SteerInductiveAlways, PTL

\* PicksNamed, for every set of patterns: a hop that was not overtaken lands on a
\* server it was asked for, or on none (cache.rs steer_cache, hold_off_refresh).
THEOREM PicksNamedAlways == SteerSpec => []PicksNamed
<1>1. SteerInductive => PicksNamed
  BY DEF SteerInductive, InOrder, PicksNamed
<1>2. QED
  BY <1>1, SteerInductiveAlways, PTL


-------------------------------------------------------------------------------
\* Proton does not have three quarters of the servers down at once (cache.rs:451,
\* on STRANDED_FRACTION).
ProtonKeepsMost == \A down \in Outages : 4 * Cardinality(down) < 3 * Cardinality(Servers)

\* While nobody was overtaken, and on that assumption: what the hop copies, and
\* has to put back, is a list nobody would mend or extend; it has no older
\* backup by then; the backup is what it copied until it is back.
Kept ==
  /\ \A p \in SteerProcs : /\ at[p] = "reenable" => LooksSteered(mem[p])
                           /\ at[p] = "pad" => ~mem[p].fresh
  /\ backup # None => ~LooksSteered(backup)
  /\ at[Hop] \in {"release", "reenable", "stale", "pad", "read", "copy"} => backup = None
  /\ at[Hop] \in {"release", "stale", "pad", "read", "copy"} => ~LooksSteered(list)
  /\ at[Hop] \in {"read", "copy"} => list.fresh
  /\ at[Hop] \in {"claim", "write", "pick", "restore", "unmark"} =>
       was \in Lists /\ ~LooksSteered(was) /\ was.fresh
  /\ at[Hop] = "claim" => backup \in {None, was}
  /\ at[Hop] \in {"write", "pick", "restore"} => backup = was
  /\ at[Hop] = "unmark" => list = was

KeptInTurn == ~raced => Kept

\* Whether a list looks steered is a matter of which servers it hides; one that
\* hides none does not, nor does one that says what Proton has down.
LEMMA ShapeIs ==
  ASSUME ProtonKeepsMost
  PROVE  /\ \A l, m : l.off = m.off => (LooksSteered(l) <=> LooksSteered(m))
         /\ \A l : l.off = {} => ~LooksSteered(l)
         /\ \A l : l.off \in Outages => ~LooksSteered(l)
<1>1. Cardinality(Servers) \in Nat /\ Cardinality({}) = 0
  BY FS_CardinalityType, FS_EmptySet, SteerAssumption DEF SteerAssumption
<1>2. \A l, m : l.off = m.off => (LooksSteered(l) <=> LooksSteered(m))
  BY DEF LooksSteered
<1>3. \A l : l.off = {} => ~LooksSteered(l)
  BY <1>1 DEF LooksSteered, MinFreeToJudge
<1>4. \A l : l.off \in Outages => ~LooksSteered(l)
  <2>1. \A down \in Outages : Cardinality(down) \in Nat
    <3>1. \A down \in Outages : IsFiniteSet(down)
      BY FS_Subset, SteerAssumption DEF SteerAssumption
    <3>2. QED
      BY <3>1, FS_CardinalityType
  <2>2. QED
    BY <1>1, <2>1 DEF LooksSteered, ProtonKeepsMost
<1>5. QED
  BY <1>2, <1>3, <1>4

\* PutsBack, for every set of servers, patterns and readers, as long as Proton
\* does not have three quarters of the servers down: a hop that was not overtaken
\* leaves exactly the list it copied aside (cache.rs steer_cache, restore_cache).
\* Without that hypothesis it is not so: see the README.
THEOREM PutsBackAlways == ProtonKeepsMost => (SteerSpec => PutsBack)
<1> SUFFICES ASSUME ProtonKeepsMost
             PROVE  SteerSpec => PutsBack
  OBVIOUS
<1> USE SteerAssumption, MarksAssumption DEF SteerAssumption, MarksAssumption
<1>0. Hop \in SteerProcs /\ Chore \in SteerProcs /\ Hop # Chore /\ Hop # None /\ Hop \notin Readers
  BY DEF SteerProcs
<1>1. SteerInit => KeptInTurn
  <2> SUFFICES ASSUME SteerInit
               PROVE  Kept
    BY DEF KeptInTurn
  <2>1. (\A p \in SteerProcs : at[p] = "rest") /\ backup = None
    BY DEF SteerInit
  <2>2. QED
    BY <1>0, <2>1 DEF Kept
<1>2. SteerTyped /\ SteerInductive /\ KeptInTurn /\ [SteerNext]_steerVars => KeptInTurn'
  <2> SUFFICES ASSUME SteerTyped, SteerInductive, KeptInTurn, [SteerNext]_steerVars, ~raced'
               PROVE  Kept'
    BY DEF KeptInTurn
  <2> USE <1>0 DEF SteerTyped, ReadsFirst, Goes, Reads, Forgets
  <2>0. Kept /\ InOrder /\ MarkedAtWork
    <3>1. ~raced
      BY DEF SteerNext, SteerBegin, HealLook, HealMend, HealRelease, HealReenable, ExtendLook,
             ExtendWrite, SteerCrash, SteerRead, SteerCopy, SteerClaim, SteerWrite, ClientPicks,
             SteerRestore, SteerUnmark, SteerEnds, FetchDue, FetchLands, FetchFails, ClientReads,
             ClientResaves, HoursPass, steerVars
    <3>2. QED
      BY <3>1 DEF KeptInTurn, SteerInductive
  <2>1. ASSUME NEW p \in SteerProcs, SteerBegin(p)
        PROVE  Kept'
    BY <2>0, <2>1 DEF SteerBegin, Kept
  <2>2. ASSUME NEW p \in SteerProcs, HealLook(p)
        PROVE  Kept'
    BY <2>0, <2>2 DEF HealLook, Kept, OwnerAlive, MarkedAtWork
  <2>3. ASSUME NEW p \in SteerProcs, HealMend(p)
        PROVE  Kept'
    BY <2>0, <2>3 DEF HealMend, Kept, InOrder, Guarded
  <2>4. ASSUME NEW p \in SteerProcs, HealRelease(p)
        PROVE  Kept'
    BY <2>0, <2>4 DEF HealRelease, Kept
  <2>5. ASSUME NEW p \in SteerProcs, HealReenable(p)
        PROVE  Kept'
    <3>1. list = mem[p] /\ at[p] = "reenable" /\ mem[p] \in Lists
      BY <2>0, <2>5 DEF HealReenable, Overtaken, Kept
    <3>2. list'.off = {} /\ list'.fresh = list.fresh /\ at' = [at EXCEPT ![p] = "stale"]
          /\ mem' = [mem EXCEPT ![p] = None] /\ UNCHANGED <<backup, was>>
      BY <2>5, <3>1 DEF HealReenable, Lists
    <3>3. ~LooksSteered(list') /\ LooksSteered(list)
      BY <2>0, <3>1, <3>2, ShapeIs DEF Kept
    <3>4. QED
      BY <2>0, <3>1, <3>2, <3>3 DEF Kept
  <2>6. ASSUME NEW p \in SteerProcs, ExtendLook(p)
        PROVE  Kept'
    BY <2>0, <2>6 DEF ExtendLook, Kept
  <2>7. ASSUME NEW p \in SteerProcs, ExtendWrite(p)
        PROVE  Kept'
    BY <2>0, <2>7, ShapeIs, ZenonT(30) DEF ExtendWrite, Overtaken, Kept, Lists
  <2>8. ASSUME NEW p \in SteerProcs, SteerCrash(p)
        PROVE  Kept'
    BY <2>0, <2>8 DEF SteerCrash, Kept
  <2>9. ASSUME SteerRead \/ SteerCopy \/ SteerClaim \/ SteerWrite
        PROVE  Kept'
    <3>1. CASE SteerRead
      BY <2>0, <3>1 DEF SteerRead, Kept
    <3>2. CASE SteerCopy
      BY <2>0, <3>2 DEF SteerCopy, Kept
    <3>3. CASE SteerClaim
      BY <2>0, <3>3 DEF SteerClaim, Kept
    <3>4. CASE SteerWrite
      BY <2>0, <3>4 DEF SteerWrite, Kept
    <3>5. QED
      BY <2>9, <3>1, <3>2, <3>3, <3>4
  <2>10. ASSUME ClientPicks \/ SteerRestore \/ SteerUnmark \/ SteerEnds
         PROVE  Kept'
    <3>1. CASE ClientPicks
      BY <2>0, <3>1 DEF ClientPicks, Kept
    <3>2. CASE SteerRestore
      BY <2>0, <3>2 DEF SteerRestore, Kept
    <3>3. CASE SteerUnmark \/ SteerEnds
      BY <2>0, <3>3 DEF SteerUnmark, SteerEnds, Kept
    <3>4. QED
      BY <2>10, <3>1, <3>2, <3>3
  <2>11. ASSUME FetchDue \/ FetchFails \/ ClientReads
         PROVE  Kept'
    BY <2>0, <2>11 DEF FetchDue, FetchFails, ClientReads, Kept
  <2>12. ASSUME FetchLands
         PROVE  Kept'
    BY <2>0, <2>12, ShapeIs DEF FetchLands, Kept, InOrder, Guarded
  <2>13. ASSUME ClientResaves
         PROVE  Kept'
    BY <2>0, <2>13 DEF ClientResaves, Kept
  <2>14. ASSUME HoursPass
         PROVE  Kept'
    BY <2>0, <2>14, ShapeIs DEF HoursPass, Ages, Kept, Lists
  <2>15. CASE UNCHANGED steerVars
    BY <2>0, <2>15 DEF steerVars, Kept
  <2>16. QED
    BY <2>1, <2>2, <2>3, <2>4, <2>5, <2>6, <2>7, <2>8, <2>9, <2>10, <2>11, <2>12, <2>13, <2>14,
       <2>15 DEF SteerNext
<1>3. KeptInTurn /\ SteerTyped /\ [SteerNext]_steerVars =>
        [at[Hop] = "unmark" /\ at'[Hop] = "done" /\ ~raced => list = was]_steerVars
  BY DEF KeptInTurn, Kept
<1>4. QED
  BY <1>1, <1>2, <1>3, SteerTypedAlways, SteerInductiveAlways, PTL DEF SteerSpec, PutsBack

-------------------------------------------------------------------------------
(***************************************************************************)
(* The certificate.                                                        *)
(***************************************************************************)
\* A copy is at least as far gone as the certificate in the keyring.
NoYounger(copy) ==
  copy # NoCert /\ keyring # NoCert => Rank(copy.phase) >= Rank(keyring)

\* What a process has read it has from the file or the keyring, and it goes on
\* from what it has read.
SeenWhenNeeded ==
  \A p \in Renewers :
    /\ step[p] \in {"rest", "fast", "read"} => seen[p] = NoCert
    /\ step[p] \in {"remember", "know", "noted", "keep"} => seen[p] \in Copies

\* From here on a connect is not stopped.
SetOnUsable ==
  \A p \in Connects :
    step[p] \in {"keep", "go"} /\ seen[p] # NoCert => seen[p].phase # "lapsed"

CertInductive ==
  /\ CertTypeOK
  /\ NoYounger(file) /\ \A p \in Renewers : NoYounger(seen[p])
  /\ SeenWhenNeeded /\ SetOnUsable

-------------------------------------------------------------------------------
\* How far a phase is gone.
LEMMA RankOf ==
  /\ Rank("fresh") = 0 /\ Rank("due") = 1 /\ Rank("lapsed") = 2
  /\ \A phase \in Phases : Rank(phase) \in 0 .. 2 /\ (phase = "lapsed" <=> Rank(phase) = 2)
  BY DEF Rank, Phases

\* Time moves a copy on, and no further than the certificate.
LEMMA OlderKeeps ==
  ASSUME NEW copy \in Copies \cup {NoCert}, NEW phase \in Phases
  PROVE  /\ Older(copy, phase) \in Copies \cup {NoCert}
         /\ Older(copy, phase) = NoCert <=> copy = NoCert
         /\ copy \in Copies => Older(copy, phase) \in Copies
         /\ copy # NoCert => Rank(Older(copy, phase).phase) >= Rank(phase)
         /\ Rank(phase) < 2 /\ copy # NoCert /\ copy.phase # "lapsed" => Older(copy, phase).phase # "lapsed"
  BY RankOf, NoCertAssumption DEF Older, Copies, NoCertAssumption

\* A copy of what the keyring no longer has is a copy still.
LEMMA ReplacedKeeps ==
  ASSUME NEW copy \in Copies \cup {NoCert}
  PROVE  /\ Replaced(copy) \in Copies \cup {NoCert}
         /\ copy \in Copies => Replaced(copy) \in Copies
         /\ copy = NoCert => Replaced(copy) = NoCert
         /\ Replaced(copy) # NoCert => copy # NoCert /\ Replaced(copy).phase = copy.phase
  BY NoCertAssumption DEF Replaced, Copies, NoCertAssumption

\* What is written to the file is the copy, with or without the stamp.
LEMMA RememberKeeps ==
  ASSUME NEW copy \in Copies, RememberAs(copy), file \in Copies \cup {NoCert}
  PROVE  file' \in Copies /\ file'.phase = copy.phase
<1>1. \A kept \in BOOLEAN : /\ [copy EXCEPT !.tried = kept] \in Copies
                            /\ [copy EXCEPT !.tried = kept].phase = copy.phase
  BY DEF Copies
<1>2. file # NoCert => file.tried \in BOOLEAN
  BY DEF Copies
<1>3. \E kept \in BOOLEAN : file' = [copy EXCEPT !.tried = kept]
  BY <1>2 DEF RememberAs
<1>4. QED
  BY <1>1, <1>3

\* The invariant, whoever else is at work on the certificate.
THEOREM CertInductiveAlways == CertSpec => []CertInductive
<1> USE NoCertAssumption DEF NoCertAssumption
<1>1. CertInit => CertInductive
  BY DEF CertInit, CertInductive, CertTypeOK, SeenWhenNeeded, SetOnUsable, NoYounger, Renewers
<1>2. CertInductive /\ [CertNext]_certVars => CertInductive'
  <2> SUFFICES ASSUME CertInductive, [CertNext]_certVars
               PROVE  CertInductive'
    OBVIOUS
  <2> USE DEF CertInductive, CertTypeOK, Moves, Sees, CertRest
  <2>0. Connects \subseteq Renewers
    BY DEF Renewers
  <2>1. ASSUME NEW p \in Renewers, RenewerBegins(p)
        PROVE  CertInductive'
    BY <2>0, <2>1 DEF RenewerBegins, NoYounger, SeenWhenNeeded, SetOnUsable
  <2>2. ASSUME NEW p \in Renewers, StatusFast(p)
        PROVE  CertInductive'
    BY <2>0, <2>2 DEF StatusFast, NoYounger, SeenWhenNeeded, SetOnUsable
  <2>3. ASSUME NEW p \in Renewers, ReadKeyring(p)
        PROVE  CertInductive'
    <3> DEFINE copy == [phase |-> keyring, same |-> TRUE, tried |-> FALSE]
    <3>1. CASE /\ keyring # NoCert
               /\ step' = [step EXCEPT ![p] = "remember"]
               /\ seen' = [seen EXCEPT ![p] = copy]
      <4>1. copy \in Copies /\ copy.phase = keyring /\ Rank(keyring) \in 0 .. 2
        BY <3>1, RankOf DEF Copies
      <4> HIDE DEF copy
      <4>2. QED
        BY <2>0, <2>3, <3>1, <4>1 DEF ReadKeyring, NoYounger, SeenWhenNeeded, SetOnUsable
    <3>2. CASE step' \in {[step EXCEPT ![p] = "go"], [step EXCEPT ![p] = "rest"]} /\ UNCHANGED seen
      BY <2>0, <2>3, <3>2 DEF ReadKeyring, NoYounger, SeenWhenNeeded, SetOnUsable
    <3>3. QED
      BY <2>3, <3>1, <3>2 DEF ReadKeyring
  <2>4. ASSUME NEW p \in Renewers, Remember(p)
        PROVE  CertInductive'
    <3>1. seen[p] \in Copies
      BY <2>4 DEF Remember, SeenWhenNeeded
    <3>2. file' \in Copies /\ file'.phase = seen[p].phase
      BY <2>4, <3>1, RememberKeeps DEF Remember
    <3>3. QED
      BY <2>0, <2>4, <3>1, <3>2 DEF Remember, NoYounger, SeenWhenNeeded, SetOnUsable
  <2>5. ASSUME NEW p \in Renewers, DecideBackground(p) \/ DecideConnect(p) \/ DecidePerson(p)
        PROVE  CertInductive'
    BY <2>0, <2>5 DEF DecideBackground, DecideConnect, DecidePerson, NoYounger, SeenWhenNeeded,
                      SetOnUsable
  <2>6. ASSUME NEW p \in Renewers, NoteReads(p)
        PROVE  CertInductive'
    BY <2>0, <2>6 DEF NoteReads, NoYounger, SeenWhenNeeded, SetOnUsable
  <2>7. ASSUME NEW p \in Renewers, NoteWrites(p)
        PROVE  CertInductive'
    <3>1. seen[p] \in Copies
      BY <2>7 DEF NoteWrites, SeenWhenNeeded
    <3>2. file' \in Copies /\ file'.phase = seen[p].phase
      BY <2>7, <3>1 DEF NoteWrites, Copies
    <3>3. QED
      BY <2>0, <2>7, <3>1, <3>2 DEF NoteWrites, NoYounger, SeenWhenNeeded, SetOnUsable
  <2>8. ASSUME NEW p \in Renewers, RenewFails(p) \/ SetsOut(p)
        PROVE  CertInductive'
    BY <2>0, <2>8 DEF RenewFails, SetsOut, NoYounger, SeenWhenNeeded, SetOnUsable
  <2>9. ASSUME NEW p \in Renewers, Keep(p)
        PROVE  CertInductive'
    <3>1. seen[p] \in Copies
      BY <2>9 DEF Keep, SeenWhenNeeded
    <3>2. file' \in Copies /\ file'.phase = seen[p].phase
      BY <2>9, <3>1, RememberKeeps DEF Keep
    <3>3. QED
      BY <2>0, <2>9, <3>1, <3>2 DEF Keep, NoYounger, SeenWhenNeeded, SetOnUsable
  <2>10. ASSUME NEW p \in Renewers, RenewLands(p)
         PROVE  CertInductive'
    <3>1. keyring' = "fresh" /\ file' = Replaced(file)
          /\ step' = [step EXCEPT ![p] = "keep"] /\ UNCHANGED <<login, route>>
      BY <2>10 DEF RenewLands
    <3>2. seen' = [q \in Renewers |->
            IF q = p THEN [phase |-> "fresh", same |-> TRUE, tried |-> FALSE] ELSE Replaced(seen[q])]
      BY <2>10 DEF RenewLands
    <3>3. [phase |-> "fresh", same |-> TRUE, tried |-> FALSE] \in Copies
      BY DEF Copies, Phases
    <3>4. \A q \in Renewers : seen'[q] \in Copies \cup {NoCert}
      BY <3>2, <3>3, ReplacedKeeps
    <3>5. CertTypeOK'
      BY <3>1, <3>2, <3>4, ReplacedKeeps DEF Phases
    <3>6. \A copy \in Copies : Rank(copy.phase) >= Rank("fresh")
      BY RankOf DEF Copies
    <3>7. NoYounger(file)' /\ \A q \in Renewers : NoYounger(seen[q])'
      BY <3>1, <3>4, <3>5, <3>6 DEF NoYounger
    <3>8. SeenWhenNeeded'
      BY <3>1, <3>2, <3>3, ReplacedKeeps DEF SeenWhenNeeded
    <3>9. SetOnUsable'
      BY <2>0, <3>1, <3>2, ReplacedKeeps DEF SetOnUsable
    <3>10. QED
      BY <3>5, <3>7, <3>8, <3>9
  <2>11. ASSUME NEW cert \in {"fresh", NoCert}, UNCHANGED <<step, route>>, keyring' = cert,
                file' = Replaced(file), seen' = [q \in Renewers |-> Replaced(seen[q])],
                login' \in {login, "forget"}
         PROVE  CertInductive'
    <3>1. CertTypeOK'
      BY <2>11, ReplacedKeeps DEF Phases
    <3>2. \A copy \in Copies : Rank(copy.phase) >= Rank("fresh")
      BY RankOf DEF Copies
    <3>3. NoYounger(file)' /\ \A q \in Renewers : NoYounger(seen[q])'
      BY <2>11, <3>1, <3>2 DEF NoYounger
    <3>4. SeenWhenNeeded' /\ SetOnUsable'
      BY <2>0, <2>11, ReplacedKeeps DEF SeenWhenNeeded, SetOnUsable
    <3>5. QED
      BY <3>1, <3>3, <3>4
  <2>12. ASSUME ProtonRenews \/ SignsIn \/ SignsOut
         PROVE  CertInductive'
    BY <2>11, <2>12 DEF ProtonRenews, SignsIn, SignsOut, Signs
  <2>13. ASSUME Forget
         PROVE  CertInductive'
    BY <2>13 DEF Forget, NoYounger, SeenWhenNeeded, SetOnUsable
  <2>14. ASSUME CertAges
         PROVE  CertInductive'
    <3>1. PICK next \in {"due", "lapsed"} :
            /\ keyring # NoCert /\ Rank(next) = Rank(keyring) + 1
            /\ next = "lapsed" => \A p \in Connects : step[p] \in {"rest", "fast", "renew"}
            /\ keyring' = next
            /\ file' = Older(file, next) /\ seen' = [p \in Renewers |-> Older(seen[p], next)]
            /\ UNCHANGED <<step, login, route>>
      BY <2>14 DEF CertAges
    <3>2. next \in Phases
      BY DEF Phases
    <3>3. CertTypeOK'
      BY <3>1, <3>2, OlderKeeps
    <3>4. NoYounger(file)' /\ \A q \in Renewers : NoYounger(seen[q])'
      BY <3>1, <3>2, OlderKeeps DEF NoYounger
    <3>5. SeenWhenNeeded'
      BY <3>1, <3>2, OlderKeeps DEF SeenWhenNeeded
    <3>6. SetOnUsable'
      BY <2>0, <3>1, <3>2, OlderKeeps, RankOf DEF SetOnUsable
    <3>7. QED
      BY <3>3, <3>4, <3>5, <3>6
  <2>15. ASSUME AttemptForgotten
         PROVE  CertInductive'
    <3>1. file # NoCert /\ file' = [file EXCEPT !.tried = FALSE]
      BY <2>15 DEF AttemptForgotten, TriedLately
    <3>2. file' \in Copies /\ file'.phase = file.phase
      BY <3>1 DEF Copies
    <3>3. QED
      BY <2>15, <3>1, <3>2 DEF AttemptForgotten, NoYounger, SeenWhenNeeded, SetOnUsable
  <2>16. ASSUME RouteChanges \/ UNCHANGED certVars
         PROVE  CertInductive'
    BY <2>16 DEF RouteChanges, certVars, NoYounger, SeenWhenNeeded, SetOnUsable
  <2>17. QED
    BY <2>1, <2>2, <2>3, <2>4, <2>5, <2>6, <2>7, <2>8, <2>9, <2>10, <2>12, <2>13, <2>14, <2>15,
       <2>16 DEF CertNext, RenewerSteps
<1>3. QED
  BY <1>1, <1>2, PTL DEF CertSpec

\* CertTypeOK, for every set of processes.
THEOREM CertTypeCorrect == CertSpec => []CertTypeOK
<1>1. CertInductive => CertTypeOK
  BY DEF CertInductive
<1>2. QED
  BY <1>1, CertInductiveAlways, PTL

\* SetsOutUsable, for every set of renewers, connects and persons: a connect that
\* knows the certificate's state sets out only on one the node accepts
\* (connect.rs ensure_usable_certificate, cert.rs status_fast).
THEOREM SetsOutUsableAlways == CertSpec => []SetsOutUsable
<1>1. CertInductive => SetsOutUsable
  <2> SUFFICES ASSUME CertInductive, NEW p \in Connects,
                      step[p] = "go", seen[p] # NoCert, keyring # NoCert
               PROVE  keyring # "lapsed"
    BY DEF SetsOutUsable
  <2>1. seen[p] \in Copies /\ seen[p].phase # "lapsed" /\ keyring \in Phases
    BY DEF CertInductive, CertTypeOK, SetOnUsable, Renewers
  <2>2. Rank(seen[p].phase) >= Rank(keyring)
    BY DEF CertInductive, NoYounger, Renewers
  <2>3. QED
    BY <2>1, <2>2, RankOf DEF Copies
<1>2. QED
  BY <1>1, CertInductiveAlways, PTL


===============================================================================
