-------------------------------- MODULE Window ---------------------------------
(***************************************************************************)
(* The window and what it believes.                                        *)
(*                                                                         *)
(* pvpn-gui runs one pvpn at a time as a child and otherwise only watches. *)
(* A slow reading (`pvpn query status`, on a worker thread) looks at the   *)
(* routes, may send a request through the tunnel, and then asks who holds  *)
(* the connect lock; a fast one, every second, asks only the last.  Each   *)
(* lands later on the main thread.  From the last snapshot comes the phase *)
(* the orb shows, and from its changes the notifications.  Meanwhile the   *)
(* child, a terminal, the hook and the network go on.                      *)
(*                                                                         *)
(* A connect or a down is reduced to its turn with the lock, to what it    *)
(* does to the routes on the way, and to its end; server names, networks,  *)
(* the pages and the tray's layout are left out.  `left` and `presses` bound *)
(* how often anything happens outside, and how often a button starts one. *)
(***************************************************************************)
EXTENDS Integers

CONSTANTS
  None, MaxChanges, MaxPresses,
  AtFirst       \* the tunnels the window may find when it opens

ASSUME BoundsAssumption == MaxChanges \in Nat /\ MaxPresses \in Nat

ASSUME AtFirstAssumption == AtFirst \subseteq {"none", "carries", "dead", "ghost"}

VARIABLES
  \* the machine
  tunnel,       \* "none", "carries", "dead", or "ghost": believed, not routed
  lock,         \* who holds the connect lock: None or [who, what, touched]
  script,       \* pvpn-autoconnect is running
  left,         \* how often anything may still happen of itself
  \* the window
  presses,      \* how often a button may still start a child
  child,        \* None or [what, at, cut]: Runner::current
  snap,         \* None or [busy, script, tunnel]: the last snapshot
  carrying,     \* the last traffic answer: None, TRUE, FALSE
  checked,      \* that answer is younger than traffic_check_secs
  phase,        \* what the orb shows
  reconnecting, \* Tracker::reconnecting
  polling,      \* a slow reading is under way, so the next has to wait
  reading,      \* the slow reading: None or [at, probe, tunnel, carrying, busy, script]
  glance        \* the fast reading: None or [busy, script]

machine == <<tunnel, lock, script, left>>
believed == <<snap, carrying, checked, phase, reconnecting>>
vars == <<machine, presses, child, believed, polling, reading, glance>>

Phases == {"disconnected", "connecting", "reconnecting", "disconnecting",
           "connected", "broken", "unread"}

Tunneled(t) == t \in {"carries", "dead"}

\* What the lock file, its note and /proc say of the holder.
Busy == IF lock = None THEN None
        ELSE IF lock.what = "down" THEN "disconnecting"
        ELSE IF lock.who = "auto" THEN "reconnecting"
        ELSE "connecting"

\* Phase::of: the lock outranks the script, the script the routes -- but the
\* script only where there is no tunnel for it to be checking.
PhaseOf(busy, scripted, t, answer) ==
  IF busy # None THEN busy
  ELSE IF scripted /\ ~Tunneled(t) THEN "reconnecting"
  ELSE IF Tunneled(t) THEN (IF answer = FALSE THEN "broken" ELSE "connected")
  ELSE IF t = "ghost" THEN "broken"
  ELSE "disconnected"

\* Mutant: a failure leaves the reconnect open.
StillReconnecting(was, next) ==
  CASE next = "reconnecting" -> TRUE
    [] next = "connected" -> FALSE
    [] OTHER -> was

\* Tracker::observe: every phase that ends a connect ends the reconnect.
StaysReconnecting(was, next) ==
  CASE next = "reconnecting" -> TRUE
    [] next \in {"connected", "broken", "disconnected"} -> FALSE
    [] OTHER -> was

Init ==
  /\ tunnel \in AtFirst /\ lock = None /\ script = FALSE /\ left = MaxChanges
  /\ presses = MaxPresses
  /\ child = None /\ snap = None /\ carrying = None /\ checked = FALSE
  /\ phase = "unread" /\ reconnecting = FALSE
  /\ polling = FALSE /\ reading = None /\ glance = None

(***************************************************************************)
(* The machine.                                                            *)
(***************************************************************************)
\* Another pvpn, a person's or an automatic one, gets the lock.
TakesLock(who, what) ==
  /\ lock = None /\ left > 0
  /\ lock' = [who |-> who, what |-> what, touched |-> FALSE]
  /\ left' = left - 1
  /\ UNCHANGED <<presses, tunnel, script, child, believed, polling, reading, glance>>

ChildTakesLock ==
  /\ child # None
  /\ child.at = "queued" /\ ~child.cut /\ lock = None
  /\ lock' = [who |-> "own", what |-> child.what, touched |-> FALSE]
  /\ child' = [child EXCEPT !.at = "holds"]
  /\ UNCHANGED <<presses, tunnel, script, left, believed, polling, reading, glance>>

\* On its way it takes a tunnel down, or Proton's client believes in one, or one is
\* attached, which is yet to be verified.
Works(t) ==
  /\ lock # None
  /\ lock.what = "down" => t = "none"
  /\ tunnel # t
  /\ tunnel' = t
  /\ lock' = [lock EXCEPT !.touched = TRUE]
  /\ UNCHANGED <<presses, script, left, child, believed, polling, reading, glance>>

\* A tunnel that carries, or normal routing again: or the tunnel there was, for a hop
\* that is refused or finds nothing before it has let go of it.  A down that is cut
\* short leaves what it had not come to: it has no restore.
Ends(ok) ==
  /\ lock # None
  /\ LET cut == lock.who = "own" /\ child.cut
     IN /\ IF cut THEN ~ok ELSE lock.what = "down" => ok
        /\ IF ok /\ lock.what = "connect" THEN tunnel' = "carries"
           ELSE IF cut /\ lock.what = "down" THEN tunnel' = tunnel
           ELSE \/ tunnel' = "none"
                \/ lock.what = "connect" /\ ~lock.touched /\ ~cut /\ tunnel' = tunnel
  /\ child' = IF lock.who = "own" THEN [child EXCEPT !.at = "exited"] ELSE child
  /\ lock' = None
  /\ UNCHANGED <<presses, script, left, believed, polling, reading, glance>>

\* SIGINT before it had the lock: nothing to restore, it just goes.
ChildLeavesQueue ==
  /\ child # None
  /\ child.at = "queued" /\ child.cut
  /\ child' = [child EXCEPT !.at = "exited"]
  /\ UNCHANGED <<presses, machine, believed, polling, reading, glance>>

TunnelDies(t) ==
  /\ lock = None /\ left > 0
  /\ tunnel = "carries" /\ t \in {"dead", "none"}
  /\ tunnel' = t /\ left' = left - 1
  /\ UNCHANGED <<presses, lock, script, child, believed, polling, reading, glance>>

ScriptStarts ==
  /\ ~script /\ left > 0
  /\ script' = TRUE /\ left' = left - 1
  /\ UNCHANGED <<presses, tunnel, lock, child, believed, polling, reading, glance>>

ScriptEnds ==
  /\ script
  /\ script' = FALSE
  /\ UNCHANGED <<presses, tunnel, lock, left, child, believed, polling, reading, glance>>

(***************************************************************************)
(* Readings.                                                               *)
(***************************************************************************)
\* A reading looks at the routes as it begins.
Begun(probe) ==
  [at |-> "routes", probe |-> probe, tunnel |-> tunnel,
   carrying |-> None, busy |-> None, script |-> FALSE]

\* poll_now: one at a time, and no traffic check while our child runs.
PollNow(probe, running) ==
  IF polling THEN UNCHANGED <<polling, reading>>
  ELSE polling' = TRUE /\ reading' = Begun((probe \/ ~checked) /\ ~running)

PollTick ==
  /\ ~polling
  /\ PollNow(FALSE, child # None)
  /\ UNCHANGED <<presses, machine, child, believed, glance>>

\* The reader on its thread: after the routes the traffic, then the lock.
ReadsTraffic ==
  /\ reading # None
  /\ reading.at = "routes"
  /\ reading' = [reading EXCEPT !.at = "traffic", !.carrying =
       IF reading.probe /\ Tunneled(reading.tunnel) THEN tunnel = "carries" ELSE None]
  /\ UNCHANGED <<presses, machine, child, believed, polling, glance>>

ReadsLock ==
  /\ reading # None
  /\ reading.at = "traffic"
  /\ reading' = [reading EXCEPT !.at = "read", !.busy = Busy, !.script = script]
  /\ UNCHANGED <<presses, machine, child, believed, polling, glance>>

\* absorb: the snapshot, the traffic answer with it, the phase, the tracker.
Absorb(busy, scripted, t, answer) ==
  LET told == IF ~Tunneled(t) THEN None ELSE IF answer # None THEN answer ELSE carrying
      next == PhaseOf(busy, scripted, t, told)
  IN /\ snap' = [busy |-> busy, script |-> scripted, tunnel |-> t]
     /\ carrying' = told
     /\ checked' = (checked \/ answer # None)
     /\ phase' = next
     /\ reconnecting' = IF phase = "unread" THEN next = "reconnecting"
                        ELSE IF phase = next THEN reconnecting
                        ELSE StaysReconnecting(reconnecting, next)

PollLands ==
  /\ reading # None
  /\ reading.at = "read"
  /\ Absorb(reading.busy, reading.script, reading.tunnel, reading.carrying)
  /\ polling' = FALSE /\ reading' = None
  /\ UNCHANGED <<presses, machine, child, glance>>

\* refresh_busy, each second unless the last one has not landed yet.
Glances ==
  /\ glance = None
  /\ glance' = [busy |-> Busy, script |-> script]
  /\ UNCHANGED <<presses, machine, child, believed, polling, reading>>

\* Mutant: the reading that is thrown away is still waited for.
SupersedeOnly == reading' = None /\ UNCHANGED polling

\* A connect has ended: no phase from the snapshot, which is older; a reading
\* under way is thrown away and another begun.
Supersede == polling' = TRUE /\ reading' = Begun(child = None)

\* absorb_busy
GlanceLands ==
  /\ glance # None
  /\ glance' = None
  /\ IF snap = None \/ (snap # None /\ snap.busy = glance.busy /\ snap.script = glance.script)
     THEN UNCHANGED <<believed, polling, reading>>
     ELSE IF (snap.busy # None \/ snap.script) /\ glance.busy = None /\ ~glance.script
     THEN Supersede /\ UNCHANGED believed
     ELSE /\ Absorb(glance.busy, glance.script, snap.tunnel, None)
          /\ UNCHANGED <<polling, reading>>
  /\ UNCHANGED <<presses, machine, child>>

\* traffic_check_secs have passed.
CheckFallsDue ==
  /\ checked
  /\ checked' = FALSE
  /\ UNCHANGED <<presses, machine, child, snap, carrying, phase, reconnecting, polling,
                 reading, glance>>

(***************************************************************************)
(* The child, and who asks for one.                                        *)
(***************************************************************************)
\* run_net: one at a time.
Runs(what) ==
  /\ child = None
  /\ child' = [what |-> what, at |-> "queued", cut |-> FALSE]

\* Runner::cancel: SIGINT to our own, which it turns into a restore.  The orb
\* and the Cancel button while something runs.
Cancelled ==
  /\ child # None
  /\ child.at # "exited" /\ ~child.cut
  /\ child' = [child EXCEPT !.cut = TRUE]
  /\ UNCHANGED <<machine, presses, believed, polling, reading, glance>>

\* The orb, which does what the phase shown calls for, or one of the tray's
\* entries or a server's button (a hop), whatever was shown.
Pressed(what) ==
  /\ presses > 0
  /\ presses' = presses - 1
  /\ Runs(what)
  /\ UNCHANGED <<machine, believed, polling, reading, glance>>

\* RunEvent::Finished: a reading at once, unless one is under way already.
ChildFinished ==
  /\ child # None
  /\ child.at = "exited"
  /\ child' = None
  /\ PollNow(TRUE, FALSE)
  /\ UNCHANGED <<presses, machine, believed, glance>>

Machine ==
  \/ \E who \in {"person", "auto"}, what \in {"connect", "down"} :
       ~(who = "auto" /\ what = "down") /\ TakesLock(who, what)
  \/ ChildTakesLock \/ ChildLeavesQueue
  \/ \E t \in {"none", "ghost", "carries"} : Works(t)
  \/ \E ok \in BOOLEAN : Ends(ok)
  \/ \E t \in {"dead", "none"} : TunnelDies(t)
  \/ ScriptStarts \/ ScriptEnds

Watching ==
  \/ PollTick \/ ReadsTraffic \/ ReadsLock \/ PollLands
  \/ Glances \/ GlanceLands \/ CheckFallsDue

Next ==
  \/ Machine \/ Watching
  \/ Cancelled \/ ChildFinished
  \/ \E what \in {"connect", "down"} : Pressed(what)

Spec == Init /\ [][Next]_vars

\* A connect, a down and the script come to an end (UpConnect, ConnectLock);
\* the main loop serves its timers and the futures that are ready.
Fairness ==
  /\ WF_vars(ChildTakesLock \/ ChildLeavesQueue) /\ WF_vars(\E ok \in BOOLEAN : Ends(ok))
  /\ WF_vars(ScriptEnds) /\ WF_vars(ChildFinished) /\ WF_vars(PollTick)
  /\ WF_vars(Glances) /\ WF_vars(GlanceLands)
  /\ WF_vars(CheckFallsDue)

\* A worker thread gets on with its reading, however slow.
Steady ==
  WF_vars(ReadsTraffic) /\ WF_vars(ReadsLock) /\ WF_vars(PollLands)

\* And a reading now and then takes less than the second between two glances.
Prompt ==
  SF_vars(ReadsTraffic) /\ SF_vars(ReadsLock) /\ SF_vars(PollLands)

FairSpec == Spec /\ Fairness /\ Steady
PromptSpec == Spec /\ Fairness /\ Prompt

(***************************************************************************)
(* Properties.                                                             *)
(***************************************************************************)
TypeOK ==
  /\ tunnel \in {"none", "carries", "dead", "ghost"}
  /\ phase \in Phases
  /\ {carrying} \subseteq {None, TRUE, FALSE}
  /\ left \in 0 .. MaxChanges /\ presses \in 0 .. MaxPresses
  /\ (reading # None => polling)

\* Once things have come to rest, the orb comes to show what is: whatever
\* readings were thrown away, overtaken or refused as one was under way, and
\* whatever an earlier tunnel's traffic answer was (app.rs poll_now,
\* absorb_busy, absorb).
Settles == <>[](phase = PhaseOf(Busy, script, tunnel, tunnel = "carries"))

\* A reconnect that was announced gets its end announced too, however the
\* phases in between were missed (status.rs Tracker).
ReconnectHasItsEnd == reconnecting ~> ~reconnecting

\* app.rs:654: after a connect, "stay as we are until a fresh one is in".
\* A fresh one does come in.
FreshOneComesIn == polling ~> ~polling

================================================================================
