----------------------------- MODULE ConnectLock -----------------------------
(***************************************************************************)
(* The connect lock (pvpn-core/src/lock.rs) and the commands that take it  *)
(* (pvpn/src/main.rs, pvpn/src/watch.rs): an advisory flock, the holder    *)
(* note in the locked file, the SIGTERM that asks a holder to step aside,  *)
(* the SIGKILL of --force, the bounded wait of `pvpn down`, and what a     *)
(* signal does to each command at each point of its life.                  *)
(*                                                                         *)
(* One element of Procs is one slot for a command line: a slot runs a      *)
(* command, exits, and may run the same command again as a new process.    *)
(***************************************************************************)
EXTENDS Naturals, FiniteSets

CONSTANTS
  Procs,        \* command slots
  NoProc,       \* not a process: nobody holds the flock, no pid was read
  Watchers,     \* `pvpn watch`: takes the lock inside run_interruptible
  Downs,        \* `pvpn down`: waits a bounded time, then acts unlocked
  Trials,       \* `pvpn try`: waits, and is not run under run_interruptible
  Forced,       \* given --force
  Background,   \* started with PVPN_AUTOCONNECT set
  AskPolls,     \* polls before a process that was asked stops being waited for
  KillPolls,    \* polls after SIGKILL
  DownPolls,    \* polls before `down` tears down unlocked
  MaxAlive      \* bound: commands alive at once

Connects == Procs \ (Watchers \cup Downs \cup Trials)  \* up, hop, reconnect, best -c

ASSUME ProcsAssumption ==
  /\ NoProc \notin Procs
  /\ Watchers \cup Downs \cup Trials \cup Forced \cup Background \subseteq Procs
  /\ Watchers \cap (Downs \cup Trials \cup Forced) = {} /\ Downs \cap Trials = {}

ASSUME PollsAssumption == AskPolls \in Nat /\ KillPolls \in Nat /\ DownPolls \in Nat

VARIABLES
  owner,   \* the kernel's view: whose file description holds the flock
  note,    \* the text in the locked file: who wrote it, or NoProc when empty
  pc,      \* where each command is
  mode,    \* which of the three acquire functions it is in
  pid,     \* the pid it read from /proc/locks
  left,    \* polls left of the wait it is in
  due,     \* signals caught by run_interruptible's handlers, not yet looked at
  asked,   \* history: the live processes it has sent SIGTERM to under --force and
           \* has not got past
  failed,  \* history: the live processes whose lock call returned an error
  trespass \* history: a command that does not hold the flock wrote over the
           \* note since the last holder started on its own

vars == <<owner, note, pc, mode, pid, left, due, asked, failed, trespass>>

Polls == 0 .. (AskPolls + KillPolls + DownPolls)

\* Between flock success and the guard's drop.
Holding == {"note", "noting", "moving", "restoring"}
\* In lock.rs's acquire*, not holding.
Queued == {"try", "read", "ask", "term", "yield", "target", "kill", "reap", "wait"}
\* Going ahead without the flock (the file could not be opened or locked, or
\* `down` ran out of patience), and the signal handler's restore in a process
\* that does not hold it, or no longer.
Unguarded == {"bare note", "bare noting", "bare", "undoing"}

PcSet == {"idle", "checking"} \cup Queued \cup Holding \cup Unguarded

ModeOf(p) == IF p \in Forced THEN "forced" ELSE IF p \in Downs THEN "bounded" ELSE "plain"

TypeOK ==
  /\ owner \in Procs \cup {NoProc}
  /\ note \in Procs \cup {NoProc}
  /\ pc \in [Procs -> PcSet]
  /\ mode \in [Procs -> {"forced", "bounded", "plain"}]
  /\ pid \in [Procs -> Procs \cup {NoProc}]
  /\ left \in [Procs -> Polls]
  /\ due \subseteq Procs
  /\ asked \in [Procs -> SUBSET Procs]
  /\ failed \subseteq Procs
  /\ trespass \in BOOLEAN

Init ==
  /\ owner = NoProc
  /\ note = NoProc
  /\ pc = [p \in Procs |-> "idle"]
  /\ mode = [p \in Procs |-> ModeOf(p)]
  /\ pid = [p \in Procs |-> NoProc]
  /\ left = [p \in Procs |-> 0]
  /\ due = {}
  /\ asked = [p \in Procs |-> {}]
  /\ failed = {}
  /\ trespass = FALSE

-------------------------------------------------------------------------------
Goto(p, from, to) == pc[p] = from /\ pc' = [pc EXCEPT ![p] = to]

\* A handler is installed while run_interruptible is polled: all of `watch`, and
\* the network work of a connect, which took its guard before.
Handles(t) ==
  \/ t \in Watchers /\ pc[t] # "idle"
  \/ t \in Connects /\ pc[t] \in {"moving", "restoring", "bare", "undoing"}

\* Where a signal leaves t there and then: a handler only takes note of it, and
\* where there is none the default action ends the process.
AfterSignal(t) == IF Handles(t) THEN pc[t] ELSE "idle"

\* Mutant: the flock outlives the process that held it.
EndsKeepingFlock(t) ==
  /\ owner' = owner
  /\ mode' = [mode EXCEPT ![t] = ModeOf(t)]
  /\ pid' = [q \in Procs |-> IF q = t \/ pid[q] = t THEN NoProc ELSE pid[q]]
  /\ asked' = [q \in Procs |-> IF q = t THEN {} ELSE asked[q] \ {t}]
  /\ due' = due \ {t} /\ failed' = failed \ {t}

\* The end of process t, however it comes: the kernel drops its flock, its pid
\* names nobody, and the slot's next command is a new process.
Ends(t) ==
  /\ owner' = IF owner = t THEN NoProc ELSE owner
  /\ mode' = [mode EXCEPT ![t] = ModeOf(t)]
  /\ pid' = [q \in Procs |-> IF q = t \/ pid[q] = t THEN NoProc ELSE pid[q]]
  /\ asked' = [q \in Procs |-> IF q = t THEN {} ELSE asked[q] \ {t}]
  /\ due' = due \ {t} /\ failed' = failed \ {t}

\* A signal's effect on t beyond its place in the code, sent by the command `by`
\* or from outside (NoProc). A process already restoring no longer listens.
Signalled(t, by) ==
  IF Handles(t)
  THEN /\ due' = IF pc[t] \in {"restoring", "undoing"} THEN due ELSE due \cup {t}
       /\ asked' = [q \in Procs |->
                     asked[q] \cup IF q = by /\ mode[q] = "forced" THEN {t} ELSE {}]
       /\ pid' = [q \in Procs |-> IF q = by THEN NoProc ELSE pid[q]]
       /\ UNCHANGED <<owner, mode, failed>>
  ELSE Ends(t)

-------------------------------------------------------------------------------
(* Starting a command *)

\* Mutant: the lock file is opened with truncate(true).
StartTruncating(p) ==
  /\ Cardinality({q \in Procs : pc[q] # "idle"}) < MaxAlive
  /\ Goto(p, "idle", IF p \in Watchers THEN "checking" ELSE "try")
  /\ note' = NoProc
  /\ UNCHANGED <<owner, mode, pid, left, due, asked, failed, trespass>>

\* `pvpn watch` first checks, read-only and unlocked, inside run_interruptible;
\* every other command goes straight to the lock.
Start(p) ==
  /\ Cardinality({q \in Procs : pc[q] # "idle"}) < MaxAlive
  /\ Goto(p, "idle", IF p \in Watchers THEN "checking" ELSE "try")
  /\ UNCHANGED <<owner, note, mode, pid, left, due, asked, failed, trespass>>

\* The check found a dead tunnel this watch may rebuild.
CheckFoundDead(p) ==
  /\ Goto(p, "checking", "try")
  /\ UNCHANGED <<owner, note, mode, pid, left, due, asked, failed, trespass>>

\* open_lock_file failed: proceed with a guard that excludes nobody.
CannotOpen(p) ==
  /\ Goto(p, "try", "bare")
  /\ failed' = failed \cup {p}
  /\ UNCHANGED <<owner, note, mode, pid, left, due, asked, trespass>>

-------------------------------------------------------------------------------
(* Taking the lock *)

\* Where try_acquire is called: the first try, and each of the polling loops.
Trying == {"try", "yield", "reap", "wait"}

\* try_lock succeeds.
Acquire(p) ==
  /\ pc[p] \in Trying
  /\ owner = NoProc
  /\ owner' = p
  /\ pc' = [pc EXCEPT ![p] = "note"]
  /\ left' = [left EXCEPT ![p] = 0] /\ asked' = [asked EXCEPT ![p] = {}]
  /\ UNCHANGED <<note, mode, pid, due, failed, trespass>>

\* try_lock returns an error, not WouldBlock, whoever holds the flock: try_acquire
\* says true, and its caller goes on as after a success, the note included.
TryErrors(p) ==
  /\ pc[p] \in Trying
  /\ pc' = [pc EXCEPT ![p] = "bare note"]
  /\ failed' = failed \cup {p}
  /\ left' = [left EXCEPT ![p] = 0] /\ asked' = [asked EXCEPT ![p] = {}]
  /\ UNCHANGED <<owner, note, mode, pid, due, trespass>>

\* try_lock returns WouldBlock.
TryFails(p) ==
  /\ owner # NoProc
  /\ Goto(p, "try", "read")
  /\ UNCHANGED <<owner, note, mode, pid, left, due, asked, failed, trespass>>

\* Mutant: the deadline is not compared before one more poll.
PollPastDeadline(p) ==
  /\ \/ pc[p] \in {"yield", "reap"}
     \/ pc[p] = "wait" /\ mode[p] = "bounded"
  /\ owner # NoProc
  /\ left' = [left EXCEPT ![p] = @ - 1]
  /\ UNCHANGED <<owner, note, pc, mode, pid, due, asked, failed, trespass>>

\* One more fruitless poll of a bounded loop.
PollAgain(p) ==
  /\ \/ pc[p] \in {"yield", "reap"}
     \/ pc[p] = "wait" /\ mode[p] = "bounded"
  /\ owner # NoProc /\ left[p] > 0
  /\ left' = [left EXCEPT ![p] = @ - 1]
  /\ UNCHANGED <<owner, note, pc, mode, pid, due, asked, failed, trespass>>

\* holder_description, then what each function does with it. The note read here
\* is whatever text the file holds, whoever holds the flock by now.
Describe(p) ==
  /\ Goto(p, "read",
          IF \/ mode[p] = "forced"
             \/ mode[p] = "plain" /\ p \notin Background /\ note \in Background
          THEN "ask" ELSE "wait")
  /\ left' = [left EXCEPT ![p] = IF mode[p] = "bounded" THEN DownPolls ELSE 0]
  /\ UNCHANGED <<owner, note, mode, pid, due, asked, failed, trespass>>

\* Mutant: `down` waits on like an ordinary command.
PatienceNeverEnds(p) == FALSE /\ UNCHANGED vars

\* acquire_bounded's deadline: `down` goes on without the lock.
PatienceEnds(p) ==
  /\ mode[p] = "bounded" /\ owner # NoProc /\ left[p] = 0
  /\ Goto(p, "wait", "bare")
  /\ UNCHANGED <<owner, note, mode, pid, left, due, asked, failed, trespass>>

-------------------------------------------------------------------------------
(* preempt *)

\* Mutant: --force waits behind a holder that did not step aside.
RefusedWaits(p) == "wait"

\* After preempt returns false: --force goes on to the kill, others wait.
Refused(p) == IF mode[p] = "forced" THEN "target" ELSE "wait"

\* locked_by: the pid of the holder now. No holder: preempt gives up at once.
FindHolder(p) ==
  /\ Goto(p, "ask", IF owner = NoProc THEN Refused(p) ELSE "term")
  /\ pid' = [pid EXCEPT ![p] = owner]
  /\ UNCHANGED <<owner, note, mode, left, due, asked, failed, trespass>>

\* kill -TERM reaches a live process.
Terminate(p) ==
  LET t == pid[p] IN
  /\ pc[p] = "term" /\ t # NoProc
  /\ pc' = [pc EXCEPT ![p] = "yield", ![t] = AfterSignal(t)]
  /\ left' = [left EXCEPT ![p] = AskPolls]
  /\ Signalled(t, p)
  /\ UNCHANGED <<note, trespass>>

\* The process has ended since: kill fails, and preempt with it.
TerminateMisses(p) ==
  /\ pid[p] = NoProc
  /\ Goto(p, "term", Refused(p))
  /\ UNCHANGED <<owner, note, mode, pid, left, due, asked, failed, trespass>>

YieldExpires(p) ==
  /\ owner # NoProc /\ left[p] = 0
  /\ Goto(p, "yield", Refused(p))
  /\ UNCHANGED <<owner, note, mode, pid, left, due, asked, failed, trespass>>

-------------------------------------------------------------------------------
(* The rest of acquire_forced *)

\* locked_by again, for the kill. No holder: fall back to acquire().
FindTarget(p) ==
  /\ Goto(p, "target", IF owner = NoProc THEN "try" ELSE "kill")
  /\ pid' = [pid EXCEPT ![p] = owner]
  /\ mode' = [mode EXCEPT ![p] = IF owner = NoProc THEN "plain" ELSE @]
  /\ UNCHANGED <<owner, note, left, due, asked, failed, trespass>>

\* Mutant: after the kill the lock is assumed, not tried for.
KillAndAssume(p) ==
  LET t == pid[p] IN
  /\ pc[p] = "kill" /\ t # NoProc
  /\ pc' = [pc EXCEPT ![p] = "note", ![t] = "idle"]
  /\ left' = [left EXCEPT ![p] = 0]
  /\ Ends(t)
  /\ UNCHANGED <<note, trespass>>

\* kill -KILL: whatever it was doing, the target ends and its flock is dropped.
Kill(p) ==
  LET t == pid[p] IN
  /\ pc[p] = "kill" /\ t # NoProc
  /\ pc' = [pc EXCEPT ![p] = "reap", ![t] = "idle"]
  /\ left' = [left EXCEPT ![p] = KillPolls]
  /\ Ends(t)
  /\ UNCHANGED <<note, trespass>>

\* The process has ended since; the status of kill is not looked at.
KillMisses(p) ==
  /\ pid[p] = NoProc
  /\ Goto(p, "kill", "reap")
  /\ left' = [left EXCEPT ![p] = KillPolls]
  /\ UNCHANGED <<owner, note, mode, pid, due, asked, failed, trespass>>

\* drop(file); acquire().await
ReapExpires(p) ==
  /\ owner # NoProc /\ left[p] = 0
  /\ Goto(p, "reap", "try")
  /\ mode' = [mode EXCEPT ![p] = "plain"]
  /\ UNCHANGED <<owner, note, pid, left, due, asked, failed, trespass>>

-------------------------------------------------------------------------------
(* At work, and leaving *)

\* write_holder_note: set_len(0) and write_all are two system calls, and the
\* old text stands until the first of them. A command whose try_lock returned an
\* error does the same to the note of whoever holds the flock.
TruncateNote(p) ==
  /\ Goto(p, "note", "noting") \/ Goto(p, "bare note", "bare noting")
  /\ note' = NoProc
  /\ trespass' = (pc[p] = "bare note")
  /\ UNCHANGED <<owner, mode, pid, left, due, asked, failed>>

\* Over a text somebody wrote since, the two overlap: it names either of them.
WriteNote(p) ==
  /\ Goto(p, "noting", "moving") \/ Goto(p, "bare noting", "bare")
  /\ note' \in {p} \cup ({note} \ {NoProc})
  /\ trespass' = (trespass \/ pc[p] = "bare noting")
  /\ UNCHANGED <<owner, mode, pid, left, due, asked, failed>>

\* Mutant: the guard is taken inside the operation, as watch takes its own.
ConnectHeedsUnlocked(p) ==
  /\ p \in due \cap Connects
  /\ Goto(p, "moving", "restoring") \/ Goto(p, "bare", "undoing")
  /\ due' = due \ {p}
  /\ owner' = IF owner = p THEN NoProc ELSE owner
  /\ UNCHANGED <<note, mode, pid, left, asked, failed, trespass>>

\* select! takes the signal at an await of the work: the operation is dropped
\* and the handler restores. The guard of a connect is outside the operation
\* and stays with it...
ConnectHeeds(p) ==
  /\ p \in due \cap Connects
  /\ Goto(p, "moving", "restoring") \/ Goto(p, "bare", "undoing")
  /\ due' = due \ {p}
  /\ UNCHANGED <<owner, note, mode, pid, left, asked, failed, trespass>>

\* ...and the guard of `watch` is a local of the operation: the flock comes free
\* before its restore begins, and a `watch` that never held it restores too.
WatchHeeds(p) ==
  /\ p \in due \cap Watchers
  /\ \E from \in {"checking", "yield", "wait", "moving", "bare"} : Goto(p, from, "undoing")
  /\ due' = due \ {p}
  /\ owner' = IF owner = p THEN NoProc ELSE owner
  /\ UNCHANGED <<note, mode, pid, left, asked, failed, trespass>>

\* The command returns, or the signal handler's restore does; the guard goes
\* with the process and the note stays behind.
Exit(p) ==
  /\ pc[p] \in {"checking", "moving", "bare", "restoring", "undoing"}
  /\ pc' = [pc EXCEPT ![p] = "idle"]
  /\ Ends(p)
  /\ UNCHANGED <<note, left, trespass>>

\* Ctrl-C at the terminal, or a SIGTERM from systemd or the user.
Interrupt(p) ==
  /\ pc[p] # "idle"
  /\ pc' = [pc EXCEPT ![p] = AfterSignal(p)]
  /\ Signalled(p, NoProc)
  /\ UNCHANGED <<note, left, trespass>>

\* A panic, the OOM killer, a SIGKILL from outside.
Crash(p) ==
  /\ pc[p] # "idle"
  /\ pc' = [pc EXCEPT ![p] = "idle"]
  /\ Ends(p)
  /\ UNCHANGED <<note, left, trespass>>

-------------------------------------------------------------------------------
\* What the code does by itself once a command has started.
Progress(p) ==
  \/ Acquire(p) \/ TryFails(p) \/ PollAgain(p) \/ Describe(p) \/ PatienceEnds(p)
  \/ FindHolder(p) \/ Terminate(p) \/ TerminateMisses(p) \/ YieldExpires(p)
  \/ FindTarget(p) \/ Kill(p) \/ KillMisses(p) \/ ReapExpires(p)
  \/ TruncateNote(p) \/ WriteNote(p)

Next == \E p \in Procs :
  \/ Start(p) \/ CheckFoundDead(p) \/ CannotOpen(p) \/ TryErrors(p)
  \/ Progress(p) \/ ConnectHeeds(p) \/ WatchHeeds(p)
  \/ Exit(p) \/ Interrupt(p) \/ Crash(p)

Spec == Init /\ [][Next]_vars

\* The bounded waits are polled on timers; nothing is assumed of those who wait
\* without a bound, nor of how long, or whether, a holder's network work ends.
FairSpec == Spec /\ \A p \in Downs \cup Forced : WF_vars(Progress(p))

-------------------------------------------------------------------------------
(* What the lock is for *)

\* Changing the tunnel or the routes.
AtWork == {"moving", "restoring", "bare", "undoing"}

\* Works beside a holder: its lock call returned an error, it is `down` out of
\* patience, or it is `watch` putting routing back after a signal.
Outside(p) ==
  \/ p \in failed
  \/ p \in Downs /\ pc[p] = "bare"
  \/ p \in Watchers /\ pc[p] = "undoing"

\* Only one command at a time rewrites routing, or one of the two is known to
\* work outside the lock: the plugin refuses a second connection, and one
\* command's restore tears down the other's tunnel (lock.rs:3-14). Kills and
\* crashes at any point included; and signals, but for the restore of `watch`.
MutualExclusion ==
  \A p, q \in Procs :
    p # q /\ pc[p] \in AtWork /\ pc[q] \in AtWork => Outside(p) \/ Outside(q)

\* The process the kernel says holds the flock is the live one that believes it
\* does: "only a live connect can hold everyone else out, and a stale lock file
\* can never exist" (lock.rs:18-20), whatever ended the last holder.
HolderIsOwner == \A p \in Procs : pc[p] \in Holding <=> owner = p

\* The note the waiting message and the GUI show is the working holder's own:
\* nobody's open truncates it (lock.rs:56-57), and only a command that went on
\* after a failed try_lock has ever written over it.
NoteIsHolders ==
  \A p \in Procs : pc[p] \in {"moving", "restoring"} /\ ~trespass => note = p

\* The lock implements "one connect at a time, never handed over while held".
Abstract == INSTANCE OneConnect WITH inside <- {p \in Procs : pc[p] \in Holding}
ImplementsOneConnect == Abstract!Spec

\* `pvpn down` never waits for ever, even behind a holder that hangs: it gets
\* the lock, or acts without it, or is ended itself (lock.rs:279-282).
DownActs ==
  \A p \in Downs : (pc[p] = "wait" /\ mode[p] = "bounded") ~> pc[p] \notin Queued

\* A holder that --force has asked to step aside does not keep the lock from
\* it: it lets go, or is killed, even if its restore hangs, unless the asker ends
\* or goes on without the lock (lock.rs:205-209).
ForcedHolderGoes ==
  \A p \in Forced, t \in Procs :
    (t \in asked[p] /\ mode[p] = "forced")
      ~> (t \notin asked[p] \/ owner # t \/ pc[p] \in Unguarded)

===============================================================================
