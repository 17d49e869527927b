# A specification of pvpn

`pvpn` brings a Proton VPN tunnel up on networks that kill tunnels, and brings
it back after the machine slept or roamed. There is no daemon: every command is
a process that reads files, works on NetworkManager and Proton's own client, and
exits. What can go wrong is therefore between processes (a person's commands, a
resume hook, a timer's health check, signals among them) and over time (what one
attempt teaches the next). These modules model those two things.

Paths below are relative to `src/crates/` unless they begin with `bin/` or
`system/`.

## Contents

| module | what it is | code |
|---|---|---|
| `OneConnect` | abstract: one place, vacated before it is taken again | `pvpn-core/src/lock.rs` 1-39 |
| `ConnectLock` | the connect lock and the life of the commands that take it | `pvpn-core/src/lock.rs`, `pvpn/src/main.rs` |
| `ConnectLockProofs` | theorems about `ConnectLock` | |
| `ServerBook` | what is remembered of each server on each network, and blame | `pvpn-core/src/state.rs`, `pvpn/src/blocklist.rs`, `session.rs` |
| `ServerBookProofs` | theorems about `ServerBook` | |
| `AlwaysOn` | who may rebuild the tunnel, on whose word | `intent.rs`, `scope.rs`, `watch.rs`, `bin/pvpn-autoconnect`, `main.rs` |
| `AlwaysOnProofs` | theorems about `AlwaysOn` | |
| `UpConnect` | one `pvpn up` from entry to report | `pvpn/src/connect.rs`, `verify.rs` |
| `UpConnectProofs` | theorems about `UpConnect` and `Hop` | |
| `Hop` | `pvpn hop`, `hop <name>` and `reconnect`, over `UpConnect` and into it | `pvpn/src/connect.rs` |
| `Steer` | Proton's server list narrowed for a hop and put back | `pvpn-core/src/cache.rs`, `pvpn/src/connect.rs` |
| `Renewal` | the client certificate and who renews it | `pvpn-core/src/cert.rs`, `pvpn/src/connect.rs`, `login.rs` |
| `SharedStateProofs` | theorems about `Steer` and `Renewal`, the files commands share without the lock | |
| `Verify` | preflight, sign-in page, and whether the tunnel carries | `pvpn/src/verify.rs`, `portal_note.rs`, `pvpn-core/src/net.rs`, `link.rs` |
| `VerifyProofs` | theorems about `Verify` | |
| `Profiles` | NetworkManager's profiles through down, restore and an attempt | `pvpn-core/src/teardown.rs`, `profiles.rs`, `dbus.rs`, `proc.rs` |
| `ProfilesProofs` | theorems about `Profiles` | |
| `Measuring` | `pvpn best`: probing and ranking, and the file shared with connects | `pvpn-core/src/rank.rs`, `probe.rs`, `pipeline.rs`, `serverlist.rs`, `state.rs`, `pvpn/src/session.rs` |
| `MeasuringProofs` | theorems about `Measuring` | |
| `Window` | what the GUI believes and shows | `pvpn-gui/src/app.rs`, `status.rs`, `runner.rs`, `pvpn-core/src/snapshot.rs` |
| `MC*` | each of the above with named model values for TLC | |

Run one with `tlc -config MCConnectLock.cfg MCConnectLock.tla`; check the proofs
with `tlapm ConnectLockProofs.tla`.

## The system

### Components

**Connect lock** (`pvpn-core/src/lock.rs`). State: an flock on one file, and the
holder note written in it. Operations: `acquire` (polls for ever), `acquire_forced`
(asks, kills, then polls), `acquire_bounded` (`pvpn down`: thirty seconds, then
without), `preempt` (SIGTERM to a holder, found through `/proc/locks`). A lock file
that cannot be opened or locked stops nobody. Correct
when: one command that holds the lock works at a time; a dead process never holds;
the note is the holder's; bounded waits end. Hard because the holder is looked up three
times (note, pid for the term, pid for the kill), and may change between any two.

**Commands** (`pvpn/src/main.rs`). `up`, `hop`, `reconnect`, `best -c` take the
lock and then run under `run_interruptible`, which turns SIGINT and SIGTERM into
a restore that still holds it. `watch` is interruptible from its start and takes the
lock inside the operation a signal drops, so its restore runs without. `down` and
`try` are not interruptible: a signal ends them, as it ends a connect that waits.

**Server book** (`pvpn-core/src/state.rs`, `pvpn/src/session.rs`). State:
`state.json`, per network and server the status, failures, attempts, successes
and block date. Operations: record a probe, a success, an attempt, a block;
expire; forget; the lists choosers read. **Blame** (`pvpn/src/blocklist.rs`):
which outcomes count against a server. Correct when a block has a cause, the right
length and an end, and nothing of ours is blamed on a server.

**Intent and scope** (`pvpn-core/src/intent.rs`, `scope.rs`). State: the
`down-by-user` and `autoconnect-off` markers, the `started` network. **The hook**
(`bin/pvpn-autoconnect`) runs on resume and when a link comes up; **watch**
(`pvpn/src/watch.rs`) runs every two minutes and rebuilds a tunnel that stopped
carrying. Correct when they do nothing the person did not ask for.

**`pvpn up`** (`pvpn/src/connect.rs`, with `verify.rs` for the verdict). State: the
ranked list, the index, the attempt count, the renewal flag, the count of quiet
tunnels, the tunnel attached. Correct when the report matches the tunnel, failures
restore, no server is tried after it was written off, and the loop ends.

**hop and reconnect** (`connect.rs` 2142-3097). State: the server asked for, how it
is asked for (Proton's client over a narrowed list, the same forced, or a saved
profile), what the first try came to. Correct when success names a server that was
asked for and failure leaves nothing half built. Hard because a hop has six ways out
and may turn into an `up`.

**Steering** (`pvpn-core/src/cache.rs`). State: `serverlist.json`, its backup, a marker
with the pid of whoever narrowed it. Operations: copy, claim, narrow, restore; and,
by any command without the lock, heal a list that looks stranded, extend its
expiry, refresh it. Correct when the original list can always be had back.

**Certificate** (`cert.rs`, the renewal gate in `connect.rs`). State: the keyring's
certificate, the copy of its dates in `cert.json`, the stamp of the last attempt.
Correct when no connect sets out on a certificate known to have lapsed and one past
its renewal point is renewed.

**Verification** (`verify.rs`, with `net.rs` and `link.rs`). Rounds of requests in flight, Proton's
log, the network's identity and the uplink's health are asked in turn until a deadline.
Correct when it blames the link on evidence only and always comes to a verdict.

**NetworkManager, profiles, teardown** (`dbus.rs`, `profiles.rs`, `teardown.rs`,
`proc.rs`). State: the profiles, which is active, Proton's own record of being
connected, the kill-switch profile. Correct when a `down` leaves nothing that brings
the tunnel back, and a proven server keeps a profile through every teardown.

**Ranking** (`rank.rs`, `probe.rs`, `pipeline.rs`, `serverlist.rs`) and the **state file**
(`state.rs`, `session.rs`). `best` measures for seconds without the lock while connects
record in the same file. Correct when the order is by the best answer of each server
and no verdict is lost.

**Window** (`pvpn-gui`). State: the last snapshot, the last traffic answer, the phase
shown, a slow and a fast reading under way, one child. Correct when it comes to show
what is.

**Narration, paths, display, Python helpers** (`lib/`), **units** (`system/`), the
**legacy daemon** (`legacy/`, not built): no state shared between actors.
`PROJECT.json` lists every component with its status.

### How they interact

* Commands exclude one another by the lock; they signal one another by pid.
* Commands teach one another through `state.json`; each works on a copy.
* A person's intent reaches the hook and watch through marker files. A connect
  clears `down-by-user` on entry; `down` writes it before its teardown.
* The tunnel itself is shared: everyone asks NetworkManager what is attached.
* Proton's list and the certificate's dates are files that readers mend, extend and
  refresh without the lock.
* The window reads what the lock, its note, the routes and `/proc` say, and acts only
  through a child `pvpn`.

Each component is modelled in a module of its own; `Hop` composes with `UpConnect` by
extending it, so that a reconnect runs into `up`'s own steps. Elsewhere one module
takes from another what that one has been checked for: one holder of the lock
(`ConnectLock`) in `AlwaysOn`, `Steer` and `Window`; an end to every connect
(`UpConnect`, `ConnectLock`) in `Window`'s fairness; the verdicts (`Verify`) in `UpConnect` and
`Hop`; a restore that leaves nothing attached (`Profiles`) in `UpConnect` and `Hop`.

### What is hard here

Interleavings of processes that look something up and act later; signals and
crashes at any point; retries and limits in one loop with six ways out; long
sequences of outcomes that decide how a server is treated. `PROJECT.json`
"hazards" names each at its line with the property that would catch it.

## The models

### ConnectLock

An element of `Procs` is a slot for one kind of command. `pc` follows it through
`lock.rs`: `try`, `read` (the note), `ask` and `term` (the two halves of
`preempt`: the pid is read, then signalled), `yield` (waiting for it to leave),
`target` and `kill` (looked up again, killed), `reap`, `wait`, then `note` and
`noting` (truncate, write), `moving` (its work), `restoring`. Each look-up and each
use is a step of its own, which is where the behaviours come from. A pid that has
ended names nobody; pid reuse is left out.

Without the lock there are `bare` (the work), `undoing` (a restore) and the two steps of
a note. `CannotOpen` is the file that cannot be opened: no guard, no note. `TryErrors`
is a `try_lock` that returns an error, at the first try or in any of the polling loops:
`try_acquire` says true, so that command goes on as a holder would and writes its own
note over the holder's (`trespass`).

A signal is two steps. It is caught (`due`) where a handler is installed (`Handles`) and
ends the process elsewhere; a caught one is heeded at an await of the operation, which
may never come where the work hangs. `ConnectHeeds`: `up`, `hop` and `reconnect` hold their
guard outside `run_interruptible` and restore under it. `WatchHeeds`: the guard of `watch`
is a local of the future `select!` drops, so the flock is free before the restore
begins, and a `watch` that was still checking or waiting restores as well. What is under
way then beside a holder is named (`Outside`): a command whose lock call failed, a `down`
out of patience, a signalled `watch`. `MutualExclusion` says that of two commands at work
one is always such a command; it does not say that there never are two.

`asked` is history: whom a `--force` has signalled and is not yet past, for `ForcedHolderGoes`.

Every wait is a number of polls (`AskPolls`, `KillPolls`, `DownPolls`). Nothing
depends on how many, only on whether the holder leaves first; TLC uses 0, 0 and 1
(an asker with none left may still see the holder go before it gives up), the proofs any
number. `MaxAlive` bounds the commands alive at once: three of the four kinds, in every
combination; a fourth party would only be one more that waits or works outside the lock.

Fairness: `Progress(p)`, what a waiting command does on its own timers. None for
`Exit` (a holder may hang on the network for ever) or for heeding a signal, none for the
lock being unusable, none for signals.

### ServerBook

One server's record is the five fields blocking depends on. Operators named for
`state.rs`'s methods map a record to a record; actions are what a command does
with the book: `Record` (what `connect::record` does, whichever caller), a full
rank that fails or succeeds, `forget`, roaming mid-command, another command
starting. `verdict`, `spoke` and `deaths` are history kept from the outcomes, not
from the records, so that the properties do not restate the code.

Bounds: one server, since no operation relates two; two networks; a retry window
of one tick over four ticks, five attempts on one network (the escalation reaches
its cap, and a death after it) and two on the other. `MaxAttempts` is a guard of
`Record` that the code does not have. Log phrases are given to `ClassifyFailure`
in every combination in which one takes precedence over another.

### AlwaysOn

Persons, the hook and watch over the lock, which here is one variable (what
`ConnectLock` proves of holders). A connect is two steps, entry and report, with a
tunnel that may appear in between. A signal and the restore it starts are one step
(`Stopped`): a `watch` takes down whatever is up, with the lock or without, but that its
restore may run on into another's connect is in `ConnectLock` only. `CarryingLeftAlone`
is about what automatic connects do, not about such a restore. `WatchFindsDead` takes the
probes, the grace and the checks of a health check as one step: what is
read in them is looked at again with the lock (`WatchRechecks`). `grant` is the network an automatic run was
licensed on, `askedOn` the networks a person asked on and `builder` whose connect
built the tunnel: history, from the commands and not from the files. "Carrying" is what the code can see: an answer
within the two seconds it gives a tunnel.

Bounds: one person's terminal (which with watch and the hook gives three parties
on one lock), two networks and offline, two attempts of the hook. `home` has a
reconnect target in the passing run, so that both kinds of reconnect happen.

### UpConnect

The control of `up`, path by path. A verdict of verification is any the tunnel
could get (`Verdicts`), what Proton's client prints is one of the lines `up` acts
on, and `Diagnoses` what `diagnose` may make of it. The link may change and the
certificate may lapse at any step. Of the attempt count only whether it is past zero
matters (`tried`): a turn after the first restores before it starts.

Bounds: four servers, two with a saved profile that has carried here, three that
can be activated directly; the limits are scaled (fast path 1 for 3, quiet limit
2 for 3, attempts 3 for 8) so that each is met, and passed if it is not enforced.
The list is any order of the servers, or none. The fast path's second way, nmcli on
what the first left (`FastByNmcli`), is part of it.

Fairness: `WF(Step)`, for every wait of the command has a deadline. None for the
environment. The command ends, so these runs do not check for deadlock.

### Hop

The places of the three hop functions, from the checks to the report, on top of
`UpConnect`'s variables; `HopNext` adds `UpConnect`'s own `Step`, for a hop with nothing
attached and a reconnect whose target did not carry. What steering the list comes to
is a choice (`how`). `before` and `strayed` are history: what was attached when the
command began, and whether NetworkManager activated a profile nobody asked for (the
code then leaves it, and `HopLeavesNothing` says so).

Bounds: three servers, one proven, two with a profile; two attempts for four, so that
`HopExhausted` and `continue` both happen; `up`'s limits are one each, for what it
does inside is `UpConnect`'s. A hop may be asked for one server by its full name, or by
a pattern (`Asks`). Fairness as in `UpConnect`.

### Steer

Every step is one file operation: a reader's look at the marker, its mend, the
unmarking; the hop's copy, claim, write, restore. Lists are what the properties tell
apart: which servers are off, whose writing it is, which of the two expiries lie ahead.
`was` is the list the hop copied aside. `raced` says that somebody wrote on a look that had
gone stale (between a read and a write of a reader, or between a hop's copy and its
claim): those are real in the code, rare, and healed by the list's next refresh, and
the three properties leave them out by name and nothing else.

Bounds: four servers, the least that `MIN_FREE_TO_JUDGE` lets the shape of a list be
judged by; a hop for one server (three quarters hidden: the shape tells) or for two
(it does not: only the marker does); one server may be down at Proton.

### Renewal

The keyring's certificate is its phase (fresh, due, lapsed); a copy of it is a phase
and whether it is still of that certificate. One process each of the three kinds
that renew: after a connect, before one, and typed. Each read of the keyring or of the
file and each write is a step; sign-in and sign-out change the keyring before
the file, Proton's own client renews when it likes.

Fairness: processes run on; health checks start a background renewal again and again;
the quarter of an hour between attempts passes; a keyring asked for ever answers
infinitely often (`SF`), which is what an unlocked session means. None for the route
to the API, on which `RenewedInTheEnd` is conditional, and none for a person.

### Verify

Time is polls of the verification loop. `stage` follows the preflight and then the
loop; each await is a step, and the ordinary network, the uplink and the tunnel
change between any two. A round of requests remembers the way it left by, so an answer may
come from outside the tunnel. `heard` keeps what the last link checks said.

Bounds: a window of one poll (shorter than a link check) and of six (three checks,
where two in a row convict); two rounds in flight. Fairness: `WF` of the connect's own
steps, since each wait has its own timeout; none for rounds, answers or the network.

### Profiles

A path NetworkManager gives out holds a profile (server, on disk or in memory, keyed,
on autoconnect) or none. The fast teardown over the bus, the slow one, `restore`,
building, keying and activating a profile, Proton's client and what a verdict does to
the copies of a server are each one step per call. A call may fail, the bus or the keyring may
not answer, the command be killed before any step with Proton's client living on,
and NetworkManager starts what is on autoconnect whenever nothing is active. A read of
the live tunnel that fails with the bus up passes for none (`DownLooks`), after which `down`
cleans up beside a tunnel it leaves up. `had` and `missed` are history: who had a profile
when the command began, and what went wrong in it, or NetworkManager did of itself.

`NothingPutsItBack` lets nothing go but what `missed` names. A profile that NetworkManager
starts between the deactivation and the clearing of autoconnect (`"started"`) stays up,
as the code does not look again: the property then still asks for no autoconnect and
no kill switch, and with nothing missed for no tunnel.

Bounds: two servers over three paths (so that a name has a duplicate and another
server a profile), every fault; `Slots` and `Servers` are symmetric.

### Measuring

`best` from its load to its save, over connects that queue for the lock and record in
the same file. The operators before the actions are the algorithms: eligibility, the shortlist by
turns of nearest and least loaded, the penalties in integers, the tiers, the order.
An order is a set of pairs, and `Sorted` the stable sort by one: so that Rust's
`sort_by(..)` with its `then`s is `Sorted(.., Then(.., ..))`, and a theorem can speak of any
order. A limit of 0 is none, as in the code. A save is three steps (open, write, rename) on a temporary file of one name;
`clash` says that two saves were open at once, which the property leaves out: the code
has no guard against it and no document claims one.

Bounds: four servers, one far, one near, one of unknown place and one beyond the
account; handshakes of 10 and 30 ms (on either side of what counts as implausibly
fast); shortlist, refine and list lengths of 2, 2, 3; two connects; three books to begin with.

### Window

The machine (tunnel, lock, script) changes by itself; a slow reading looks at routes,
traffic and lock at three moments, a fast one at the lock alone, and each lands later. `MaxChanges`
and `MaxPresses` bound what happens outside and how often a button starts a child;
after them the machine rests, which is what `Settles` is about. One of each is enough:
every crossing is of one connect or down of others, one child, one slow and one fast reading.

Fairness: connects and downs end, timers are served (`Fairness`). `Prompt` adds that a
slow reading now and then takes less than the second between two glances; `Steady`
only that it gets on. The passing run needs the first, `window_slow` shows what the second does.

While a connect holds the lock the tunnel may go, be believed in only, or be attached and
not yet verified (`Works`); one that fails leaves normal routing, or the tunnel there was
if it had not touched it, as a hop refused at its checks does.

## What the runs show

| run | result |
|---|---|
| `lock` | one holder; the kernel's holder is who believes it; beside it work only commands known to be outside the lock; the note is its own unless a command whose lock call failed wrote over it; refines `OneConnect`; `down` acts in bounded time and a holder `--force` asked to leave lets go in the end, even if it hangs. With kills, crashes, failing lock calls and signals at every point |
| `book` | a block is dated at the server's own last death and is over in four windows; the k-th death since it last carried is held min(k, 4) windows; a server that carried last stays listed as working; networks do not mix |
| `always` | licences to rebuild only come from networks asked on or listed; where there is no target an automatic connect takes away no tunnel that carries but its own; a `down` at rest stays; a `down` with the lock is not undone in its course |
| `up` | success is reported of what is there; failure leaves nothing attached; no return to a server written off by this command; our certificate blames nobody; the command ends |
| `hop` | success names, and leaves, a server asked for; failure leaves nothing but what was found, through every fallback and the `up` that follows a reconnect; it ends |
| `steer` | a hop nobody overtook lands on what it asked for or on nothing; a narrowed list has the original beside it and a marker, killed at any step; a steered hop puts back exactly what it copied |
| `renewal` | a connect that knows the certificate sets out only on a usable one; past its renewal point it does not stay, once the API is in reach |
| `verify` | the link is blamed for a roam or for checks in a row that each found it down; a verdict always comes |
| `profiles` | after a `down` no call of which failed and in which no orphaned client landed, the tunnel is down unless NetworkManager started one meanwhile, and nothing is left that would start another; a proven server keeps a profile at every step |
| `measuring` | the order is by each server's best answer, tier and rating; a verdict recorded while `best` measured survives its save |
| `window` | the orb comes to show what is; an announced reconnect has its end announced |

One run TLC refutes, of what a comment says:

| run | what is said | what happens |
|---|---|---|
| `window_slow` | after a connect, stay "until a fresh one is in" (`pvpn-gui/src/app.rs:654`) | `absorb_busy` leaves the old `busy` in place, so each glance starts the reading over; one slower than a second never comes in |

`RestingDownStays` is what can be said for "never undone": with nobody under way, no
number of resumes, roams, timers and further downs brings the tunnel back.

### Where words and code part

Met while modelling; the models do what the code does, and no run is spent on them.

* `README.md:389` says a deliberate `down` is never undone by automation; a connect
  that is past its check clears the marker (`AlwaysOn`'s entry).
* `lock.rs:3-12`, "one connect at a time": a signalled `watch` restores after its guard has
  gone, so another connect may take the lock and have its tunnel taken down by that
  restore; so may the restore of a `watch` that never had the lock (`WatchHeeds`, `Outside`).
* `lock.rs:233-235`: a holder that steps aside puts routing back "before the lock comes
  free"; a `watch` does so after.
* `lock.rs:166-168`: Ctrl-C on a waiter is safe, "a waiter has touched nothing"; a waiting
  `watch` runs `restore`, beside whoever holds the lock.
* `lock.rs:56-57`: the note is replaced "after the lock is taken, and only then"; after a
  `try_lock` that returned an error it is replaced as well (`TryErrors`).
* `lock.rs:206-209`: only a holder that was asked is killed; the pid is looked up
  again, and whoever holds by then is killed (`Kill`).
* `scope.rs:3-7`: no reconnect on a network roamed onto; scope is asked once, the
  queue and the backoff come after.
* `watch.rs:350-354`: no tearing down of what others built meanwhile; with a
  reconnect target the rebuild is a hop, which does (hence `CarryingLeftAlone`'s condition).
* `state.rs:403-404`: an elapsed block becomes `known` again; a full rank sweeps its
  copy, then drops it for the file.
* `connect.rs:1773-1775`: no walking on over a broken uplink; after a failed run of the
  client the loop goes on.
* `verify.rs:176-179`: nothing measured after a roam is the server's; the session log is read
  first and the link every few seconds (`Log` before `Key`).
* `connect.rs:2771`: "Keeping it"; a forced hop whose traffic did not flow may already have
  taken that tunnel down (hence `how # "forced"` in `HopLandsAsAsked`).
* `teardown.rs:99`: nothing is left on autoconnect; a call that fails is let go of (`missed`).
* `proc.rs:776`: the copy worth keeping is kept; where none is active it is the first listed, which
  may be a killed client's that exists in memory only (`"tidied"`).
* `main.rs:832-835`: exit code 77 is for a sign-in nobody did; a connect whose session dies
  while the note still waits ends with it too (`Unanswered`).

## What is proved

`ConnectLockProofs`, for every `Procs`, every partition of it into kinds of
command that satisfies `ProcsAssumption`, and every length of the waits:

* `TypeCorrect`: the poll counters stay in their range, pids name slots.
* `HolderIsOwnerAlways`: `HolderIsOwner` is inductive given `TypeOK`, through the drop of
  `watch`'s guard too. It is the strengthening that the rest needs: exclusion alone says
  nothing of the owner, so `Acquire` (guarded by the owner) could break it from
  a state where a holder is not the owner.
* `MutualExclusionAlways`: two holders would both be the owner; and whoever is at work
  without holding has come there in a way that is remembered (`KnownOutside`): nothing
  else leads to `bare` or `undoing`.
* `NoteIsHoldersAlways`: the holder at work wrote the note last, and who has written since
  is a trespasser. The invariant (`NoteInv`) speaks of the time between its two steps as
  well: with no trespasser the text is empty then.
* `Refinement`: a step changes the owner to or from nobody, never from one
  command to another; the mapped step is `Enter`, `Leave` or a stutter, and a `watch` leaves
  when it heeds a signal.

`ServerBookProofs`, for every set of networks and servers, every set of log
phrases, retry window and bound. The properties are about the file, but a command
saves its copy over it; so the invariant (`Inductive`) says that the copy differs
from the file at most by expired blocks (`CopyIsBook`), and that each record of the
file agrees with the history (`BookIsTruthful`: failures equal deaths, blocks carry
the last verdict's date, having carried means a success is counted). Lemmas say of
each method of a record that it keeps this; that an expiry is idempotent and only
grows with time is what keeps `CopyIsBook` when the clock moves. From it:
`TypeCorrect`, `BlockedForCauseAlways`, `HoldMatchesRecordAlways`,
`ProvenStaysWorkingAlways`, and `OtherNetworksUntouchedAlways` of each step.

`AlwaysOnProofs`, for every set of terminals and networks, scope, targets and
number of attempts. `LicensedWhereAskedAlways` needs that the remembered network
is one a person asked on (`StartedWhereAsked`). `LockedDownLandsAlways` and
`RestingDownStaysAlways` need that whoever connects holds the lock and that no
`down` connects (`HolderConnects`). `CarryingLeftAloneAlways` needs that a tunnel
which is there while a connect builds is its own (`BuildersOwn`), which again
rests on the lock. Typing the hook's counter needs `AttemptsCounted`.

`UpConnectProofs`, for every finite set of servers and every limit.

* `Inductive` says where in the command nothing is attached (`NothingYet`), so that
  the returns without a restore leave nothing behind, and that a report is the last thing
  a command does. From it `HonestSuccessAlways` and `NothingLeftBehindAlways`;
  `CertBlamesNobodyAlways` follows of each step from the order of `OutcomeFor`.
* `TypeCorrect` has limits to it: the index never passes the list or the attempts, nor
  the count of quiet tunnels its own. That needs `LimitsKept`: a turn is begun only
  while there is one left, and there is none past the end of a list.
* `NeverBackToBlamedAlways` needs more than that the target is not blamed: all that is to
  come of the list is not, and no server is on it twice (`NotYetBlamed`). A turn may
  blame its own target only, and that one is then behind the index.
* `HopInductive` holds `up`'s invariant wherever a hop has become an `up` (`InUp`), what is
  attached before a server is asked for (`Untouched`), and what a verdict is about (`ToJudge`:
  unless it was forced, the tunnel attached is the one to be judged). From it
  `HopLandsAsAskedAlways` and `HopLeavesNothingAlways`, for every want.

`VerifyProofs`, for every settle window, interval between link checks and number of
confirmations (`VerifyAssumption`). `LinkDownEarned` needs that what was heard bears
out what was counted (`CountIsHeard`): until the link is blamed there are at least as many
answers as were counted against it, the newest of them all say down, and they are too
few to convict. `TypeCorrect` is put together from four lemmas, of which the clock (`OnTime`)
is the one with something to it: a look at the link that began before the deadline
may end after it, and only one.

`SharedStateProofs`, of `Renewal` for every set of processes of the three kinds (`RenewalAssumption`,
and `NoCertAssumption`: the absence of a certificate is not one).
`SetsOutUsableAlways` needs that any copy of the certificate, in the file or in a
process, is at least as far gone as the keyring's (`NoYounger`). That holds because a
copy ages with the certificate, while what is new comes into the keyring first.

`ProfilesProofs`, for every set of servers and any number of paths. The whole of a
`down` is one walk (`DownSteps`) in which autoconnect is cleared once, on either way,
and nothing of the walk sets it again (`NoAutos`); what NetworkManager activates meanwhile
sets none either. Past the deactivation nothing is active, unless NetworkManager has
(`TunnelGone`). `NothingPutsItBackAlways` is what is left of both at the end of it if no call
failed and no client that outlived its command landed a profile in the midst of it (`missed`).

`ProvenKeptAlways` needs an account of the last copy of each proven server
(`LastCopyAlways`), in three parts. `Refers`: what a command takes for the live tunnel is
it, at the steps that act on it. `LastCopy`: every such server has a profile that a reboot or
the tunnel keeps, and at the steps that have let go of the tunnel (`Away`) one on disk. `NoLeftOvers`:
while the tunnel has not (`Early`), and when `restore` drops duplicates, no killed client's
profile stands in for the one on disk; where one does, the deduplication says so (`tidied`)
and the property speaks no more of that command.

`MeasuringProofs`, for every server list, account and place, every finite set of answering
times, every limit and every number of connects (`MeasuringAssumption`; `Refine` is at
least 1, as `pipeline.rs` makes it).

* The operators first. `InOrderIs`: places put in a total order are all of them, each
  once, none before an earlier one; it is where counting comes in (an injection of a
  finite set into one as large is onto). From it `KeptIs` and `SortedIs`, of the stable
  sort by any order whose "not after" is transitive, and that the orders the code sorts by
  are such ones, one after another too (`ByOrders`, `NearerOrders`, `ThenOrders`).
  `RankIs` puts them together.
* `RankedByBestSampleAlways` needs that the latency of a server is the fastest of its answers
  at every step (`Fastest`) and that the order was made by the latencies there are now (`InPlace`).
* `MeasuringLosesNothingAlways` needs that what `best` is to save differs from the file only
  in what a measurement sets (`Rebased`), and that the temporary file is the saver's own while
  no two saves have been open at once (`Alone`).

`SharedStateProofs`, of `Steer` for every finite set of servers, and all patterns, outages and
readers (`SteerAssumption`, and `MarksAssumption`: no backup is not a list, and a dead pid is
neither the hop's nor none). `Guarded` says who may be where while the marker is the
hop's: nobody about to mend, unmark or fetch, for those look at it first, and whoever
looked before it was there makes the claim count as overtaken. `MarkedAtWork` says that
it is the hop's only while the hop is at it, `Narrowed` what Proton's client is about
to read. From it `RecoverableAlways` and `PicksNamedAlways`.

`PutsBackAlways` has a hypothesis, `ProtonKeepsMost`: Proton itself never has three quarters
of the servers down at once, which is what `STRANDED_FRACTION` is chosen by (`cache.rs:451`).
Without it the property does not hold: TLC, given an outage of three servers in four,
finds a reader that took Proton's own list for a stranded one, and enables its servers
again after the hop copied that list aside; the hop puts back another. With it, no
list the hop may copy looks steered (`KeptInTurn`), so that nobody has it in mind to mend.

The inductive invariants were checked by TLC on the runs' instances before they
were proved, as the properties are.

Only model-checked: the liveness properties (`DownActs`, `ForcedHolderGoes`, `Finishes`,
`HopFinishes`, `RenewedInTheEnd`, `VerdictComes`, `Settles`, `ReconnectHasItsEnd`), which are
beyond the prover; `Window` has no others. Every other property of the passing runs
is a theorem.

## What is not modelled

* `up` and `hop`: a restore that itself fails (its steps are in `Profiles`), and another
  command's from outside the lock; a tunnel of Proton's client whose server is not known (the
  code verifies it all the same and calls it "unknown"); a run of
  Proton's client that succeeds and leaves only a stale record and no tunnel; choosing a protocol.
* `ServerBook` and `Measuring`: the event log; counts per protocol; import of the old
  flat file; what a save of the GUI's or of `forget` overwrites. The clock does not step back.
* `ConnectLock`: what a restore does beside a holder (it tears down, `Profiles`); pid reuse; `/proc/locks` unreadable (preempt then gives up, as
  it does with no holder).
* `Steer`: a write or copy cut in half; a second hop (the lock).
* `Verify`: sockets, parsing of `ip` and `nmcli`, what a single probe sends.
* `Profiles`: `align_transport`; transports are one. The hosts file, Tor, spawning.
* `Measuring`: geography, sockets, the curves of the penalties between their ends.
* `Window`: pages, settings, services, the tray, drawing.
* `config.rs`, `paths.rs`, `display.rs`, `narrate.rs`, the read-only queries: formatting, no
  protocol between actors. `lib/`: one-shot scripts and patches of Proton's client.
  `system/`: their starts and stops are `AlwaysOn`'s actions. `legacy/`: kept for
  reference, neither built nor installed. `setup.sh`, scripts and tests: installation.

## Plan

Done, in this order: the lock, because everything else stands on it; the book;
always-on, which composes the two markers with an abstract lock; `up`; then
what `up` takes for granted (`Verify`, `Renewal`, `Profiles`, `Measuring`), what is built on it (`Hop`,
`Steer`) and who watches it (`Window`).

Next: `HopTypeOK`, the type invariant of a hop, which `HopInductive` does without; what
`Pool` and `Cut` keep of the servers that carried (`extra_keep`), as theorems of the operators;
of `Window`, the safety that its liveness rests on: that the reading in hand is
never older than the last one shown.
