-------------------------- MODULE ConnectLockProofs --------------------------
(***************************************************************************)
(* What the connect lock guarantees for every set of commands and every    *)
(* length of the waits.                                                    *)
(*                                                                         *)
(* MutualExclusion says nothing of the flock's owner, nor of how a command *)
(* came to work without it, so it is not inductive.  HolderIsOwner ties    *)
(* what each command believes to what the kernel knows, so two believers   *)
(* would have to be the same owner; KnownOutside accounts for everyone who *)
(* works without holding it.                                               *)
(***************************************************************************)
EXTENDS ConnectLock, TLAPS

\* What the poll counters are set to and count down through.
LEMMA PollsInRange ==
  /\ {0, AskPolls, KillPolls, DownPolls} \subseteq Polls
  /\ \A n \in Polls : n > 0 => n - 1 \in Polls
BY PollsAssumption DEF Polls

\* What a process's end, or a signal to it, makes of the state is well-typed.
SignalTyped ==
  /\ owner' \in Procs \cup {NoProc}
  /\ mode' \in [Procs -> {"forced", "bounded", "plain"}]
  /\ pid' \in [Procs -> Procs \cup {NoProc}]
  /\ asked' \in [Procs -> SUBSET Procs]
  /\ due' \subseteq Procs
  /\ failed' \subseteq Procs

LEMMA EndsTyped ==
  ASSUME TypeOK, NEW t \in Procs, Ends(t)
  PROVE  SignalTyped
<1>1. owner' \in Procs \cup {NoProc}
  BY DEF Ends, TypeOK
<1>2. mode' \in [Procs -> {"forced", "bounded", "plain"}]
  BY DEF Ends, TypeOK, ModeOf
<1>3. pid' \in [Procs -> Procs \cup {NoProc}] /\ asked' \in [Procs -> SUBSET Procs]
  BY DEF Ends, TypeOK
<1>4. QED
  BY <1>1, <1>2, <1>3 DEF Ends, TypeOK, SignalTyped

LEMMA SignalledTyped ==
  ASSUME TypeOK, NEW t \in Procs, NEW by, Signalled(t, by)
  PROVE  SignalTyped
<1>1. CASE Handles(t)
  <2>1. due' \subseteq Procs
    BY <1>1 DEF Signalled, TypeOK
  <2>2. asked' \in [Procs -> SUBSET Procs]
    BY <1>1 DEF Signalled, TypeOK
  <2>3. pid' \in [Procs -> Procs \cup {NoProc}]
    BY <1>1 DEF Signalled, TypeOK
  <2>4. QED
    BY <1>1, <2>1, <2>2, <2>3 DEF Signalled, TypeOK, SignalTyped
<1>2. CASE ~Handles(t)
  BY <1>2, EndsTyped DEF Signalled
<1>3. QED
  BY <1>1, <1>2

\* Every process's waiting, signalling, killing and exiting keeps the state
\* well-typed: no poll counter passes its bound or zero, no pid names a slot
\* that does not exist.
THEOREM TypeCorrect == Spec => []TypeOK
<1> USE ProcsAssumption, PollsInRange
<1>1. Init => TypeOK
  <2> SUFFICES ASSUME Init
               PROVE  TypeOK
    OBVIOUS
  <2>1. mode \in [Procs -> {"forced", "bounded", "plain"}] /\ pc \in [Procs -> PcSet]
    BY DEF Init, ModeOf, PcSet
  <2>2. left \in [Procs -> Polls] /\ asked \in [Procs -> SUBSET Procs]
    BY DEF Init
  <2>3. pid \in [Procs -> Procs \cup {NoProc}] /\ owner = NoProc /\ note = NoProc
    BY DEF Init
  <2>4. QED
    BY <2>1, <2>2, <2>3 DEF Init, TypeOK
<1>2. TypeOK /\ [Next]_vars => TypeOK'
  <2> SUFFICES ASSUME TypeOK, [Next]_vars
               PROVE  TypeOK'
    OBVIOUS
  <2> USE DEF TypeOK, PcSet, Queued, Holding, Unguarded, Goto
  <2>1. ASSUME NEW p \in Procs, Start(p)
        PROVE  TypeOK'
    BY <2>1 DEF Start
  <2>2. ASSUME NEW p \in Procs, CheckFoundDead(p)
        PROVE  TypeOK'
    BY <2>2 DEF CheckFoundDead
  <2>3. ASSUME NEW p \in Procs, CannotOpen(p)
        PROVE  TypeOK'
    BY <2>3 DEF CannotOpen
  <2>4. ASSUME NEW p \in Procs, TryErrors(p)
        PROVE  TypeOK'
    BY <2>4 DEF TryErrors, Trying
  <2>5. ASSUME NEW p \in Procs, Acquire(p)
        PROVE  TypeOK'
    BY <2>5 DEF Acquire
  <2>6. ASSUME NEW p \in Procs, TryFails(p)
        PROVE  TypeOK'
    BY <2>6 DEF TryFails
  <2>7. ASSUME NEW p \in Procs, PollAgain(p)
        PROVE  TypeOK'
    BY <2>7 DEF PollAgain
  <2>8. ASSUME NEW p \in Procs, Describe(p)
        PROVE  TypeOK'
    BY <2>8 DEF Describe
  <2>9. ASSUME NEW p \in Procs, PatienceEnds(p)
        PROVE  TypeOK'
    BY <2>9 DEF PatienceEnds
  <2>10. ASSUME NEW p \in Procs, FindHolder(p)
         PROVE  TypeOK'
    BY <2>10 DEF FindHolder, Refused
  <2>11. ASSUME NEW p \in Procs, Terminate(p)
         PROVE  TypeOK'
    <3>1. pid[p] \in Procs
      BY <2>11 DEF Terminate
    <3>2. SignalTyped
      BY <2>11, <3>1, SignalledTyped DEF Terminate
    <3>3. pc' \in [Procs -> PcSet] /\ left' \in [Procs -> Polls]
      BY <2>11 DEF Terminate, AfterSignal
    <3>4. QED
      BY <2>11, <3>2, <3>3 DEF Terminate, SignalTyped
  <2>12. ASSUME NEW p \in Procs, TerminateMisses(p)
         PROVE  TypeOK'
    BY <2>12 DEF TerminateMisses, Refused
  <2>13. ASSUME NEW p \in Procs, YieldExpires(p)
         PROVE  TypeOK'
    BY <2>13 DEF YieldExpires, Refused
  <2>14. ASSUME NEW p \in Procs, FindTarget(p)
         PROVE  TypeOK'
    BY <2>14 DEF FindTarget
  <2>15. ASSUME NEW p \in Procs, Kill(p)
         PROVE  TypeOK'
    BY <2>15 DEF Kill, Ends, ModeOf
  <2>16. ASSUME NEW p \in Procs, KillMisses(p)
         PROVE  TypeOK'
    BY <2>16 DEF KillMisses
  <2>17. ASSUME NEW p \in Procs, ReapExpires(p)
         PROVE  TypeOK'
    BY <2>17 DEF ReapExpires
  <2>18. ASSUME NEW p \in Procs, TruncateNote(p)
         PROVE  TypeOK'
    BY <2>18 DEF TruncateNote
  <2>19. ASSUME NEW p \in Procs, WriteNote(p)
         PROVE  TypeOK'
    <3>1. pc' \in [Procs -> PcSet]
      BY <2>19 DEF WriteNote
    <3>2. note' \in Procs \cup {NoProc}
      BY <2>19 DEF WriteNote
    <3>3. trespass' \in BOOLEAN /\ UNCHANGED <<owner, mode, pid, left, due, asked, failed>>
      BY <2>19 DEF WriteNote
    <3>4. QED
      BY <3>1, <3>2, <3>3
  <2>20. ASSUME NEW p \in Procs, ConnectHeeds(p)
         PROVE  TypeOK'
    BY <2>20 DEF ConnectHeeds
  <2>21. ASSUME NEW p \in Procs, WatchHeeds(p)
         PROVE  TypeOK'
    BY <2>21 DEF WatchHeeds
  <2>22. ASSUME NEW p \in Procs, Exit(p)
         PROVE  TypeOK'
    BY <2>22 DEF Exit, Ends, ModeOf
  <2>23. ASSUME NEW p \in Procs, Interrupt(p)
         PROVE  TypeOK'
    <3>1. SignalTyped
      BY <2>23, SignalledTyped DEF Interrupt
    <3>2. pc' \in [Procs -> PcSet]
      BY <2>23 DEF Interrupt, AfterSignal
    <3>3. QED
      BY <2>23, <3>1, <3>2 DEF Interrupt, SignalTyped
  <2>24. ASSUME NEW p \in Procs, Crash(p)
         PROVE  TypeOK'
    BY <2>24 DEF Crash, Ends, ModeOf
  <2>25. CASE UNCHANGED vars
    BY <2>25 DEF vars
  <2>26. QED
    BY <2>1, <2>2, <2>3, <2>4, <2>5, <2>6, <2>7, <2>8, <2>9, <2>10, <2>11,
       <2>12, <2>13, <2>14, <2>15, <2>16, <2>17, <2>18, <2>19, <2>20, <2>21,
       <2>22, <2>23, <2>24, <2>25 DEF Next, Progress
<1>3. QED
  BY <1>1, <1>2, PTL DEF Spec

\* The kernel's holder and the command that believes it holds the lock are one
\* and the same, through kills and crashes at any point of either, and through
\* signals: a `watch` that heeds one has stopped believing it when it restores.
THEOREM HolderIsOwnerAlways == Spec => []HolderIsOwner
<1> USE ProcsAssumption
<1>1. Init => HolderIsOwner
  BY DEF Init, HolderIsOwner, Holding
<1>2. TypeOK /\ HolderIsOwner /\ [Next]_vars => HolderIsOwner'
  <2> SUFFICES ASSUME TypeOK, HolderIsOwner, [Next]_vars
               PROVE  HolderIsOwner'
    OBVIOUS
  <2> USE DEF TypeOK, HolderIsOwner, Holding, Goto
  <2>1. ASSUME NEW p \in Procs, Start(p)
        PROVE  HolderIsOwner'
    BY <2>1 DEF Start
  <2>2. ASSUME NEW p \in Procs, CheckFoundDead(p)
        PROVE  HolderIsOwner'
    BY <2>2 DEF CheckFoundDead
  <2>3. ASSUME NEW p \in Procs, CannotOpen(p)
        PROVE  HolderIsOwner'
    BY <2>3 DEF CannotOpen
  <2>4. ASSUME NEW p \in Procs, TryErrors(p)
        PROVE  HolderIsOwner'
    BY <2>4 DEF TryErrors, Trying
  <2>5. ASSUME NEW p \in Procs, Acquire(p)
        PROVE  HolderIsOwner'
    BY <2>5 DEF Acquire
  <2>6. ASSUME NEW p \in Procs, TryFails(p)
        PROVE  HolderIsOwner'
    BY <2>6 DEF TryFails
  <2>7. ASSUME NEW p \in Procs, PollAgain(p)
        PROVE  HolderIsOwner'
    BY <2>7 DEF PollAgain
  <2>8. ASSUME NEW p \in Procs, Describe(p)
        PROVE  HolderIsOwner'
    BY <2>8 DEF Describe
  <2>9. ASSUME NEW p \in Procs, PatienceEnds(p)
        PROVE  HolderIsOwner'
    BY <2>9 DEF PatienceEnds
  <2>10. ASSUME NEW p \in Procs, FindHolder(p)
         PROVE  HolderIsOwner'
    BY <2>10 DEF FindHolder, Refused
  <2>11. ASSUME NEW p \in Procs, Terminate(p)
         PROVE  HolderIsOwner'
    BY <2>11 DEF Terminate, Signalled, AfterSignal, Handles, Ends
  <2>12. ASSUME NEW p \in Procs, TerminateMisses(p)
         PROVE  HolderIsOwner'
    BY <2>12 DEF TerminateMisses, Refused
  <2>13. ASSUME NEW p \in Procs, YieldExpires(p)
         PROVE  HolderIsOwner'
    BY <2>13 DEF YieldExpires, Refused
  <2>14. ASSUME NEW p \in Procs, FindTarget(p)
         PROVE  HolderIsOwner'
    BY <2>14 DEF FindTarget
  <2>15. ASSUME NEW p \in Procs, Kill(p)
         PROVE  HolderIsOwner'
    BY <2>15 DEF Kill, Ends
  <2>16. ASSUME NEW p \in Procs, KillMisses(p)
         PROVE  HolderIsOwner'
    BY <2>16 DEF KillMisses
  <2>17. ASSUME NEW p \in Procs, ReapExpires(p)
         PROVE  HolderIsOwner'
    BY <2>17 DEF ReapExpires
  <2>18. ASSUME NEW p \in Procs, TruncateNote(p)
         PROVE  HolderIsOwner'
    <3>1. CASE Goto(p, "note", "noting")
      BY <2>18, <3>1 DEF TruncateNote
    <3>2. CASE Goto(p, "bare note", "bare noting")
      BY <2>18, <3>2 DEF TruncateNote
    <3>3. QED
      BY <2>18, <3>1, <3>2 DEF TruncateNote
  <2>19. ASSUME NEW p \in Procs, WriteNote(p)
         PROVE  HolderIsOwner'
    <3>1. CASE Goto(p, "noting", "moving")
      BY <2>19, <3>1 DEF WriteNote
    <3>2. CASE Goto(p, "bare noting", "bare")
      BY <2>19, <3>2 DEF WriteNote
    <3>3. QED
      BY <2>19, <3>1, <3>2 DEF WriteNote
  <2>20. ASSUME NEW p \in Procs, ConnectHeeds(p)
         PROVE  HolderIsOwner'
    BY <2>20 DEF ConnectHeeds
  <2>21. ASSUME NEW p \in Procs, WatchHeeds(p)
         PROVE  HolderIsOwner'
    BY <2>21 DEF WatchHeeds
  <2>22. ASSUME NEW p \in Procs, Exit(p)
         PROVE  HolderIsOwner'
    BY <2>22 DEF Exit, Ends
  <2>23. ASSUME NEW p \in Procs, Interrupt(p)
         PROVE  HolderIsOwner'
    BY <2>23 DEF Interrupt, Signalled, AfterSignal, Handles, Ends
  <2>24. ASSUME NEW p \in Procs, Crash(p)
         PROVE  HolderIsOwner'
    BY <2>24 DEF Crash, Ends
  <2>25. CASE UNCHANGED vars
    BY <2>25 DEF vars
  <2>26. QED
    BY <2>1, <2>2, <2>3, <2>4, <2>5, <2>6, <2>7, <2>8, <2>9, <2>10, <2>11,
       <2>12, <2>13, <2>14, <2>15, <2>16, <2>17, <2>18, <2>19, <2>20, <2>21,
       <2>22, <2>23, <2>24, <2>25 DEF Next, Progress
<1>3. QED
  BY <1>1, <1>2, TypeCorrect, PTL DEF Spec

-------------------------------------------------------------------------------
\* Whoever works without the flock, and why: only `down` waits with a bound, and
\* nobody comes to work or to restore beside a holder but by the ways named in
\* Outside.
AccountedFor(p) ==
  /\ mode[p] = "bounded" => p \in Downs
  /\ pc[p] \in {"bare note", "bare noting"} => p \in failed
  /\ pc[p] = "bare" => p \in failed \/ p \in Downs
  /\ pc[p] = "undoing" => p \in failed \/ p \in Watchers

KnownOutside == \A p \in Procs : AccountedFor(p)

LEMMA KnownOutsideAlways == Spec => []KnownOutside
<1> USE ProcsAssumption
<1>1. Init => KnownOutside
  BY DEF Init, KnownOutside, AccountedFor, ModeOf
<1>2. TypeOK /\ KnownOutside /\ [Next]_vars => KnownOutside'
  <2> SUFFICES ASSUME TypeOK, KnownOutside, [Next]_vars
               PROVE  KnownOutside'
    OBVIOUS
  <2> USE DEF TypeOK, Goto
  <2>1. ASSUME NEW p \in Procs, Start(p)
        PROVE  KnownOutside'
    BY <2>1 DEF Start, KnownOutside, AccountedFor
  <2>2. ASSUME NEW p \in Procs, CheckFoundDead(p)
        PROVE  KnownOutside'
    BY <2>2 DEF CheckFoundDead, KnownOutside, AccountedFor
  <2>3. ASSUME NEW p \in Procs, CannotOpen(p)
        PROVE  KnownOutside'
    BY <2>3 DEF CannotOpen, KnownOutside, AccountedFor
  <2>4. ASSUME NEW p \in Procs, TryErrors(p)
        PROVE  KnownOutside'
    BY <2>4 DEF TryErrors, Trying, KnownOutside, AccountedFor
  <2>5. ASSUME NEW p \in Procs, Acquire(p)
        PROVE  KnownOutside'
    BY <2>5 DEF Acquire, KnownOutside, AccountedFor
  <2>6. ASSUME NEW p \in Procs, TryFails(p)
        PROVE  KnownOutside'
    BY <2>6 DEF TryFails, KnownOutside, AccountedFor
  <2>7. ASSUME NEW p \in Procs, PollAgain(p)
        PROVE  KnownOutside'
    BY <2>7 DEF PollAgain, KnownOutside, AccountedFor
  <2>8. ASSUME NEW p \in Procs, Describe(p)
        PROVE  KnownOutside'
    BY <2>8 DEF Describe, KnownOutside, AccountedFor
  <2>9. ASSUME NEW p \in Procs, PatienceEnds(p)
        PROVE  KnownOutside'
    BY <2>9 DEF PatienceEnds, KnownOutside, AccountedFor
  <2>10. ASSUME NEW p \in Procs, FindHolder(p)
         PROVE  KnownOutside'
    BY <2>10 DEF FindHolder, Refused, KnownOutside, AccountedFor
  <2>11. ASSUME NEW p \in Procs, Terminate(p)
         PROVE  KnownOutside'
    <3> SUFFICES ASSUME NEW q \in Procs
                 PROVE  AccountedFor(q)'
      BY DEF KnownOutside
    <3> DEFINE t == pid[p]
    <3>1. AccountedFor(q) /\ t \in Procs
      BY <2>11 DEF Terminate, KnownOutside
    <3>2. CASE Handles(t)
      BY <2>11, <3>1, <3>2 DEF Terminate, Signalled, AfterSignal, AccountedFor
    <3>3. CASE ~Handles(t) /\ q = t
      <4>1. Ends(t) /\ pc'[q] = "idle"
        BY <2>11, <3>1, <3>3 DEF Terminate, Signalled, AfterSignal
      <4>2. mode'[q] = "bounded" => q \in Downs
        BY <3>1, <3>3, <4>1 DEF Ends, ModeOf
      <4>3. QED
        BY <4>1, <4>2 DEF AccountedFor
    <3>4. CASE ~Handles(t) /\ q # t
      BY <2>11, <3>1, <3>4 DEF Terminate, Signalled, AfterSignal, Ends, AccountedFor
    <3>5. QED
      BY <3>2, <3>3, <3>4
  <2>12. ASSUME NEW p \in Procs, TerminateMisses(p)
         PROVE  KnownOutside'
    BY <2>12 DEF TerminateMisses, Refused, KnownOutside, AccountedFor
  <2>13. ASSUME NEW p \in Procs, YieldExpires(p)
         PROVE  KnownOutside'
    BY <2>13 DEF YieldExpires, Refused, KnownOutside, AccountedFor
  <2>14. ASSUME NEW p \in Procs, FindTarget(p)
         PROVE  KnownOutside'
    BY <2>14 DEF FindTarget, KnownOutside, AccountedFor
  <2>15. ASSUME NEW p \in Procs, Kill(p)
         PROVE  KnownOutside'
    BY <2>15 DEF Kill, Ends, ModeOf, KnownOutside, AccountedFor
  <2>16. ASSUME NEW p \in Procs, KillMisses(p)
         PROVE  KnownOutside'
    BY <2>16 DEF KillMisses, KnownOutside, AccountedFor
  <2>17. ASSUME NEW p \in Procs, ReapExpires(p)
         PROVE  KnownOutside'
    BY <2>17 DEF ReapExpires, KnownOutside, AccountedFor
  <2>18. ASSUME NEW p \in Procs, TruncateNote(p)
         PROVE  KnownOutside'
    <3>1. CASE Goto(p, "note", "noting")
      BY <2>18, <3>1 DEF TruncateNote, KnownOutside, AccountedFor
    <3>2. CASE Goto(p, "bare note", "bare noting")
      BY <2>18, <3>2 DEF TruncateNote, KnownOutside, AccountedFor
    <3>3. QED
      BY <2>18, <3>1, <3>2 DEF TruncateNote
  <2>19. ASSUME NEW p \in Procs, WriteNote(p)
         PROVE  KnownOutside'
    <3>1. CASE Goto(p, "noting", "moving")
      BY <2>19, <3>1 DEF WriteNote, KnownOutside, AccountedFor
    <3>2. CASE Goto(p, "bare noting", "bare")
      BY <2>19, <3>2 DEF WriteNote, KnownOutside, AccountedFor
    <3>3. QED
      BY <2>19, <3>1, <3>2 DEF WriteNote
  <2>20. ASSUME NEW p \in Procs, ConnectHeeds(p)
         PROVE  KnownOutside'
    <3>1. CASE Goto(p, "moving", "restoring")
      BY <2>20, <3>1 DEF ConnectHeeds, KnownOutside, AccountedFor
    <3>2. CASE Goto(p, "bare", "undoing")
      <4>1. p \in failed
        BY <2>20, <3>2 DEF ConnectHeeds, Connects, KnownOutside, AccountedFor
      <4>2. QED
        BY <2>20, <3>2, <4>1 DEF ConnectHeeds, KnownOutside, AccountedFor
    <3>3. QED
      BY <2>20, <3>1, <3>2 DEF ConnectHeeds
  <2>21. ASSUME NEW p \in Procs, WatchHeeds(p)
         PROVE  KnownOutside'
    <3> SUFFICES ASSUME NEW q \in Procs
                 PROVE  AccountedFor(q)'
      BY DEF KnownOutside
    <3>1. AccountedFor(q) /\ UNCHANGED <<mode, failed>> /\ p \in Watchers
      BY <2>21 DEF WatchHeeds, KnownOutside
    <3>2. pc' = [pc EXCEPT ![p] = "undoing"]
      BY <2>21 DEF WatchHeeds
    <3>3. CASE q = p
      BY <3>1, <3>2, <3>3 DEF AccountedFor
    <3>4. CASE q # p
      BY <3>1, <3>2, <3>4 DEF AccountedFor
    <3>5. QED
      BY <3>3, <3>4
  <2>22. ASSUME NEW p \in Procs, Exit(p)
         PROVE  KnownOutside'
    BY <2>22 DEF Exit, Ends, ModeOf, KnownOutside, AccountedFor
  <2>23. ASSUME NEW p \in Procs, Interrupt(p)
         PROVE  KnownOutside'
    <3> SUFFICES ASSUME NEW q \in Procs
                 PROVE  AccountedFor(q)'
      BY DEF KnownOutside
    <3>1. AccountedFor(q)
      BY DEF KnownOutside
    <3>2. CASE Handles(p)
      BY <2>23, <3>1, <3>2 DEF Interrupt, Signalled, AfterSignal, AccountedFor
    <3>3. CASE ~Handles(p) /\ q = p
      BY <2>23, <3>1, <3>3 DEF Interrupt, Signalled, AfterSignal, Ends, ModeOf, AccountedFor
    <3>4. CASE ~Handles(p) /\ q # p
      BY <2>23, <3>1, <3>4 DEF Interrupt, Signalled, AfterSignal, Ends, AccountedFor
    <3>5. QED
      BY <3>2, <3>3, <3>4
  <2>24. ASSUME NEW p \in Procs, Crash(p)
         PROVE  KnownOutside'
    BY <2>24 DEF Crash, Ends, ModeOf, KnownOutside, AccountedFor
  <2>25. CASE UNCHANGED vars
    BY <2>25 DEF vars, KnownOutside, AccountedFor
  <2>26. QED
    BY <2>1, <2>2, <2>3, <2>4, <2>5, <2>6, <2>7, <2>8, <2>9, <2>10, <2>11,
       <2>12, <2>13, <2>14, <2>15, <2>16, <2>17, <2>18, <2>19, <2>20, <2>21,
       <2>22, <2>23, <2>24, <2>25 DEF Next, Progress
<1>3. QED
  BY <1>1, <1>2, TypeCorrect, PTL DEF Spec

\* Two commands never change the tunnel or the routes at once, unless one of
\* them works outside the lock in one of the three ways the code has.
THEOREM MutualExclusionAlways == Spec => []MutualExclusion
<1>1. HolderIsOwner /\ KnownOutside => MutualExclusion
  <2> SUFFICES ASSUME HolderIsOwner, KnownOutside,
                      NEW p \in Procs, NEW q \in Procs,
                      p # q, pc[p] \in AtWork, pc[q] \in AtWork,
                      ~Outside(p)
               PROVE  Outside(q)
    BY DEF MutualExclusion
  <2>1. owner = p
    <3>1. pc[p] \notin {"bare", "undoing"}
      BY DEF KnownOutside, AccountedFor, Outside
    <3>2. QED
      BY <3>1 DEF HolderIsOwner, Holding, AtWork
  <2>2. pc[q] \in {"bare", "undoing"}
    BY <2>1 DEF HolderIsOwner, Holding, AtWork
  <2>3. QED
    BY <2>2 DEF KnownOutside, AccountedFor, Outside
<1>2. QED
  BY <1>1, HolderIsOwnerAlways, KnownOutsideAlways, PTL

-------------------------------------------------------------------------------
\* NoteIsHolders, and what a holder finds between its two system calls.
NoteInv ==
  /\ NoteIsHolders
  /\ \A p \in Procs : pc[p] = "noting" /\ ~trespass => note = NoProc

\* A command at its work under the lock finds its own note in the lock file, or
\* a command that went on after a failed try_lock has written there since: no
\* holder's note outlives the next holder's, and no open touches it.
THEOREM NoteIsHoldersAlways == Spec => []NoteIsHolders
<1> USE ProcsAssumption
<1>1. Init => NoteInv
  BY DEF Init, NoteInv, NoteIsHolders
<1>2. TypeOK /\ HolderIsOwner /\ NoteInv /\ [Next]_vars => NoteInv'
  <2> SUFFICES ASSUME TypeOK, HolderIsOwner, NoteInv, [Next]_vars
               PROVE  NoteInv'
    OBVIOUS
  <2> USE DEF TypeOK, HolderIsOwner, NoteInv, NoteIsHolders, Holding, Goto
  <2>1. ASSUME NEW p \in Procs, Start(p)
        PROVE  NoteInv'
    BY <2>1 DEF Start
  <2>2. ASSUME NEW p \in Procs, CheckFoundDead(p)
        PROVE  NoteInv'
    BY <2>2 DEF CheckFoundDead
  <2>3. ASSUME NEW p \in Procs, CannotOpen(p)
        PROVE  NoteInv'
    BY <2>3 DEF CannotOpen
  <2>4. ASSUME NEW p \in Procs, TryErrors(p)
        PROVE  NoteInv'
    BY <2>4 DEF TryErrors, Trying
  <2>5. ASSUME NEW p \in Procs, Acquire(p)
        PROVE  NoteInv'
    BY <2>5 DEF Acquire
  <2>6. ASSUME NEW p \in Procs, TryFails(p)
        PROVE  NoteInv'
    BY <2>6 DEF TryFails
  <2>7. ASSUME NEW p \in Procs, PollAgain(p)
        PROVE  NoteInv'
    BY <2>7 DEF PollAgain
  <2>8. ASSUME NEW p \in Procs, Describe(p)
        PROVE  NoteInv'
    BY <2>8 DEF Describe
  <2>9. ASSUME NEW p \in Procs, PatienceEnds(p)
        PROVE  NoteInv'
    BY <2>9 DEF PatienceEnds
  <2>10. ASSUME NEW p \in Procs, FindHolder(p)
         PROVE  NoteInv'
    BY <2>10 DEF FindHolder, Refused
  <2>11. ASSUME NEW p \in Procs, Terminate(p)
         PROVE  NoteInv'
    BY <2>11 DEF Terminate, Signalled, AfterSignal, Handles, Ends
  <2>12. ASSUME NEW p \in Procs, TerminateMisses(p)
         PROVE  NoteInv'
    BY <2>12 DEF TerminateMisses, Refused
  <2>13. ASSUME NEW p \in Procs, YieldExpires(p)
         PROVE  NoteInv'
    BY <2>13 DEF YieldExpires, Refused
  <2>14. ASSUME NEW p \in Procs, FindTarget(p)
         PROVE  NoteInv'
    BY <2>14 DEF FindTarget
  <2>15. ASSUME NEW p \in Procs, Kill(p)
         PROVE  NoteInv'
    BY <2>15 DEF Kill, Ends
  <2>16. ASSUME NEW p \in Procs, KillMisses(p)
         PROVE  NoteInv'
    BY <2>16 DEF KillMisses
  <2>17. ASSUME NEW p \in Procs, ReapExpires(p)
         PROVE  NoteInv'
    BY <2>17 DEF ReapExpires
  <2>18. ASSUME NEW p \in Procs, TruncateNote(p)
         PROVE  NoteInv'
    BY <2>18 DEF TruncateNote
  <2>19. ASSUME NEW p \in Procs, WriteNote(p)
         PROVE  NoteInv'
    <3>1. CASE Goto(p, "noting", "moving")
      BY <2>19, <3>1 DEF WriteNote
    <3>2. CASE Goto(p, "bare noting", "bare")
      BY <2>19, <3>2 DEF WriteNote
    <3>3. QED
      BY <2>19, <3>1, <3>2 DEF WriteNote
  <2>20. ASSUME NEW p \in Procs, ConnectHeeds(p)
         PROVE  NoteInv'
    BY <2>20 DEF ConnectHeeds
  <2>21. ASSUME NEW p \in Procs, WatchHeeds(p)
         PROVE  NoteInv'
    BY <2>21 DEF WatchHeeds
  <2>22. ASSUME NEW p \in Procs, Exit(p)
         PROVE  NoteInv'
    BY <2>22 DEF Exit, Ends
  <2>23. ASSUME NEW p \in Procs, Interrupt(p)
         PROVE  NoteInv'
    BY <2>23 DEF Interrupt, Signalled, AfterSignal, Handles, Ends
  <2>24. ASSUME NEW p \in Procs, Crash(p)
         PROVE  NoteInv'
    BY <2>24 DEF Crash, Ends
  <2>25. CASE UNCHANGED vars
    BY <2>25 DEF vars
  <2>26. QED
    BY <2>1, <2>2, <2>3, <2>4, <2>5, <2>6, <2>7, <2>8, <2>9, <2>10, <2>11,
       <2>12, <2>13, <2>14, <2>15, <2>16, <2>17, <2>18, <2>19, <2>20, <2>21,
       <2>22, <2>23, <2>24, <2>25 DEF Next, Progress
<1>3. NoteInv => NoteIsHolders
  BY DEF NoteInv
<1>4. QED
  BY <1>1, <1>2, <1>3, TypeCorrect, HolderIsOwnerAlways, PTL DEF Spec

-------------------------------------------------------------------------------
\* Every step of the lock is, seen from outside, one command entering an empty
\* place, the one inside leaving it, or nothing: a live holder is never replaced.
\* A signalled `watch` leaves when its operation is dropped, before it restores.
THEOREM Refinement == Spec => ImplementsOneConnect
<1> USE ProcsAssumption
<1>1. Init => Abstract!Init
  BY DEF Init, Holding, Abstract!Init
<1>2. TypeOK /\ TypeOK' /\ HolderIsOwner /\ HolderIsOwner' /\ [Next]_vars
        => [Abstract!Next]_{p \in Procs : pc[p] \in Holding}
  <2> SUFFICES ASSUME TypeOK, TypeOK', HolderIsOwner, HolderIsOwner', [Next]_vars
               PROVE  [Abstract!Next]_{p \in Procs : pc[p] \in Holding}
    OBVIOUS
  <2> DEFINE inside == {p \in Procs : pc[p] \in Holding}
  <2>1. inside = IF owner \in Procs THEN {owner} ELSE {}
    BY DEF HolderIsOwner, TypeOK
  <2>2. inside' = IF owner' \in Procs THEN {owner'} ELSE {}
    BY DEF HolderIsOwner
  <2>3. owner' = owner \/ owner = NoProc \/ owner' = NoProc
    <3>1. ASSUME NEW p \in Procs,
                 Start(p) \/ CheckFoundDead(p) \/ CannotOpen(p) \/ TryErrors(p) \/ TryFails(p)
                   \/ PollAgain(p) \/ Describe(p) \/ PatienceEnds(p) \/ FindHolder(p)
          PROVE  owner' = owner
      BY <3>1 DEF Start, CheckFoundDead, CannotOpen, TryErrors, TryFails, PollAgain, Describe,
         PatienceEnds, FindHolder
    <3>2. ASSUME NEW p \in Procs,
                 TerminateMisses(p) \/ YieldExpires(p) \/ FindTarget(p) \/ KillMisses(p)
                   \/ ReapExpires(p) \/ TruncateNote(p) \/ WriteNote(p) \/ ConnectHeeds(p)
          PROVE  owner' = owner
      BY <3>2 DEF TerminateMisses, YieldExpires, FindTarget, KillMisses, ReapExpires,
         TruncateNote, WriteNote, ConnectHeeds
    <3>3. ASSUME NEW p \in Procs, Acquire(p)
          PROVE  owner = NoProc
      BY <3>3 DEF Acquire
    <3>4. ASSUME NEW p \in Procs, WatchHeeds(p)
          PROVE  owner' \in {owner, NoProc}
      BY <3>4 DEF WatchHeeds
    <3>5. ASSUME NEW t, Ends(t)
          PROVE  owner' \in {owner, NoProc}
      BY <3>5 DEF Ends
    <3>6. ASSUME NEW t, NEW by, Signalled(t, by)
          PROVE  owner' \in {owner, NoProc}
      BY <3>5, <3>6 DEF Signalled
    <3>7. ASSUME NEW p \in Procs, Terminate(p) \/ Interrupt(p)
          PROVE  owner' \in {owner, NoProc}
      BY <3>6, <3>7 DEF Terminate, Interrupt
    <3>8. ASSUME NEW p \in Procs, Kill(p) \/ Exit(p) \/ Crash(p)
          PROVE  owner' \in {owner, NoProc}
      BY <3>5, <3>8 DEF Kill, Exit, Crash
    <3>9. CASE UNCHANGED vars
      BY <3>9 DEF vars
    <3>10. QED
      BY <3>1, <3>2, <3>3, <3>4, <3>7, <3>8, <3>9 DEF Next, Progress
  <2>4. owner' \in Procs \cup {NoProc}
    BY DEF TypeOK
  <2>5. QED
    BY <2>1, <2>2, <2>3, <2>4 DEF TypeOK, Abstract!Next, Abstract!Enter, Abstract!Leave
<1>3. QED
  BY <1>1, <1>2, TypeCorrect, HolderIsOwnerAlways, PTL
  DEF Spec, ImplementsOneConnect, Abstract!Spec

===============================================================================
