----------------------------- MODULE AlwaysOnProofs ----------------------------
(***************************************************************************)
(* What the hooks keep to, for every set of terminals and networks, every  *)
(* configuration of scope and targets and any number of attempts.          *)
(***************************************************************************)
EXTENDS AlwaysOn, TLAPS

\* The hook counts an attempt only when it has one left.
AttemptsCounted ==
  /\ pc[Script] \in {"idle", "linkwait", "scope"} => tries = 0
  /\ pc[Script] \in {"attempt", "backoff"} => tries < Attempts

\* The network autoconnect is allowed on is one a person asked on.
StartedWhereAsked == started \in askedOn \cup {NoNetwork}

\* Only the holder of the lock connects, and a `down` never does.
HolderConnects ==
  \A p \in Procs :
    /\ pc[p] \in {"recheck"} \cup Connecting => lock = p
    /\ p \in Users /\ pc[p] \in Connecting => cmd[p] # "down"
    /\ pc[p] \in {"marking", "teardown"} => p \in Users

\* A tunnel that is there while a connect builds is that connect's own.
BuildersOwn ==
  \A p \in Procs : pc[p] = "building" /\ tunnel # "none" => builder = p

-------------------------------------------------------------------------------
\* The hook's count stays below its attempts wherever it may make one more, and
\* starts from zero whenever the hook does.
LEMMA AttemptsKept ==
  TypeOK /\ AttemptsCounted /\ [Next]_vars => AttemptsCounted'
<1> USE AlwaysOnAssumption DEF Procs, Automatic, Connecting
<1> SUFFICES ASSUME TypeOK, AttemptsCounted, [Next]_vars
             PROVE  AttemptsCounted'
  OBVIOUS
<1>1. pc = [p \in Procs |-> pc[p]] /\ tries \in Nat
  <2>1. pc = [p \in Procs |-> pc[p]]
    BY DEF TypeOK
  <2>2. tries \in Nat
    BY DEF TypeOK
  <2>3. QED
    BY <2>1, <2>2
<1>2. QED
  <2> USE <1>1 DEF AttemptsCounted, Goto, script
  <2>1. ASSUME NEW u \in Users, NEW c \in Commands, Type(u, c)
        PROVE  AttemptsCounted'
    BY <2>1 DEF Type
  <2>2. ASSUME NEW u \in Users, DownUnlocked(u)
        PROVE  AttemptsCounted'
    BY <2>2 DEF DownUnlocked
  <2>3. ASSUME NEW u \in Users, MarkDown(u)
        PROVE  AttemptsCounted'
    BY <2>3 DEF MarkDown
  <2>4. ASSUME NEW u \in Users, TearDown(u)
        PROVE  AttemptsCounted'
    BY <2>4 DEF TearDown, Ends
  <2>5. ASSUME NEW u \in Users, StepAside(u)
        PROVE  AttemptsCounted'
    BY <2>5 DEF StepAside, Ends
  <2>6. ASSUME ScriptStarts
        PROVE  AttemptsCounted'
    BY <2>6 DEF ScriptStarts
  <2>7. ASSUME LinkSettles
        PROVE  AttemptsCounted'
    BY <2>7 DEF LinkSettles
  <2>8. ASSUME ScopeChecked
        PROVE  AttemptsCounted'
    BY <2>8 DEF ScopeChecked, Allowed
  <2>9. ASSUME Attempt
        PROVE  AttemptsCounted'
    BY <2>9 DEF Attempt
  <2>10. ASSUME BackoffEnds
         PROVE  AttemptsCounted'
    BY <2>10 DEF BackoffEnds
  <2>11. ASSUME WatchStarts
         PROVE  AttemptsCounted'
    BY <2>11 DEF WatchStarts
  <2>12. ASSUME WatchLeavesIt
         PROVE  AttemptsCounted'
    BY <2>12 DEF WatchLeavesIt
  <2>13. ASSUME WatchFindsDead
         PROVE  AttemptsCounted'
    BY <2>13 DEF WatchFindsDead, Allowed
  <2>14. ASSUME WatchRechecks
         PROVE  AttemptsCounted'
    BY <2>14 DEF WatchRechecks, Ends
  <2>15. ASSUME NEW p \in Procs, TakeLock(p)
         PROVE  AttemptsCounted'
    BY <2>15 DEF TakeLock, Guard, Remembered
  <2>16. ASSUME NEW p \in Procs, Enter(p)
         PROVE  AttemptsCounted'
    BY <2>16 DEF Enter, Ends
  <2>17. ASSUME NEW p \in Procs, TunnelAppears(p)
         PROVE  AttemptsCounted'
    BY <2>17 DEF TunnelAppears
  <2>18. ASSUME NEW p \in Procs, FallsBack(p)
         PROVE  AttemptsCounted'
    BY <2>18 DEF FallsBack
  <2>19. ASSUME NEW p \in Procs, Report(p)
         PROVE  AttemptsCounted'
    BY <2>19 DEF Report, After
  <2>20. ASSUME NEW p \in Procs, Stopped(p)
         PROVE  AttemptsCounted'
    BY <2>20 DEF Stopped, Ends
  <2>21. ASSUME NEW p \in Procs, Killed(p)
         PROVE  AttemptsCounted'
    BY <2>21 DEF Killed, Ends
  <2>22. ASSUME LinkMoves
         PROVE  AttemptsCounted'
    BY <2>22 DEF LinkMoves
  <2>23. ASSUME SessionChanges
         PROVE  AttemptsCounted'
    BY <2>23 DEF SessionChanges
  <2>24. ASSUME OptOut
         PROVE  AttemptsCounted'
    BY <2>24 DEF OptOut
  <2>25. ASSUME Release
         PROVE  AttemptsCounted'
    BY <2>25 DEF Release
  <2>26. CASE UNCHANGED vars
    BY <2>26 DEF vars
  <2>27. QED
    BY <2>1, <2>2, <2>3, <2>4, <2>5, <2>6, <2>7, <2>8, <2>9, <2>10, <2>11,
       <2>12, <2>13, <2>14, <2>15, <2>16, <2>17, <2>18, <2>19, <2>20,
       <2>21, <2>22, <2>23, <2>24, <2>25, <2>26
    DEF Next, UserStep, ScriptStep, WatchStep, Connect

\* Every process's steps keep the state well typed: the hook never counts more
\* attempts than it has, and is licensed only on networks.
THEOREM TypeCorrect == Spec => [](TypeOK /\ AttemptsCounted)
<1> USE AlwaysOnAssumption DEF Procs, Automatic, Commands, Connecting
<1>1. Init => TypeOK /\ AttemptsCounted
  <2>1. Init => AttemptsCounted
    BY DEF Init, AttemptsCounted
  <2>2. Init => /\ pc \in [Procs -> {"idle", "linkwait", "scope", "attempt", "backoff",
                                    "checking", "queued", "recheck", "marking",
                                    "teardown"} \cup Connecting]
                /\ cmd \in [Users -> Commands]
                /\ grant \in [Automatic -> Networks \cup {NoNetwork}]
                /\ tries \in 0 .. Attempts
    BY DEF Init
  <2>3. QED
    BY <2>1, <2>2 DEF Init, TypeOK
<1>2. TypeOK /\ AttemptsCounted /\ [Next]_vars => TypeOK'
  <2> SUFFICES ASSUME TypeOK, AttemptsCounted, [Next]_vars
               PROVE  TypeOK'
    OBVIOUS
  <2> USE DEF TypeOK, AttemptsCounted, Goto, world, script, history
  <2>1. ASSUME NEW u \in Users, NEW c \in Commands, Type(u, c)
        PROVE  TypeOK'
    BY <2>1 DEF Type
  <2>2. ASSUME NEW u \in Users, DownUnlocked(u)
        PROVE  TypeOK'
    BY <2>2 DEF DownUnlocked
  <2>3. ASSUME NEW u \in Users, MarkDown(u)
        PROVE  TypeOK'
    BY <2>3 DEF MarkDown
  <2>4. ASSUME NEW u \in Users, TearDown(u)
        PROVE  TypeOK'
    BY <2>4 DEF TearDown, Ends
  <2>5. ASSUME NEW u \in Users, StepAside(u)
        PROVE  TypeOK'
    BY <2>5 DEF StepAside, Ends
  <2>6. ASSUME ScriptStarts
        PROVE  TypeOK'
    BY <2>6 DEF ScriptStarts
  <2>7. ASSUME LinkSettles
        PROVE  TypeOK'
    BY <2>7 DEF LinkSettles
  <2>8. ASSUME ScopeChecked
        PROVE  TypeOK'
    BY <2>8 DEF ScopeChecked, Allowed
  <2>9. ASSUME Attempt
        PROVE  TypeOK'
    BY <2>9 DEF Attempt
  <2>10. ASSUME BackoffEnds
         PROVE  TypeOK'
    BY <2>10 DEF BackoffEnds
  <2>11. ASSUME WatchStarts
         PROVE  TypeOK'
    BY <2>11 DEF WatchStarts
  <2>12. ASSUME WatchLeavesIt
         PROVE  TypeOK'
    BY <2>12 DEF WatchLeavesIt
  <2>13. ASSUME WatchFindsDead
         PROVE  TypeOK'
    BY <2>13 DEF WatchFindsDead, Allowed
  <2>14. ASSUME WatchRechecks
         PROVE  TypeOK'
    BY <2>14 DEF WatchRechecks, Ends
  <2>15. ASSUME NEW p \in Procs, TakeLock(p)
         PROVE  TypeOK'
    BY <2>15 DEF TakeLock, Guard, Remembered
  <2>16. ASSUME NEW p \in Procs, Enter(p)
         PROVE  TypeOK'
    <3>1. CASE /\ Ends(p)
               /\ tries' = IF p = Script THEN 0 ELSE tries
               /\ UNCHANGED <<tunnel, builder>>
      <4>1. /\ pc' = [pc EXCEPT ![p] = "idle"]
            /\ lock' \in Procs \cup {NoProc}
            /\ tries' \in 0 .. Attempts
            /\ down' = FALSE
            /\ UNCHANGED <<net, off, tunnel, started, cmd, seen, grant, askedOn, builder>>
        BY <2>16, <3>1 DEF Enter, Ends
      <4>2. QED
        BY <4>1
    <3>2. CASE /\ tunnel' = "none" /\ builder' = NoProc
               /\ pc' = [pc EXCEPT ![p] = "building"]
               /\ UNCHANGED <<lock, tries>>
      BY <2>16, <3>2 DEF Enter
    <3>3. QED
      BY <2>16, <3>1, <3>2 DEF Enter
  <2>17. ASSUME NEW p \in Procs, TunnelAppears(p)
         PROVE  TypeOK'
    BY <2>17 DEF TunnelAppears
  <2>18. ASSUME NEW p \in Procs, FallsBack(p)
         PROVE  TypeOK'
    BY <2>18 DEF FallsBack
  <2>19. ASSUME NEW p \in Procs, Report(p)
         PROVE  TypeOK'
    BY <2>19 DEF Report, After
  <2>20. ASSUME NEW p \in Procs, Stopped(p)
         PROVE  TypeOK'
    BY <2>20 DEF Stopped, Ends
  <2>21. ASSUME NEW p \in Procs, Killed(p)
         PROVE  TypeOK'
    BY <2>21 DEF Killed, Ends
  <2>22. ASSUME LinkMoves
         PROVE  TypeOK'
    BY <2>22 DEF LinkMoves
  <2>23. ASSUME SessionChanges
         PROVE  TypeOK'
    BY <2>23 DEF SessionChanges
  <2>24. ASSUME OptOut
         PROVE  TypeOK'
    BY <2>24 DEF OptOut
  <2>25. ASSUME Release
         PROVE  TypeOK'
    BY <2>25 DEF Release
  <2>26. CASE UNCHANGED vars
    BY <2>26 DEF vars
  <2>27. QED
    BY <2>1, <2>2, <2>3, <2>4, <2>5, <2>6, <2>7, <2>8, <2>9, <2>10, <2>11,
       <2>12, <2>13, <2>14, <2>15, <2>16, <2>17, <2>18, <2>19, <2>20,
       <2>21, <2>22, <2>23, <2>24, <2>25, <2>26
    DEF Next, UserStep, ScriptStep, WatchStep, Connect
<1>3. QED
  BY <1>1, <1>2, AttemptsKept, PTL DEF Spec

\* The network remembered is only ever moved by a person's up or hop, and a
\* licence only given there or where the configuration lists it.
THEOREM LicensedWhereAskedAlways == Spec => []LicensedWhereAsked
<1> USE AlwaysOnAssumption DEF Procs, Automatic, Commands, Connecting
<1>1. Init => StartedWhereAsked /\ LicensedWhereAsked
  BY DEF Init, StartedWhereAsked, LicensedWhereAsked, Licensed
<1>2. TypeOK /\ StartedWhereAsked /\ LicensedWhereAsked /\ [Next]_vars
        => (StartedWhereAsked /\ LicensedWhereAsked)'
  <2> SUFFICES ASSUME TypeOK, StartedWhereAsked, LicensedWhereAsked, [Next]_vars
               PROVE  StartedWhereAsked' /\ LicensedWhereAsked'
    OBVIOUS
  <2> USE DEF TypeOK, StartedWhereAsked, LicensedWhereAsked, Licensed, Goto, world,
              script, history
  <2>1. ASSUME NEW u \in Users, NEW c \in Commands, Type(u, c)
        PROVE  StartedWhereAsked' /\ LicensedWhereAsked'
    BY <2>1 DEF Type
  <2>2. ASSUME NEW u \in Users, DownUnlocked(u)
        PROVE  StartedWhereAsked' /\ LicensedWhereAsked'
    BY <2>2 DEF DownUnlocked
  <2>3. ASSUME NEW u \in Users, MarkDown(u)
        PROVE  StartedWhereAsked' /\ LicensedWhereAsked'
    BY <2>3 DEF MarkDown
  <2>4. ASSUME NEW u \in Users, TearDown(u)
        PROVE  StartedWhereAsked' /\ LicensedWhereAsked'
    BY <2>4 DEF TearDown, Ends
  <2>5. ASSUME NEW u \in Users, StepAside(u)
        PROVE  StartedWhereAsked' /\ LicensedWhereAsked'
    BY <2>5 DEF StepAside, Ends
  <2>6. ASSUME ScriptStarts
        PROVE  StartedWhereAsked' /\ LicensedWhereAsked'
    BY <2>6 DEF ScriptStarts
  <2>7. ASSUME LinkSettles
        PROVE  StartedWhereAsked' /\ LicensedWhereAsked'
    BY <2>7 DEF LinkSettles
  <2>8. ASSUME ScopeChecked
        PROVE  StartedWhereAsked' /\ LicensedWhereAsked'
    BY <2>8 DEF ScopeChecked, Allowed
  <2>9. ASSUME Attempt
        PROVE  StartedWhereAsked' /\ LicensedWhereAsked'
    BY <2>9 DEF Attempt
  <2>10. ASSUME BackoffEnds
         PROVE  StartedWhereAsked' /\ LicensedWhereAsked'
    BY <2>10 DEF BackoffEnds
  <2>11. ASSUME WatchStarts
         PROVE  StartedWhereAsked' /\ LicensedWhereAsked'
    BY <2>11 DEF WatchStarts
  <2>12. ASSUME WatchLeavesIt
         PROVE  StartedWhereAsked' /\ LicensedWhereAsked'
    BY <2>12 DEF WatchLeavesIt
  <2>13. ASSUME WatchFindsDead
         PROVE  StartedWhereAsked' /\ LicensedWhereAsked'
    BY <2>13 DEF WatchFindsDead, Allowed
  <2>14. ASSUME WatchRechecks
         PROVE  StartedWhereAsked' /\ LicensedWhereAsked'
    BY <2>14 DEF WatchRechecks, Ends
  <2>15. ASSUME NEW p \in Procs, TakeLock(p)
         PROVE  StartedWhereAsked' /\ LicensedWhereAsked'
    BY <2>15 DEF TakeLock, Guard, Remembered
  <2>16. ASSUME NEW p \in Procs, Enter(p)
         PROVE  StartedWhereAsked' /\ LicensedWhereAsked'
    BY <2>16 DEF Enter, Ends
  <2>17. ASSUME NEW p \in Procs, TunnelAppears(p)
         PROVE  StartedWhereAsked' /\ LicensedWhereAsked'
    BY <2>17 DEF TunnelAppears
  <2>18. ASSUME NEW p \in Procs, FallsBack(p)
         PROVE  StartedWhereAsked' /\ LicensedWhereAsked'
    BY <2>18 DEF FallsBack
  <2>19. ASSUME NEW p \in Procs, Report(p)
         PROVE  StartedWhereAsked' /\ LicensedWhereAsked'
    BY <2>19 DEF Report, After
  <2>20. ASSUME NEW p \in Procs, Stopped(p)
         PROVE  StartedWhereAsked' /\ LicensedWhereAsked'
    BY <2>20 DEF Stopped, Ends
  <2>21. ASSUME NEW p \in Procs, Killed(p)
         PROVE  StartedWhereAsked' /\ LicensedWhereAsked'
    BY <2>21 DEF Killed, Ends
  <2>22. ASSUME LinkMoves
         PROVE  StartedWhereAsked' /\ LicensedWhereAsked'
    BY <2>22 DEF LinkMoves
  <2>23. ASSUME SessionChanges
         PROVE  StartedWhereAsked' /\ LicensedWhereAsked'
    BY <2>23 DEF SessionChanges
  <2>24. ASSUME OptOut
         PROVE  StartedWhereAsked' /\ LicensedWhereAsked'
    BY <2>24 DEF OptOut
  <2>25. ASSUME Release
         PROVE  StartedWhereAsked' /\ LicensedWhereAsked'
    BY <2>25 DEF Release
  <2>26. CASE UNCHANGED vars
    BY <2>26 DEF vars
  <2>27. QED
    BY <2>1, <2>2, <2>3, <2>4, <2>5, <2>6, <2>7, <2>8, <2>9, <2>10, <2>11,
       <2>12, <2>13, <2>14, <2>15, <2>16, <2>17, <2>18, <2>19, <2>20,
       <2>21, <2>22, <2>23, <2>24, <2>25, <2>26
    DEF Next, UserStep, ScriptStep, WatchStep, Connect
<1>3. QED
  BY <1>1, <1>2, TypeCorrect, PTL DEF Spec

\* Whoever connects holds the lock.
THEOREM HolderConnectsAlways == Spec => []HolderConnects
<1> USE AlwaysOnAssumption DEF Procs, Automatic, Commands, Connecting
<1>1. Init => HolderConnects
  BY DEF Init, HolderConnects
<1>2. TypeOK /\ HolderConnects /\ [Next]_vars => HolderConnects'
  <2> SUFFICES ASSUME TypeOK, HolderConnects, [Next]_vars
               PROVE  HolderConnects'
    OBVIOUS
  <2> USE DEF TypeOK, HolderConnects, Goto, world, script, history
  <2>1. ASSUME NEW u \in Users, NEW c \in Commands, Type(u, c)
        PROVE  HolderConnects'
    BY <2>1 DEF Type
  <2>2. ASSUME NEW u \in Users, DownUnlocked(u)
        PROVE  HolderConnects'
    BY <2>2 DEF DownUnlocked
  <2>3. ASSUME NEW u \in Users, MarkDown(u)
        PROVE  HolderConnects'
    BY <2>3 DEF MarkDown
  <2>4. ASSUME NEW u \in Users, TearDown(u)
        PROVE  HolderConnects'
    BY <2>4 DEF TearDown, Ends
  <2>5. ASSUME NEW u \in Users, StepAside(u)
        PROVE  HolderConnects'
    BY <2>5 DEF StepAside, Ends
  <2>6. ASSUME ScriptStarts
        PROVE  HolderConnects'
    BY <2>6 DEF ScriptStarts
  <2>7. ASSUME LinkSettles
        PROVE  HolderConnects'
    BY <2>7 DEF LinkSettles
  <2>8. ASSUME ScopeChecked
        PROVE  HolderConnects'
    BY <2>8 DEF ScopeChecked, Allowed
  <2>9. ASSUME Attempt
        PROVE  HolderConnects'
    BY <2>9 DEF Attempt
  <2>10. ASSUME BackoffEnds
         PROVE  HolderConnects'
    BY <2>10 DEF BackoffEnds
  <2>11. ASSUME WatchStarts
         PROVE  HolderConnects'
    BY <2>11 DEF WatchStarts
  <2>12. ASSUME WatchLeavesIt
         PROVE  HolderConnects'
    BY <2>12 DEF WatchLeavesIt
  <2>13. ASSUME WatchFindsDead
         PROVE  HolderConnects'
    BY <2>13 DEF WatchFindsDead, Allowed
  <2>14. ASSUME WatchRechecks
         PROVE  HolderConnects'
    BY <2>14 DEF WatchRechecks, Ends
  <2>15. ASSUME NEW p \in Procs, TakeLock(p)
         PROVE  HolderConnects'
    BY <2>15 DEF TakeLock, Guard, Remembered
  <2>16. ASSUME NEW p \in Procs, Enter(p)
         PROVE  HolderConnects'
    BY <2>16 DEF Enter, Ends
  <2>17. ASSUME NEW p \in Procs, TunnelAppears(p)
         PROVE  HolderConnects'
    BY <2>17 DEF TunnelAppears
  <2>18. ASSUME NEW p \in Procs, FallsBack(p)
         PROVE  HolderConnects'
    BY <2>18 DEF FallsBack
  <2>19. ASSUME NEW p \in Procs, Report(p)
         PROVE  HolderConnects'
    BY <2>19 DEF Report, After
  <2>20. ASSUME NEW p \in Procs, Stopped(p)
         PROVE  HolderConnects'
    BY <2>20 DEF Stopped, Ends
  <2>21. ASSUME NEW p \in Procs, Killed(p)
         PROVE  HolderConnects'
    BY <2>21 DEF Killed, Ends
  <2>22. ASSUME LinkMoves
         PROVE  HolderConnects'
    BY <2>22 DEF LinkMoves
  <2>23. ASSUME SessionChanges
         PROVE  HolderConnects'
    BY <2>23 DEF SessionChanges
  <2>24. ASSUME OptOut
         PROVE  HolderConnects'
    BY <2>24 DEF OptOut
  <2>25. ASSUME Release
         PROVE  HolderConnects'
    BY <2>25 DEF Release
  <2>26. CASE UNCHANGED vars
    BY <2>26 DEF vars
  <2>27. QED
    BY <2>1, <2>2, <2>3, <2>4, <2>5, <2>6, <2>7, <2>8, <2>9, <2>10, <2>11,
       <2>12, <2>13, <2>14, <2>15, <2>16, <2>17, <2>18, <2>19, <2>20,
       <2>21, <2>22, <2>23, <2>24, <2>25, <2>26
    DEF Next, UserStep, ScriptStep, WatchStep, Connect
<1>3. QED
  BY <1>1, <1>2, TypeCorrect, PTL DEF Spec

-------------------------------------------------------------------------------
(* What a step may not do *)

\* While a `down` that has the lock is at its teardown nobody else connects, so
\* nobody clears its marker and no tunnel appears.
THEOREM LockedDownLandsAlways == Spec => LockedDownLands
<1> USE AlwaysOnAssumption DEF Procs, Automatic, Commands, Connecting
<1> DEFINE Lands == \A u \in Users :
                      pc[u] = "teardown" /\ lock = u =>
                        /\ down /\ ~down' => Release
                        /\ tunnel = "none" => tunnel' = "none"
<1>1. TypeOK /\ HolderConnects /\ [Next]_vars => [Lands]_vars
  <2> SUFFICES ASSUME TypeOK, HolderConnects, [Next]_vars,
                      NEW u \in Users, pc[u] = "teardown", lock = u
               PROVE  /\ down /\ ~down' => Release
                      /\ tunnel = "none" => tunnel' = "none"
    OBVIOUS
  <2>1. \A p \in Procs : pc[p] \notin {"entering", "building", "recheck"}
    BY DEF HolderConnects
  <2>2. CASE UNCHANGED vars
    BY <2>2 DEF vars
  <2>3. CASE \E v \in Users : UserStep(v)
    BY <2>3 DEF UserStep, Type, DownUnlocked, MarkDown, TearDown, StepAside
  <2>4. CASE ScriptStep \/ WatchStep
    BY <2>4 DEF ScriptStep, WatchStep, ScriptStarts, LinkSettles, ScopeChecked, Attempt,
       BackoffEnds, WatchStarts, WatchLeavesIt, WatchFindsDead, WatchRechecks
  <2>5. CASE \E p \in Procs : Connect(p) \/ Stopped(p) \/ Killed(p)
    BY <2>1, <2>5 DEF Connect, TakeLock, Enter, TunnelAppears, FallsBack, Report,
       Stopped, Killed
  <2>6. CASE LinkMoves
    BY <2>6 DEF LinkMoves
  <2>7. CASE SessionChanges \/ OptOut \/ Release
    BY <2>7 DEF SessionChanges, OptOut, Release
  <2>8. QED
    BY <2>2, <2>3, <2>4, <2>5, <2>6, <2>7 DEF Next
<1>2. QED
  BY <1>1, TypeCorrect, HolderConnectsAlways, PTL DEF Spec, LockedDownLands

\* A down at rest stays in force until a person asks for a tunnel or releases it.
THEOREM RestingDownStaysAlways == Spec => RestingDownStays
<1> USE AlwaysOnAssumption DEF Procs, Automatic, Commands, Connecting
<1> DEFINE Stays == Resting => Resting' \/ UserAsks \/ Release
<1>1. TypeOK /\ HolderConnects /\ [Next]_vars => [Stays]_vars
  <2> SUFFICES ASSUME TypeOK, HolderConnects, [Next]_vars, Resting, ~UserAsks, ~Release
               PROVE  Resting'
    OBVIOUS
  <2> USE DEF TypeOK, HolderConnects, Resting, IsHolding, Licensed, Goto, world, script,
              history
  <2>1. ASSUME NEW u \in Users, NEW c \in Commands, Type(u, c)
        PROVE  Resting'
    BY <2>1 DEF Type, UserAsks
  <2>2. ASSUME NEW u \in Users, DownUnlocked(u)
        PROVE  Resting'
    BY <2>2 DEF DownUnlocked
  <2>3. ASSUME NEW u \in Users, MarkDown(u)
        PROVE  Resting'
    BY <2>3 DEF MarkDown
  <2>4. ASSUME NEW u \in Users, TearDown(u)
        PROVE  Resting'
    BY <2>4 DEF TearDown, Ends
  <2>5. ASSUME NEW u \in Users, StepAside(u)
        PROVE  Resting'
    BY <2>5 DEF StepAside, Ends
  <2>6. ASSUME ScriptStarts
        PROVE  Resting'
    BY <2>6 DEF ScriptStarts
  <2>7. ASSUME LinkSettles
        PROVE  Resting'
    BY <2>7 DEF LinkSettles
  <2>8. ASSUME ScopeChecked
        PROVE  Resting'
    BY <2>8 DEF ScopeChecked, Allowed
  <2>9. ASSUME Attempt
        PROVE  Resting'
    BY <2>9 DEF Attempt
  <2>10. ASSUME BackoffEnds
         PROVE  Resting'
    BY <2>10 DEF BackoffEnds
  <2>11. ASSUME WatchStarts
         PROVE  Resting'
    BY <2>11 DEF WatchStarts
  <2>12. ASSUME WatchLeavesIt
         PROVE  Resting'
    BY <2>12 DEF WatchLeavesIt
  <2>13. ASSUME WatchFindsDead
         PROVE  Resting'
    BY <2>13 DEF WatchFindsDead, Allowed
  <2>14. ASSUME WatchRechecks
         PROVE  Resting'
    BY <2>14 DEF WatchRechecks, Ends
  <2>15. ASSUME NEW p \in Procs, TakeLock(p)
         PROVE  Resting'
    BY <2>15 DEF TakeLock, Guard, Remembered
  <2>16. ASSUME NEW p \in Procs, Enter(p)
         PROVE  Resting'
    BY <2>16 DEF Enter, Ends
  <2>17. ASSUME NEW p \in Procs, TunnelAppears(p)
         PROVE  Resting'
    BY <2>17 DEF TunnelAppears
  <2>18. ASSUME NEW p \in Procs, FallsBack(p)
         PROVE  Resting'
    BY <2>18 DEF FallsBack
  <2>19. ASSUME NEW p \in Procs, Report(p)
         PROVE  Resting'
    BY <2>19 DEF Report, After
  <2>20. ASSUME NEW p \in Procs, Stopped(p)
         PROVE  Resting'
    BY <2>20 DEF Stopped, Ends
  <2>21. ASSUME NEW p \in Procs, Killed(p)
         PROVE  Resting'
    BY <2>21 DEF Killed, Ends
  <2>22. ASSUME LinkMoves
         PROVE  Resting'
    BY <2>22 DEF LinkMoves
  <2>23. ASSUME SessionChanges
         PROVE  Resting'
    BY <2>23 DEF SessionChanges
  <2>24. ASSUME OptOut
         PROVE  Resting'
    BY <2>24 DEF OptOut
  <2>25. ASSUME Release
         PROVE  Resting'
    BY <2>25 DEF Release
  <2>26. CASE UNCHANGED vars
    BY <2>26 DEF vars
  <2>27. QED
    BY <2>1, <2>2, <2>3, <2>4, <2>5, <2>6, <2>7, <2>8, <2>9, <2>10, <2>11,
       <2>12, <2>13, <2>14, <2>15, <2>16, <2>17, <2>18, <2>19, <2>20,
       <2>21, <2>22, <2>23, <2>24, <2>25, <2>26
    DEF Next, UserStep, ScriptStep, WatchStep, Connect
<1>2. QED
  BY <1>1, TypeCorrect, HolderConnectsAlways, PTL DEF Spec, RestingDownStays

\* Nobody builds beside a connect that has the lock.
THEOREM BuildersOwnAlways == Spec => []BuildersOwn
<1> USE AlwaysOnAssumption DEF Procs, Automatic, Commands, Connecting
<1>1. Init => BuildersOwn
  BY DEF Init, BuildersOwn
<1>2. TypeOK /\ HolderConnects /\ BuildersOwn /\ [Next]_vars => BuildersOwn'
  <2> SUFFICES ASSUME TypeOK, HolderConnects, BuildersOwn, [Next]_vars
               PROVE  BuildersOwn'
    OBVIOUS
  <2> USE DEF TypeOK, HolderConnects, BuildersOwn, Goto, world, script, history
  <2>1. ASSUME NEW u \in Users, NEW c \in Commands, Type(u, c)
        PROVE  BuildersOwn'
    BY <2>1 DEF Type
  <2>2. ASSUME NEW u \in Users, DownUnlocked(u)
        PROVE  BuildersOwn'
    BY <2>2 DEF DownUnlocked
  <2>3. ASSUME NEW u \in Users, MarkDown(u)
        PROVE  BuildersOwn'
    BY <2>3 DEF MarkDown
  <2>4. ASSUME NEW u \in Users, TearDown(u)
        PROVE  BuildersOwn'
    BY <2>4 DEF TearDown, Ends
  <2>5. ASSUME NEW u \in Users, StepAside(u)
        PROVE  BuildersOwn'
    BY <2>5 DEF StepAside, Ends
  <2>6. ASSUME ScriptStarts
        PROVE  BuildersOwn'
    BY <2>6 DEF ScriptStarts
  <2>7. ASSUME LinkSettles
        PROVE  BuildersOwn'
    BY <2>7 DEF LinkSettles
  <2>8. ASSUME ScopeChecked
        PROVE  BuildersOwn'
    BY <2>8 DEF ScopeChecked, Allowed
  <2>9. ASSUME Attempt
        PROVE  BuildersOwn'
    BY <2>9 DEF Attempt
  <2>10. ASSUME BackoffEnds
         PROVE  BuildersOwn'
    BY <2>10 DEF BackoffEnds
  <2>11. ASSUME WatchStarts
         PROVE  BuildersOwn'
    BY <2>11 DEF WatchStarts
  <2>12. ASSUME WatchLeavesIt
         PROVE  BuildersOwn'
    BY <2>12 DEF WatchLeavesIt
  <2>13. ASSUME WatchFindsDead
         PROVE  BuildersOwn'
    BY <2>13 DEF WatchFindsDead, Allowed
  <2>14. ASSUME WatchRechecks
         PROVE  BuildersOwn'
    BY <2>14 DEF WatchRechecks, Ends
  <2>15. ASSUME NEW p \in Procs, TakeLock(p)
         PROVE  BuildersOwn'
    BY <2>15 DEF TakeLock, Guard, Remembered
  <2>16. ASSUME NEW p \in Procs, Enter(p)
         PROVE  BuildersOwn'
    BY <2>16 DEF Enter, Ends
  <2>17. ASSUME NEW p \in Procs, TunnelAppears(p)
         PROVE  BuildersOwn'
    BY <2>17 DEF TunnelAppears
  <2>18. ASSUME NEW p \in Procs, FallsBack(p)
         PROVE  BuildersOwn'
    BY <2>18 DEF FallsBack
  <2>19. ASSUME NEW p \in Procs, Report(p)
         PROVE  BuildersOwn'
    BY <2>19 DEF Report, After
  <2>20. ASSUME NEW p \in Procs, Stopped(p)
         PROVE  BuildersOwn'
    BY <2>20 DEF Stopped, Ends
  <2>21. ASSUME NEW p \in Procs, Killed(p)
         PROVE  BuildersOwn'
    BY <2>21 DEF Killed, Ends
  <2>22. ASSUME LinkMoves
         PROVE  BuildersOwn'
    BY <2>22 DEF LinkMoves
  <2>23. ASSUME SessionChanges
         PROVE  BuildersOwn'
    BY <2>23 DEF SessionChanges
  <2>24. ASSUME OptOut
         PROVE  BuildersOwn'
    BY <2>24 DEF OptOut
  <2>25. ASSUME Release
         PROVE  BuildersOwn'
    BY <2>25 DEF Release
  <2>26. CASE UNCHANGED vars
    BY <2>26 DEF vars
  <2>27. QED
    BY <2>1, <2>2, <2>3, <2>4, <2>5, <2>6, <2>7, <2>8, <2>9, <2>10, <2>11,
       <2>12, <2>13, <2>14, <2>15, <2>16, <2>17, <2>18, <2>19, <2>20,
       <2>21, <2>22, <2>23, <2>24, <2>25, <2>26
    DEF Next, UserStep, ScriptStep, WatchStep, Connect
<1>3. QED
  BY <1>1, <1>2, TypeCorrect, HolderConnectsAlways, PTL DEF Spec

\* Where there is no reconnect target, an automatic connect takes away no tunnel
\* that carries but its own: on entry it keeps one, and while it builds nobody
\* else's can appear.
THEOREM CarryingLeftAloneAlways == Spec => CarryingLeftAlone
<1> USE AlwaysOnAssumption DEF Procs, Automatic
<1> DEFINE Left == \A p \in Automatic :
                     Connect(p) /\ tunnel = "carrying" /\ tunnel' # "carrying"
                       /\ net \notin Targets
                         => builder = p
<1>1. BuildersOwn /\ [Next]_vars => [Left]_vars
  <2> SUFFICES ASSUME BuildersOwn, NEW p \in Automatic, Connect(p), tunnel = "carrying",
                      tunnel' # "carrying", net \notin Targets
               PROVE  builder = p
    OBVIOUS
  <2>1. CASE TakeLock(p)
    BY <2>1 DEF TakeLock
  <2>2. CASE Enter(p)
    BY <2>2 DEF Enter, MayReplace, How
  <2>3. CASE TunnelAppears(p)
    BY <2>3 DEF TunnelAppears
  <2>4. CASE FallsBack(p) \/ Report(p)
    BY <2>4 DEF FallsBack, Report, BuildersOwn
  <2>5. QED
    BY <2>1, <2>2, <2>3, <2>4 DEF Connect
<1>2. QED
  BY <1>1, BuildersOwnAlways, PTL DEF Spec, CarryingLeftAlone

===============================================================================
