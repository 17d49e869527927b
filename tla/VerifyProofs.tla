------------------------------ MODULE VerifyProofs -----------------------------
(***************************************************************************)
(* What a verification may say of our own link, for every settle window,   *)
(* every interval between link checks, and every number of confirmations.  *)
(***************************************************************************)
EXTENDS Verify, TLAPS

HealthAnswers == {"Up", "Down", "Unknown"}

\* A verdict ends the verification.
VerdictIsLast == verdict # "none" => stage \in {"over", "done"}

\* Until the link is blamed, what was heard bears out what was counted, and it
\* was not yet enough.
CountIsHeard ==
  /\ heard \in Seq(HealthAnswers \cup {"Moved"}) /\ Len(heard) <= Confirm
  /\ downs \in 0 .. Confirm
  /\ verdict # "link-down" =>
       /\ downs < Confirm /\ downs <= Len(heard)
       /\ \A i \in 1 .. downs : heard[i] = "Down"

Inductive == VerdictIsLast /\ CountIsHeard /\ LinkDownEarned

-------------------------------------------------------------------------------
\* One more answer at the head of what was heard, no more than Confirm kept.
LEMMA OneMoreHeard ==
  ASSUME CountIsHeard, verdict # "link-down",
         NEW health \in HealthAnswers
  PROVE  LET new == <<health>> \o SubSeq(heard, 1, IF Len(heard) < Confirm THEN Len(heard) ELSE Confirm - 1)
         IN
         /\ new \in Seq(HealthAnswers \cup {"Moved"})
         /\ Len(new) <= Confirm
         /\ downs + 1 <= Len(new)
         /\ new[1] = health
         /\ \A i \in 2 .. downs + 1 : new[i] = "Down"
<1> DEFINE k == IF Len(heard) < Confirm THEN Len(heard) ELSE Confirm - 1
           old == SubSeq(heard, 1, k)
           new == <<health>> \o old
<1>1. k \in Nat /\ k <= Len(heard) /\ k < Confirm /\ downs <= k
  BY VerifyAssumption DEF CountIsHeard, VerifyAssumption
<1>2. /\ old \in Seq(HealthAnswers \cup {"Moved"}) /\ Len(old) = k
      /\ \A i \in 1 .. k : old[i] = heard[i]
  BY <1>1 DEF CountIsHeard
<1>3. /\ new \in Seq(HealthAnswers \cup {"Moved"}) /\ Len(new) = 1 + k
      /\ new[1] = health /\ \A i \in 2 .. k + 1 : new[i] = old[i - 1]
  <2> HIDE DEF k, old
  <2>1. QED
    BY <1>1, <1>2
<1>4. ASSUME NEW i \in 2 .. downs + 1
      PROVE  new[i] = "Down"
  <2>1. i \in 2 .. k + 1 /\ i - 1 \in 1 .. k /\ i - 1 \in 1 .. downs
    BY <1>1 DEF CountIsHeard
  <2>2. QED
    BY <2>1, <1>2, <1>3 DEF CountIsHeard
<1>5. QED
  BY <1>1, <1>3, <1>4, VerifyAssumption DEF CountIsHeard, VerifyAssumption

\* The invariant, for every verification.
THEOREM InductiveAlways == VerifySpec => []Inductive
<1>1. VerifyInit => Inductive
  <2> SUFFICES ASSUME VerifyInit
               PROVE  Inductive
    OBVIOUS
  <2>1. heard = << >> /\ downs = 0 /\ verdict = "none"
    BY DEF VerifyInit
  <2>2. heard \in Seq(HealthAnswers \cup {"Moved"}) /\ Len(heard) = 0
    BY <2>1
  <2>3. QED
    BY <2>1, <2>2, VerifyAssumption
       DEF Inductive, VerdictIsLast, CountIsHeard, LinkDownEarned, VerifyAssumption
<1>2. Inductive /\ [VerifyNext]_verifyVars => Inductive'
  <2> SUFFICES ASSUME Inductive, [VerifyNext]_verifyVars
               PROVE  Inductive'
    OBVIOUS
  <2> USE DEF Inductive, VerdictIsLast
  <2>1. ASSUME UNCHANGED <<verdict, clock>>, stage' \in {"over", "done"} \/ verdict = "none"
        PROVE  Inductive'
    BY <2>1 DEF CountIsHeard, LinkDownEarned, clock
  <2>2. ASSUME PreflightStep
        PROVE  Inductive'
    BY <2>2, <2>1 DEF PreflightStep, Baseline, SignedIn, PatienceEnds, Recheck
  <2>3. ASSUME RoundSent \/ RoundTimesOut \/ Answered
        PROVE  Inductive'
    BY <2>3, <2>1 DEF RoundSent, RoundTimesOut, Answered
  <2>4. ASSUME Gate \/ Deadline
        PROVE  Inductive'
    BY <2>4 DEF Gate, Deadline, AsksAgain, Concludes, Watches, CountIsHeard, LinkDownEarned, clock
  <2>5. ASSUME Poll \/ Log
        PROVE  Inductive'
    BY <2>5 DEF Poll, Log, Concludes, CountIsHeard, LinkDownEarned
  <2>6. ASSUME Key
        PROVE  Inductive'
    <3>1. CASE UNCHANGED <<heard, verdict, downs>>
      BY <2>6, <3>1 DEF Key, CountIsHeard, LinkDownEarned
    <3>2. CASE Concludes("link-down") /\ heard' = <<"Moved">> /\ UNCHANGED downs
      BY <3>2, VerifyAssumption
         DEF Concludes, CountIsHeard, LinkDownEarned, VerifyAssumption
    <3>3. QED
      BY <2>6, <3>1, <3>2 DEF Key
  <2>7. ASSUME Health
        PROVE  Inductive'
    <3> DEFINE health == LinkHealth(uplink)
    <3>1. health \in HealthAnswers
      BY DEF LinkHealth, HealthAnswers
    <3>2. verdict = "none"
      BY <2>7 DEF Health
    <3>3. /\ heard' \in Seq(HealthAnswers \cup {"Moved"}) /\ Len(heard') <= Confirm
          /\ downs + 1 <= Len(heard') /\ heard'[1] = health
          /\ \A i \in 2 .. downs + 1 : heard'[i] = "Down"
      <4> HIDE DEF health
      <4>1. heard' = <<health>> \o SubSeq(heard, 1, IF Len(heard) < Confirm THEN Len(heard) ELSE Confirm - 1)
        BY <2>7 DEF Health, health
      <4>2. CountIsHeard /\ verdict # "link-down"
        BY <3>2
      <4>3. QED
        BY <3>1, <4>1, <4>2, OneMoreHeard
    <3>4. /\ downs' = IF health = "Down" THEN downs + 1 ELSE 0
          /\ IF downs' >= Confirm THEN Concludes("link-down") ELSE stage' = "deadline" /\ UNCHANGED verdict
      BY <2>7 DEF Health, Counted
    <3>5. downs' \in Nat /\ downs' <= Confirm /\ downs' <= Len(heard')
          /\ \A i \in 1 .. downs' : heard'[i] = "Down"
      <4> HIDE DEF health
      <4>1. CASE health = "Down"
        BY <3>2, <3>3, <3>4, <4>1, VerifyAssumption DEF CountIsHeard, VerifyAssumption
      <4>2. CASE health # "Down"
        BY <3>2, <3>3, <3>4, <4>2, VerifyAssumption DEF CountIsHeard, VerifyAssumption
      <4>3. QED
        BY <4>1, <4>2
    <3> HIDE DEF health
    <3>6. QED
      BY <3>2, <3>3, <3>4, <3>5, VerifyAssumption
         DEF Concludes, CountIsHeard, LinkDownEarned, VerifyAssumption
  <2>8. ASSUME Report
        PROVE  Inductive'
    BY <2>8, <2>1 DEF Report
  <2>9. ASSUME OutsideChanges \/ LinkMoves \/ TunnelMoves
        PROVE  Inductive'
    BY <2>9 DEF OutsideChanges, LinkMoves, TunnelMoves, CountIsHeard, LinkDownEarned, clock
  <2>10. CASE UNCHANGED verifyVars
    BY <2>10 DEF verifyVars, CountIsHeard, LinkDownEarned
  <2>11. QED
    BY <2>2, <2>3, <2>4, <2>5, <2>6, <2>7, <2>8, <2>9, <2>10 DEF VerifyNext, VerifyStep
<1>3. QED
  BY <1>1, <1>2, PTL DEF VerifySpec

\* LinkDownEarned, for every window, interval and number of confirmations: our
\* own uplink is blamed only for a roam seen or for Confirm checks in a row
\* that each found it down (verify.rs verify_with, link.rs decide).
THEOREM LinkDownEarnedAlways == VerifySpec => []LinkDownEarned
<1>1. Inductive => LinkDownEarned
  BY DEF Inductive
<1>2. QED
  BY <1>1, InductiveAlways, PTL

-------------------------------------------------------------------------------
\* Where in the loop the clock may stand past its window: nowhere but after a
\* look at the link, and then the deadline is what comes next.
OnTime ==
  /\ window \in Windows /\ now \in Nat /\ checked \in Nat /\ checked <= now
  /\ now <= window + 1
  /\ stage \in {"baseline", "sign-in", "recheck"} => now = 0
  /\ stage \in {"watch", "gate"} => now < window
  /\ stage \in {"log", "key", "health"} => now <= window

Counts ==
  /\ rounds \in [through : Nat, beside : Nat]
  /\ rounds.through + rounds.beside <= InFlight

Stages ==
  {"baseline", "sign-in", "recheck", "watch", "gate", "log", "key", "health",
   "deadline", "blocked", "unsigned", "over", "done"}

Kinds ==
  /\ stage \in Stages
  /\ outside \in {"works", "page", "no names", "silent"} /\ uplink \in Uplinks
  /\ egress \in {"none", "bypassed", "routed", "carrying", "over"}
  /\ addresses \in {"real", "page"} /\ verdict \in Verdicts \cup {"none"}
  /\ exit \in {-1, 0, 1, UnsignedPortalExit}

Flags == home \in BOOLEAN /\ again \in BOOLEAN /\ waiting \in BOOLEAN /\ napping \in BOOLEAN

\* The clock, for every settle window.
LEMMA OnTimeAlways == VerifySpec => []OnTime
<1>1. VerifyInit => OnTime
  <2> SUFFICES ASSUME VerifyInit
               PROVE  OnTime
    OBVIOUS
  <2>1. stage = "baseline" /\ window \in Windows /\ now = 0 /\ checked = 0
    BY DEF VerifyInit
  <2>2. window \in Nat \ {0}
    BY <2>1, VerifyAssumption DEF VerifyAssumption
  <2>3. QED
    BY <2>1, <2>2 DEF OnTime
<1>2. OnTime /\ [VerifyNext]_verifyVars => OnTime'
  <2> SUFFICES ASSUME OnTime, [VerifyNext]_verifyVars
               PROVE  OnTime'
    OBVIOUS
  <2>1. window \in Nat \ {0} /\ CheckEvery \in Nat \ {0}
    BY VerifyAssumption DEF OnTime, VerifyAssumption
  <2> USE <2>1 DEF OnTime
  <2>2. ASSUME PreflightStep
        PROVE  OnTime'
    <3>1. UNCHANGED <<window, clock>> /\ now = 0
      BY <2>2 DEF PreflightStep, Baseline, SignedIn, PatienceEnds, Recheck
    <3>2. QED
      BY <3>1 DEF clock
  <2>3. ASSUME RoundSent \/ RoundTimesOut \/ Answered
        PROVE  OnTime'
    BY <2>3 DEF RoundSent, RoundTimesOut, Answered, request, clock
  <2>4. ASSUME Gate \/ Deadline
        PROVE  OnTime'
    BY <2>4 DEF Gate, Deadline, AsksAgain, Concludes, Watches, request, clock
  <2>5. ASSUME Poll \/ Log
        PROVE  OnTime'
    BY <2>5 DEF Poll, Log, Concludes, request
  <2>6. ASSUME Key \/ Health
        PROVE  OnTime'
    BY <2>6 DEF Key, Health, Concludes, request
  <2>7. ASSUME Report \/ OutsideChanges \/ LinkMoves \/ TunnelMoves
        PROVE  OnTime'
    BY <2>7 DEF Report, OutsideChanges, LinkMoves, TunnelMoves, request, clock
  <2>8. CASE UNCHANGED verifyVars
    BY <2>8 DEF verifyVars
  <2>9. QED
    BY <2>2, <2>3, <2>4, <2>5, <2>6, <2>7, <2>8 DEF VerifyNext, VerifyStep
<1>3. QED
  BY <1>1, <1>2, PTL DEF VerifySpec

\* Never more rounds in flight than may be.
LEMMA CountsAlways == VerifySpec => []Counts
<1> USE DEF Counts
<1>1. InFlight \in Nat \ {0}
  BY VerifyAssumption DEF VerifyAssumption
<1>2. VerifyInit => Counts
  <2>1. VerifyInit => rounds = NoRounds
    BY DEF VerifyInit
  <2>2. QED
    BY <1>1, <2>1 DEF NoRounds
<1>3. Counts /\ [VerifyNext]_verifyVars => Counts'
  <2> SUFFICES ASSUME Counts, [VerifyNext]_verifyVars
               PROVE  Counts'
    OBVIOUS
  <2>1. ASSUME UNCHANGED rounds
        PROVE  Counts'
    BY <2>1
  <2>2. ASSUME RoundSent
        PROVE  Counts'
    BY <1>1, <2>2 DEF RoundSent
  <2>3. ASSUME RoundTimesOut
        PROVE  Counts'
    BY <1>1, <2>3 DEF RoundTimesOut
  <2>4. ASSUME Answered
        PROVE  Counts'
    BY <1>1, <2>4 DEF Answered, NoRounds
  <2>5. ASSUME PreflightStep \/ Report \/ OutsideChanges \/ LinkMoves \/ TunnelMoves
        PROVE  UNCHANGED rounds
    BY <2>5 DEF PreflightStep, Baseline, SignedIn, PatienceEnds, Recheck, Report, OutsideChanges,
                LinkMoves, TunnelMoves, prover
  <2>6. ASSUME VerifyStep
        PROVE  UNCHANGED rounds
    BY <2>6 DEF VerifyStep, Gate, Poll, Log, Key, Health, Deadline, prover
  <2>7. ASSUME UNCHANGED verifyVars
        PROVE  UNCHANGED rounds
    BY <2>7 DEF verifyVars
  <2>8. QED
    BY <2>1, <2>2, <2>3, <2>4, <2>5, <2>6, <2>7 DEF VerifyNext
<1>4. QED
  BY <1>2, <1>3, PTL DEF VerifySpec

\* Everything that is one of a few things stays one of them.
LEMMA KindsAlways == VerifySpec => []Kinds
<1> USE DEF Kinds, Stages
<1>1. VerifyInit => Kinds
  BY DEF VerifyInit
<1>2. Kinds /\ [VerifyNext]_verifyVars => Kinds'
  <2> SUFFICES ASSUME Kinds, [VerifyNext]_verifyVars
               PROVE  Kinds'
    OBVIOUS
  <2>1. ASSUME PreflightStep
        PROVE  Kinds'
    <3>1. UNCHANGED <<outside, uplink, verdict, exit>>
      BY <2>1 DEF PreflightStep, Baseline, SignedIn, PatienceEnds, Recheck, network
    <3>2. egress' \in {egress, "none", "bypassed", "routed", "carrying"}
      BY <2>1 DEF PreflightStep, Baseline, SignedIn, PatienceEnds, Recheck, network, Builds
    <3>3. addresses' \in {addresses, "real", "page"}
      BY <2>1 DEF PreflightStep, Baseline, SignedIn, PatienceEnds, Recheck
    <3>4. stage' \in {"baseline", "sign-in", "recheck", "watch", "blocked", "unsigned"}
      BY <2>1 DEF PreflightStep, Baseline, SignedIn, PatienceEnds, Recheck, Builds, GivesUp
    <3>5. stage' \in Stages /\ outside' \in {"works", "page", "no names", "silent"}
          /\ uplink' \in Uplinks /\ verdict' \in Verdicts \cup {"none"}
      BY <3>1, <3>4
    <3>6. exit' \in {-1, 0, 1, UnsignedPortalExit}
      BY <3>1
    <3>7. QED
      BY <3>2, <3>3, <3>5, <3>6
  <2>2. ASSUME RoundSent \/ RoundTimesOut \/ Answered
        PROVE  Kinds'
    BY <2>2 DEF RoundSent, RoundTimesOut, Answered, network, request
  <2>3. ASSUME VerifyStep
        PROVE  Kinds'
    <3>1. UNCHANGED <<network, request, exit>>
      BY <2>3 DEF VerifyStep, Gate, Poll, Log, Key, Health, Deadline
    <3>2. stage' \in {"over", "watch", "log", "key", "health", "deadline"}
          /\ verdict' \in Verdicts \cup {verdict}
      BY <2>3 DEF VerifyStep, Gate, Poll, Log, Key, Health, Deadline, AsksAgain, Concludes, Watches, Verdicts
    <3>3. stage' \in Stages /\ verdict' \in Verdicts \cup {"none"}
      BY <3>2
    <3>4. QED
      BY <3>1, <3>3 DEF network, request
  <2>4. ASSUME Report
        PROVE  Kinds'
    <3>1. exit' \in {0, 1, UnsignedPortalExit} /\ stage' = "done"
          /\ UNCHANGED <<network, addresses, verdict>>
      BY <2>4 DEF Report
    <3>2. QED
      BY <3>1 DEF network
  <2>5. ASSUME OutsideChanges \/ LinkMoves \/ TunnelMoves
        PROVE  Kinds'
    BY <2>5 DEF OutsideChanges, LinkMoves, TunnelMoves, request
  <2>6. CASE UNCHANGED verifyVars
    BY <2>6, ZenonT(30) DEF verifyVars
  <2>7. QED
    BY <2>1, <2>2, <2>3, <2>4, <2>5, <2>6 DEF VerifyNext
<1>3. QED
  BY <1>1, <1>2, PTL DEF VerifySpec

\* And so do the flags.
LEMMA FlagsAlways == VerifySpec => []Flags
<1> USE DEF Flags
<1>1. VerifyInit => Flags
  BY DEF VerifyInit
<1>2. Flags /\ [VerifyNext]_verifyVars => Flags'
  <2> SUFFICES ASSUME Flags, [VerifyNext]_verifyVars
               PROVE  Flags'
    OBVIOUS
  <2>1. ASSUME PreflightStep
        PROVE  Flags'
    BY <2>1, Zenon DEF PreflightStep, Baseline, SignedIn, PatienceEnds, Recheck, Builds, GivesUp,
                       AsksSignIn, network, prover
  <2>2. ASSUME RoundSent \/ RoundTimesOut \/ Answered
        PROVE  Flags'
    BY <2>2, Zenon DEF RoundSent, RoundTimesOut, Answered, network, request
  <2>3. ASSUME VerifyStep
        PROVE  Flags'
    BY <2>3, Zenon DEF VerifyStep, Gate, Poll, Log, Key, Health, Deadline, AsksAgain, Concludes,
                       Watches, network, request, prover
  <2>4. ASSUME Report
        PROVE  Flags'
    BY <2>4, Zenon DEF Report, network, prover
  <2>5. ASSUME OutsideChanges \/ LinkMoves \/ TunnelMoves
        PROVE  Flags'
    BY <2>5, Zenon DEF OutsideChanges, LinkMoves, TunnelMoves, request, prover
  <2>6. CASE UNCHANGED verifyVars
    BY <2>6, Zenon DEF verifyVars
  <2>7. QED
    BY <2>1, <2>2, <2>3, <2>4, <2>5, <2>6 DEF VerifyNext
<1>3. QED
  BY <1>1, <1>2, PTL DEF VerifySpec

\* VerifyTypeOK, for every settle window: the clock stops at the deadline, with at
\* most the one look at the link that was under way, never more rounds are in
\* flight than may be, and no more confirmations are counted than it takes
\* (verify.rs verify_with, prove_traffic).
THEOREM TypeCorrect == VerifySpec => []VerifyTypeOK
<1>1. OnTime => window \in Windows /\ now \in 0 .. window + 2 /\ checked \in 0 .. now
  <2>1. OnTime => window \in Nat
    BY VerifyAssumption DEF OnTime, VerifyAssumption
  <2>2. QED
    BY <2>1 DEF OnTime
<1>2. Inductive => downs \in 0 .. Confirm
  BY DEF Inductive, CountIsHeard
<1>3. Counts => rounds.through + rounds.beside \in 0 .. InFlight
  <2>1. InFlight \in Nat
    BY VerifyAssumption DEF VerifyAssumption
  <2>2. QED
    BY <2>1 DEF Counts
<1>4. OnTime /\ Counts /\ Kinds /\ Flags /\ Inductive => VerifyTypeOK
  BY <1>1, <1>2, <1>3, Zenon DEF Kinds, Stages, Flags, VerifyTypeOK
<1>5. QED
  BY <1>4, OnTimeAlways, CountsAlways, KindsAlways, FlagsAlways, InductiveAlways, PTL

===============================================================================
