---------------------------- MODULE UpConnectProofs ----------------------------
(***************************************************************************)
(* What one `pvpn up`, one `pvpn hop` and one reconnect to a named server  *)
(* report and leave behind, for every set of servers and every limit.      *)
(***************************************************************************)
EXTENDS Hop, FiniteSetTheorems, TLAPS

\* Where nothing of this command's is attached: up to the loop, at its first
\* turn, and between the top of a turn and what the turn builds.
NothingYet ==
  /\ pc \in {"preflight", "fast", "rank", "direct", "client"} => tunnel = Detached
  /\ pc = "loop" /\ ~tried => tunnel = Detached

\* A report ends the command.
ReportIsLast == report.ok # "none" => pc = "done"

Inductive ==
  /\ tried \in BOOLEAN
  /\ pc \in {"direct", "client", "cert"} => tried
  /\ NothingYet /\ ReportIsLast /\ HonestSuccess /\ NothingLeftBehind

-------------------------------------------------------------------------------
\* Whatever verification says, only a tunnel that carries is a success.
LEMMA OutcomeTells ==
  ASSUME NEW verdict \in {"died", "quiet", "carrying", "link-down"}, NEW byClient \in BOOLEAN
  PROVE  /\ OutcomeFor(verdict, byClient) = "ok" <=> verdict = "carrying"
         /\ OutcomeFor(verdict, byClient) \in Dead => verdict \in {"died", "quiet"}
<1>1. CASE verdict = "carrying"
  BY <1>1 DEF OutcomeFor, Dead, CertificateIsToBlame
<1>2. CASE verdict = "link-down"
  BY <1>2 DEF OutcomeFor, Dead, CertificateIsToBlame
<1>3. CASE verdict = "died"
  BY <1>3 DEF OutcomeFor, Dead, CertificateIsToBlame
<1>4. CASE verdict = "quiet"
  BY <1>4 DEF OutcomeFor, Dead, CertificateIsToBlame
<1>5. QED
  BY <1>1, <1>2, <1>3, <1>4

\* The verdicts there are.
LEMMA VerdictsKnown == Verdicts \subseteq {"died", "quiet", "carrying", "link-down"}
  BY DEF Verdicts

\* What the command itself does keeps it, whichever command it is a part of.
LEMMA UpKeeps ==
  ASSUME Inductive, Step
  PROVE  Inductive'
<1> USE DEF Detached, Running
<1> USE DEF Inductive, NothingYet, ReportIsLast, HonestSuccess, NothingLeftBehind,
            Succeed, Fail, FailRestored, Continue, world, plan, count
<1>1. ASSUME Entry
      PROVE  Inductive'
  BY <1>1 DEF Entry
<1>2. ASSUME Preflight
      PROVE  Inductive'
  BY <1>2 DEF Preflight
<1>3. ASSUME NEW s \in Servers, FastTry(s)
      PROVE  Inductive'
  <2>1. CASE Continue("fast") /\ UNCHANGED <<tunnel, blamed>>
    BY <1>3, <2>1 DEF FastTry
  <2>2. ASSUME NEW outcome,
               IF outcome = "ok"
               THEN Succeed(s) /\ tunnel' = [server |-> s, state |-> "carrying"]
               ELSE /\ Continue(IF outcome \in {"link-down", "cert-expired"}
                                 THEN "rank" ELSE "fast")
                    /\ UNCHANGED tunnel
        PROVE  Inductive'
    BY <1>3, <2>2 DEF FastTry
  <2>3. QED
    BY <1>3, <2>1, <2>2 DEF FastTry
<1>4. ASSUME NEW s \in Servers, FastByNmcli(s)
      PROVE  Inductive'
  <2>1. \/ Continue("rank") /\ UNCHANGED tunnel
        \/ Succeed(s) /\ tunnel' = [server |-> s, state |-> "carrying"]
        \/ Continue("rank") /\ tunnel' = Detached
    BY <1>4 DEF FastByNmcli
  <2>2. pc = "fast" /\ tried' = tried
    BY <1>4 DEF FastByNmcli
  <2>3. QED
    BY <2>1, <2>2
<1>5. ASSUME FastOver
      PROVE  Inductive'
  BY <1>5 DEF FastOver
<1>6. ASSUME CannotPrepare
      PROVE  Inductive'
  BY <1>6 DEF CannotPrepare
<1>7. ASSUME Ranked
      PROVE  Inductive'
  BY <1>7 DEF Ranked
<1>8. ASSUME Exhausted
      PROVE  Inductive'
  BY <1>8 DEF Exhausted
<1>9. ASSUME Turn
      PROVE  Inductive'
  <2>1. CASE Elsewhere
    BY <1>9, <2>1 DEF Turn
  <2>2. CASE ~Elsewhere
    <3>1. /\ pc = "loop" /\ pc' \in {"direct", "client"}
          /\ tried' = TRUE /\ report' = report
      BY <1>9, <2>2 DEF Turn
    <3>2. tunnel' = Detached
      BY <1>9, <2>2 DEF Turn
    <3>3. QED
      BY <3>1, <3>2
  <2>3. QED
    BY <2>1, <2>2
<1>10. ASSUME TryDirect
      PROVE  Inductive'
  <2>1. pc = "direct" /\ tunnel = Detached /\ tried' = tried /\ report.ok = "none"
    BY <1>10 DEF TryDirect
  <2>2. \/ Continue("client") /\ UNCHANGED tunnel
        \/ Succeed(Target) /\ tunnel' = [server |-> Target, state |-> "carrying"]
        \/ FailRestored
        \/ NextServer /\ UNCHANGED tunnel
    BY <1>10 DEF TryDirect, OneMoreQuiet
  <2>3. QED
    BY <2>1, <2>2 DEF NextServer
<1>11. ASSUME Renew
       PROVE  Inductive'
  BY <1>11 DEF Renew
<1>12. ASSUME NEW s \in Servers, ClientBuilds(s)
       PROVE  Inductive'
  <2>1. pc = "client" /\ tried' = tried /\ tried /\ report.ok = "none"
    BY <1>12 DEF ClientBuilds
  <2>2. \/ NextServer
        \/ FailRestored
        \/ Continue("cert")
        \/ \E state \in {"carrying", "quiet"} :
             Succeed(s) /\ tunnel' = [server |-> s, state |-> state]
    <3>1. CASE Target \notin {NoServer, s} /\ n + 1 < attempts
      BY <1>12, <3>1 DEF ClientBuilds
    <3>2. CASE ~(Target \notin {NoServer, s} /\ n + 1 < attempts)
      <4>1. PICK verdict \in Verdicts :
              LET outcome == OutcomeFor(verdict, TRUE)
                  built == [server |-> s, state |-> verdict] IN
              \/ outcome = "cert-expired" /\ RenewOnce
              \/ outcome = "link-down" /\ FailRestored
              \/ outcome = "ok" /\ Succeed(s) /\ tunnel' = built
              \/ /\ outcome \in Dead
                 /\ \/ NextServer
                    \/ KeepOrRestore(s, verdict)
        BY <1>12, <3>2 DEF ClientBuilds
      <4>2. QED
        BY <4>1, OutcomeTells, VerdictsKnown DEF RenewOnce, KeepOrRestore
    <3>3. QED
      BY <3>1, <3>2
  <2>3. QED
    BY <2>1, <2>2 DEF NextServer
<1>13. ASSUME NEW outcome, NEW says, ClientFails(outcome, says)
       PROVE  Inductive'
  <2>1. pc = "client" /\ tried' = tried /\ tried /\ report.ok = "none"
        /\ tunnel = Detached
    BY <1>13 DEF ClientFails
  <2>2. \/ NextServer
        \/ FailRestored
        \/ Continue("cert")
        \/ Fail /\ UNCHANGED tunnel
    BY <1>13 DEF ClientFails, RenewOnce
  <2>3. QED
    BY <2>1, <2>2 DEF NextServer
<1>14. ASSUME SpawnFails
       PROVE  Inductive'
  BY <1>14 DEF SpawnFails, NextServer
<1>15. QED
  BY <1>1, <1>2, <1>3, <1>4, <1>5, <1>6, <1>7, <1>8, <1>9, <1>10, <1>11, <1>12,
     <1>13, <1>14
  DEF Step

\* Neither does the machine around it change anything it says.
LEMMA AroundKeeps ==
  ASSUME Inductive, LinkChanges \/ CertLapses
  PROVE  Inductive'
  BY DEF Inductive, NothingYet, ReportIsLast, HonestSuccess, NothingLeftBehind, LinkChanges,
     CertLapses, plan, count

\* The invariant, for every run of the command.
THEOREM InductiveAlways == Spec => []Inductive
<1>1. Init => Inductive
  <2> SUFFICES ASSUME Init
               PROVE  Inductive
    OBVIOUS
  <2>1. pc = "entry" /\ tried = FALSE /\ report.ok = "none"
    BY DEF Init, Running
  <2>2. QED
    BY <2>1 DEF Inductive, NothingYet, ReportIsLast, HonestSuccess, NothingLeftBehind
<1>2. Inductive /\ [Next]_vars => Inductive'
  <2> SUFFICES ASSUME Inductive, [Next]_vars
               PROVE  Inductive'
    OBVIOUS
  <2>1. CASE Step
    BY <2>1, UpKeeps
  <2>2. CASE LinkChanges \/ CertLapses
    BY <2>2, AroundKeeps
  <2>3. CASE UNCHANGED vars
    BY <2>3 DEF vars, world, plan, count, Inductive, NothingYet, ReportIsLast, HonestSuccess,
       NothingLeftBehind
  <2>4. QED
    BY <2>1, <2>2, <2>3 DEF Next
<1>3. QED
  BY <1>1, <1>2, PTL DEF Spec

\* A success is reported only of the tunnel that is attached, and never of a
\* session declared over.
THEOREM HonestSuccessAlways == Spec => []HonestSuccess
<1>1. Inductive => HonestSuccess
  BY DEF Inductive
<1>2. QED
  BY <1>1, InductiveAlways, PTL

\* A failure leaves nothing attached, the two early returns without a restore
\* included: where they stand, nothing is.
THEOREM NothingLeftBehindAlways == Spec => []NothingLeftBehind
<1>1. Inductive => NothingLeftBehind
  BY DEF Inductive
<1>2. QED
  BY <1>1, InductiveAlways, PTL

-------------------------------------------------------------------------------
\* With a certificate that has lapsed, and a place to read it in, verification
\* comes to our certificate or our link, whatever else it saw.
LEMMA CertOutranks ==
  ASSUME cert = "lapsed", NEW byClient \in BOOLEAN, keyring \/ byClient, NEW verdict \in Verdicts
  PROVE  OutcomeFor(verdict, byClient) \in {"cert-expired", "link-down"}
<1>1. verdict # "carrying"
  BY DEF Verdicts
<1>2. CertificateIsToBlame(byClient)
  BY DEF CertificateIsToBlame
<1>3. QED
  BY <1>1, <1>2 DEF OutcomeFor

\* Neither of the two blocks anybody.
LEMMA NobodyRecorded ==
  ASSUME NEW server, NEW outcome \in {"cert-expired", "link-down"}, Record(server, outcome)
  PROVE  blamed' = blamed
  BY DEF Record, Dead

\* A lapsed certificate of ours blocks no server.
THEOREM CertBlamesNobodyAlways == Spec => CertBlamesNobody
<1> DEFINE Innocents == cert = "lapsed" /\ (keyring \/ pc = "client") => blamed' \subseteq blamed
<1>1. [Next]_vars => [Innocents]_vars
  <2> SUFFICES ASSUME [Next]_vars, cert = "lapsed", keyring \/ pc = "client"
               PROVE  blamed' = blamed
    OBVIOUS
  <2>1. ASSUME NEW s \in Servers, FastTry(s)
        PROVE  blamed' = blamed
    <3>1. pc = "fast"
      BY <2>1 DEF FastTry
    <3>2. CASE UNCHANGED <<tunnel, blamed>>
      BY <3>2
    <3>3. CASE \E verdict \in Verdicts : Record(s, OutcomeFor(verdict, FALSE))
      BY <3>1, <3>3, CertOutranks, NobodyRecorded
    <3>4. QED
      BY <2>1, <3>2, <3>3 DEF FastTry
  <2>2. ASSUME NEW s \in Servers, FastByNmcli(s)
        PROVE  blamed' = blamed
    <3>1. CASE UNCHANGED blamed
      BY <3>1
    <3>2. CASE \E verdict \in Verdicts : Record(s, OutcomeFor(verdict, FALSE))
      <4>1. keyring
        BY <2>2 DEF FastByNmcli
      <4>2. QED
        BY <3>2, <4>1, CertOutranks, NobodyRecorded
    <3>3. QED
      BY <2>2, <3>1, <3>2 DEF FastByNmcli
  <2>3. ASSUME TryDirect
        PROVE  blamed' = blamed
    <3>1. pc = "direct"
      BY <2>3 DEF TryDirect
    <3>2. CASE UNCHANGED blamed
      BY <3>2
    <3>3. CASE \E verdict \in Verdicts : Record(Target, OutcomeFor(verdict, FALSE))
      BY <3>1, <3>3, CertOutranks, NobodyRecorded
    <3>4. QED
      BY <2>3, <3>2, <3>3 DEF TryDirect
  <2>4. ASSUME NEW s \in Servers, ClientBuilds(s)
        PROVE  blamed' = blamed
    <3>1. CASE UNCHANGED blamed
      BY <3>1
    <3>2. CASE \E verdict \in Verdicts : Record(s, OutcomeFor(verdict, TRUE))
      BY <3>2, CertOutranks, NobodyRecorded
    <3>3. QED
      BY <2>4, <3>1, <3>2 DEF ClientBuilds
  <2>5. ASSUME NEW outcome, NEW says, ClientFails(outcome, says)
        PROVE  blamed' = blamed
    BY <2>5 DEF ClientFails, Diagnoses, LogSays
  <2>6. CASE Entry \/ Preflight \/ FastOver \/ CannotPrepare \/ Ranked
    BY <2>6 DEF Entry, Preflight, FastOver, CannotPrepare, Ranked
  <2>7. CASE Exhausted \/ Turn \/ Renew \/ SpawnFails \/ LinkChanges \/ CertLapses
    BY <2>7 DEF Exhausted, Turn, Renew, SpawnFails, LinkChanges, CertLapses
  <2>8. CASE UNCHANGED vars
    BY <2>8 DEF vars
  <2>9. QED
    BY <2>1, <2>2, <2>3, <2>4, <2>5, <2>6, <2>7, <2>8 DEF Next, Step
<1>2. QED
  BY <1>1, PTL DEF Spec, CertBlamesNobody

-------------------------------------------------------------------------------
(* Types and limits *)

\* A quiet tunnel is counted only while there may be one more, a turn is begun only
\* when there is one left, the turns are counted from nothing, and there is none past
\* the end of a list.
LimitsKept ==
  /\ pc \in {"entry", "preflight", "fast", "rank"} => n = 0
  /\ pc # "done" => quiet < QuietLimit
  /\ pc \in {"direct", "client", "cert"} => n < attempts
  /\ targets # << >> => attempts <= Len(targets)

\* What an order of some of the servers is.
LEMMA OrderIs ==
  ASSUME NEW S \in SUBSET Servers, NEW order \in SetToSeqs(S)
  PROVE  /\ order \in Seq(Servers) /\ Len(order) <= Cardinality(Servers)
         /\ \A i \in 1 .. Len(order) : order[i] \in S
         /\ \A i, j \in 1 .. Len(order) : i # j => order[i] # order[j]
<1>1. IsFiniteSet(S) /\ Cardinality(S) <= Cardinality(Servers)
  BY UpAssumption, FS_Subset DEF UpAssumption
<1>2. Cardinality(S) \in Nat
  BY <1>1, FS_CardinalityType
<1>3. /\ order \in [1 .. Cardinality(S) -> S]
      /\ \A i, j \in 1 .. Cardinality(S) : i # j => order[i] # order[j]
  BY DEF SetToSeqs
<1>4. Len(order) = Cardinality(S)
  BY <1>2, <1>3
<1>5. QED
  BY <1>1, <1>2, <1>3, <1>4

\* What is attached when verification has come to this, if it stays attached.
LEMMA BuiltIs ==
  ASSUME NEW s \in Servers, NEW verdict \in Verdicts, OutcomeFor(verdict, TRUE) # "link-down"
  PROVE  verdict \in {"died", "quiet", "carrying"}
  BY VerdictsKnown DEF OutcomeFor

\* TypeOK, for every set of servers and every limit: the loop never goes past the
\* attempts it has nor its list, and counts no more quiet tunnels than it may
\* (connect.rs up).
THEOREM TypeCorrect == Spec => [](TypeOK /\ LimitsKept)
<1> USE UpAssumption DEF UpAssumption, Detached, Running
<1>1. Init => TypeOK /\ LimitsKept
  <2> SUFFICES ASSUME Init
               PROVE  TypeOK /\ LimitsKept
    OBVIOUS
  <2>1. Cardinality(Servers) \in Nat
    BY FS_CardinalityType
  <2>2. blamed \subseteq Servers /\ targets \in Seq(Servers) /\ Len(targets) = 0
    BY DEF Init
  <2>3. tunnel \in [server : Servers \cup {NoServer},
                    state : {"none", "old", "half", "quiet", "died", "carrying"}]
    BY DEF Init
  <2>4. /\ pc = "entry" /\ link \in Links /\ cert \in {"valid", "lapsed"} /\ keyring \in BOOLEAN
        /\ fast = {} /\ targets = << >> /\ n = 0 /\ attempts = 0 /\ tried = FALSE /\ renewed = FALSE
        /\ quiet = 0 /\ report = Running
    BY DEF Init, Links
  <2>5. targets \in Seq(Servers) /\ Len(targets) <= Cardinality(Servers)
    BY <2>1, <2>2
  <2>6. quiet \in 0 .. QuietLimit /\ n \in Nat /\ attempts \in Nat /\ n <= attempts
    BY <2>4
  <2>7. report \in [ok : {"none", "yes", "no"}, server : Servers \cup {NoServer}]
    BY <2>4
  <2>8. TypeOK
    <3>1. pc = "entry" /\ link \in Links /\ cert \in {"valid", "lapsed"} /\ keyring \in BOOLEAN
          /\ fast = {} /\ tried = FALSE /\ renewed = FALSE
      BY <2>4
    <3>2. QED
      BY <3>1, <2>2, <2>3, <2>5, <2>6, <2>7 DEF TypeOK
  <2>9. LimitsKept
    BY <2>4 DEF LimitsKept
  <2>10. QED
    BY <2>8, <2>9
<1>2. TypeOK /\ LimitsKept /\ [Next]_vars => (TypeOK /\ LimitsKept)'
  <2> SUFFICES ASSUME TypeOK, LimitsKept, [Next]_vars
               PROVE  (TypeOK /\ LimitsKept)'
    OBVIOUS
  <2> USE DEF TypeOK, LimitsKept, Links, Succeed, Fail, FailRestored, Continue, NextServer, world, plan,
              count
  <2>0. ASSUME NEW server, NEW outcome, Record(server, outcome)
        PROVE  blamed' \subseteq Servers
    BY <2>0 DEF Record
  <2>1. ASSUME Entry \/ Preflight \/ FastOver \/ CannotPrepare \/ Exhausted \/ Renew \/ SpawnFails
        PROVE  (TypeOK /\ LimitsKept)'
    BY <2>1 DEF Entry, Preflight, FastOver, CannotPrepare, Exhausted, Renew, SpawnFails
  <2>2. ASSUME NEW s \in Servers, FastTry(s)
        PROVE  (TypeOK /\ LimitsKept)'
    <3>1. pc = "fast" /\ fast' \subseteq Servers /\ UNCHANGED <<world, targets, attempts, count>>
      BY <2>2 DEF FastTry
    <3>2. \/ Continue("fast") /\ UNCHANGED <<tunnel, blamed>>
          \/ /\ blamed' \subseteq Servers
             /\ \/ Succeed(s) /\ tunnel' = [server |-> s, state |-> "carrying"]
                \/ (Continue("rank") \/ Continue("fast")) /\ UNCHANGED tunnel
      BY <2>2, <2>0 DEF FastTry
    <3>3. QED
      BY <3>1, <3>2
  <2>3. ASSUME NEW s \in Servers, FastByNmcli(s)
        PROVE  (TypeOK /\ LimitsKept)'
    <3>1. pc = "fast" /\ UNCHANGED <<world, plan, count>>
      BY <2>3 DEF FastByNmcli
    <3>2. \/ Continue("rank") /\ UNCHANGED <<tunnel, blamed>>
          \/ /\ blamed' \subseteq Servers
             /\ \/ Succeed(s) /\ tunnel' = [server |-> s, state |-> "carrying"]
                \/ Continue("rank") /\ tunnel' = Detached
      BY <2>3, <2>0 DEF FastByNmcli
    <3>3. QED
      BY <3>1, <3>2
  <2>4. ASSUME Ranked
        PROVE  (TypeOK /\ LimitsKept)'
    <3>1. Cardinality(Servers) \in Nat
      BY FS_CardinalityType
    <3>2. targets' \in SetToSeqs(NotBlocked(Servers)) \cup {<< >>}
      BY <2>4 DEF Ranked
    <3>3. NotBlocked(Servers) \in SUBSET Servers
      BY DEF NotBlocked
    <3>4. targets' \in Seq(Servers) /\ Len(targets') <= Cardinality(Servers)
      <4>1. CASE targets' \in SetToSeqs(NotBlocked(Servers))
        BY <4>1, <3>3, OrderIs
      <4>2. CASE targets' = << >>
        BY <4>2, <3>1
      <4>3. QED
        BY <3>2, <4>1, <4>2
    <3>5. Len(targets') \in Nat
      BY <3>4
    <3>6. attempts' \in Nat /\ (targets' # << >> => attempts' <= Len(targets'))
      BY <2>4, <3>5 DEF Ranked
    <3>7. /\ pc = "rank" /\ pc' = "loop" /\ n = 0 /\ n' = 0 /\ tunnel' = Detached
          /\ UNCHANGED <<world, blamed, fast, tried, renewed, quiet, report>>
      BY <2>4 DEF Ranked
    <3>8. QED
      BY <3>4, <3>6, <3>7
  <2>5. ASSUME Turn
        PROVE  (TypeOK /\ LimitsKept)'
    <3>1. pc = "loop" /\ n < attempts /\ UNCHANGED <<world, blamed, plan, n, renewed, quiet>>
      BY <2>5 DEF Turn
    <3>2. \/ FailRestored /\ UNCHANGED tried
          \/ /\ Continue("direct") \/ Continue("client")
             /\ tunnel' \in {Detached, tunnel} /\ tried' = TRUE
      BY <2>5 DEF Turn
    <3>3. CASE FailRestored /\ UNCHANGED tried
      BY <3>1, <3>3
    <3>4. CASE (Continue("direct") \/ Continue("client")) /\ tunnel' \in {Detached, tunnel} /\ tried' = TRUE
      <4>1. tunnel' \in [server : Servers \cup {NoServer},
                         state : {"none", "old", "half", "quiet", "died", "carrying"}]
        BY <3>4
      <4>2. QED
        BY <3>1, <3>4, <4>1
    <3>5. QED
      BY <3>2, <3>3, <3>4
  <2>6. ASSUME TryDirect
        PROVE  (TypeOK /\ LimitsKept)'
    <3>1. pc = "direct" /\ n < attempts /\ UNCHANGED <<world, plan, tried, renewed>>
          /\ blamed' \subseteq Servers
      BY <2>6, <2>0 DEF TryDirect
    <3>2. Target \in Servers \cup {NoServer}
      BY DEF Target
    <3>3. \/ Continue("client") /\ UNCHANGED <<tunnel, n, quiet>>
          \/ /\ Succeed(Target) /\ tunnel' = [server |-> Target, state |-> "carrying"]
             /\ UNCHANGED <<n, quiet>>
          \/ FailRestored /\ UNCHANGED <<n, quiet>>
          \/ OneMoreQuiet
      BY <2>6 DEF TryDirect
    <3>4. CASE OneMoreQuiet
      BY <3>1, <3>4 DEF OneMoreQuiet
    <3>5. QED
      BY <3>1, <3>2, <3>3, <3>4
  <2>7. ASSUME NEW s \in Servers, ClientBuilds(s)
        PROVE  (TypeOK /\ LimitsKept)'
    <3>1. pc = "client" /\ n < attempts /\ UNCHANGED <<world, plan, tried>>
          /\ blamed' \subseteq Servers
      BY <2>7, <2>0 DEF ClientBuilds
    <3>2. CASE Target \notin {NoServer, s} /\ n + 1 < attempts
      BY <2>7, <3>1, <3>2 DEF ClientBuilds
    <3>3. CASE ~(Target \notin {NoServer, s} /\ n + 1 < attempts)
      <4>1. PICK verdict \in Verdicts :
              LET outcome == OutcomeFor(verdict, TRUE)
                  built == [server |-> s, state |-> verdict] IN
              \/ /\ outcome = "cert-expired" /\ RenewOnce
                 /\ pc' = "cert" => tunnel' = built
                 /\ UNCHANGED <<n, quiet>>
              \/ outcome = "link-down" /\ FailRestored /\ UNCHANGED <<n, renewed, quiet>>
              \/ /\ outcome = "ok" /\ Succeed(s) /\ tunnel' = built
                 /\ UNCHANGED <<n, renewed, quiet>>
              \/ /\ outcome \in Dead
                 /\ quiet' = quiet + 1
                 /\ IF quiet + 1 < QuietLimit /\ n + 1 < attempts /\ targets # << >>
                    THEN NextServer /\ tunnel' = built
                    ELSE KeepOrRestore(s, verdict) /\ UNCHANGED n
                 /\ UNCHANGED renewed
        BY <2>7, <3>3 DEF ClientBuilds
      <4> DEFINE built == [server |-> s, state |-> verdict]
      <4>2. CASE OutcomeFor(verdict, TRUE) = "link-down"
        <5>1. FailRestored /\ UNCHANGED <<n, renewed, quiet>>
          BY <4>1, <4>2 DEF Dead
        <5>2. QED
          BY <3>1, <5>1
      <4>3. CASE OutcomeFor(verdict, TRUE) # "link-down"
        <5>1. built \in [server : Servers, state : {"died", "quiet", "carrying"}]
          <6>1. verdict \in {"died", "quiet", "carrying"}
            BY <4>3, BuiltIs
          <6>2. QED
            BY <6>1
        <5>2. CASE RenewOnce /\ (pc' = "cert" => tunnel' = built) /\ UNCHANGED <<n, quiet>>
          <6>1. CASE FailRestored /\ UNCHANGED renewed
            BY <3>1, <5>2, <6>1
          <6>2. CASE Continue("cert") /\ renewed' = TRUE
            <7>1. tunnel' = built
              BY <5>2, <6>2
            <7>2. QED
              BY <3>1, <5>1, <5>2, <6>2, <7>1
          <6>3. QED
            BY <5>2, <6>1, <6>2 DEF RenewOnce
        <5>3. CASE Succeed(s) /\ tunnel' = built /\ UNCHANGED <<n, renewed, quiet>>
          BY <3>1, <5>1, <5>3
        <5>4. CASE quiet' = quiet + 1 /\ UNCHANGED renewed /\ quiet + 1 < QuietLimit
                   /\ NextServer /\ tunnel' = built
          BY <3>1, <5>1, <5>4
        <5>5. CASE quiet' = quiet + 1 /\ UNCHANGED <<renewed, n>> /\ KeepOrRestore(s, verdict)
          BY <3>1, <5>1, <5>5 DEF KeepOrRestore
        <5>6. QED
          BY <4>1, <4>3, <5>2, <5>3, <5>4, <5>5
      <4>4. QED
        BY <4>2, <4>3
    <3>4. QED
      BY <3>2, <3>3
  <2>8. ASSUME NEW outcome, NEW says, ClientFails(outcome, says)
        PROVE  (TypeOK /\ LimitsKept)'
    <3>1. pc = "client" /\ n < attempts /\ UNCHANGED <<world, fast, attempts, tried, quiet>>
      BY <2>8 DEF ClientFails
    <3>2. blamed' \subseteq Servers
      BY <2>8, <2>0 DEF ClientFails
    <3>3. PICK left \in {[server |-> NoServer, state |-> "half"], tunnel} :
            \/ RenewOnce /\ (pc' = "cert" => tunnel' = left) /\ UNCHANGED <<targets, n>>
            \/ FailRestored /\ UNCHANGED <<targets, n, renewed>>
            \/ Fail /\ UNCHANGED <<targets, n, tunnel, renewed>>
            \/ /\ targets' \in {<< >>, targets}
               /\ NextServer /\ tunnel' = left /\ UNCHANGED renewed
      BY <2>8 DEF ClientFails
    <3>4. left \in [server : Servers \cup {NoServer},
                    state : {"none", "old", "half", "quiet", "died", "carrying"}]
      <4>1. [server |-> NoServer, state |-> "half"]
              \in [server : Servers \cup {NoServer},
                   state : {"none", "old", "half", "quiet", "died", "carrying"}]
        OBVIOUS
      <4>2. QED
        BY <4>1
    <3>5. CASE RenewOnce /\ (pc' = "cert" => tunnel' = left) /\ UNCHANGED <<targets, n>>
      <4>1. CASE FailRestored /\ UNCHANGED renewed
        BY <3>1, <3>2, <3>5, <4>1
      <4>2. CASE Continue("cert") /\ renewed' = TRUE
        <5>1. tunnel' = left
          BY <3>5, <4>2
        <5>2. QED
          BY <3>1, <3>2, <3>4, <3>5, <4>2, <5>1
      <4>3. QED
        BY <3>5, <4>1, <4>2 DEF RenewOnce
    <3>6. CASE FailRestored /\ UNCHANGED <<targets, n, renewed>>
      BY <3>1, <3>2, <3>6
    <3>7. CASE Fail /\ UNCHANGED <<targets, n, tunnel, renewed>>
      BY <3>1, <3>2, <3>7
    <3>8. CASE targets' \in {<< >>, targets} /\ NextServer /\ tunnel' = left /\ UNCHANGED renewed
      <4>1. targets' \in Seq(Servers) /\ Len(targets') <= Cardinality(Servers)
            /\ (targets' # << >> => targets' = targets)
        <5>1. Cardinality(Servers) \in Nat
          BY FS_CardinalityType
        <5>2. << >> \in Seq(Servers) /\ Len(<< >>) = 0
          OBVIOUS
        <5>3. CASE targets' = << >>
          BY <5>1, <5>2, <5>3
        <5>4. CASE targets' = targets
          BY <5>4
        <5>5. QED
          BY <3>8, <5>3, <5>4
      <4>2. QED
        BY <3>1, <3>2, <3>4, <3>8, <4>1
    <3>9. QED
      BY <3>3, <3>5, <3>6, <3>7, <3>8
  <2>9. ASSUME LinkChanges \/ CertLapses
        PROVE  (TypeOK /\ LimitsKept)'
    BY <2>9 DEF LinkChanges, CertLapses
  <2>10. CASE UNCHANGED vars
    BY <2>10 DEF vars
  <2>11. QED
    BY <2>1, <2>2, <2>3, <2>4, <2>5, <2>6, <2>7, <2>8, <2>9, <2>10 DEF Next, Step
<1>3. QED
  BY <1>1, <1>2, PTL DEF Spec

-------------------------------------------------------------------------------
(* No server twice *)

\* What is still to come of the list has not been blamed since it was made, and
\* no server is on it twice.
NotYetBlamed ==
  /\ pc \in {"loop", "direct", "client", "cert"} =>
       \A i \in n + 1 .. Len(targets) : targets[i] \notin blamed
  /\ \A i, j \in 1 .. Len(targets) : i # j => targets[i] # targets[j]

\* A record blames the server it is about or nobody, and nobody for what is ours.
LEMMA RecordBlames ==
  ASSUME NEW server, NEW outcome, Record(server, outcome)
  PROVE  /\ blamed' \subseteq blamed \cup ({server} \cap Servers)
         /\ outcome \notin Dead => blamed' \subseteq blamed
  BY DEF Record

\* After a turn for the target, which alone it may have blamed, the rest is as good.
LEMMA NextIsGood ==
  ASSUME TypeOK, NotYetBlamed, pc \in {"direct", "client"}, targets' = targets, n' = n + 1,
         blamed' \subseteq blamed \cup ({Target} \cap Servers)
  PROVE  NotYetBlamed'
<1>1. targets \in Seq(Servers) /\ n \in Nat
  BY DEF TypeOK
<1>2. ASSUME NEW i \in n + 2 .. Len(targets)
      PROVE  targets[i] \notin blamed \cup {Target}
  <2>1. n < Len(targets) /\ i \in 1 .. Len(targets) /\ n + 1 \in 1 .. Len(targets) /\ i # n + 1
    BY <1>1
  <2>2. targets[i] # targets[n + 1] /\ Target = targets[n + 1]
    BY <2>1 DEF NotYetBlamed, Target
  <2>3. targets[i] \notin blamed
    BY <1>1, <1>2 DEF NotYetBlamed
  <2>4. QED
    BY <2>2, <2>3
<1>3. QED
  BY <1>1, <1>2 DEF NotYetBlamed

\* Where nobody is blamed anew, what is to come stays as good.
LEMMA RestIsGood ==
  ASSUME TypeOK, NotYetBlamed, targets' = targets,
         pc' = "done" \/ (pc \in {"loop", "direct", "client", "cert"} /\ n' \in {n, n + 1}
                          /\ blamed' \subseteq blamed)
  PROVE  NotYetBlamed'
<1>1. n \in Nat /\ Len(targets) \in Nat
  BY DEF TypeOK
<1>2. QED
  BY <1>1 DEF NotYetBlamed

\* Before the loop, and with nothing left on the list, there is nothing to come.
LEMMA NothingToCome ==
  ASSUME NotYetBlamed, pc' \in {"entry", "preflight", "fast", "rank", "done"}, targets' = targets
  PROVE  NotYetBlamed'
  BY DEF NotYetBlamed

\* NotYetBlamed, for every set of servers, every order of them and every limit.
THEOREM NotYetBlamedAlways == Spec => []NotYetBlamed
<1> USE UpAssumption DEF UpAssumption
<1>1. Init => NotYetBlamed
  <2>1. Init => pc = "entry" /\ Len(targets) = 0
    BY DEF Init
  <2>2. QED
    BY <2>1 DEF NotYetBlamed
<1>2. TypeOK /\ LimitsKept /\ NotYetBlamed /\ [Next]_vars => NotYetBlamed'
  <2> SUFFICES ASSUME TypeOK, LimitsKept, NotYetBlamed, [Next]_vars
               PROVE  NotYetBlamed'
    OBVIOUS
  <2> USE DEF Succeed, Fail, FailRestored, Continue, NextServer, world, plan, count
  <2>1. ASSUME Entry \/ Preflight \/ FastOver \/ CannotPrepare
        PROVE  NotYetBlamed'
    BY <2>1, NothingToCome DEF Entry, Preflight, FastOver, CannotPrepare
  <2>2. ASSUME NEW s \in Servers, FastTry(s) \/ FastByNmcli(s)
        PROVE  NotYetBlamed'
    <3>1. pc' \in {"fast", "rank", "done"} /\ targets' = targets
      BY <2>2 DEF FastTry, FastByNmcli
    <3>2. QED
      BY <3>1, NothingToCome
  <2>3. ASSUME Ranked
        PROVE  NotYetBlamed'
    <3>1. pc = "rank" /\ pc' = "loop" /\ n' = 0 /\ blamed' = blamed
          /\ targets' \in SetToSeqs(NotBlocked(Servers)) \cup {<< >>}
      BY <2>3 DEF Ranked, LimitsKept
    <3>2. CASE targets' = << >>
      <4>1. Len(targets') = 0
        BY <3>2
      <4>2. QED
        BY <3>1, <4>1 DEF NotYetBlamed
    <3>3. CASE targets' \in SetToSeqs(NotBlocked(Servers))
      <4>1. NotBlocked(Servers) \in SUBSET Servers
            /\ \A s \in NotBlocked(Servers) : s \notin blamed
        BY DEF NotBlocked
      <4>2. /\ \A i \in 1 .. Len(targets') : targets'[i] \in NotBlocked(Servers)
            /\ \A i, j \in 1 .. Len(targets') : i # j => targets'[i] # targets'[j]
        BY <3>3, <4>1, OrderIs
      <4>3. QED
        BY <3>1, <4>1, <4>2 DEF NotYetBlamed
    <3>4. QED
      BY <3>1, <3>2, <3>3
  <2>4. ASSUME Exhausted \/ Turn \/ Renew \/ SpawnFails \/ LinkChanges \/ CertLapses
        PROVE  NotYetBlamed'
    <3>1. CASE Exhausted \/ Turn \/ Renew \/ SpawnFails
      BY <3>1, RestIsGood DEF Exhausted, Turn, Renew, SpawnFails
    <3>2. CASE LinkChanges \/ CertLapses
      BY <3>2 DEF LinkChanges, CertLapses, NotYetBlamed
    <3>3. QED
      BY <2>4, <3>1, <3>2
  <2>5. ASSUME TryDirect
        PROVE  NotYetBlamed'
    <3>1. pc = "direct" /\ targets' = targets
      BY <2>5 DEF TryDirect
    <3>2. blamed' \subseteq blamed \cup ({Target} \cap Servers)
      BY <2>5, RecordBlames DEF TryDirect
    <3>3. \/ pc' = "done"
          \/ n' = n /\ blamed' \subseteq blamed
          \/ n' = n + 1
      BY <2>5, RecordBlames DEF TryDirect, OneMoreQuiet, Dead
    <3>4. QED
      BY <3>1, <3>2, <3>3, NextIsGood, RestIsGood
  <2>6. ASSUME NEW s \in Servers, ClientBuilds(s)
        PROVE  NotYetBlamed'
    <3>1. pc = "client" /\ targets' = targets
      BY <2>6 DEF ClientBuilds
    <3>2. CASE Target \notin {NoServer, s} /\ n + 1 < attempts
      <4>1. n' = n + 1 /\ blamed' = blamed
        BY <2>6, <3>2 DEF ClientBuilds
      <4>2. QED
        BY <3>1, <4>1, RestIsGood
    <3>3. CASE ~(Target \notin {NoServer, s} /\ n + 1 < attempts)
      <4>1. \/ pc' = "done"
            \/ n' = n /\ blamed' \subseteq blamed
            \/ n' = n + 1 /\ n + 1 < attempts /\ blamed' \subseteq blamed \cup {s}
        BY <2>6, <3>3, RecordBlames DEF ClientBuilds, RenewOnce, KeepOrRestore, Dead
      <4>2. CASE n' = n + 1 /\ n + 1 < attempts /\ blamed' \subseteq blamed \cup {s}
        <5>1. CASE Target = s
          BY <3>1, <4>2, <5>1, NextIsGood
        <5>2. CASE Target = NoServer
          <6>1. ~(n < Len(targets))
            BY <5>2 DEF Target, TypeOK
          <6>2. QED
            BY <3>1, <4>2, <6>1 DEF NotYetBlamed, TypeOK
        <5>3. QED
          BY <3>3, <4>2, <5>1, <5>2
      <4>3. QED
        BY <3>1, <4>1, <4>2, RestIsGood
    <3>4. QED
      BY <3>2, <3>3
  <2>7. ASSUME NEW outcome, NEW says, ClientFails(outcome, says)
        PROVE  NotYetBlamed'
    <3>1. pc = "client"
      BY <2>7 DEF ClientFails
    <3>2. blamed' \subseteq blamed \cup ({Target} \cap Servers)
      BY <2>7, RecordBlames DEF ClientFails
    <3>3. \/ pc' = "done" /\ targets' = targets
          \/ targets' = << >>
          \/ targets' = targets /\ n' = n /\ blamed' \subseteq blamed
          \/ targets' = targets /\ n' = n + 1
      BY <2>7 DEF ClientFails, RenewOnce
    <3>4. CASE targets' = << >>
      <4>1. Len(targets') = 0
        BY <3>4
      <4>2. n' \in {n, n + 1}
        BY <2>7 DEF ClientFails, RenewOnce
      <4>3. n' \in Nat
        BY <4>2 DEF TypeOK
      <4>4. ASSUME NEW i, i \in n' + 1 .. Len(targets') \/ i \in 1 .. Len(targets')
            PROVE  FALSE
        <5>1. PICK m \in Nat : m = n'
          BY <4>3
        <5>2. i \notin m + 1 .. 0 /\ i \notin 1 .. 0
          OBVIOUS
        <5>3. QED
          BY <4>1, <4>4, <5>1, <5>2
      <4>5. QED
        BY <4>4 DEF NotYetBlamed
    <3>5. QED
      BY <3>1, <3>2, <3>3, <3>4, NextIsGood, RestIsGood
  <2>8. CASE UNCHANGED vars
    BY <2>8 DEF vars, NotYetBlamed
  <2>9. QED
    BY <2>1, <2>2, <2>3, <2>4, <2>5, <2>6, <2>7, <2>8 DEF Next, Step
<1>3. QED
  BY <1>1, <1>2, TypeCorrect, PTL DEF Spec

\* NeverBackToBlamed, for every set of servers and every order of them: neither the
\* fast path's verdicts nor the loop's own are forgotten when the next server is
\* taken from the list (connect.rs up, state.rs ranked_targets).
THEOREM NeverBackToBlamedAlways == Spec => []NeverBackToBlamed
<1>1. TypeOK /\ NotYetBlamed => NeverBackToBlamed
  <2> SUFFICES ASSUME TypeOK, NotYetBlamed, pc \in {"direct", "client"}
               PROVE  Target \notin blamed
    BY DEF NeverBackToBlamed
  <2>1. CASE n < Len(targets)
    BY <2>1 DEF TypeOK, NotYetBlamed, Target
  <2>2. CASE ~(n < Len(targets))
    BY <2>2, UpAssumption DEF TypeOK, Target, UpAssumption
  <2>3. QED
    BY <2>1, <2>2
<1>2. QED
  BY <1>1, TypeCorrect, NotYetBlamedAlways, PTL
-------------------------------------------------------------------------------
(* Hop *)

UpPlaces == {"entry", "preflight", "fast", "rank", "loop", "direct", "client", "cert"}

\* The tunnel the command found, or none.
AsFound ==
  \/ tunnel = Detached
  \/ tunnel.server = before /\ tunnel.state \in {"old", "carrying"}

\* Until the server is asked for, nothing but what was found is attached.
Untouched ==
  pc \in {"hop", "hop check", "hop next", "named", "saved", "steer"} => AsFound /\ how = "none"

\* What is to be judged is a server that was asked for; unless it was forced it is
\* the one attached, and a session that is over was recorded as such.
ToJudge ==
  /\ pc = "fallback" => got \in asked.servers \cup {NoServer}
                        /\ (how # "forced" => got = NoServer)
  /\ pc = "judge" =>
       /\ got \in asked.servers
       /\ how # "forced" =>
            /\ tunnel.server = got
            /\ tunnel.state = "died" => primary \in {"cert-expired", "session-killed"}

\* `up` is entered from a hop without a name, or after a reconnect that failed.
InUp ==
  /\ pc \in UpPlaces => Inductive /\ (Named => resume = "up")
  /\ pc \in HopPlaces => resume # "up"
  /\ pc \in {"hop next", "hop try"} => ~Named

HopInductive ==
  /\ tried \in BOOLEAN /\ ReportIsLast /\ Untouched /\ ToJudge /\ InUp
  /\ HopLandsAsAsked /\ HopLeavesNothing

\* What `up` does, it does in places of its own.
LEMMA UpStaysInUp ==
  ASSUME Step
  PROVE  pc \in UpPlaces /\ pc' \in UpPlaces \cup {"done"}
<1> USE DEF UpPlaces, Succeed, Fail, FailRestored, Continue, NextServer
<1>1. CASE Entry \/ Preflight \/ FastOver \/ CannotPrepare \/ Ranked \/ Exhausted \/ Turn \/ Renew
           \/ SpawnFails
  BY <1>1 DEF Entry, Preflight, FastOver, CannotPrepare, Ranked, Exhausted, Turn, Renew, SpawnFails
<1>2. ASSUME NEW s \in Servers, FastTry(s) \/ FastByNmcli(s)
      PROVE  pc \in UpPlaces /\ pc' \in UpPlaces \cup {"done"}
  BY <1>2 DEF FastTry, FastByNmcli
<1>3. CASE TryDirect
  BY <1>3 DEF TryDirect, OneMoreQuiet
<1>4. ASSUME NEW s \in Servers, ClientBuilds(s)
      PROVE  pc \in UpPlaces /\ pc' \in UpPlaces \cup {"done"}
  BY <1>4 DEF ClientBuilds, RenewOnce, KeepOrRestore
<1>5. ASSUME NEW outcome, NEW says, ClientFails(outcome, says)
      PROVE  pc \in UpPlaces /\ pc' \in UpPlaces \cup {"done"}
  BY <1>5 DEF ClientFails, RenewOnce
<1>6. QED
  BY <1>1, <1>2, <1>3, <1>4, <1>5 DEF Step

\* `up` within a hop: its own invariant is all that is needed.
LEMMA UpWithinHop ==
  ASSUME HopInductive, Step, UNCHANGED hopOnly
  PROVE  HopInductive'
<1>1. /\ pc \in UpPlaces /\ pc' \in UpPlaces \cup {"done"}
      /\ UNCHANGED <<asked, resume, before, how, primary, got, strayed>>
  BY UpStaysInUp DEF hopOnly
<1>2. Inductive /\ (Named => resume = "up")
  BY <1>1 DEF HopInductive, InUp
<1>3. Inductive'
  BY <1>2, UpKeeps
<1>4. Untouched' /\ ToJudge' /\ InUp'
  BY <1>1, <1>2, <1>3 DEF Untouched, ToJudge, InUp, UpPlaces, HopPlaces, Named
<1>5. HopLandsAsAsked' /\ HopLeavesNothing'
  BY <1>1, <1>2, <1>3 DEF HopLandsAsAsked, HopLeavesNothing, Inductive, NothingLeftBehind, Named, Detached
<1>6. QED
  BY <1>3, <1>4, <1>5 DEF HopInductive, Inductive

\* The hop goes on, to a place where what it brings is what is wanted there.
LEMMA HopGoesOn ==
  ASSUME HopInductive, pc \in HopPlaces, pc' \in HopPlaces, UNCHANGED <<asked, tried, resume, report>>,
         Untouched', ToJudge', pc' \in {"hop next", "hop try"} => ~Named
  PROVE  HopInductive'
<1>1. report.ok = "none" /\ resume # "up" /\ pc' \notin UpPlaces \cup {"done"}
  BY DEF HopInductive, ReportIsLast, InUp, HopPlaces, UpPlaces
<1>2. InUp'
  BY <1>1 DEF InUp, Named
<1>3. ReportIsLast' /\ HopLandsAsAsked' /\ HopLeavesNothing'
  BY <1>1 DEF ReportIsLast, HopLandsAsAsked, HopLeavesNothing
<1>4. QED
  BY <1>1, <1>2, <1>3 DEF HopInductive

\* It fails, and what is left is nothing, what was found, or nobody's.
LEMMA HopFailsRight ==
  ASSUME HopInductive, pc \in HopPlaces, HopFails, UNCHANGED <<asked, tried>>,
         tunnel' = Detached \/ strayed' \/ (AsFound' /\ how' = "none")
  PROVE  HopInductive'
<1>1. report.ok = "none" /\ resume # "up" /\ tried \in BOOLEAN
  BY DEF HopInductive, ReportIsLast, InUp, HopPlaces
<1>2. CASE resume = "yes"
  <2>1. pc' = "entry" /\ resume' = "up" /\ report'.ok = "none" /\ tried' \in BOOLEAN
    BY <1>1, <1>2 DEF HopFails
  <2>2. Inductive'
    BY <2>1 DEF Inductive, NothingYet, ReportIsLast, HonestSuccess, NothingLeftBehind
  <2>3. InUp' /\ Untouched' /\ ToJudge'
    BY <2>1, <2>2 DEF InUp, HopPlaces, Untouched, ToJudge
  <2>4. QED
    BY <2>1, <2>3 DEF HopInductive, ReportIsLast, HopLandsAsAsked, HopLeavesNothing
<1>3. CASE resume # "yes"
  <2>1. pc' = "done" /\ resume' = resume /\ report'.ok = "no"
    BY <1>3 DEF HopFails, Fail
  <2>2. InUp' /\ Untouched' /\ ToJudge' /\ ReportIsLast'
    BY <2>1 DEF InUp, HopPlaces, UpPlaces, Untouched, ToJudge, ReportIsLast
  <2>3. HopLeavesNothing'
    BY <1>1, <2>1 DEF HopLeavesNothing, AsFound, Detached
  <2>4. QED
    BY <1>1, <2>1, <2>2, <2>3 DEF HopInductive, HopLandsAsAsked
<1>4. QED
  BY <1>2, <1>3

\* It succeeds, and a name it was given is served.
LEMMA HopSucceedsRight ==
  ASSUME HopInductive, pc \in HopPlaces, UNCHANGED <<asked, tried>>, NEW server, HopSucceeds(server),
         Named => /\ server \in asked.servers
                  /\ how' # "forced" =>
                       /\ tunnel'.server = server
                       /\ tunnel'.state = "died" => primary' = "cert-expired"
  PROVE  HopInductive'
<1>1. pc' = "done" /\ report'.ok = "yes" /\ report'.server = server /\ tried' \in BOOLEAN
  BY DEF HopSucceeds, Succeed, HopInductive
<1>2. InUp' /\ Untouched' /\ ToJudge' /\ ReportIsLast'
  BY <1>1 DEF InUp, HopPlaces, UpPlaces, Untouched, ToJudge, ReportIsLast
<1>3. HopLandsAsAsked' /\ HopLeavesNothing'
  BY <1>1 DEF HopLandsAsAsked, HopLeavesNothing, Named
<1>4. QED
  BY <1>1, <1>2, <1>3 DEF HopInductive

\* A session found to be over is recorded as such, or as ours.
LEMMA DiedIsTold ==
  ASSUME NEW byClient \in BOOLEAN
  PROVE  OutcomeFor("died", byClient) \in {"cert-expired", "session-killed"}
  BY DEF OutcomeFor

\* A saved profile that came up is a server to be judged.
LEMMA ActivatedIsJudged ==
  ASSUME HopInductive, pc \in HopPlaces, UNCHANGED <<asked, tried>>, NEW s \in asked.servers, Activates(s)
  PROVE  HopInductive'
<1>1. PICK verdict \in Verdicts :
        /\ tunnel' = [server |-> s, state |-> verdict] /\ primary' = OutcomeFor(verdict, FALSE)
        /\ got' = s /\ Hops("judge") /\ UNCHANGED resume
  BY DEF Activates
<1>2. pc' = "judge" /\ report' = report
  BY <1>1 DEF Hops
<1>3. tunnel'.server = got' /\ got' \in asked'.servers
      /\ (tunnel'.state = "died" => primary' \in {"cert-expired", "session-killed"})
  BY <1>1, DiedIsTold
<1>4. Untouched' /\ ToJudge'
  BY <1>2, <1>3 DEF Untouched, ToJudge
<1>5. QED
  BY <1>1, <1>2, <1>4, HopGoesOn DEF HopPlaces

\* What the hop itself does keeps it.
LEMMA HopKeeps ==
  ASSUME HopInductive, HopStep
  PROVE  HopInductive'
<1> USE DEF Detached, Hops, HopFailsRestored, world, plan, count, hopOnly, HopPlaces
<1>1. ASSUME HopStart
      PROVE  HopInductive'
  <2>1. /\ pc = "hop" /\ UNCHANGED <<report, tried, hopOnly>> /\ AsFound /\ how = "none"
        /\ report.ok = "none" /\ resume # "up"
    BY <1>1 DEF HopStart, HopInductive, Untouched, ReportIsLast, InUp
  <2>2. tunnel' \in {Detached, tunnel} /\ AsFound'
    BY <1>1, <2>1 DEF HopStart, Preserved, AsFound
  <2>3. CASE pc' = "entry" /\ ~Named
    <3>1. pc' = "entry" /\ report'.ok = "none" /\ tried' \in BOOLEAN
      BY <2>1, <2>3 DEF HopInductive
    <3>2. Inductive'
      BY <3>1 DEF Inductive, NothingYet, ReportIsLast, HonestSuccess, NothingLeftBehind
    <3>3. InUp' /\ Untouched' /\ ToJudge'
      BY <2>1, <2>3, <3>2 DEF InUp, Untouched, ToJudge, UpPlaces, Named
    <3>4. QED
      BY <3>1, <3>2, <3>3 DEF HopInductive, Inductive, HopLandsAsAsked, HopLeavesNothing
  <2>4. CASE pc' \in {"named", "hop check", "hop next"} /\ (pc' = "hop next" => ~Named)
    <3>1. Untouched' /\ ToJudge'
      BY <2>1, <2>2, <2>4 DEF Untouched, ToJudge
    <3>2. QED
      BY <2>1, <2>4, <3>1, HopGoesOn
  <2>5. QED
    BY <1>1, <2>3, <2>4 DEF HopStart
<1>2. ASSUME HopCheck
      PROVE  HopInductive'
  <2>1. /\ pc = "hop check" /\ UNCHANGED <<tunnel, tried, asked, before, how, strayed>>
        /\ AsFound /\ how = "none"
    BY <1>2 DEF HopCheck, HopInductive, Untouched
  <2>2. AsFound'
    BY <2>1 DEF AsFound
  <2>3. CASE HopFails
    BY <2>1, <2>2, <2>3, HopFailsRight
  <2>4. CASE pc' = "named" /\ UNCHANGED <<report, resume>>
    <3>1. Untouched' /\ ToJudge'
      BY <2>1, <2>2, <2>4 DEF Untouched, ToJudge
    <3>2. QED
      BY <2>1, <2>4, <3>1, HopGoesOn
  <2>5. QED
    BY <1>2, <2>3, <2>4 DEF HopCheck
<1>3. ASSUME HopCandidates
      PROVE  HopInductive'
  <2>1. /\ pc = "hop next" /\ UNCHANGED <<tunnel, tried, asked, before, how, strayed>>
        /\ AsFound /\ how = "none" /\ ~Named
    BY <1>3 DEF HopCandidates, HopInductive, Untouched, InUp
  <2>2. AsFound'
    BY <2>1 DEF AsFound
  <2>3. CASE HopFails
    BY <2>1, <2>2, <2>3, HopFailsRight
  <2>4. CASE pc' = "hop try" /\ UNCHANGED <<report, resume>>
    <3>1. Untouched' /\ ToJudge'
      BY <2>4 DEF Untouched, ToJudge
    <3>2. QED
      BY <2>1, <2>4, <3>1, HopGoesOn
  <2>5. QED
    BY <1>3, <2>3, <2>4 DEF HopCandidates
<1>4. ASSUME HopExhausted
      PROVE  HopInductive'
  BY <1>4, HopFailsRight DEF HopExhausted
<1>5. ASSUME HopDirect \/ HopByClient
      PROVE  HopInductive'
  <2>1. pc = "hop try" /\ UNCHANGED <<tried, asked>>
    BY <1>5 DEF HopDirect, HopByClient
  <2>2. ~Named
    BY <2>1 DEF HopInductive, InUp
  <2>3. \/ HopNextTry
        \/ HopSucceeds(Target)
        \/ HopFails /\ tunnel' = Detached
    BY <1>5 DEF HopDirect, HopByClient, HopTried
  <2>4. CASE HopNextTry
    <3>1. pc' = "hop try" /\ UNCHANGED <<report, resume>>
      BY <2>4 DEF HopNextTry
    <3>2. Untouched' /\ ToJudge'
      BY <3>1 DEF Untouched, ToJudge
    <3>3. QED
      BY <2>1, <2>2, <3>1, <3>2, HopGoesOn
  <2>5. QED
    BY <2>1, <2>2, <2>3, <2>4, HopSucceedsRight, HopFailsRight
<1>6. ASSUME HopNamed
      PROVE  HopInductive'
  <2>1. /\ pc = "named" /\ UNCHANGED <<tunnel, tried, asked, before, how>>
        /\ AsFound /\ how = "none"
    BY <1>6 DEF HopNamed, HopInductive, Untouched
  <2>2. CASE /\ tunnel.server \in asked.servers /\ tunnel.state = "carrying"
             /\ HopSucceeds(tunnel.server)
    BY <2>1, <2>2, HopSucceedsRight
  <2>3. CASE pc' \in {"saved", "steer"} /\ UNCHANGED <<report, resume>>
    <3>1. Untouched' /\ ToJudge'
      BY <2>1, <2>3 DEF Untouched, ToJudge, AsFound
    <3>2. QED
      BY <2>1, <2>3, <3>1, HopGoesOn
  <2>4. QED
    BY <1>6, <2>2, <2>3 DEF HopNamed
<1>7. ASSUME HopSaved
      PROVE  HopInductive'
  <2>1. /\ pc = "saved" /\ UNCHANGED <<tried, asked, before, how>>
        /\ AsFound /\ how = "none"
    BY <1>7 DEF HopSaved, HopInductive, Untouched
  <2>2. CASE pc' = "steer" /\ tunnel' \in {tunnel, Detached} /\ UNCHANGED <<report, resume>>
    <3>1. Untouched' /\ ToJudge'
      BY <2>1, <2>2 DEF Untouched, ToJudge, AsFound
    <3>2. QED
      BY <2>1, <2>2, <3>1, HopGoesOn
  <2>3. CASE \E s \in asked.servers :
               HopSucceeds(s) /\ tunnel' = [server |-> s, state |-> "carrying"]
    <3>1. PICK s \in asked.servers :
            HopSucceeds(s) /\ tunnel' = [server |-> s, state |-> "carrying"]
      BY <2>3
    <3>2. tunnel'.server = s /\ tunnel'.state = "carrying"
      BY <3>1
    <3>3. QED
      BY <2>1, <3>1, <3>2, HopSucceedsRight
  <2>4. QED
    BY <1>7, <2>2, <2>3 DEF HopSaved
<1>8. ASSUME HopSteer
      PROVE  HopInductive'
  <2>1. /\ pc = "steer" /\ UNCHANGED <<tried, asked, before, strayed>>
        /\ AsFound /\ how = "none"
    BY <1>8 DEF HopSteer, HopInductive, Untouched
  <2>2. CASE HopFails /\ UNCHANGED <<tunnel, how>>
    <3>1. AsFound' /\ how' = "none"
      BY <2>1, <2>2 DEF AsFound
    <3>2. QED
      BY <2>1, <2>2, <3>1, HopFailsRight
  <2>3. CASE pc' = "named connect" /\ UNCHANGED <<report, resume>>
    <3>1. Untouched' /\ ToJudge'
      BY <2>3 DEF Untouched, ToJudge
    <3>2. QED
      BY <2>1, <2>3, <3>1, HopGoesOn
  <2>4. QED
    BY <1>8, <2>2, <2>3 DEF HopSteer
<1>9. ASSUME HopLocal
      PROVE  HopInductive'
  <2>1. pc = "named connect" /\ UNCHANGED <<tried, asked>>
    BY <1>9 DEF HopLocal
  <2>2. \/ \E s \in asked.servers : Activates(s)
        \/ HopFails /\ tunnel' = Detached
    BY <1>9 DEF HopLocal
  <2>3. QED
    BY <2>1, <2>2, ActivatedIsJudged, HopFailsRight
<1>10. ASSUME HopConnect
       PROVE  HopInductive'
  <2>1. pc = "named connect" /\ UNCHANGED <<tried, asked, how>>
    BY <1>10 DEF HopConnect
  <2>2. CASE \E s \in asked.servers, verdict \in Verdicts :
               /\ got' = s /\ primary' = OutcomeFor(verdict, TRUE) /\ UNCHANGED <<report, resume>>
               /\ \/ how = "forced" /\ pc' = "fallback"
                  \/ tunnel' = [server |-> s, state |-> verdict] /\ pc' = "judge"
    <3>1. PICK s \in asked.servers, verdict \in Verdicts :
               /\ got' = s /\ primary' = OutcomeFor(verdict, TRUE) /\ UNCHANGED <<report, resume>>
               /\ \/ how = "forced" /\ pc' = "fallback"
                  \/ tunnel' = [server |-> s, state |-> verdict] /\ pc' = "judge"
      BY <2>2
    <3>2. CASE how = "forced" /\ pc' = "fallback"
      <4>1. Untouched' /\ ToJudge'
        BY <2>1, <3>1, <3>2 DEF Untouched, ToJudge
      <4>2. QED
        BY <2>1, <3>1, <3>2, <4>1, HopGoesOn
    <3>3. CASE tunnel' = [server |-> s, state |-> verdict] /\ pc' = "judge"
      <4>1. tunnel'.server = s /\ (tunnel'.state = "died" => primary' \in {"cert-expired", "session-killed"})
        BY <3>1, <3>3, DiedIsTold
      <4>2. Untouched' /\ ToJudge'
        BY <2>1, <3>1, <3>3, <4>1 DEF Untouched, ToJudge
      <4>3. QED
        BY <2>1, <3>1, <3>3, <4>2, HopGoesOn
    <3>4. QED
      BY <3>1, <3>2, <3>3
  <2>3. CASE got' = NoServer /\ pc' = "fallback" /\ UNCHANGED <<report, resume>>
    <3>1. Untouched' /\ ToJudge'
      BY <2>3 DEF Untouched, ToJudge
    <3>2. QED
      BY <2>1, <2>3, <3>1, HopGoesOn
  <2>4. CASE HopFails /\ tunnel' = Detached
    BY <2>1, <2>4, HopFailsRight
  <2>5. QED
    BY <1>10, <2>2, <2>3, <2>4 DEF HopConnect, Matching
<1>11. ASSUME HopFallback
       PROVE  HopInductive'
  <2>1. /\ pc = "fallback" /\ UNCHANGED <<tried, asked, how>>
        /\ got \in asked.servers \cup {NoServer} /\ (how # "forced" => got = NoServer)
    BY <1>11 DEF HopFallback, HopInductive, ToJudge
  <2>2. CASE \E s \in asked.servers : Activates(s)
    BY <2>1, <2>2, ActivatedIsJudged
  <2>3. CASE DoesNotActivate(Detached) /\ got = NoServer /\ HopFails
    <3>1. tunnel' = Detached \/ strayed'
      BY <2>3 DEF DoesNotActivate
    <3>2. QED
      BY <2>1, <2>3, <3>1, HopFailsRight
  <2>4. CASE got # NoServer /\ pc' = "judge" /\ UNCHANGED <<report, resume, got>>
    <3>1. Untouched' /\ ToJudge'
      BY <2>1, <2>4 DEF Untouched, ToJudge
    <3>2. QED
      BY <2>1, <2>4, <3>1, HopGoesOn
  <2>5. QED
    BY <1>11, <2>2, <2>3, <2>4 DEF HopFallback
<1>12. ASSUME HopJudge
       PROVE  HopInductive'
  <2>1. /\ pc = "judge" /\ UNCHANGED <<tried, asked, how, primary>>
        /\ got \in asked.servers
        /\ how # "forced" => /\ tunnel.server = got
                             /\ tunnel.state = "died" => primary \in {"cert-expired", "session-killed"}
    BY <1>12 DEF HopJudge, HopInductive, ToJudge
  <2>2. CASE HopFails /\ tunnel' = Detached
    BY <2>1, <2>2, HopFailsRight
  <2>3. CASE primary # "session-killed" /\ HopSucceeds(got) /\ UNCHANGED tunnel
    BY <2>1, <2>3, HopSucceedsRight
  <2>4. QED
    BY <1>12, <2>2, <2>3 DEF HopJudge
<1>13. QED
  BY <1>1, <1>2, <1>3, <1>4, <1>5, <1>6, <1>7, <1>8, <1>9, <1>10, <1>11, <1>12 DEF HopStep

\* The invariant, for every hop and every reconnect.
THEOREM HopInductiveAlways == HopSpec => []HopInductive
<1>1. HopInit => HopInductive
  <2> SUFFICES ASSUME HopInit
               PROVE  HopInductive
    OBVIOUS
  <2>1. pc = "hop" /\ tried = FALSE /\ report.ok = "none" /\ how = "none" /\ resume # "up"
    BY DEF HopInit, Running
  <2>2. AsFound
    BY DEF HopInit, AsFound, Detached
  <2>3. QED
    BY <2>1, <2>2 DEF HopInductive, ReportIsLast, Untouched, ToJudge, InUp, UpPlaces, HopLandsAsAsked,
       HopLeavesNothing
<1>2. HopInductive /\ [HopNext]_hopVars => HopInductive'
  <2> SUFFICES ASSUME HopInductive, [HopNext]_hopVars
               PROVE  HopInductive'
    OBVIOUS
  <2>1. CASE HopStep
    BY <2>1, HopKeeps
  <2>2. CASE Step /\ UNCHANGED hopOnly
    BY <2>2, UpWithinHop
  <2>3. CASE \/ (LinkChanges \/ CertLapses) /\ UNCHANGED hopOnly
             \/ UNCHANGED hopVars
    <3>1. UNCHANGED <<pc, tunnel, report, tried, asked, resume, before, how, primary, got, strayed>>
      BY <2>3 DEF LinkChanges, CertLapses, hopVars, hopOnly, vars, plan, count
    <3>2. QED
      <4> USE DEF Named
      <4>1. (pc \in UpPlaces => Inductive)'
        BY <3>1 DEF HopInductive, InUp, Inductive, NothingYet, ReportIsLast, HonestSuccess, NothingLeftBehind
      <4>2. InUp'
        BY <3>1, <4>1 DEF HopInductive, InUp
      <4>3. (Untouched /\ ToJudge)'
        BY <3>1 DEF HopInductive, Untouched, AsFound, ToJudge
      <4>4. (HopLandsAsAsked /\ HopLeavesNothing)'
        BY <3>1 DEF HopInductive, HopLandsAsAsked, HopLeavesNothing
      <4>5. QED
        BY <3>1, <4>2, <4>3, <4>4 DEF HopInductive, ReportIsLast
  <2>4. QED
    BY <2>1, <2>2, <2>3 DEF HopNext, HopOrUp
<1>3. QED
  BY <1>1, <1>2, PTL DEF HopSpec

\* HopLandsAsAsked, for every want and every set of servers: no fallback, and no
\* order of them, comes back with a server nobody asked for (connect.rs hop_to_pattern).
THEOREM HopLandsAsAskedAlways == HopSpec => []HopLandsAsAsked
<1>1. HopInductive => HopLandsAsAsked
  BY DEF HopInductive
<1>2. QED
  BY <1>1, HopInductiveAlways, PTL

\* HopLeavesNothing, for the same: a hop that fails has taken down what it built, and
\* so has the `up` that follows a reconnect.
THEOREM HopLeavesNothingAlways == HopSpec => []HopLeavesNothing
<1>1. HopInductive => HopLeavesNothing
  BY DEF HopInductive
<1>2. QED
  BY <1>1, HopInductiveAlways, PTL

===============================================================================
