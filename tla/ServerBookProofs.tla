--------------------------- MODULE ServerBookProofs ---------------------------
(***************************************************************************)
(* What holds of the book for every set of networks and servers, every     *)
(* retry window and every history of outcomes.                             *)
(*                                                                         *)
(* The properties speak of the file, but a command saves its copy over it, *)
(* so the invariant also says how far the two may differ: by expired       *)
(* blocks, and nothing else.                                               *)
(***************************************************************************)
EXTENDS ServerBook, TLAPS

\* The command's copy is the file, but for blocks that have expired in it.
CopyIsBook ==
  \A n \in Networks, s \in Servers :
    copy[n][s] \in {book[n][s], Expired(book[n][s], now)}

\* A record agrees with what happened: its blocks with the last verdict, its
\* count of failures with the deaths, its successes with having carried.
Truthful(stat, v, at, k) ==
  /\ stat.status = "blocked" => v = "dead" /\ stat.blocked_since = at /\ at # Never
  /\ stat.failures = k
  /\ v = "ok" => stat.successes > 0

BookIsTruthful ==
  \A n \in Networks, s \in Servers :
    Truthful(book[n][s], verdict[n][s], spoke[n][s], deaths[n][s])

Inductive == TypeOK /\ CopyIsBook /\ BookIsTruthful

-------------------------------------------------------------------------------
(* One record *)

\* Every method of the record yields a record: no count goes below zero.
LEMMA RecordsTyped ==
  ASSUME NEW stat \in ServerStat, NEW t \in Nat, NEW outcome, NEW label \in {"fast", "known"}
  PROVE  /\ Applied(stat, outcome, t) \in ServerStat
         /\ Probed(stat, label) \in ServerStat
         /\ Expired(stat, t) \in ServerStat
         /\ Unblocked(stat) \in ServerStat
<1> USE DEF ServerStat, ServerStatus
<1>0. stat.attempts + 1 \in Nat /\ stat.failures + 1 \in Nat /\ stat.successes + 1 \in Nat
  OBVIOUS
<1>1. Succeeded(stat) \in ServerStat
  <2>1. \A a, c \in Nat, st \in ServerStatus :
          [stat EXCEPT !.failures = 0, !.blocked_since = Never, !.attempts = a,
                       !.successes = c, !.status = st] \in ServerStat
    OBVIOUS
  <2>2. (IF stat.status = "blocked" THEN "known" ELSE stat.status) \in ServerStatus
    OBVIOUS
  <2>3. QED
    BY <1>0, <2>1, <2>2 DEF Succeeded
<1>2. Blamed(stat, t) \in ServerStat
  <2>1. \A a, k \in Nat :
          [stat EXCEPT !.attempts = a, !.failures = k, !.status = "blocked",
                       !.blocked_since = t] \in ServerStat
    OBVIOUS
  <2>2. QED
    BY <1>0, <2>1 DEF Blamed
<1>3. Attempted(stat) \in ServerStat
  BY DEF Attempted
<1>4. Applied(stat, outcome, t) \in ServerStat
  BY <1>1, <1>2, <1>3 DEF Applied
<1>5. Probed(stat, label) \in ServerStat
  BY DEF Probed
<1>6. Expired(stat, t) \in ServerStat
  BY DEF Expired
<1>7. Unblocked(stat) \in ServerStat
  BY DEF Unblocked
<1>8. QED
  BY <1>4, <1>5, <1>6, <1>7

\* An expiry, sooner or later, comes to the same record: expiring twice is
\* expiring once, and what has elapsed stays elapsed.
LEMMA ExpiryStable ==
  ASSUME NEW stat \in ServerStat, NEW t \in Nat
  PROVE  /\ Expired(Expired(stat, t), t) = Expired(stat, t)
         /\ Expired(stat, t) \in {stat, Expired(stat, t + 1)}
<1> DEFINE gone == [stat EXCEPT !.status = "known", !.blocked_since = Never]
<1>1. gone.status = "known"
  BY DEF ServerStat, ServerStatus
<1>2. Expired(gone, t) = gone
  BY <1>1 DEF Expired
<1>3. Expired(stat, t) \in {stat, gone}
  BY DEF Expired
<1>4. Expired(Expired(stat, t), t) = Expired(stat, t)
  <2>1. CASE Expired(stat, t) = stat
    BY <2>1
  <2>2. CASE Expired(stat, t) = gone
    BY <2>2, <1>2
  <2>3. QED
    BY <1>3, <2>1, <2>2
<1>5. IsBlocked(stat, t + 1) => IsBlocked(stat, t)
  <2>1. HoldFor(stat) \in Int
    BY BookAssumption DEF HoldFor, Escalation, MaxBlockEscalation, ServerStat
  <2>2. stat.blocked_since \in Int
    BY DEF ServerStat, Never
  <2>3. QED
    BY <2>1, <2>2 DEF IsBlocked
<1>6. Expired(stat, t) \in {stat, Expired(stat, t + 1)}
  BY <1>5 DEF Expired
<1>7. QED
  BY <1>4, <1>6

\* Truth survives everything that is not a verdict.
LEMMA TruthKept ==
  ASSUME NEW stat \in ServerStat, NEW v, NEW at, NEW k, Truthful(stat, v, at, k)
  PROVE  /\ \A t : Truthful(Expired(stat, t), v, at, k)
         /\ \A label \in {"fast", "known"} : Truthful(Probed(stat, label), v, at, k)
         /\ Truthful(Attempted(stat), v, at, k)
         /\ Truthful(Unblocked(stat), v, at, IF stat.status = "blocked" THEN 0 ELSE k)
  BY DEF Truthful, ServerStat, ServerStatus, Expired, Probed, Attempted, Unblocked

\* And a verdict makes it true again.
LEMMA VerdictTold ==
  ASSUME NEW stat \in ServerStat, NEW v, NEW at, NEW t \in Nat,
         Truthful(stat, v, at, stat.failures)
  PROVE  /\ Truthful(Succeeded(stat), "ok", t, 0)
         /\ Truthful(Blamed(stat, t), "dead", t, stat.failures + 1)
  BY DEF Truthful, ServerStat, ServerStatus, Succeeded, Blamed, Never

-------------------------------------------------------------------------------
(* The book *)

\* Saving a copy in which every record is well typed and tells the truth, as
\* the history now stands, restores the invariant.
LEMMA SaveKeeps ==
  ASSUME TypeOK, NEW learned \in [Networks -> [Servers -> ServerStat]], Save(learned),
         network' \in Networks, now' \in 0 .. MaxNow,
         verdict' \in [Networks -> [Servers -> {"none", "ok", "dead"}]],
         spoke' \in [Networks -> [Servers -> Nat \cup {Never}]],
         deaths' \in [Networks -> [Servers -> Nat]],
         \A n \in Networks, s \in Servers :
           Truthful(learned[n][s], verdict'[n][s], spoke'[n][s], deaths'[n][s])
  PROVE  Inductive'
  BY DEF Inductive, TypeOK, CopyIsBook, BookIsTruthful, Save

\* What a command does with its copy, and the file after it, keeps the invariant.
LEMMA InductiveKept == Inductive /\ [Next]_vars => Inductive'
<1> SUFFICES ASSUME Inductive, [Next]_vars
             PROVE  Inductive'
  OBVIOUS
<1>1. /\ now \in Nat /\ network \in Networks
      /\ \A n \in Networks, s \in Servers :
           /\ book[n][s] \in ServerStat /\ copy[n][s] \in ServerStat
           /\ Truthful(book[n][s], verdict[n][s], spoke[n][s], deaths[n][s])
  BY BookAssumption DEF Inductive, TypeOK, BookIsTruthful
<1>2. \A n \in Networks, s \in Servers :
        Truthful(copy[n][s], verdict[n][s], spoke[n][s], deaths[n][s])
  BY <1>1, TruthKept DEF Inductive, CopyIsBook
<1>3. ASSUME NEW s \in Servers, NEW outcome \in Innocent \cup Dead \cup {"ok"},
             Record(s, outcome)
      PROVE  Inductive'
  <2> DEFINE stat == copy[network][s]
             learned == Here(s, Applied(stat, outcome, now))
  <2>1. stat \in ServerStat /\ Applied(stat, outcome, now) \in ServerStat
    BY <1>1, RecordsTyped
  <2>2. learned \in [Networks -> [Servers -> ServerStat]]
    BY <1>1, <2>1 DEF Here, Inductive, TypeOK
  <2>3. \A m \in Networks, r \in Servers :
          learned[m][r] = IF m = network /\ r = s THEN Applied(stat, outcome, now)
                          ELSE copy[m][r]
    BY <1>1 DEF Here, Inductive, TypeOK
  <2>4. stat.failures = deaths[network][s]
    BY <1>1, <1>2 DEF Truthful
  <2>5. Truthful(Applied(stat, outcome, now),
                 verdict'[network][s], spoke'[network][s], deaths'[network][s])
    <3>1. /\ Truthful(Succeeded(stat), "ok", now, 0)
          /\ Truthful(Blamed(stat, now), "dead", now, deaths[network][s] + 1)
      BY <1>1, <1>2, <2>1, <2>4, VerdictTold
    <3>2. ASSUME outcome \notin Innocent
          PROVE  /\ verdict'[network][s] = (IF outcome = "ok" THEN "ok" ELSE "dead")
                 /\ spoke'[network][s] = now
                 /\ deaths'[network][s] = (IF outcome = "ok" THEN 0 ELSE deaths[network][s] + 1)
      BY <1>1, <1>3, <3>2 DEF Record, Witness, Inductive, TypeOK
    <3>3. CASE outcome = "ok"
      BY <3>1, <3>2, <3>3 DEF Innocent, Applied
    <3>4. CASE outcome \in Dead
      BY <3>1, <3>2, <3>4 DEF Innocent, Dead, Applied, BlamesTheServer
    <3>5. CASE outcome \in Innocent
      BY <1>1, <1>2, <1>3, <2>1, <3>5, TruthKept
      DEF Record, Witness, Innocent, Dead, Applied, BlamesTheServer, history
    <3>6. QED
      BY <3>3, <3>4, <3>5
  <2>6. \A m \in Networks, r \in Servers :
          ~(m = network /\ r = s) =>
            /\ verdict'[m][r] = verdict[m][r]
            /\ spoke'[m][r] = spoke[m][r]
            /\ deaths'[m][r] = deaths[m][r]
    BY <1>1, <1>3 DEF Record, Witness, history, Inductive, TypeOK
  <2>7. /\ verdict' \in [Networks -> [Servers -> {"none", "ok", "dead"}]]
        /\ spoke' \in [Networks -> [Servers -> Nat \cup {Never}]]
        /\ deaths' \in [Networks -> [Servers -> Nat]]
    <3>1. CASE outcome \in Innocent
      BY <1>3, <3>1 DEF Record, Witness, history, Inductive, TypeOK
    <3>2. CASE outcome \notin Innocent
      <4>1. verdict' = [verdict EXCEPT ![network][s] = IF outcome = "ok" THEN "ok" ELSE "dead"]
        BY <1>3, <3>2 DEF Record, Witness
      <4>2. spoke' = [spoke EXCEPT ![network][s] = now]
        BY <1>3, <3>2 DEF Record, Witness
      <4> DEFINE k == IF outcome = "ok" THEN 0 ELSE deaths[network][s] + 1
      <4>3. deaths' = [deaths EXCEPT ![network][s] = k]
        BY <1>3, <3>2 DEF Record, Witness
      <4>4. k \in Nat
        BY <1>1 DEF Inductive, TypeOK
      <4> HIDE DEF k
      <4>5. QED
        BY <1>1, <4>1, <4>2, <4>3, <4>4 DEF Inductive, TypeOK
    <3>3. QED
      BY <3>1, <3>2
  <2>8. \A m \in Networks, r \in Servers :
          Truthful(learned[m][r], verdict'[m][r], spoke'[m][r], deaths'[m][r])
    BY <1>2, <2>3, <2>5, <2>6
  <2>9. Save(learned) /\ network' = network /\ now' = now
    BY <1>3 DEF Record
  <2> HIDE DEF learned
  <2>10. QED
    BY <2>2, <2>7, <2>8, <2>9, SaveKeeps DEF Inductive, TypeOK
<1>4. ASSUME NEW s \in Servers, NEW log, RecordFailure(s, log)
      PROVE  Inductive'
  <2>1. ClassifyFailure(log) \in Innocent \cup Dead \cup {"ok"}
    BY DEF ClassifyFailure, Innocent, Dead
  <2>2. QED
    BY <1>3, <1>4, <2>1 DEF RecordFailure
<1>5. ASSUME RankFails
      PROVE  Inductive'
  <2>1. \A n \in Networks, s \in Servers :
          copy'[n][s] = IF n = network THEN Expired(copy[n][s], now) ELSE copy[n][s]
    BY <1>1, <1>5 DEF RankFails, Inductive, TypeOK
  <2>2. copy' \in [Networks -> [Servers -> ServerStat]]
    BY <1>1, <1>5, RecordsTyped DEF RankFails, Inductive, TypeOK
  <2>3. \A n \in Networks, s \in Servers :
          copy'[n][s] \in {book[n][s], Expired(book[n][s], now)}
    BY <1>1, <2>1, ExpiryStable DEF Inductive, CopyIsBook
  <2>4. QED
    BY <1>5, <2>2, <2>3 DEF RankFails, history, Inductive, TypeOK, CopyIsBook, BookIsTruthful
<1>6. ASSUME NEW probe \in [Servers -> {"none", "fast", "known"}], RankSucceeds(probe)
      PROVE  Inductive'
  <2> DEFINE learned ==
        [book EXCEPT ![network] =
           [s \in Servers |-> IF probe[s] = "none" THEN @[s] ELSE Probed(@[s], probe[s])]]
  <2>1. \A n \in Networks, s \in Servers :
          learned[n][s] = IF n = network /\ probe[s] # "none"
                          THEN Probed(book[n][s], probe[s]) ELSE book[n][s]
    BY <1>1 DEF Inductive, TypeOK
  <2>2. \A s \in Servers : probe[s] # "none" => probe[s] \in {"fast", "known"}
    OBVIOUS
  <2>3. learned \in [Networks -> [Servers -> ServerStat]]
    BY <1>1, <2>2, RecordsTyped DEF Inductive, TypeOK
  <2>4. \A n \in Networks, s \in Servers :
          Truthful(learned[n][s], verdict[n][s], spoke[n][s], deaths[n][s])
    BY <1>1, <2>1, <2>2, TruthKept
  <2>5. Save(learned) /\ UNCHANGED <<network, now, verdict, spoke, deaths>>
    BY <1>6 DEF RankSucceeds, history
  <2> HIDE DEF learned
  <2>6. QED
    BY <2>3, <2>4, <2>5, SaveKeeps DEF Inductive, TypeOK
<1>7. ASSUME NEW s \in Servers, Forget(s)
      PROVE  Inductive'
  <2> DEFINE learned == Here(s, Unblocked(book[network][s]))
  <2>1. \A n \in Networks, r \in Servers :
          learned[n][r] = IF n = network /\ r = s THEN Unblocked(book[n][r]) ELSE book[n][r]
    BY <1>1, <1>7 DEF Forget, Here, Inductive, TypeOK
  <2>2. learned \in [Networks -> [Servers -> ServerStat]]
    BY <1>1, RecordsTyped DEF Here, Inductive, TypeOK
  <2>3. /\ deaths' \in [Networks -> [Servers -> Nat]]
        /\ \A n \in Networks, r \in Servers :
             deaths'[n][r] = IF n = network /\ r = s THEN 0 ELSE deaths[n][r]
    BY <1>1, <1>7 DEF Forget, Inductive, TypeOK
  <2>4. \A n \in Networks, r \in Servers :
          Truthful(learned[n][r], verdict[n][r], spoke[n][r], deaths'[n][r])
    BY <1>1, <1>7, <2>1, <2>3, TruthKept DEF Forget
  <2>5. Save(learned) /\ UNCHANGED <<network, now, verdict, spoke>>
    BY <1>7 DEF Forget
  <2> HIDE DEF learned
  <2>6. QED
    BY <2>2, <2>3, <2>4, <2>5, SaveKeeps DEF Inductive, TypeOK
<1>8. ASSUME ForgetAll
      PROVE  Inductive'
  <2> DEFINE learned == [book EXCEPT ![network] = [s \in Servers |-> Unblocked(@[s])]]
  <2>1. \A n \in Networks, s \in Servers :
          learned[n][s] = IF n = network THEN Unblocked(book[n][s]) ELSE book[n][s]
    BY <1>1 DEF Inductive, TypeOK
  <2>2. learned \in [Networks -> [Servers -> ServerStat]]
    BY <1>1, RecordsTyped DEF Inductive, TypeOK
  <2>3. /\ deaths' \in [Networks -> [Servers -> Nat]]
        /\ \A n \in Networks, s \in Servers :
             deaths'[n][s] = IF n = network /\ book[n][s].status = "blocked"
                             THEN 0 ELSE deaths[n][s]
    BY <1>1, <1>8 DEF ForgetAll, Inductive, TypeOK
  <2>4. \A n \in Networks, s \in Servers :
          Truthful(learned[n][s], verdict[n][s], spoke[n][s], deaths'[n][s])
    BY <1>1, <2>1, <2>3, TruthKept
  <2>5. Save(learned) /\ UNCHANGED <<network, now, verdict, spoke>>
    BY <1>8 DEF ForgetAll
  <2> HIDE DEF learned
  <2>6. QED
    BY <2>2, <2>3, <2>4, <2>5, SaveKeeps DEF Inductive, TypeOK
<1>9. ASSUME NEW n \in Networks, Load(n) \/ SyncNetwork(n)
      PROVE  Inductive'
  BY <1>9 DEF Load, SyncNetwork, history, Inductive, TypeOK, CopyIsBook, BookIsTruthful
<1>10. ASSUME Tick
       PROVE  Inductive'
  <2>1. TypeOK' /\ BookIsTruthful'
    BY <1>10, BookAssumption DEF Tick, history, Inductive, TypeOK, BookIsTruthful
  <2>2. CopyIsBook'
    BY <1>1, <1>10, ExpiryStable DEF Tick, Inductive, CopyIsBook
  <2>3. QED
    BY <2>1, <2>2 DEF Inductive
<1>11. CASE UNCHANGED vars
  BY <1>11 DEF vars, Inductive, TypeOK, CopyIsBook, BookIsTruthful
<1>12. QED
  <2>1. Observed \subseteq Innocent \cup Dead \cup {"ok"}
    BY DEF Observed, Innocent, Dead
  <2>2. QED
    BY <2>1, <1>3, <1>4, <1>5, <1>6, <1>7, <1>8, <1>9, <1>10, <1>11 DEF Next

\* The invariant, for every run.
THEOREM InductiveAlways == Spec => []Inductive
<1>1. Init => Inductive
  BY BookAssumption DEF Init, Inductive, TypeOK, CopyIsBook, BookIsTruthful, Truthful,
     Unknown, ServerStat, ServerStatus
<1>2. QED
  BY <1>1, InductiveKept, PTL DEF Spec

\* The book stays well typed through every command: no count of failures goes
\* below zero and no status outside the three appears.
THEOREM TypeCorrect == Spec => []TypeOK
<1>1. Inductive => TypeOK
  BY DEF Inductive
<1>2. QED
  BY <1>1, InductiveAlways, PTL

\* Escalation stays between one window and MaxBlockEscalation of them.
LEMMA HoldBounded ==
  ASSUME NEW stat \in ServerStat
  PROVE  HoldFor(stat) \in Nat /\ HoldFor(stat) <= MaxBlockEscalation * RetryAfter
<1>1. Escalation(stat.failures) \in 1 .. MaxBlockEscalation
  BY DEF Escalation, MaxBlockEscalation, ServerStat
<1>2. \A e \in 1 .. 4 : RetryAfter * e \in Nat /\ RetryAfter * e <= 4 * RetryAfter
  <2>1. \A e \in 1 .. 4 : e = 1 \/ e = 2 \/ e = 3 \/ e = 4
    OBVIOUS
  <2>2. QED
    BY <2>1, BookAssumption
<1>3. QED
  BY <1>1, <1>2 DEF HoldFor, MaxBlockEscalation

\* No server is written off but by its own last verdict on that network, nor held
\* longer than four windows after it.
THEOREM BlockedForCauseAlways == Spec => []BlockedForCause
<1>1. Inductive => BlockedForCause
  <2> SUFFICES ASSUME Inductive, NEW n \in Networks, NEW s \in Servers,
                      book[n][s].status = "blocked"
               PROVE  /\ verdict[n][s] = "dead" /\ book[n][s].blocked_since = spoke[n][s]
                      /\ IsBlocked(book[n][s], now) =>
                           now - spoke[n][s] < MaxBlockEscalation * RetryAfter
    BY DEF BlockedForCause, BlockedNames, IsBlocked
  <2>1. /\ verdict[n][s] = "dead" /\ book[n][s].blocked_since = spoke[n][s]
        /\ spoke[n][s] # Never
    BY DEF Inductive, BookIsTruthful, Truthful
  <2>2. book[n][s] \in ServerStat /\ now \in Nat /\ spoke[n][s] \in Nat
    BY <2>1, BookAssumption DEF Inductive, TypeOK
  <2>3. IsBlocked(book[n][s], now) => now - spoke[n][s] < HoldFor(book[n][s])
    BY <2>1 DEF IsBlocked
  <2>4. HoldFor(book[n][s]) \in Nat /\ HoldFor(book[n][s]) <= MaxBlockEscalation * RetryAfter
    BY <2>2, HoldBounded
  <2>5. MaxBlockEscalation * RetryAfter \in Nat
    BY BookAssumption DEF MaxBlockEscalation
  <2>6. QED
    BY <2>1, <2>2, <2>3, <2>4, <2>5
<1>2. QED
  BY <1>1, InductiveAlways, PTL

\* The k-th death since a server last carried is held for min(k, 4) windows.
THEOREM HoldMatchesRecordAlways == Spec => []HoldMatchesRecord
<1>1. Inductive => HoldMatchesRecord
  BY DEF Inductive, BookIsTruthful, Truthful, HoldMatchesRecord, HoldFor
<1>2. QED
  BY <1>1, InductiveAlways, PTL

\* A server that carried last stays on the list of those that work here.
THEOREM ProvenStaysWorkingAlways == Spec => []ProvenStaysWorking
<1>1. Inductive => ProvenStaysWorking
  <2> SUFFICES ASSUME Inductive, NEW n \in Networks, NEW s \in Servers, verdict[n][s] = "ok"
               PROVE  book[n][s].status # "blocked" /\ book[n][s].successes > 0
    BY DEF ProvenStaysWorking, WorkingList
  <2>1. QED
    BY DEF Inductive, BookIsTruthful, Truthful
<1>2. QED
  BY <1>1, InductiveAlways, PTL

\* A step changes no other network's records, but for blocks that have elapsed.
THEOREM OtherNetworksUntouchedAlways == Spec => OtherNetworksUntouched
<1> DEFINE Apart == \A n \in Networks \ {network}, s \in Servers :
                      book'[n][s] \in {book[n][s], Expired(book[n][s], now)}
<1>1. Inductive /\ [Next]_vars => [Apart]_vars
  <2> SUFFICES ASSUME Inductive, [Next]_vars,
                      NEW n \in Networks \ {network}, NEW s \in Servers
               PROVE  book'[n][s] \in {book[n][s], Expired(book[n][s], now)}
    OBVIOUS
  <2>1. book'[n][s] \in {book[n][s], copy[n][s]}
    BY DEF Inductive, TypeOK, Next, vars, history, Record, RecordFailure, Here, Save,
       RankFails, RankSucceeds, Forget, ForgetAll, Load, SyncNetwork, Tick
  <2>2. QED
    BY <2>1 DEF Inductive, CopyIsBook
<1>2. QED
  BY <1>1, InductiveAlways, PTL DEF Spec, OtherNetworksUntouched

===============================================================================
