------------------------------- MODULE Measuring -------------------------------
(***************************************************************************)
(* Measuring servers, and the file the measurements share with connects.   *)
(*                                                                         *)
(* `pvpn best` reads state.json and Proton's server list, drops what this  *)
(* account may not use and what is blocked here, cuts the rest down to a   *)
(* shortlist, times a handshake with each, times the leaders again, ranks, *)
(* and records what it measured.  That takes seconds, and it is not done   *)
(* under the connect lock: connects record their verdicts in the same file *)
(* meanwhile.  The file is saved by writing state.json.tmp and renaming it *)
(* over state.json; the temporary file has one name, whoever writes it.    *)
(*                                                                         *)
(* Latency is in milliseconds, distance in kilometres; the weights and the *)
(* saturation points are the source's.  Ratings are counted in tenths, as  *)
(* the source rounds them, and each term of a rating in thousandths.  What *)
(* a connect does between its targets and its verdict is UpConnect; the    *)
(* network is one, and no hold elapses (ServerBook has both).              *)
(***************************************************************************)
EXTENDS Integers, Sequences, FiniteSets

CONSTANTS
  Servers,      \* the names in Proton's server list
  None, Torn,   \* Option::None; a file that is empty or does not parse
  List,         \* the list in Proton's order, a sequence of names
  Logical,      \* [Servers -> [enabled, tier, slow, country, nodes, km, load, score]]
  MaxTier,      \* what the account may use
  Asked,        \* what best may be asked: [country, free, quick]
  Handshakes,   \* the times a handshake may take
  Shortlist, Refine, Limit,  \* probe_shortlist, probe_refine, the list's length
  Books,        \* what state.json may hold at first
  Connects,     \* the connects that run meanwhile
  Best          \* the process that measures

Procs == Connects \cup {Best}

VARIABLES
  file, tmp,   \* state.json and state.json.tmp: a book, Torn, or None if absent
  fd,          \* [Procs -> {None, "tmp", "file"}]: where an open save writes
  pc, mine,    \* of each process: where it is, its copy of the book
  holder,      \* who has the connect lock
  asked,       \* best: what it was asked for
  order,       \* best: the candidates, in their order so far
  latency,     \* best: [Servers -> time or None]
  answers,     \* best: every time each server answered in (history)
  seen,        \* the book the file held when best took it in again (history)
  clash        \* two saves have been open at once (history)

vars == <<file, tmp, fd, pc, mine, holder, asked, order, latency, answers, seen, clash>>

(***************************************************************************)
(* The book: what a network has taught us, as far as ranking asks.         *)
(***************************************************************************)
Stat == [attempts : Nat, carried : Nat, blocked : BOOLEAN, ema : Nat \cup {None}]
Book == [stats : [Servers -> Stat], ranked : Seq(Servers)]
Untried == [attempts |-> 0, carried |-> 0, blocked |-> FALSE, ema |-> None]
Empty == [stats |-> [s \in Servers |-> Untried], ranked |-> <<>>]

ASSUME MeasuringAssumption ==
  /\ List \in Seq(Servers)
  /\ \A s \in Servers : /\ Logical[s].km \in Nat \cup {None}
                        /\ Logical[s].load \in Nat /\ Logical[s].score \in Int
  /\ Handshakes \subseteq Nat /\ IsFiniteSet(Handshakes)
  /\ Shortlist \in Nat /\ Refine \in Nat \ {0} /\ Limit \in Nat     \* refine.max(1)
  /\ Books \subseteq Book \cup {None, Torn}
  /\ None # Torn /\ None \notin Nat \cup Book \cup Procs /\ Torn \notin Book
  /\ Best \notin Connects

\* State::load: no file, or one that does not parse, is an empty book.
Read(content) == IF content \in {None, Torn} THEN Empty ELSE content

Least(S) == CHOOSE n \in S : \A o \in S : n <= o
Most(S) == CHOOSE n \in S : \A o \in S : n >= o

\* record_probe's moving average, with EMA_ALPHA = 0.3.
Probed(stat, ms) ==
  [stat EXCEPT !.ema = IF @ = None THEN ms ELSE (3 * ms + 7 * @) \div 10]

\* The verdict on a try: an attempt, and a server that carried or is blocked.
Tried(stat, carried) ==
  [stat EXCEPT !.attempts = @ + 1, !.blocked = ~carried,
               !.carried = IF carried THEN @ + 1 ELSE @]

\* fast_list: within 1.35 of the best average seen here.
FastList(b) ==
  LET timed == {s \in Servers : ~b.stats[s].blocked /\ b.stats[s].ema # None}
  IN {s \in timed : \A o \in timed : 100 * b.stats[s].ema <= 135 * b.stats[o].ema}

(***************************************************************************)
(* Sequences and orders.  An order is a set of pairs, <<a, b>> where a comes *)
(* before b, of which neither need come first of two.                      *)
(***************************************************************************)
Names(seq) == {seq[i] : i \in DOMAIN seq}

\* A finite set of places from the first of them to the last, as upto has them.
InOrder(places, upto) ==
  [k \in 1 .. Cardinality(places) |->
     CHOOSE i \in places : Cardinality({j \in places : <<j, i>> \in upto}) = k]
Upwards(places) == {p \in places \X places : p[1] <= p[2]}
Along(seq, places) == [k \in DOMAIN places |-> seq[places[k]]]

\* Iterator::filter; Vec::truncate, where no limit is given none is kept to.
Kept(seq, these) ==
  LET places == {i \in DOMAIN seq : seq[i] \in these}
  IN Along(seq, InOrder(places, Upwards(places)))
Truncated(seq, n) == IF n = 0 \/ Len(seq) <= n THEN seq ELSE SubSeq(seq, 1, n)

\* sort_by, which is stable; an order by some key; Ordering::then.
Sorted(seq, before) ==
  LET all == DOMAIN seq
      upto == {p \in all \X all :
                 \/ <<seq[p[1]], seq[p[2]]>> \in before
                 \/ p[1] <= p[2] /\ <<seq[p[2]], seq[p[1]]>> \notin before}
  IN Along(seq, InOrder(all, upto))
By(these, key) == {p \in these \X these : key[p[1]] < key[p[2]]}
Then(first, second) == first \cup {p \in second : <<p[2], p[1]>> \notin first}

RankedTargets(b) == {b.ranked[i] : i \in {j \in DOMAIN b.ranked : ~b.stats[b.ranked[j]].blocked}}
WorkingList(b) == {s \in Servers : ~b.stats[s].blocked /\ b.stats[s].carried > 0}

(***************************************************************************)
(* The candidates.                                                         *)
(***************************************************************************)
\* A physical node that can be dialled: enabled, its services up, an address.
FirstEntry(s) == \E n \in Logical[s].nodes : n.enabled /\ ~n.down /\ n.addressed

Eligible(s, ask) ==
  LET l == Logical[s] IN
  /\ l.enabled
  /\ l.tier <= (IF ask.free THEN 0 ELSE MaxTier)
  /\ ~l.slow                                       \* Secure Core, Tor
  /\ ask.country \in {None, l.country}
  /\ FirstEntry(s)

Candidates(b, ask) == Kept(List, {s \in Servers : Eligible(s, ask) /\ ~b.stats[s].blocked})

\* An unknown distance comes last.
Nearer(these) ==
  {p \in these \X these : /\ Logical[p[1]].km # None
                          /\ Logical[p[2]].km = None \/ Logical[p[1]].km < Logical[p[2]].km}
ByLoad(these) == By(these, [s \in these |-> Logical[s].load])
ByScore(these) == By(these, [s \in these |-> Logical[s].score])

\* shortlist: the nearest and the least loaded by turns, each once, as many as
\* there is room for; by Proton's score where no distance is known.
Cut(seq) ==
  IF Shortlist = 0 \/ Len(seq) <= Shortlist THEN seq
  ELSE LET all == Names(seq)
           near == Sorted(seq, IF \E s \in all : Logical[s].km # None THEN Nearer(all)
                                                                      ELSE ByScore(all))
           idle == Sorted(seq, ByLoad(all))
           turns == [i \in 1 .. 2 * Len(seq) |-> IF i % 2 = 1 THEN near[(i + 1) \div 2]
                                                             ELSE idle[i \div 2]]
           first == {i \in DOMAIN turns : \A j \in 1 .. i - 1 : turns[j] # turns[i]}
       IN Truncated(Along(turns, InOrder(first, Upwards(first))), Shortlist)

\* fast_list has the fastest on average first.
ByAverage(b, these) == By(these, [s \in these |-> b.stats[s].ema])

\* extra_keep: what has lately been fast is timed even if the cut dropped it.
Pool(b, ask) ==
  LET all == Candidates(b, ask)
      short == Cut(all)
      lately == (FastList(b) \cap Names(all)) \ Names(short)
  IN short \o Sorted(Kept(all, lately), ByAverage(b, lately))

(***************************************************************************)
(* The order.                                                              *)
(***************************************************************************)
\* CarryTier: proven, unknown, failing.
CarryTier(b, s) ==
  LET stat == b.stats[s] IN
  IF stat.carried > 0 THEN 0 ELSE IF stat.attempts >= 2 THEN 2 ELSE 1

Reachable(seq, lat) == {s \in Names(seq) : lat[s] # None}

\* Do the times describe the path, or a middlebox that answers for everyone?
Informative(seq, lat) ==
  LET up == Reachable(seq, lat)
      far == {Logical[s].km : s \in up} \ {None}
  IN /\ up # {}
     /\ \/ Most({lat[s] : s \in up}) >= 20          \* IMPLAUSIBLE_LATENCY_MS
        \/ far = {}
        \/ Most(far) < 1000                         \* NEARBY_KM

Clamp(n) == IF n < 0 THEN 0 ELSE IF n > 1000 THEN 1000 ELSE n
\* Against the fastest of the pool: twice its time is as bad as it gets.
LatencyPenalty(ms, best) == IF best <= 0 THEN 0 ELSE Clamp((1000 * ms) \div best - 1000)
LoadPenalty(load) == Clamp((1000 * load) \div 95)
DistancePenalty(km) == IF km = None THEN 0 ELSE Clamp(km \div 15)

Rating(seq, lat, s) ==
  LET best == Least({lat[o] : o \in Reachable(seq, lat)})
      w == IF Informative(seq, lat) THEN [latency |-> 60, distance |-> 15]
                                    ELSE [latency |-> 0, distance |-> 75]
      cost == w.latency * LatencyPenalty(lat[s], best) + 25 * LoadPenalty(Logical[s].load)
                + w.distance * DistancePenalty(Logical[s].km)
  IN (100000 - cost + 50) \div 100

ByTier(b, these) == By(these, [s \in these |-> CarryTier(b, s)])
ByRating(seq, lat, these) == By(these, [s \in these |-> -Rating(seq, lat, s)])

\* rank: who answered first; then by tier, rating, and time or distance.
Rank(b, seq, lat) ==
  LET up == Reachable(seq, lat)
      down == Servers \ up
      better == Then(ByTier(b, up), Then(ByRating(seq, lat, up),
                  IF Informative(seq, lat) THEN By(up, lat) ELSE Nearer(up)))
  IN Sorted(Kept(seq, up), better) \o Sorted(Kept(seq, down), Nearer(down))

\* rank_without_probing: tier, distance, load, Proton's score.
Predicted(b, seq) ==
  LET all == Names(seq)
  IN Sorted(seq, Then(ByTier(b, all), Then(Nearer(all), Then(ByLoad(all), ByScore(all)))))

ConnectTargets(seq, lat) ==
  LET up == Reachable(seq, lat) IN IF up = {} THEN seq ELSE Kept(seq, up)

(***************************************************************************)
(* pvpn best.                                                              *)
(***************************************************************************)
Init ==
  /\ file \in Books
  /\ tmp = None /\ fd = [p \in Procs |-> None] /\ holder = None
  /\ asked \in Asked
  /\ pc = [p \in Procs |-> "starts"] /\ mine = [p \in Procs |-> Empty]
  /\ order = <<>> /\ latency = [s \in Servers |-> None] /\ answers = [s \in Servers |-> {}]
  /\ seen = None /\ clash = FALSE

Goes(p, to) == pc' = [pc EXCEPT ![p] = to]

\* Session::load, then the candidates; with none, best says so and leaves.
Listed ==
  LET b == Read(file)  all == Candidates(b, asked) IN
  /\ pc[Best] = "starts"
  /\ mine' = [mine EXCEPT ![Best] = b]
  /\ IF all = <<>> THEN Goes(Best, "done") /\ UNCHANGED order
     ELSE IF asked.quick THEN Goes(Best, "ranked") /\ order' = Predicted(b, all)
     ELSE Goes(Best, "sweeps") /\ order' = Pool(b, asked)
  /\ UNCHANGED <<file, tmp, fd, holder, asked, latency, answers, seen, clash>>

\* probe_candidate and measure: of two answers the faster, of one that one.
\* Mutant: the last answer stands.
LaterAnswer(a, b) == b
Merged(a, b) == IF a = None THEN b ELSE IF b = None THEN a ELSE Least({a, b})

\* probe_all: one round over `these`; each answers in some time or not at all,
\* and they are ranked again by it.
Timed(these, to) ==
  \E got \in [these -> Handshakes \cup {None}] :
    /\ latency' = [s \in Servers |->
                     IF s \in these THEN Merged(latency[s], got[s]) ELSE latency[s]]
    /\ answers' = [s \in Servers |->
                     IF s \in these THEN answers[s] \cup ({got[s]} \ {None}) ELSE answers[s]]
    /\ order' = Rank(mine[Best], order, latency')
    /\ Goes(Best, to)
    /\ UNCHANGED <<file, tmp, fd, mine, holder, asked, seen, clash>>

\* The sweep, over everything in the pool.
Sweeps ==
  /\ pc[Best] = "sweeps"
  /\ Timed(Names(order), "refines")

\* The leaders again, without the contention.
Finalists == {order[i] : i \in {j \in DOMAIN order : j <= Refine /\ latency[order[j]] # None}}

Refines ==
  /\ pc[Best] = "refines"
  /\ Finalists # {}
  /\ Timed(Finalists, "ranked")

\* Nothing answered: what was predicted of everything that was asked for.
NothingAnswers ==
  /\ pc[Best] = "refines"
  /\ Finalists = {}
  /\ order' = Predicted(mine[Best], Candidates(mine[Best], asked))
  /\ Goes(Best, "ranked")
  /\ UNCHANGED <<file, tmp, fd, mine, holder, asked, latency, answers, seen, clash>>

\* Session::reload_state: what connects have recorded in the meantime.
\* Mutant: the copy read at the start.
NotReloaded(own) == own
Reloaded(own) == Read(file)

\* compute_full_rank: record what was measured, if it means anything.
Records ==
  LET list == Truncated(order, Limit)
      b == Reloaded(mine[Best])
      stats == [s \in Servers |-> IF Informative(order, latency) /\ s \in Reachable(list, latency)
                                  THEN Probed(b.stats[s], latency[s]) ELSE b.stats[s]]
  IN
  /\ pc[Best] = "ranked"
  /\ mine' = [mine EXCEPT ![Best] = [stats |-> stats, ranked |-> ConnectTargets(list, latency)]]
  /\ seen' = Read(file)
  /\ Goes(Best, "saves")
  /\ UNCHANGED <<file, tmp, fd, holder, asked, order, latency, answers, clash>>

(***************************************************************************)
(* A connect: reads the file as it starts, queues for the lock, tries, and *)
(* records the verdict in its copy.                                        *)
(***************************************************************************)
Starts(c) ==
  /\ pc[c] = "starts"
  /\ mine' = [mine EXCEPT ![c] = Read(file)]
  /\ Goes(c, "queues")
  /\ UNCHANGED <<file, tmp, fd, holder, asked, order, latency, answers, seen, clash>>

GetsLock(c) ==
  /\ pc[c] = "queues" /\ holder = None
  /\ holder' = c
  /\ Goes(c, "tries")
  /\ UNCHANGED <<file, tmp, fd, mine, asked, order, latency, answers, seen, clash>>

Tries(c) ==
  LET b == mine[c]
      known == RankedTargets(b) \cup WorkingList(b)
  IN
  /\ pc[c] = "tries"
  /\ \E s \in IF known = {} THEN Servers ELSE known, carried \in BOOLEAN :
       mine' = [mine EXCEPT ![c].stats[s] = Tried(@, carried)]
  /\ Goes(c, "saves")
  /\ UNCHANGED <<file, tmp, fd, holder, asked, order, latency, answers, seen, clash>>

(***************************************************************************)
(* State::save: open the temporary file, write it, rename it.              *)
(***************************************************************************)
Opens(p) ==
  /\ pc[p] = "saves"
  /\ tmp' = Torn                            \* created, or truncated
  /\ fd' = [fd EXCEPT ![p] = "tmp"]
  /\ clash' = (clash \/ tmp # None)
  /\ Goes(p, "writes")
  /\ UNCHANGED <<file, mine, holder, asked, order, latency, answers, seen>>

\* What another has already written there, and was longer, stands out behind.
Writes(p) ==
  /\ pc[p] = "writes"
  /\ LET over == IF fd[p] = "tmp" THEN tmp ELSE file IN
     \E content \in {mine[p]} \cup (IF over = Torn THEN {} ELSE {Torn}) :
       IF fd[p] = "tmp" THEN tmp' = content /\ UNCHANGED file
                        ELSE file' = content /\ UNCHANGED tmp
  /\ fd' = [fd EXCEPT ![p] = None]
  /\ Goes(p, "renames")
  /\ UNCHANGED <<mine, holder, asked, order, latency, answers, seen, clash>>

\* Whoever has the temporary file open has state.json open from here on.
\* Where another has renamed it already, the save fails with a warning.
Renames(p) ==
  /\ pc[p] = "renames"
  /\ IF tmp = None THEN UNCHANGED <<file, tmp, fd>>
     ELSE /\ file' = tmp
          /\ tmp' = None
          /\ fd' = [q \in Procs |-> IF fd[q] = "tmp" THEN "file" ELSE fd[q]]
  /\ Goes(p, "done")
  /\ holder' = IF holder = p THEN None ELSE holder
  /\ UNCHANGED <<mine, asked, order, latency, answers, seen, clash>>

AllDone == (\A p \in Procs : pc[p] = "done") /\ UNCHANGED vars

Next ==
  \/ Listed \/ Sweeps \/ Refines \/ NothingAnswers \/ Records
  \/ \E c \in Connects : Starts(c) \/ GetsLock(c) \/ Tries(c)
  \/ \E p \in Procs : Opens(p) \/ Writes(p) \/ Renames(p)
  \/ AllDone

Spec == Init /\ [][Next]_vars

(***************************************************************************)
(* Properties.                                                             *)
(***************************************************************************)
\* The list best arrives at orders the servers by the fastest answer each
\* ever gave, in the sweep or after it: one that answered once is not lost to
\* a later silence, ahead of it there is none with a worse record here, and
\* among equals in that none with a worse rating by those times (rank.rs rank,
\* probe.rs:78-87 on why the best of all passes and not the last).
RankedByBestSample ==
  pc[Best] = "ranked" /\ (\E s \in Servers : answers[s] # {}) =>
    LET fastest == [s \in Servers |-> IF answers[s] = {} THEN None ELSE Least(answers[s])]
    IN /\ latency = fastest
       /\ \A i, j \in DOMAIN order : i < j /\ fastest[order[j]] # None =>
            LET t == CarryTier(mine[Best], order[i])
                u == CarryTier(mine[Best], order[j])
            IN /\ fastest[order[i]] # None
               /\ t <= u
               /\ t = u => Rating(order, fastest, order[i]) >= Rating(order, fastest, order[j])

\* What connects recorded while best was measuring is still there, block and
\* all, after best has saved (session.rs:111-117) -- unless another save was
\* open at the same time, for which see the README.
MeasuringLosesNothing ==
  [][pc[Best] = "renames" /\ pc'[Best] = "done" /\ ~clash =>
       \A s \in Servers : /\ file'.stats[s].attempts = seen.stats[s].attempts
                          /\ file'.stats[s].blocked = seen.stats[s].blocked]_vars

===============================================================================
