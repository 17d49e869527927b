------------------------------ MODULE MeasuringProofs --------------------------
(***************************************************************************)
(* The ranking is by the best of what was measured, and measuring loses    *)
(* nothing of what connects record meanwhile, for every list of servers,   *)
(* every book and every number of connects.                                *)
(***************************************************************************)
EXTENDS Measuring, FiniteSetTheorems, SequenceTheorems, TLAPS

-------------------------------------------------------------------------------
(***************************************************************************)
(* Sequences and orders.                                                   *)
(***************************************************************************)
\* Of any two places the one is not after the other, and none is before itself
\* but by being it.
TotalOn(places, upto) ==
  /\ \A i \in places : <<i, i>> \in upto
  /\ \A i, j \in places : <<i, j>> \in upto \/ <<j, i>> \in upto
  /\ \A i, j \in places : <<i, j>> \in upto /\ <<j, i>> \in upto => i = j
  /\ \A i, j, k \in places : <<i, j>> \in upto /\ <<j, k>> \in upto => <<i, k>> \in upto

\* Places put in order are all of them, each once, none before an earlier one.
LEMMA InOrderIs ==
  ASSUME NEW places, IsFiniteSet(places), NEW upto, TotalOn(places, upto)
  PROVE  LET f == InOrder(places, upto)
             n == Cardinality(places)
         IN /\ n \in Nat /\ f \in [1 .. n -> places]
            /\ \A i \in places : \E k \in 1 .. n : f[k] = i
            /\ \A k, l \in 1 .. n : k < l => f[k] # f[l] /\ <<f[k], f[l]>> \in upto
<1> DEFINE n == Cardinality(places)
           Below(i) == {j \in places : <<j, i>> \in upto}
           size == [i \in places |-> Cardinality(Below(i))]
           f == InOrder(places, upto)
<1>1. n \in Nat
  BY FS_CardinalityType
<1>2. \A i \in places : IsFiniteSet(Below(i)) /\ Cardinality(Below(i)) \in 1 .. n
  <2> SUFFICES ASSUME NEW i \in places
               PROVE  IsFiniteSet(Below(i)) /\ Cardinality(Below(i)) \in 1 .. n
    OBVIOUS
  <2>1. Below(i) \in SUBSET places /\ i \in Below(i)
    BY DEF TotalOn
  <2> HIDE DEF Below
  <2>2. IsFiniteSet(Below(i)) /\ Cardinality(Below(i)) <= n
    BY <2>1, FS_Subset
  <2>3. Cardinality(Below(i)) \in Nat /\ Cardinality(Below(i)) # 0
    BY <2>1, <2>2, FS_CardinalityType, FS_EmptySet
  <2>4. QED
    BY <1>1, <2>2, <2>3
<1>3. ASSUME NEW i \in places, NEW j \in places, i # j, <<i, j>> \in upto
      PROVE  size[i] < size[j]
  <2>1. Below(i) \in SUBSET Below(j) /\ j \in Below(j) /\ j \notin Below(i)
    BY <1>3 DEF TotalOn
  <2>2. IsFiniteSet(Below(j)) /\ size[i] = Cardinality(Below(i)) /\ size[j] = Cardinality(Below(j))
    <3>1. IsFiniteSet(Below(j))
      BY <1>2
    <3>2. QED
      BY <3>1
  <2> HIDE DEF Below
  <2>3. size[i] \in Nat /\ size[j] \in Nat
    <3>1. \A m : m \in 1 .. n => m \in Nat
      BY <1>1
    <3>2. Cardinality(Below(i)) \in 1 .. n /\ Cardinality(Below(j)) \in 1 .. n
      BY <1>2
    <3>3. QED
      BY <3>1, <3>2
  <2> HIDE DEF size
  <2>4. size[i] <= size[j] /\ (size[i] = size[j] => Below(i) = Below(j))
    BY <2>1, <2>2, FS_Subset
  <2>5. QED
    BY <2>1, <2>3, <2>4
<1>4. \A i, j \in places : size[i] = size[j] => i = j
  <2>1. \A i \in places : size[i] \in 1 .. n
    BY <1>2
  <2> HIDE DEF size
  <2>2. ASSUME NEW i \in places, NEW j \in places, i # j
        PROVE  size[i] # size[j]
    <3>1. size[i] \in Int /\ size[j] \in Int
      BY <2>1, <1>1
    <3>2. size[i] < size[j] \/ size[j] < size[i]
      BY <1>3, <2>2 DEF TotalOn
    <3>3. QED
      BY <3>1, <3>2
  <2>3. QED
    BY <2>2
<1>5. size \in [places -> 1 .. n]
  BY <1>2
<1>6. \A k \in 1 .. n : \E i \in places : size[i] = k
  <2>1. size \in Injection(places, 1 .. n)
    BY <1>4, <1>5 DEF Injection, IsInjective
  <2>2. IsFiniteSet(1 .. n) /\ Cardinality(1 .. n) = n
    BY <1>1, FS_Interval
  <2> HIDE DEF size
  <2>3. size \in Surjection(places, 1 .. n)
    BY <2>1, <2>2, FS_Injection
  <2>4. QED
    BY <2>3 DEF Surjection
<1>7. f = [k \in 1 .. n |-> CHOOSE i \in places : Cardinality(Below(i)) = k]
  BY DEF InOrder
<1>8. \A k \in 1 .. n : f[k] \in places /\ size[f[k]] = k
  <2> SUFFICES ASSUME NEW k \in 1 .. n
               PROVE  f[k] \in places /\ size[f[k]] = k
    OBVIOUS
  <2>1. \E i \in places : Cardinality(Below(i)) = k
    BY <1>6
  <2>2. f[k] = CHOOSE i \in places : Cardinality(Below(i)) = k
    BY <1>7
  <2> HIDE DEF Below, f
  <2>3. f[k] \in places /\ Cardinality(Below(f[k])) = k
    BY <2>1, <2>2
  <2>4. QED
    BY <2>3
<1> HIDE DEF size, f
<1>9. \A i \in places : \E k \in 1 .. n : f[k] = i
  BY <1>4, <1>5, <1>8
<1>10. \A k, l \in 1 .. n : k < l => f[k] # f[l] /\ <<f[k], f[l]>> \in upto
  <2> SUFFICES ASSUME NEW k \in 1 .. n, NEW l \in 1 .. n, k < l
               PROVE  f[k] # f[l] /\ <<f[k], f[l]>> \in upto
    OBVIOUS
  <2>1. f[k] \in places /\ f[l] \in places /\ size[f[k]] = k /\ size[f[l]] = l
    BY <1>8
  <2>2. f[k] # f[l]
    BY <2>1
  <2>3. <<f[l], f[k]>> \notin upto
    BY <1>3, <2>1, <2>2
  <2>4. QED
    BY <2>1, <2>2, <2>3 DEF TotalOn
<1>11. f \in [1 .. n -> places]
  BY <1>7, <1>8
<1>12. QED
  BY <1>1, <1>9, <1>10, <1>11 DEF f

\* Numbers are in order from the smallest up.
LEMMA UpwardsIsTotal ==
  ASSUME NEW places \in SUBSET Int
  PROVE  TotalOn(places, Upwards(places))
  BY DEF TotalOn, Upwards

\* A finite set of numbers that is not empty has a least.
LEMMA LeastIs ==
  ASSUME NEW S \in SUBSET Int, IsFiniteSet(S), S # {}
  PROVE  Least(S) \in S /\ \A o \in S : Least(S) <= o
<1> DEFINE f == InOrder(S, Upwards(S))
           n == Cardinality(S)
<1>1. /\ n \in Nat /\ f \in [1 .. n -> S]
      /\ \A i \in S : \E k \in 1 .. n : f[k] = i
      /\ \A k, l \in 1 .. n : k < l => <<f[k], f[l]>> \in Upwards(S)
  BY InOrderIs, UpwardsIsTotal
<1> HIDE DEF f, n
<1>2. 1 \in 1 .. n
  <2>1. PICK k \in 1 .. n : TRUE
    BY <1>1
  <2>2. QED
    BY <1>1, <2>1
<1>3. f[1] \in S /\ \A o \in S : f[1] <= o
  <2> SUFFICES ASSUME NEW o \in S
               PROVE  f[1] <= o
    BY <1>1, <1>2
  <2>1. PICK k \in 1 .. n : f[k] = o
    BY <1>1
  <2>2. CASE k = 1
    BY <1>1, <1>2, <2>1, <2>2
  <2>3. CASE 1 < k
    BY <1>1, <1>2, <2>1, <2>3 DEF Upwards
  <2>4. QED
    BY <2>2, <2>3
<1>4. QED
  BY <1>3 DEF Least

\* Of two times the smaller.
LEMMA LeastOfTwo ==
  ASSUME NEW a \in Int, NEW b \in Int
  PROVE  Least({a, b}) = IF a <= b THEN a ELSE b
<1>1. {a, b} \in SUBSET Int /\ IsFiniteSet({a, b}) /\ {a, b} # {}
  <2>1. IsFiniteSet({a}) /\ {a} \cup {b} = {a, b}
    BY FS_Singleton
  <2>2. IsFiniteSet({a} \cup {b})
    BY <2>1, FS_AddElement
  <2>3. QED
    BY <2>1, <2>2
<1>2. Least({a, b}) \in {a, b} /\ \A o \in {a, b} : Least({a, b}) <= o
  BY <1>1, LeastIs
<1>3. QED
  BY <1>2

\* got has what seq has at the places, once for each, none before an earlier one.
Draws(got, seq, places, upto) ==
  /\ Len(got) = Cardinality(places)
  /\ \A i \in places : seq[i] \in Names(got)
  /\ \A s \in Names(got) : \E i \in places : seq[i] = s
  /\ \A k, l \in DOMAIN got : k < l =>
       \E i, j \in places : got[k] = seq[i] /\ got[l] = seq[j] /\ i # j /\ <<i, j>> \in upto

\* The sequence along some of its places, in order.
LEMMA AlongIs ==
  ASSUME NEW S, NEW seq \in Seq(S), NEW places \in SUBSET DOMAIN seq, NEW upto, TotalOn(places, upto),
         NEW got, got = Along(seq, InOrder(places, upto))
  PROVE  got \in Seq(S) /\ Draws(got, seq, places, upto)
<1> DEFINE f == InOrder(places, upto)
           n == Cardinality(places)
<1>1. IsFiniteSet(places)
  <2>1. DOMAIN seq = 1 .. Len(seq) /\ Len(seq) \in Nat
    OBVIOUS
  <2>2. IsFiniteSet(1 .. Len(seq))
    BY <2>1, FS_Interval
  <2>3. QED
    BY <2>1, <2>2, FS_Subset
<1>2. /\ n \in Nat /\ f \in [1 .. n -> places]
      /\ \A i \in places : \E k \in 1 .. n : f[k] = i
      /\ \A k, l \in 1 .. n : k < l => f[k] # f[l] /\ <<f[k], f[l]>> \in upto
  BY <1>1, InOrderIs
<1> HIDE DEF f, n
<1>3. got = [k \in 1 .. n |-> seq[f[k]]]
  BY <1>2 DEF Along, f
<1>4. \A i \in places : seq[i] \in S
  OBVIOUS
<1>5. got \in Seq(S) /\ Len(got) = n /\ DOMAIN got = 1 .. n
  <2>1. \A k \in 1 .. n : seq[f[k]] \in S
    BY <1>2, <1>4
  <2>2. [k \in 1 .. n |-> seq[f[k]]] \in [1 .. n -> S]
    BY <2>1
  <2>3. got \in [1 .. n -> S]
    BY <2>2, <1>3
  <2>4. got \in Seq(S)
    BY <1>2, <2>3, SeqDef
  <2>5. DOMAIN got = 1 .. n /\ DOMAIN got = 1 .. Len(got) /\ Len(got) \in Nat
    BY <2>3, <2>4
  <2>6. Cardinality(1 .. n) = n /\ Cardinality(1 .. Len(got)) = Len(got)
    <3>1. \A m \in Nat : Cardinality(1 .. m) = m
      BY FS_Interval
    <3>2. QED
      BY <1>2, <2>5, <3>1
  <2>7. Len(got) = n
    BY <2>5, <2>6
  <2>8. QED
    BY <2>4, <2>5, <2>7
<1>6. /\ \A i \in places : seq[i] \in Names(got)
      /\ \A s \in Names(got) : \E i \in places : seq[i] = s
  <2>1. \A i \in places : \E k \in DOMAIN got : got[k] = seq[i]
    BY <1>2, <1>3, <1>5
  <2>2. \A k \in DOMAIN got : \E i \in places : got[k] = seq[i]
    BY <1>2, <1>3, <1>5
  <2>3. QED
    BY <2>1, <2>2 DEF Names
<1> DEFINE Apart(a, b) == \E i, j \in places : a = seq[i] /\ b = seq[j] /\ i # j /\ <<i, j>> \in upto
<1>7. \A k, l \in 1 .. n : k < l => Apart(got[k], got[l])
  <2> SUFFICES ASSUME NEW k \in 1 .. n, NEW l \in 1 .. n, k < l
               PROVE  Apart(got[k], got[l])
    OBVIOUS
  <2>1. f[k] \in places /\ f[l] \in places /\ f[k] # f[l] /\ <<f[k], f[l]>> \in upto
    BY <1>2
  <2>2. got[k] = seq[f[k]] /\ got[l] = seq[f[l]]
    BY <1>3
  <2>3. QED
    BY <2>1, <2>2
<1> HIDE DEF Apart
<1>8. \A k, l \in DOMAIN got : k < l => Apart(got[k], got[l])
  <2>1. DOMAIN got = 1 .. n
    BY <1>5
  <2>2. QED
    BY <1>7, <2>1
<1>9. Len(got) = Cardinality(places)
  BY <1>5 DEF n
<1>10. QED
  BY <1>5, <1>6, <1>8, <1>9, Zenon DEF Apart, Draws

\* What is kept of a sequence.
LEMMA KeptIs ==
  ASSUME NEW S, NEW seq \in Seq(S), NEW these
  PROVE  Kept(seq, these) \in Seq(S) /\ Names(Kept(seq, these)) = Names(seq) \cap these
<1> DEFINE places == {i \in DOMAIN seq : seq[i] \in these}
<1>1. places \in SUBSET DOMAIN seq /\ places \in SUBSET Int
  OBVIOUS
<1>2. TotalOn(places, Upwards(places))
  BY <1>1, UpwardsIsTotal
<1> DEFINE got == Along(seq, InOrder(places, Upwards(places)))
<1>3. /\ got \in Seq(S)
      /\ \A i \in places : seq[i] \in Names(got)
      /\ \A s \in Names(got) : \E i \in places : seq[i] = s
  <2> HIDE DEF places
  <2> HIDE DEF got
  <2>1. got = Along(seq, InOrder(places, Upwards(places)))
    BY DEF got
  <2>2. got \in Seq(S) /\ Draws(got, seq, places, Upwards(places))
    BY <1>1, <1>2, <2>1, AlongIs
  <2>3. QED
    BY <2>2, Zenon DEF Draws
<1>4. /\ \A i \in places : seq[i] \in Names(seq) \cap these
      /\ \A s \in Names(seq) \cap these : \E i \in places : seq[i] = s
  BY DEF Names
<1>5. Kept(seq, these) = got
  BY DEF Kept
<1> HIDE DEF got, places
<1>6. QED
  BY <1>3, <1>4, <1>5

\* What is left of a sequence that is cut off.
LEMMA TruncatedIs ==
  ASSUME NEW S, NEW seq \in Seq(S), NEW n \in Nat
  PROVE  Truncated(seq, n) \in Seq(S)
  BY DEF Truncated

-------------------------------------------------------------------------------
(***************************************************************************)
(* The orders servers are sorted by.                                       *)
(***************************************************************************)
\* Of two the one is not both before and after the other; what is before the
\* last of three is before the one between, or that is before the last.
Orders(before, these) ==
  /\ \A a, b \in these : <<a, b>> \in before => <<b, a>> \notin before
  /\ \A a, b, c \in these : <<a, c>> \in before => <<a, b>> \in before \/ <<b, c>> \in before

\* A number for each is an order of them.
LEMMA ByOrders ==
  ASSUME NEW these, NEW key, \A s \in these : key[s] \in Int
  PROVE  Orders(By(these, key), these)
  BY DEF Orders, By

\* So is the distance, where it is known of some.
LEMMA NearerOrders ==
  ASSUME NEW these \in SUBSET Servers
  PROVE  Orders(Nearer(these), these)
<1>1. \A s \in these : Logical[s].km \in Nat \cup {None}
  BY MeasuringAssumption DEF MeasuringAssumption
<1>2. None \notin Nat
  BY MeasuringAssumption DEF MeasuringAssumption
<1>3. \A a, b \in these :
        <<a, b>> \in Nearer(these) <=>
          Logical[a].km # None /\ (Logical[b].km = None \/ Logical[a].km < Logical[b].km)
  BY DEF Nearer
<1>4. QED
  BY <1>1, <1>2, <1>3 DEF Orders

\* And what is level in the one order may be told apart by another.
LEMMA ThenOrders ==
  ASSUME NEW these, NEW first, NEW second, Orders(first, these), Orders(second, these)
  PROVE  Orders(Then(first, second), these)
<1>1. \A a, b : <<a, b>> \in Then(first, second) <=>
                  <<a, b>> \in first \/ (<<a, b>> \in second /\ <<b, a>> \notin first)
  BY DEF Then
<1>2. QED
  BY <1>1 DEF Orders

\* What is sorted is what was given, and of two the later is not before the earlier.
LEMMA SortedIs ==
  ASSUME NEW S, NEW seq \in Seq(S), NEW before, Orders(before, Names(seq)),
         NEW got, got = Sorted(seq, before)
  PROVE  /\ got \in Seq(S) /\ Len(got) = Len(seq) /\ Names(got) = Names(seq)
         /\ \A k, l \in DOMAIN got : k < l => <<got[l], got[k]>> \notin before
<1> DEFINE all == DOMAIN seq
           upto == {p \in all \X all : \/ <<seq[p[1]], seq[p[2]]>> \in before
                                       \/ p[1] <= p[2] /\ <<seq[p[2]], seq[p[1]]>> \notin before}
<1>1. all = 1 .. Len(seq) /\ Len(seq) \in Nat
  OBVIOUS
<1>2. \A i, j \in all :
        <<i, j>> \in upto <=> \/ <<seq[i], seq[j]>> \in before
                              \/ i <= j /\ <<seq[j], seq[i]>> \notin before
  OBVIOUS
<1>3. \A i \in all : seq[i] \in Names(seq)
  BY DEF Names
<1>4. got = Along(seq, InOrder(all, upto))
  BY DEF Sorted
<1> HIDE DEF all, upto
<1>5. TotalOn(all, upto)
  <2>1. ASSUME NEW i \in all
        PROVE  <<i, i>> \in upto
    <3>1. <<i, i>> \in upto <=> \/ <<seq[i], seq[i]>> \in before
                                \/ i <= i /\ <<seq[i], seq[i]>> \notin before
      BY <1>2
    <3>2. i <= i
      BY <1>1
    <3>3. QED
      BY <3>1, <3>2
  <2>2. ASSUME NEW i \in all, NEW j \in all
        PROVE  /\ <<i, j>> \in upto \/ <<j, i>> \in upto
               /\ <<i, j>> \in upto /\ <<j, i>> \in upto => i = j
    <3> DEFINE Lt(a, b) == <<seq[a], seq[b]>> \in before
    <3>1. ~(Lt(i, j) /\ Lt(j, i))
      BY <1>3 DEF Orders
    <3>2. /\ <<i, j>> \in upto <=> Lt(i, j) \/ (i <= j /\ ~Lt(j, i))
          /\ <<j, i>> \in upto <=> Lt(j, i) \/ (j <= i /\ ~Lt(i, j))
      BY <1>2
    <3>3. (i <= j \/ j <= i) /\ (i <= j /\ j <= i => i = j)
      BY <1>1
    <3> HIDE DEF Lt
    <3>4. QED
      BY <3>1, <3>2, <3>3
  <2>4. ASSUME NEW i \in all, NEW j \in all, NEW k \in all, <<i, j>> \in upto, <<j, k>> \in upto
        PROVE  <<i, k>> \in upto
    <3> DEFINE Lt(a, b) == <<seq[a], seq[b]>> \in before
    <3>1. /\ ~(Lt(i, j) /\ Lt(j, i)) /\ ~(Lt(j, k) /\ Lt(k, j)) /\ ~(Lt(i, k) /\ Lt(k, i))
          /\ (Lt(i, j) => Lt(i, k) \/ Lt(k, j)) /\ (Lt(j, k) => Lt(j, i) \/ Lt(i, k))
          /\ (Lt(k, i) => Lt(k, j) \/ Lt(j, i))
      BY <1>3 DEF Orders
    <3>2. /\ <<i, j>> \in upto <=> Lt(i, j) \/ (i <= j /\ ~Lt(j, i))
          /\ <<j, k>> \in upto <=> Lt(j, k) \/ (j <= k /\ ~Lt(k, j))
          /\ <<i, k>> \in upto <=> Lt(i, k) \/ (i <= k /\ ~Lt(k, i))
      BY <1>2
    <3>3. i <= j /\ j <= k => i <= k
      BY <1>1
    <3> HIDE DEF Lt
    <3>4. QED
      BY <2>4, <3>1, <3>2, <3>3
  <2>5. QED
    BY <2>1, <2>2, <2>4, Zenon DEF TotalOn
<1>6. all \in SUBSET DOMAIN seq
  BY DEF all
<1>6a. got \in Seq(S) /\ Draws(got, seq, all, upto)
  BY <1>4, <1>5, <1>6, AlongIs
<1>7. /\ got \in Seq(S) /\ Len(got) = Cardinality(all)
      /\ \A i \in all : seq[i] \in Names(got)
      /\ \A s \in Names(got) : \E i \in all : seq[i] = s
  BY <1>6a, Zenon DEF Draws
<1> DEFINE Drawn(k, l) ==
             \E i, j \in all : got[k] = seq[i] /\ got[l] = seq[j] /\ i # j /\ <<i, j>> \in upto
<1>7a. \A k, l \in DOMAIN got : k < l => Drawn(k, l)
  BY <1>6a, Zenon DEF Draws
<1> HIDE DEF Drawn
<1>8. Len(got) = Len(seq)
  <2>1. \A m \in Nat : Cardinality(1 .. m) = m
    BY FS_Interval
  <2>2. QED
    BY <1>1, <1>7, <2>1
<1>9. Names(got) = Names(seq)
  <2>1. \A s \in Names(seq) : \E i \in all : seq[i] = s
    BY DEF Names, all
  <2>2. \A s \in Names(seq) : s \in Names(got)
    BY <1>7, <2>1
  <2>3. \A s \in Names(got) : s \in Names(seq)
    BY <1>3, <1>7
  <2>4. QED
    BY <2>2, <2>3, Zenon
<1>10. ASSUME NEW k \in DOMAIN got, NEW l \in DOMAIN got, k < l
       PROVE  <<got[l], got[k]>> \notin before
  <2>0. Drawn(k, l)
    BY <1>10, <1>7a
  <2>1. PICK i \in all, j \in all : got[k] = seq[i] /\ got[l] = seq[j] /\ i # j /\ <<i, j>> \in upto
    BY <2>0 DEF Drawn
  <2>2. seq[i] \in Names(seq) /\ seq[j] \in Names(seq)
    BY <1>3
  <2>3. <<seq[j], seq[i]>> \notin before
    BY <1>2, <2>1, <2>2 DEF Orders
  <2>4. QED
    BY <2>1, <2>3
<1>11. QED
  BY <1>7, <1>8, <1>9, <1>10

-------------------------------------------------------------------------------
(***************************************************************************)
(* The pool, and the order it is put in.                                   *)
(***************************************************************************)
Times == [Servers -> Handshakes \cup {None}]

\* A time is a number.
LEMMA HandshakesAre ==
  Handshakes \subseteq Nat /\ None \notin Handshakes
<1>1. Handshakes \subseteq Nat /\ None \notin Nat
  BY MeasuringAssumption DEF MeasuringAssumption
<1>2. QED
  BY <1>1

\* A record puts a server in one of three tiers.
LEMMA TierIs ==
  ASSUME NEW b \in Book, NEW s \in Servers
  PROVE  CarryTier(b, s) \in Int
  BY DEF CarryTier, Book, Stat

\* What has answered is in the sequence, and has a time.
LEMMA ReachableIs ==
  ASSUME NEW seq \in Seq(Servers), NEW lat \in Times
  PROVE  /\ Reachable(seq, lat) \subseteq Servers /\ Reachable(seq, lat) \subseteq Names(seq)
         /\ \A s \in Reachable(seq, lat) : lat[s] \in Nat
<1>1. Names(seq) \subseteq Servers
  BY DEF Names
<1>2. QED
  BY <1>1, MeasuringAssumption DEF Reachable, Times, MeasuringAssumption

\* A penalty is a number.
LEMMA ClampIs ==
  ASSUME NEW n \in Int
  PROVE  Clamp(n) \in Int
  BY DEF Clamp

\* A server that has answered has a rating.
LEMMA RatingIs ==
  ASSUME NEW seq \in Seq(Servers), NEW lat \in Times, NEW s \in Reachable(seq, lat)
  PROVE  Rating(seq, lat, s) \in Int
<1> DEFINE up == Reachable(seq, lat)
           times == {lat[o] : o \in up}
           best == Least(times)
           w == IF Informative(seq, lat) THEN [latency |-> 60, distance |-> 15]
                                         ELSE [latency |-> 0, distance |-> 75]
           lp == LatencyPenalty(lat[s], best)
           dp == DistancePenalty(Logical[s].km)
           op == LoadPenalty(Logical[s].load)
<1>1. up \subseteq Servers /\ \A o \in up : lat[o] \in Nat
  BY ReachableIs
<1>2. best \in Nat
  <2>1. times \subseteq Handshakes
    BY <1>1, MeasuringAssumption DEF MeasuringAssumption, Times
  <2>2. times \in SUBSET Int /\ IsFiniteSet(times) /\ times # {}
    <3>1. times \in SUBSET Handshakes /\ times # {}
      BY <2>1
    <3>2. Handshakes \subseteq Int /\ IsFiniteSet(Handshakes)
      BY MeasuringAssumption DEF MeasuringAssumption
    <3> HIDE DEF times
    <3>3. IsFiniteSet(times)
      BY <3>1, <3>2, FS_Subset
    <3>4. QED
      BY <3>1, <3>2, <3>3
  <2>3. times \in SUBSET Nat
    BY <1>1
  <2> HIDE DEF times
  <2>4. QED
    BY <2>2, <2>3, LeastIs
<1>3. w.latency \in Int /\ w.distance \in Int
  OBVIOUS
<1> HIDE DEF best, w
<1>4. lp \in Int
  <2>1. lat[s] \in Nat
    BY <1>1
  <2>2. CASE best <= 0
    BY <2>2 DEF LatencyPenalty
  <2>3. CASE best > 0
    <3>1. (1000 * lat[s]) \div best \in Int
      BY <1>2, <2>1, <2>3
    <3>2. Clamp((1000 * lat[s]) \div best - 1000) \in Int
      BY <3>1, ClampIs
    <3>3. lp = Clamp((1000 * lat[s]) \div best - 1000)
      BY <1>2, <2>3 DEF LatencyPenalty
    <3> HIDE DEF lp
    <3>4. QED
      BY <3>2, <3>3
  <2>4. QED
    BY <1>2, <2>2, <2>3
<1>5. Logical[s].load \in Nat /\ Logical[s].km \in Nat \cup {None}
  BY <1>1, MeasuringAssumption DEF MeasuringAssumption
<1>6. op \in Int
  <2>1. (1000 * Logical[s].load) \div 95 \in Int
    BY <1>5
  <2>2. QED
    BY <2>1, ClampIs DEF LoadPenalty
<1>7. dp \in Int
  <2>1. CASE Logical[s].km = None
    BY <2>1 DEF DistancePenalty
  <2>2. CASE Logical[s].km # None
    <3>1. Logical[s].km \div 15 \in Int
      BY <1>5, <2>2
    <3>2. QED
      BY <2>2, <3>1, ClampIs DEF DistancePenalty
  <2>3. QED
    BY <2>1, <2>2
<1> DEFINE cost == w.latency * lp + 25 * op + w.distance * dp
<1>8. Rating(seq, lat, s) = (100000 - cost + 50) \div 100
  BY DEF Rating, best, w
<1> HIDE DEF lp, op, dp
<1>9. cost \in Int
  <2>1. w.latency * lp \in Int /\ w.distance * dp \in Int /\ 25 * op \in Int
    BY <1>3, <1>4, <1>6, <1>7
  <2>2. QED
    BY <2>1
<1> HIDE DEF cost
<1>10. (100000 - cost + 50) \div 100 \in Int
  BY <1>9
<1>11. QED
  BY <1>8, <1>10

\* A rating is against everybody who has answered, in whatever order they are.
LEMMA SameNames ==
  ASSUME NEW seq, NEW other, Names(seq) = Names(other), NEW lat
  PROVE  /\ Reachable(seq, lat) = Reachable(other, lat)
         /\ \A s : Rating(seq, lat, s) = Rating(other, lat, s)
<1>1. Reachable(seq, lat) = Reachable(other, lat)
  BY DEF Reachable
<1>2. Informative(seq, lat) = Informative(other, lat)
  BY <1>1 DEF Informative
<1>3. QED
  BY <1>1, <1>2 DEF Rating

\* Proton's order, as far as it may be used: servers.
LEMMA CandidatesAre ==
  ASSUME NEW b, NEW ask
  PROVE  Candidates(b, ask) \in Seq(Servers)
  BY KeptIs, MeasuringAssumption DEF Candidates, MeasuringAssumption

\* Whatever Proton's list says of them orders servers.
LEMMA ListOrders ==
  ASSUME NEW these \in SUBSET Servers
  PROVE  Orders(ByLoad(these), these) /\ Orders(ByScore(these), these)
<1>1. \A s \in these : [o \in these |-> Logical[o].load][s] \in Int
  BY MeasuringAssumption DEF MeasuringAssumption
<1>2. \A s \in these : [o \in these |-> Logical[o].score][s] \in Int
  BY MeasuringAssumption DEF MeasuringAssumption
<1>3. QED
  BY <1>1, <1>2, ByOrders DEF ByLoad, ByScore

\* What is left after the cut are servers still.
LEMMA CutIs ==
  ASSUME NEW seq \in Seq(Servers)
  PROVE  Cut(seq) \in Seq(Servers)
<1>1. CASE Shortlist = 0 \/ Len(seq) <= Shortlist
  BY <1>1 DEF Cut
<1>2. CASE ~(Shortlist = 0 \/ Len(seq) <= Shortlist)
  <2> DEFINE all == Names(seq)
             by == IF \E s \in all : Logical[s].km # None THEN Nearer(all) ELSE ByScore(all)
             near == Sorted(seq, by)
             idle == Sorted(seq, ByLoad(all))
             n == Len(seq)
             turns == [i \in 1 .. 2 * n |-> IF i % 2 = 1 THEN near[(i + 1) \div 2] ELSE idle[i \div 2]]
             first == {i \in DOMAIN turns : \A j \in 1 .. i - 1 : turns[j] # turns[i]}
             got == Along(turns, InOrder(first, Upwards(first)))
  <2>1. all \in SUBSET Servers
    BY DEF Names
  <2>2. Orders(by, all) /\ Orders(ByLoad(all), all)
    BY <2>1, NearerOrders, ListOrders
  <2> HIDE DEF by
  <2>3. near \in Seq(Servers) /\ Len(near) = n
    BY <2>2, SortedIs
  <2>4. idle \in Seq(Servers) /\ Len(idle) = n
    BY <2>2, SortedIs
  <2>5. n \in Nat
    OBVIOUS
  <2> HIDE DEF near, idle, n
  <2>6. \A i \in 1 .. 2 * n : /\ i % 2 = 1 => (i + 1) \div 2 \in 1 .. n
                              /\ i % 2 # 1 => i \div 2 \in 1 .. n
    BY <2>5
  <2>7. \A k \in 1 .. n : near[k] \in Servers /\ idle[k] \in Servers
    BY <2>3, <2>4
  <2>8. turns \in Seq(Servers)
    <3>1. \A i \in 1 .. 2 * n :
            (IF i % 2 = 1 THEN near[(i + 1) \div 2] ELSE idle[i \div 2]) \in Servers
      BY <2>6, <2>7
    <3>2. turns \in [1 .. 2 * n -> Servers] /\ 2 * n \in Nat
      BY <2>5, <3>1
    <3> HIDE DEF turns
    <3>3. QED
      BY <3>2, SeqDef
  <2>9. first \in SUBSET DOMAIN turns
    OBVIOUS
  <2>10. Cut(seq) = Truncated(got, Shortlist)
    BY <1>2 DEF Cut, near, idle, n, by
  <2> HIDE DEF turns, first
  <2>11. first \in SUBSET Int
    BY <2>8, <2>9
  <2>12. got \in Seq(Servers)
    BY <2>8, <2>9, <2>11, UpwardsIsTotal, AlongIs
  <2> HIDE DEF got
  <2>13. QED
    BY <2>10, <2>12, TruncatedIs, MeasuringAssumption DEF MeasuringAssumption
<1>3. QED
  BY <1>1, <1>2

\* What is to be timed are servers.
LEMMA PoolIs ==
  ASSUME NEW b \in Book, NEW ask
  PROVE  Pool(b, ask) \in Seq(Servers)
<1> DEFINE all == Candidates(b, ask)
           short == Cut(all)
           lately == (FastList(b) \cap Names(all)) \ Names(short)
<1>1. all \in Seq(Servers)
  BY CandidatesAre
<1>2. short \in Seq(Servers)
  BY <1>1, CutIs
<1>3. Kept(all, lately) \in Seq(Servers) /\ Names(Kept(all, lately)) = lately
  <2> HIDE DEF all, short
  <2>1. QED
    BY <1>1, KeptIs
<1>4. \A s \in lately : b.stats[s].ema \in Nat
  BY DEF FastList, Book, Stat
<1>5. Orders(ByAverage(b, lately), lately)
  <2>1. \A s \in lately : [o \in lately |-> b.stats[o].ema][s] \in Int
    BY <1>4
  <2> HIDE DEF lately
  <2>2. QED
    BY <2>1, ByOrders DEF ByAverage
<1>6. Sorted(Kept(all, lately), ByAverage(b, lately)) \in Seq(Servers)
  <2> HIDE DEF all, lately
  <2>1. QED
    BY <1>3, <1>5, SortedIs
<1>7. QED
  BY <1>2, <1>6 DEF Pool

\* Who answered first, then those with the better record, then those with the
\* better rating.
OrderedBy(b, seq, lat) ==
  \A i, j \in DOMAIN seq : i < j /\ lat[seq[j]] # None =>
    LET t == CarryTier(b, seq[i])
        u == CarryTier(b, seq[j])
    IN /\ lat[seq[i]] # None
       /\ t <= u
       /\ t = u => Rating(seq, lat, seq[i]) >= Rating(seq, lat, seq[j])

\* rank puts them so (rank.rs rank).
LEMMA RankIs ==
  ASSUME NEW b \in Book, NEW seq \in Seq(Servers), NEW lat \in Times,
         NEW got, got = Rank(b, seq, lat)
  PROVE  got \in Seq(Servers) /\ Names(got) = Names(seq) /\ OrderedBy(b, got, lat)
<1> DEFINE up == Reachable(seq, lat)
           down == Servers \ up
           tier == [s \in up |-> CarryTier(b, s)]
           rating == [s \in up |-> -Rating(seq, lat, s)]
           last == IF Informative(seq, lat) THEN By(up, lat) ELSE Nearer(up)
           better == Then(By(up, tier), Then(By(up, rating), last))
           ups == Kept(seq, up)
           downs == Kept(seq, down)
           front == Sorted(ups, better)
           nearest == Nearer(down)
           back == Sorted(downs, nearest)
<1>1. got = front \o back
  BY DEF Rank, ByTier, ByRating
<1>2. /\ up \subseteq Servers /\ up \subseteq Names(seq) /\ Names(seq) \subseteq Servers
      /\ \A s \in up : lat[s] \in Nat
  BY ReachableIs DEF Names
<1>3. \A s \in Names(seq) : s \in up <=> lat[s] # None
  BY DEF Reachable
<1>4. /\ \A s \in up : tier[s] \in Int /\ tier[s] = CarryTier(b, s)
      /\ \A s \in up : rating[s] \in Int /\ rating[s] = -Rating(seq, lat, s)
                       /\ Rating(seq, lat, s) \in Int
  <2>1. \A s \in up : CarryTier(b, s) \in Int
    BY <1>2, TierIs
  <2>2. \A s \in up : Rating(seq, lat, s) \in Int
    BY RatingIs
  <2>3. QED
    BY <2>1, <2>2
<1>5. ups \in Seq(Servers) /\ downs \in Seq(Servers)
      /\ Names(ups) = up /\ Names(downs) = Names(seq) \ up
  <2>1. /\ ups \in Seq(Servers) /\ downs \in Seq(Servers)
        /\ Names(ups) = Names(seq) \cap up /\ Names(downs) = Names(seq) \cap down
    BY KeptIs
  <2>2. QED
    BY <1>2, <2>1
<1> HIDE DEF up, tier, rating
<1>6. Orders(better, up)
  <2>1. Orders(By(up, tier), up) /\ Orders(By(up, rating), up) /\ Orders(By(up, lat), up)
    BY <1>2, <1>4, ByOrders
  <2>2. Orders(Nearer(up), up)
    BY <1>2, NearerOrders
  <2>3. Orders(last, up)
    BY <2>1, <2>2
  <2> HIDE DEF last
  <2>4. QED
    BY <2>1, <2>3, ThenOrders
<1> HIDE DEF ups, downs, better
<1>7. /\ front \in Seq(Servers) /\ Names(front) = up
      /\ \A k, l \in DOMAIN front : k < l => <<front[l], front[k]>> \notin better
  BY <1>5, <1>6, SortedIs
<1>8. back \in Seq(Servers) /\ Names(back) = Names(seq) \ up
  <2>1. Orders(nearest, down)
    BY NearerOrders
  <2>2. Names(downs) \subseteq down
    BY <1>2, <1>5
  <2>3. Orders(nearest, Names(downs))
    BY <2>1, <2>2 DEF Orders
  <2>4. back = Sorted(downs, nearest) /\ downs \in Seq(Servers)
    BY <1>5
  <2> HIDE DEF back, nearest
  <2>5. back \in Seq(Servers) /\ Names(back) = Names(downs)
    BY <2>3, <2>4, SortedIs
  <2>6. QED
    BY <1>5, <2>5
<1> HIDE DEF front, back
<1>9. \A k \in DOMAIN front : front[k] \in up
  BY <1>7 DEF Names
<1>10. \A k \in DOMAIN back : back[k] \in Names(seq) /\ back[k] \notin up
  BY <1>8 DEF Names
<1>11. /\ got \in Seq(Servers) /\ DOMAIN got = 1 .. Len(front) + Len(back)
       /\ \A k \in 1 .. Len(front) : got[k] = front[k]
       /\ \A k \in DOMAIN got : k \notin 1 .. Len(front) =>
            k - Len(front) \in DOMAIN back /\ got[k] = back[k - Len(front)]
       /\ \A k \in DOMAIN back : k + Len(front) \in DOMAIN got /\ got[k + Len(front)] = back[k]
  BY <1>1, <1>7, <1>8
<1>12. DOMAIN front = 1 .. Len(front) /\ Len(front) \in Nat /\ Len(back) \in Nat
  BY <1>7, <1>8
<1>13. Names(got) = Names(seq)
  <2>1. \A s \in Names(got) : s \in Names(seq)
    BY <1>2, <1>9, <1>10, <1>11, <1>12 DEF Names
  <2>2. \A s \in up : \E k \in DOMAIN got : got[k] = s
    BY <1>7, <1>11, <1>12 DEF Names
  <2>3. \A s \in Names(seq) \ up : \E k \in DOMAIN got : got[k] = s
    BY <1>8, <1>11 DEF Names
  <2>4. \A s \in Names(seq) : s \in Names(got)
    BY <2>2, <2>3 DEF Names
  <2>5. QED
    BY <2>1, <2>4
<1>14. OrderedBy(b, got, lat)
  <2> SUFFICES ASSUME NEW i \in DOMAIN got, NEW j \in DOMAIN got, i < j, lat[got[j]] # None
               PROVE  /\ lat[got[i]] # None
                      /\ CarryTier(b, got[i]) <= CarryTier(b, got[j])
                      /\ CarryTier(b, got[i]) = CarryTier(b, got[j]) =>
                           Rating(got, lat, got[i]) >= Rating(got, lat, got[j])
    BY Zenon DEF OrderedBy
  <2>1. j \in 1 .. Len(front)
    BY <1>3, <1>10, <1>11
  <2>2. i \in 1 .. Len(front)
    BY <1>11, <1>12, <2>1
  <2>3. got[i] = front[i] /\ got[j] = front[j] /\ front[i] \in up /\ front[j] \in up
    BY <1>9, <1>11, <1>12, <2>1, <2>2
  <2>4. <<front[j], front[i]>> \notin better
    BY <1>7, <1>12, <2>1, <2>2
  <2>5. <<front[j], front[i]>> \notin By(up, tier)
    BY <2>4 DEF better, Then
  <2>6. <<front[i], front[j]>> \in By(up, tier) \/ <<front[j], front[i]>> \notin By(up, rating)
    BY <2>4 DEF better, Then
  <2>7. tier[front[i]] <= tier[front[j]]
    BY <1>4, <2>3, <2>5 DEF By
  <2>8. tier[front[i]] = tier[front[j]] => rating[front[i]] <= rating[front[j]]
    <3>1. tier[front[i]] = tier[front[j]] => <<front[i], front[j]>> \notin By(up, tier)
      BY <1>4, <2>3 DEF By
    <3>2. <<front[j], front[i]>> \notin By(up, rating) => rating[front[i]] <= rating[front[j]]
      BY <1>4, <2>3 DEF By
    <3>3. QED
      BY <2>6, <3>1, <3>2
  <2>9. \A s : Rating(got, lat, s) = Rating(seq, lat, s)
    BY <1>13, SameNames
  <2>10. CarryTier(b, front[i]) = CarryTier(b, front[j]) =>
           Rating(seq, lat, front[i]) >= Rating(seq, lat, front[j])
    BY <1>4, <2>3, <2>8
  <2>11. lat[front[i]] # None
    BY <1>2, <1>3, <2>3
  <2>12. QED
    BY <1>4, <2>3, <2>7, <2>9, <2>10, <2>11
<1>15. QED
  BY <1>11, <1>13, <1>14

\* What is predicted are the servers it is predicted of.
LEMMA PredictedIs ==
  ASSUME NEW b \in Book, NEW seq \in Seq(Servers)
  PROVE  Predicted(b, seq) \in Seq(Servers)
<1> DEFINE all == Names(seq)
           tier == [s \in all |-> CarryTier(b, s)]
           last == Then(ByLoad(all), ByScore(all))
<1>1. all \in SUBSET Servers
  BY DEF Names
<1>2. \A s \in all : tier[s] \in Int
  BY <1>1, TierIs
<1> HIDE DEF all, tier
<1>3. Orders(By(all, tier), all) /\ Orders(Nearer(all), all)
      /\ Orders(ByLoad(all), all) /\ Orders(ByScore(all), all)
  BY <1>1, <1>2, ByOrders, NearerOrders, ListOrders
<1>4. Orders(last, all)
  BY <1>3, ThenOrders
<1> HIDE DEF last
<1>5. Orders(Then(Nearer(all), last), all)
  BY <1>3, <1>4, ThenOrders
<1>6. Orders(Then(By(all, tier), Then(Nearer(all), last)), all)
  BY <1>3, <1>5, ThenOrders
<1>7. Predicted(b, seq) = Sorted(seq, Then(By(all, tier), Then(Nearer(all), last)))
  BY DEF Predicted, ByTier, all, tier, last
<1>8. QED
  BY <1>6, <1>7, SortedIs DEF all

-------------------------------------------------------------------------------
(***************************************************************************)
(* The invariant.                                                          *)
(***************************************************************************)
\* The types.
States == {"starts", "sweeps", "refines", "ranked", "queues", "tries",
           "saves", "writes", "renames", "done"}

Typed ==
  /\ file \in Book \cup {None, Torn} /\ tmp \in Book \cup {None, Torn}
  /\ fd \in [Procs -> {None, "tmp", "file"}]
  /\ pc \in [Procs -> States] /\ mine \in [Procs -> Book]
  /\ holder \in Procs \cup {None}
  /\ order \in Seq(Servers) /\ latency \in Times
  /\ answers \in [Servers -> SUBSET Handshakes]
  /\ seen \in Book \cup {None} /\ clash \in BOOLEAN

\* The latency of a server is the fastest of its answers.
Fastest ==
  \A s \in Servers :
    IF answers[s] = {} THEN latency[s] = None
    ELSE latency[s] \in answers[s] /\ \A n \in answers[s] : latency[s] <= n

\* Before the sweep nothing has answered; after it what has answered is in the
\* order, which is by what was answered.
Silent == \A s \in Servers : answers[s] = {}
InPlace ==
  /\ pc[Best] \in {"starts", "sweeps"} => Silent
  /\ pc[Best] = "refines" => /\ \A s \in Servers : answers[s] # {} => s \in Names(order)
                             /\ OrderedBy(mine[Best], order, latency)
  /\ pc[Best] = "ranked" => Silent \/ OrderedBy(mine[Best], order, latency)

\* What best is to save agrees with what it found in the file on what connects
\* record.
Agrees(b, c) ==
  \A s \in Servers : b.stats[s].attempts = c.stats[s].attempts /\ b.stats[s].blocked = c.stats[s].blocked
Rebased ==
  pc[Best] \in {"saves", "writes", "renames"} => seen \in Book /\ Agrees(mine[Best], seen)

\* As long as no two saves have been open at once the temporary file is the
\* saver's own: empty until it has written, then what it wrote.
Saving == {"writes", "renames"}
Alone ==
  ~clash =>
    /\ \A p \in Procs : pc[p] = "writes" => fd[p] = "tmp" /\ tmp = Torn
    /\ \A p \in Procs : pc[p] = "renames" => tmp = mine[p]
    /\ \A p, q \in Procs : pc[p] \in Saving /\ pc[q] \in Saving => p = q

Inductive == Typed /\ Fastest /\ InPlace /\ Rebased /\ Alone

-------------------------------------------------------------------------------
\* An empty book is a book, and so is what is read of any file.
LEMMA ReadIs ==
  ASSUME NEW content \in Book \cup {None, Torn}
  PROVE  Empty \in Book /\ Read(content) \in Book
<1>1. Empty \in Book
  BY DEF Empty, Untried, Book, Stat
<1>2. QED
  BY <1>1 DEF Read

\* What becomes of a book: a measurement leaves what connects record alone.
LEMMA ProbedKeeps ==
  ASSUME NEW stat \in Stat, NEW ms \in Nat
  PROVE  /\ Probed(stat, ms) \in Stat
         /\ Probed(stat, ms).attempts = stat.attempts /\ Probed(stat, ms).blocked = stat.blocked
<1>1. stat.ema = None \/ stat.ema \in Nat
  BY DEF Stat
<1>2. stat.ema # None => (3 * ms + 7 * stat.ema) \div 10 \in Nat
  BY <1>1
<1>3. QED
  BY <1>1, <1>2 DEF Probed, Stat

\* A step that opens no save and ends none leaves whoever is saving alone.
LEMMA AloneStays ==
  ASSUME Typed, Alone, NEW p \in Procs, NEW to \in States,
         pc[p] \notin Saving, to \notin Saving, Goes(p, to),
         \A q \in Procs : q # p => mine'[q] = mine[q], UNCHANGED <<tmp, fd, clash>>
  PROVE  Alone'
<1>1. pc'[p] = to /\ \A q \in Procs : q # p => pc'[q] = pc[q]
  BY DEF Goes, Typed
<1>2. \A q \in Procs : pc'[q] \in Saving => q # p /\ pc[q] = pc'[q]
  BY <1>1
<1>3. QED
  BY <1>2 DEF Alone, Saving

\* While best is where it was with what it had, it keeps what it has measured.
LEMMA BestStays ==
  ASSUME Fastest, InPlace, Rebased, pc'[Best] = pc[Best], mine'[Best] = mine[Best],
         UNCHANGED <<order, latency, answers, seen>>
  PROVE  Fastest' /\ InPlace' /\ Rebased'
<1>1. Fastest'
  BY DEF Fastest
<1>2. InPlace'
  BY DEF InPlace, Silent
<1>3. Rebased'
  BY DEF Rebased
<1>4. QED
  BY <1>1, <1>2, <1>3

\* The start.
LEMMA StartsRight == Init => Inductive
<1> SUFFICES ASSUME Init
             PROVE  Inductive
  OBVIOUS
<1> USE DEF Init
<1>1. Best \in Procs
  BY DEF Procs
<1>2. Typed
  <2>1. file \in Book \cup {None, Torn} /\ Empty \in Book
    BY ReadIs, MeasuringAssumption DEF MeasuringAssumption
  <2>2. pc \in [Procs -> States] /\ fd \in [Procs -> {None, "tmp", "file"}]
    BY DEF States
  <2>3. mine \in [Procs -> Book]
    BY <2>1
  <2>4. latency \in Times /\ answers \in [Servers -> SUBSET Handshakes] /\ order \in Seq(Servers)
    BY DEF Times
  <2>5. QED
    BY <2>1, <2>2, <2>3, <2>4 DEF Typed
<1>3. Fastest /\ Silent
  BY DEF Fastest, Silent
<1>4. \A p \in Procs : pc[p] = "starts"
  OBVIOUS
<1>5. InPlace /\ Rebased /\ Alone
  BY <1>1, <1>3, <1>4 DEF InPlace, Rebased, Alone, Saving
<1>6. QED
  BY <1>2, <1>3, <1>5 DEF Inductive

\* best lists, and what it lists is in no order yet.
LEMMA ListedKeeps ==
  ASSUME Inductive, Listed
  PROVE  Inductive'
<1> USE DEF Inductive
<1> DEFINE b == Read(file)
           all == Candidates(b, asked)
<1>1. b \in Book /\ Best \in Procs
  BY ReadIs DEF Typed, Procs
<1>2. pc[Best] = "starts" /\ mine' = [mine EXCEPT ![Best] = b]
      /\ UNCHANGED <<file, tmp, fd, holder, asked, latency, answers, seen, clash>>
  BY DEF Listed
<1>3. PICK to \in {"done", "ranked", "sweeps"} :
        Goes(Best, to) /\ order' \in {order, Predicted(b, all), Pool(b, asked)}
  BY DEF Listed
<1>4. order' \in Seq(Servers)
  BY <1>1, <1>3, CandidatesAre, PredictedIs, PoolIs DEF Typed
<1>5. pc' \in [Procs -> States] /\ pc'[Best] = to
  BY <1>1, <1>3 DEF Goes, Typed, States
<1>6. Typed'
  BY <1>1, <1>2, <1>4, <1>5 DEF Typed
<1>7. Silent
  BY <1>2 DEF InPlace
<1>8. Fastest' /\ Silent'
  BY <1>2, <1>7 DEF Fastest, Silent
<1>9. InPlace' /\ Rebased'
  BY <1>3, <1>5, <1>8 DEF InPlace, Rebased
<1>10. Alone'
  BY <1>1, <1>2, <1>3, AloneStays DEF States, Saving
<1>11. QED
  BY <1>6, <1>8, <1>9, <1>10

\* A round of handshakes leaves what is fastest, and the order by it.
LEMMA TimedKeeps ==
  ASSUME Inductive, NEW these \in SUBSET Names(order), NEW to \in {"refines", "ranked"},
         pc[Best] \in {"sweeps", "refines"}, Timed(these, to)
  PROVE  Inductive'
<1> USE DEF Inductive
<1>1. PICK got \in [these -> Handshakes \cup {None}] :
        /\ latency' = [s \in Servers |->
                         IF s \in these THEN Merged(latency[s], got[s]) ELSE latency[s]]
        /\ answers' = [s \in Servers |->
                         IF s \in these THEN answers[s] \cup ({got[s]} \ {None}) ELSE answers[s]]
        /\ order' = Rank(mine[Best], order, latency')
        /\ Goes(Best, to)
        /\ UNCHANGED <<file, tmp, fd, mine, holder, asked, seen, clash>>
  BY DEF Timed
<1>2. /\ Best \in Procs /\ None \notin Handshakes /\ \A n \in Handshakes : n \in Int
      /\ mine[Best] \in Book /\ order \in Seq(Servers)
  <2>1. Best \in Procs
    BY DEF Procs
  <2>2. None \notin Handshakes /\ \A n \in Handshakes : n \in Int
    BY HandshakesAre
  <2>3. QED
    BY <2>1, <2>2 DEF Typed
<1>3. ASSUME NEW s \in Servers
      PROVE  /\ latency'[s] \in Handshakes \cup {None} /\ answers'[s] \in SUBSET Handshakes
             /\ IF answers'[s] = {} THEN latency'[s] = None
                ELSE latency'[s] \in answers'[s] /\ \A n \in answers'[s] : latency'[s] <= n
  <2> DEFINE old == latency[s]
             new == got[s]
  <2>1. /\ old \in Handshakes \cup {None} /\ answers[s] \in SUBSET Handshakes
        /\ IF answers[s] = {} THEN old = None
           ELSE old \in answers[s] /\ \A n \in answers[s] : old <= n
    BY DEF Typed, Times, Fastest
  <2>2. CASE s \notin these
    BY <1>1, <2>1, <2>2
  <2>3. CASE s \in these
    <3>1. new \in Handshakes \cup {None}
      BY <1>1, <2>3
    <3>2. latency'[s] = Merged(old, new) /\ answers'[s] = answers[s] \cup ({new} \ {None})
      BY <1>1, <2>3
    <3> HIDE DEF old, new
    <3>3. CASE new = None
      <4>1. latency'[s] = old /\ answers'[s] = answers[s]
        BY <3>2, <3>3 DEF Merged
      <4>2. QED
        BY <2>1, <4>1
    <3>4. CASE new # None /\ old = None
      <4>1. answers[s] = {} /\ latency'[s] = new /\ answers'[s] = {new} /\ new \in Handshakes
        BY <1>2, <2>1, <3>1, <3>2, <3>4 DEF Merged
      <4>2. QED
        BY <1>2, <4>1
    <3>5. CASE new # None /\ old # None
      <4>1. old \in Int /\ new \in Int /\ new \in Handshakes /\ answers[s] # {}
        BY <1>2, <2>1, <3>1, <3>5
      <4>2. latency'[s] = (IF old <= new THEN old ELSE new) /\ answers'[s] = answers[s] \cup {new}
        BY <3>2, <3>5, <4>1, LeastOfTwo DEF Merged
      <4>3. \A n \in answers[s] : n \in Int
        BY <1>2, <2>1
      <4>4. QED
        BY <2>1, <4>1, <4>2, <4>3
    <3>6. QED
      BY <3>3, <3>4, <3>5
  <2>4. QED
    BY <2>2, <2>3
<1>4. latency' \in Times /\ answers' \in [Servers -> SUBSET Handshakes]
  BY <1>1, <1>3 DEF Times
<1>5. Fastest'
  BY <1>3 DEF Fastest
<1>6. /\ order' \in Seq(Servers) /\ Names(order') = Names(order)
      /\ OrderedBy(mine[Best], order', latency')
  BY <1>1, <1>2, <1>4, RankIs
<1>7. pc' \in [Procs -> States] /\ pc'[Best] = to
  BY <1>1, <1>2 DEF Goes, Typed, States
<1>8. Typed'
  BY <1>1, <1>4, <1>6, <1>7 DEF Typed
<1>9. ASSUME NEW s \in Servers, answers'[s] # {}
      PROVE  s \in Names(order')
  <2>1. CASE s \in these
    BY <1>6, <2>1
  <2>2. CASE s \notin these
    <3>1. answers[s] # {}
      BY <1>1, <1>9, <2>2
    <3>2. QED
      BY <1>6, <3>1 DEF InPlace, Silent
  <2>3. QED
    BY <2>1, <2>2
<1>10. InPlace'
  BY <1>1, <1>6, <1>7, <1>9 DEF InPlace
<1>11. Rebased'
  BY <1>7 DEF Rebased
<1>12. Alone'
  BY <1>1, <1>2, AloneStays DEF States, Saving
<1>13. QED
  BY <1>5, <1>8, <1>10, <1>11, <1>12

\* Where nothing of the leaders answered nothing did.
LEMMA NothingAnswersKeeps ==
  ASSUME Inductive, NothingAnswers
  PROVE  Inductive'
<1> USE DEF Inductive
<1>1. /\ pc[Best] = "refines" /\ Finalists = {} /\ Goes(Best, "ranked")
      /\ order' = Predicted(mine[Best], Candidates(mine[Best], asked))
      /\ UNCHANGED <<file, tmp, fd, mine, holder, asked, latency, answers, seen, clash>>
  BY DEF NothingAnswers
<1>2. Best \in Procs /\ mine[Best] \in Book /\ order \in Seq(Servers)
  BY DEF Procs, Typed
<1>3. Silent
  <2> SUFFICES ASSUME NEW s \in Servers, answers[s] # {}
               PROVE  FALSE
    BY DEF Silent
  <2>1. PICK i \in DOMAIN order : order[i] = s
    BY <1>1 DEF InPlace, Names
  <2>2. latency[order[i]] # None
    <3>1. answers[s] \in SUBSET Handshakes /\ latency[s] \in answers[s]
      BY DEF Typed, Fastest
    <3>2. QED
      BY <2>1, <3>1, MeasuringAssumption DEF MeasuringAssumption
  <2>3. 1 \in DOMAIN order /\ DOMAIN order \subseteq Nat
    BY <1>2, <2>1
  <2>4. latency[order[1]] # None
    <3>1. CASE i = 1
      BY <2>2, <3>1
    <3>2. CASE 1 < i
      BY <1>1, <2>2, <2>3, <3>2 DEF InPlace, OrderedBy
    <3>3. QED
      BY <1>2, <2>1, <3>1, <3>2
  <2>5. 1 <= Refine
    BY MeasuringAssumption DEF MeasuringAssumption
  <2>6. order[1] \in Finalists
    BY <2>3, <2>4, <2>5 DEF Finalists
  <2>7. QED
    BY <1>1, <2>6
<1>4. order' \in Seq(Servers)
  BY <1>1, <1>2, CandidatesAre, PredictedIs
<1>5. pc' \in [Procs -> States] /\ pc'[Best] = "ranked"
  BY <1>1, <1>2 DEF Goes, Typed, States
<1>6. Typed'
  BY <1>1, <1>4, <1>5 DEF Typed
<1>7. Fastest' /\ Silent'
  BY <1>1, <1>3 DEF Fastest, Silent
<1>8. InPlace' /\ Rebased'
  BY <1>5, <1>7 DEF InPlace, Rebased
<1>9. Alone'
  BY <1>1, <1>2, AloneStays DEF States, Saving
<1>10. QED
  BY <1>6, <1>7, <1>8, <1>9

\* best takes the file in again, and records beside what connects have.
LEMMA RecordsKeeps ==
  ASSUME Inductive, Records
  PROVE  Inductive'
<1> USE DEF Inductive
<1> DEFINE list == Truncated(order, Limit)
           b == Read(file)
           stats == [s \in Servers |-> IF Informative(order, latency) /\ s \in Reachable(list, latency)
                                       THEN Probed(b.stats[s], latency[s]) ELSE b.stats[s]]
           book == [stats |-> stats, ranked |-> ConnectTargets(list, latency)]
<1>1. /\ mine' = [mine EXCEPT ![Best] = book] /\ seen' = b /\ Goes(Best, "saves")
      /\ UNCHANGED <<file, tmp, fd, holder, asked, order, latency, answers, clash>>
  BY DEF Records, Reloaded
<1>2. pc[Best] = "ranked"
  BY DEF Records
<1>3. b \in Book /\ Best \in Procs /\ order \in Seq(Servers) /\ latency \in Times
  BY ReadIs DEF Typed, Procs
<1>4. list \in Seq(Servers)
  BY <1>3, TruncatedIs, MeasuringAssumption DEF MeasuringAssumption
<1> HIDE DEF list, b
<1>5. ConnectTargets(list, latency) \in Seq(Servers)
  BY <1>4, KeptIs DEF ConnectTargets
<1>6. ASSUME NEW s \in Servers
      PROVE  /\ stats[s] \in Stat
             /\ stats[s].attempts = b.stats[s].attempts /\ stats[s].blocked = b.stats[s].blocked
  <2>1. b.stats[s] \in Stat
    BY <1>3 DEF Book
  <2>2. CASE s \in Reachable(list, latency)
    <3>1. latency[s] \in Nat
      BY <1>3, <1>4, <2>2, ReachableIs
    <3>2. QED
      BY <2>1, <3>1, ProbedKeeps
  <2>3. CASE s \notin Reachable(list, latency)
    BY <2>1, <2>3
  <2>4. QED
    BY <2>2, <2>3
<1>7. stats \in [Servers -> Stat]
  BY <1>6
<1>8. \A s \in Servers : /\ stats[s].attempts = b.stats[s].attempts
                         /\ stats[s].blocked = b.stats[s].blocked
  BY <1>6
<1> HIDE DEF stats
<1>9. book \in Book /\ Agrees(book, b)
  BY <1>5, <1>7, <1>8 DEF Book, Agrees
<1> HIDE DEF book
<1>10. pc' \in [Procs -> States] /\ pc'[Best] = "saves"
  BY <1>1, <1>3 DEF Goes, Typed, States
<1>11. mine' \in [Procs -> Book] /\ mine'[Best] = book
  BY <1>1, <1>3, <1>9 DEF Typed
<1>12. Typed'
  BY <1>1, <1>3, <1>10, <1>11 DEF Typed
<1>13. Fastest' /\ InPlace'
  BY <1>1, <1>10 DEF Fastest, InPlace
<1>14. Rebased'
  BY <1>1, <1>3, <1>9, <1>11 DEF Rebased
<1>15. Alone'
  BY <1>1, <1>2, <1>3, AloneStays DEF States, Saving
<1>16. QED
  BY <1>12, <1>13, <1>14, <1>15

\* A connect starts, queues and tries: best is where it was.
LEMMA ConnectKeeps ==
  ASSUME Inductive, NEW c \in Connects, Starts(c) \/ GetsLock(c) \/ Tries(c)
  PROVE  Inductive'
<1> USE DEF Inductive
<1>1. c \in Procs /\ Best \in Procs /\ c # Best
  BY MeasuringAssumption DEF MeasuringAssumption, Procs
<1>2. PICK to \in {"queues", "tries", "saves"} : Goes(c, to)
  BY DEF Starts, GetsLock, Tries
<1>3. /\ UNCHANGED <<file, tmp, fd, asked, order, latency, answers, seen, clash>>
      /\ pc[c] \in {"starts", "queues", "tries"} /\ holder' \in Procs \cup {None}
  BY <1>1 DEF Starts, GetsLock, Tries, Typed
<1>4. mine' \in [Procs -> Book] /\ \A q \in Procs : q # c => mine'[q] = mine[q]
  <2>1. CASE Starts(c)
    <3>1. Read(file) \in Book /\ mine' = [mine EXCEPT ![c] = Read(file)]
      BY <2>1, ReadIs DEF Starts, Typed
    <3>2. QED
      BY <1>1, <3>1 DEF Typed
  <2>2. CASE GetsLock(c)
    BY <2>2 DEF GetsLock, Typed
  <2>3. CASE Tries(c)
    <3>1. PICK s \in Servers, carried \in BOOLEAN :
            mine' = [mine EXCEPT ![c].stats[s] = Tried(@, carried)]
      <4>1. RankedTargets(mine[c]) \cup WorkingList(mine[c]) \subseteq Servers
        <5>1. mine[c].ranked \in Seq(Servers)
          BY <1>1 DEF Typed, Book
        <5>2. QED
          BY <5>1 DEF RankedTargets, WorkingList
      <4>2. QED
        BY <2>3, <4>1 DEF Tries
    <3> DEFINE book == mine[c]
               stat == book.stats[s]
               new == Tried(stat, carried)
    <3>2. book \in Book
      BY <1>1 DEF Typed
    <3> HIDE DEF book
    <3>3. stat \in Stat
      BY <3>2 DEF Book
    <3> HIDE DEF stat
    <3>4. new \in Stat
      <4>1. stat.attempts + 1 \in Nat /\ stat.carried + 1 \in Nat /\ stat.carried \in Nat
        BY <3>3 DEF Stat
      <4>2. CASE carried
        BY <3>3, <4>1, <4>2 DEF Stat, Tried
      <4>3. CASE ~carried
        BY <3>3, <4>1, <4>3 DEF Stat, Tried
      <4>4. QED
        BY <4>2, <4>3
    <3>5. mine'[c] = [book EXCEPT !.stats = [book.stats EXCEPT ![s] = new]]
      <4>1. mine' = [mine EXCEPT ![c] = [mine[c] EXCEPT !.stats = [mine[c].stats EXCEPT ![s] = new]]]
        BY <3>1 DEF book, stat
      <4>2. mine \in [Procs -> Book]
        BY DEF Typed
      <4> HIDE DEF new
      <4>3. QED
        BY <1>1, <4>1, <4>2 DEF book
    <3>6. \A q \in Procs : q # c => mine'[q] = mine[q]
      BY <1>1, <3>1 DEF Typed
    <3> HIDE DEF new
    <3>7. [book EXCEPT !.stats = [book.stats EXCEPT ![s] = new]] \in Book
      BY <3>2, <3>4 DEF Book
    <3>8. mine' = [q \in Procs |-> mine'[q]]
      BY <3>1 DEF Typed
    <3>9. QED
      BY <1>1, <3>5, <3>6, <3>7, <3>8 DEF Typed
  <2>4. QED
    BY <2>1, <2>2, <2>3
<1>5. pc' \in [Procs -> States] /\ pc'[Best] = pc[Best] /\ mine'[Best] = mine[Best]
  BY <1>1, <1>2, <1>4 DEF Goes, Typed, States
<1>6. Typed'
  BY <1>3, <1>4, <1>5 DEF Typed
<1>7. Fastest' /\ InPlace' /\ Rebased'
  BY <1>3, <1>5, BestStays
<1>8. Alone'
  BY <1>1, <1>2, <1>3, <1>4, AloneStays DEF States, Saving
<1>9. QED
  BY <1>6, <1>7, <1>8

\* Whoever saves, what best has measured and is to save stands.
LEMMA SavingStays ==
  ASSUME Typed, Fastest, InPlace, Rebased, NEW p \in Procs, pc[p] \in {"saves", "writes", "renames"},
         NEW to \in {"writes", "renames", "done"}, Goes(p, to),
         UNCHANGED <<mine, order, latency, answers, seen>>
  PROVE  Fastest' /\ InPlace' /\ Rebased' /\ pc' \in [Procs -> States]
<1>1. Best \in Procs
  BY DEF Procs
<1>2. pc' \in [Procs -> States] /\ pc'[p] = to /\ \A q \in Procs : q # p => pc'[q] = pc[q]
  BY DEF Goes, Typed, States
<1>3. CASE p # Best
  BY <1>1, <1>2, <1>3, BestStays
<1>4. CASE p = Best
  BY <1>2, <1>4 DEF Fastest, InPlace, Rebased
<1>5. QED
  BY <1>2, <1>3, <1>4

\* A save in its three steps.
LEMMA SavesKeep ==
  ASSUME Inductive, NEW p \in Procs, Opens(p) \/ Writes(p) \/ Renames(p)
  PROVE  Inductive'
<1> USE DEF Inductive
<1>1. CASE Opens(p)
  <2>1. /\ pc[p] = "saves" /\ tmp' = Torn /\ fd' = [fd EXCEPT ![p] = "tmp"]
        /\ clash' = (clash \/ tmp # None) /\ Goes(p, "writes")
        /\ UNCHANGED <<file, mine, holder, asked, order, latency, answers, seen>>
    BY <1>1 DEF Opens
  <2>2. Fastest' /\ InPlace' /\ Rebased' /\ pc' \in [Procs -> States]
    BY <2>1, SavingStays
  <2>3. Typed'
    BY <2>1, <2>2 DEF Typed
  <2>4. ASSUME ~clash'
        PROVE  \A q \in Procs : pc[q] \notin Saving
    <3>1. tmp = None /\ ~clash
      BY <2>1, <2>4
    <3>2. None # Torn /\ None \notin Book
      BY MeasuringAssumption DEF MeasuringAssumption
    <3>3. \A q \in Procs : mine[q] \in Book
      BY DEF Typed
    <3>4. QED
      BY <3>1, <3>2, <3>3 DEF Alone, Saving
  <2>5. pc'[p] = "writes" /\ fd'[p] = "tmp" /\ \A q \in Procs : q # p => pc'[q] = pc[q]
    BY <2>1 DEF Goes, Typed
  <2>6. Alone'
    BY <2>1, <2>4, <2>5 DEF Alone, Saving
  <2>7. QED
    BY <2>2, <2>3, <2>6
<1>2. CASE Writes(p)
  <2>1. /\ pc[p] = "writes" /\ fd' = [fd EXCEPT ![p] = None] /\ Goes(p, "renames")
        /\ UNCHANGED <<mine, holder, asked, order, latency, answers, seen, clash>>
    BY <1>2 DEF Writes
  <2>2. PICK content \in {mine[p], Torn} :
          /\ content = Torn => (IF fd[p] = "tmp" THEN tmp ELSE file) # Torn
          /\ IF fd[p] = "tmp" THEN tmp' = content /\ UNCHANGED file
                              ELSE file' = content /\ UNCHANGED tmp
    <3>1. mine[p] \in Book /\ Torn \notin Book
      BY MeasuringAssumption DEF MeasuringAssumption, Typed
    <3>2. QED
      BY <1>2, <3>1 DEF Writes
  <2>3. Fastest' /\ InPlace' /\ Rebased' /\ pc' \in [Procs -> States]
    BY <2>1, SavingStays
  <2>4. Typed'
    BY <2>1, <2>2, <2>3 DEF Typed
  <2>5. pc'[p] = "renames" /\ \A q \in Procs : q # p => pc'[q] = pc[q]
    BY <2>1 DEF Goes, Typed
  <2>6. ASSUME ~clash
        PROVE  tmp' = mine[p] /\ \A q \in Procs : q # p => pc[q] \notin Saving
    BY <2>1, <2>2, <2>6 DEF Alone, Saving
  <2>7. Alone'
    BY <2>1, <2>5, <2>6 DEF Alone, Saving
  <2>8. QED
    BY <2>3, <2>4, <2>7
<1>3. CASE Renames(p)
  <2>1. /\ pc[p] = "renames" /\ Goes(p, "done")
        /\ file' \in {file, tmp} /\ tmp' \in {tmp, None} /\ holder' \in {holder, None}
        /\ tmp = None => UNCHANGED file
        /\ fd' = fd \/ fd' = [q \in Procs |-> IF fd[q] = "tmp" THEN "file" ELSE fd[q]]
        /\ UNCHANGED <<mine, asked, order, latency, answers, seen, clash>>
    BY <1>3 DEF Renames
  <2>2. Fastest' /\ InPlace' /\ Rebased' /\ pc' \in [Procs -> States]
    BY <2>1, SavingStays
  <2>3. fd' \in [Procs -> {None, "tmp", "file"}]
    BY <2>1 DEF Typed
  <2>4. Typed'
    BY <2>1, <2>2, <2>3 DEF Typed
  <2>5. pc'[p] = "done" /\ \A q \in Procs : q # p => pc'[q] = pc[q]
    BY <2>1 DEF Goes, Typed
  <2>6. ASSUME ~clash
        PROVE  \A q \in Procs : pc'[q] \notin Saving
    BY <2>1, <2>5, <2>6 DEF Alone, Saving
  <2>7. Alone'
    BY <2>1, <2>6 DEF Alone, Saving
  <2>8. QED
    BY <2>2, <2>4, <2>7
<1>4. QED
  BY <1>1, <1>2, <1>3

\* The invariant, always.
THEOREM InductiveAlways == Spec => []Inductive
<1>1. Inductive /\ [Next]_vars => Inductive'
  <2> SUFFICES ASSUME Inductive, [Next]_vars
               PROVE  Inductive'
    OBVIOUS
  <2>1. CASE Sweeps
    BY <2>1, TimedKeeps DEF Sweeps
  <2>2. CASE Refines
    <3>1. Finalists \subseteq Names(order)
      BY DEF Finalists, Names
    <3>2. QED
      BY <2>2, <3>1, TimedKeeps DEF Refines
  <2>3. CASE UNCHANGED vars
    BY <2>3 DEF vars, Inductive, Typed, Fastest, Silent, InPlace, Rebased, Alone
  <2>4. QED
    BY <2>1, <2>2, <2>3, ListedKeeps, NothingAnswersKeeps, RecordsKeeps, ConnectKeeps, SavesKeep
       DEF Next, AllDone
<1>2. QED
  BY <1>1, StartsRight, PTL DEF Spec

\* RankedByBestSample, for every list, every book and every limit: the list best
\* arrives at is by the fastest answer each server ever gave (rank.rs rank,
\* probe.rs measure, probe_candidate).
THEOREM RankedByBestSampleAlways == Spec => []RankedByBestSample
<1>1. Inductive => RankedByBestSample
  <2> SUFFICES ASSUME Inductive, pc[Best] = "ranked", NEW some \in Servers, answers[some] # {}
               PROVE  LET fastest == [s \in Servers |-> IF answers[s] = {} THEN None ELSE Least(answers[s])]
                      IN latency = fastest /\ OrderedBy(mine[Best], order, fastest)
    BY Zenon DEF RankedByBestSample, OrderedBy
  <2> DEFINE fastest == [s \in Servers |-> IF answers[s] = {} THEN None ELSE Least(answers[s])]
  <2>1. OrderedBy(mine[Best], order, latency)
    BY DEF Inductive, InPlace, Silent
  <2>2. ASSUME NEW s \in Servers
        PROVE  latency[s] = fastest[s]
    <3>1. CASE answers[s] = {}
      BY <3>1 DEF Inductive, Fastest
    <3>2. CASE answers[s] # {}
      <4>1. latency[s] \in answers[s] /\ \A n \in answers[s] : latency[s] <= n
        BY <3>2 DEF Inductive, Fastest
      <4>2. \A n \in answers[s] : n \in Int
        <5>1. answers[s] \in SUBSET Handshakes
          BY DEF Inductive, Typed
        <5>2. \A n \in Handshakes : n \in Int
          BY HandshakesAre
        <5>3. QED
          BY <5>1, <5>2
      <4>3. Least(answers[s]) = latency[s]
        BY <4>1, <4>2 DEF Least
      <4>4. QED
        BY <3>2, <4>3
    <3>3. QED
      BY <3>1, <3>2
  <2>3. latency = fastest
    BY <2>2 DEF Inductive, Typed, Times
  <2>4. QED
    BY <2>1, <2>3, Zenon
<1>2. QED
  BY <1>1, InductiveAlways, PTL

\* MeasuringLosesNothing, for every number of connects: what they recorded while
\* best measured is in the file best leaves, unless two saves were open at once
\* (session.rs reload_state, state.rs save).
THEOREM MeasuringLosesNothingAlways == Spec => MeasuringLosesNothing
<1>1. ASSUME Inductive, Next, pc[Best] = "renames", pc'[Best] = "done", ~clash, NEW s \in Servers
      PROVE  /\ file'.stats[s].attempts = seen.stats[s].attempts
             /\ file'.stats[s].blocked = seen.stats[s].blocked
  <2>1. Best \in Procs /\ pc \in [Procs -> States] /\ mine[Best] \in Book
    BY <1>1 DEF Inductive, Typed, Procs
  <2>2. Renames(Best)
    <3>1. \A c \in Connects : c # Best
      BY MeasuringAssumption DEF MeasuringAssumption
    <3>2. QED
      BY <1>1, <2>1, <3>1 DEF Next, Listed, Sweeps, Refines, NothingAnswers, Records, Starts, GetsLock,
                              Tries, Opens, Writes, Renames, AllDone, Goes, vars
  <2>3. tmp = mine[Best] /\ tmp # None
    BY <1>1, <2>1, MeasuringAssumption DEF Inductive, Alone, MeasuringAssumption
  <2>4. file' = mine[Best]
    BY <2>2, <2>3 DEF Renames
  <2>5. QED
    BY <1>1, <2>4 DEF Inductive, Rebased, Agrees
<1>2. Inductive /\ [Next]_vars =>
        [pc[Best] = "renames" /\ pc'[Best] = "done" /\ ~clash =>
           \A s \in Servers : /\ file'.stats[s].attempts = seen.stats[s].attempts
                              /\ file'.stats[s].blocked = seen.stats[s].blocked]_vars
  BY <1>1
<1>3. QED
  BY <1>2, InductiveAlways, PTL DEF Spec, MeasuringLosesNothing

===============================================================================
