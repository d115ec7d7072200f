--------------------------- MODULE AutoProxies_proofs ---------------------------
(***************************************************************************)
(* Theorems about the search for free proxies, for any lists, options and  *)
(* number of workers: no socket is left, concurrent workers hand out every *)
(* candidate once, and the best of those that answer are kept.             *)
(*                                                                         *)
(* The candidates up to `next` have been handed out, the others are new;   *)
(* what is in flight and what has been answered add up to those handed out.*)
(***************************************************************************)
EXTENDS AutoProxies, SequenceTheorems, FiniteSetTheorems, TLAPS

\* The loops over lines, over proxies and over lists are folds.
Parsing == INSTANCE FoldTheory WITH
  Op <- LAMBDA p, out, l :
          IF l.valid
            THEN Append(out, [scheme |-> IF l.scheme = "none" THEN p.scheme ELSE l.scheme,
                              addr   |-> l.addr])
            ELSE out
Noting == INSTANCE FoldTheory WITH
  Op <- LAMBDA none, o, p : IF p \in ToSet(o) THEN o ELSE Append(o, p)
Merging == INSTANCE FoldTheory WITH Op <- LAMBDA none, out, list : FirstSeen(out, list)

Seen(p) == {i \in DOMAIN p : p[i] # "new"}

\* The options are those that were given; a list is what a provider has sent.
Given ==
  /\ opts \in SearchOptions
  /\ lists = [k \in DOMAIN opts.providers |-> lists[k]]
  /\ \A k \in DOMAIN opts.providers : lists[k] \in {ParseProxyList(opts.providers[k]), <<>>}

\* The state of the candidates has its type.
Typed ==
  /\ search \in {"idle", "fetching", "probing", "done"}
  /\ Len(candidates) \in Nat
  /\ probe \in [1..Len(candidates) -> Probes]
  /\ next \in Nat
  /\ checked \in Nat

\* Candidates are handed out in order, and only those whose tunnel is open and
\* whose server was asked have a socket.
HandedOut ==
  /\ \A i \in DOMAIN probe : probe[i] = "new" <=> i > next
  /\ sockets \subseteq {i \in DOMAIN probe : probe[i] = "status"}

\* Before the probes there is nothing; after them nothing is in flight.
Staged ==
  /\ search \in {"idle", "fetching"} => candidates = <<>> /\ checked = 0
  /\ search = "done" => InFlight(probe) = {}

\* What is counted.
Counted ==
  /\ Cardinality(InFlight(probe)) <= opts.concurrency
  /\ checked + Cardinality(InFlight(probe)) = Cardinality(Seen(probe))
  /\ search = "done" /\ opts.validate /\ Len(picked) < Need => checked = Len(candidates)

SearchInv == Given /\ Typed /\ HandedOut /\ Staged /\ Counted

\* Lists in which no proxy comes twice.
Distinct == {s \in Seq(ProxyUrls) : \A i, j \in DOMAIN s : s[i] = s[j] => i = j}

\* What a search keeps of `ok`: it has been measured, and no other was faster.
BestOf(cs, ok, lat, kept) ==
  LET indexOf(p) == CHOOSE i \in DOMAIN cs : cs[i] = p
      chosen == {indexOf(kept[n]) : n \in DOMAIN kept}
  IN /\ Cardinality(chosen) = Len(kept)
     /\ chosen \subseteq ok
     /\ \A i \in chosen, j \in ok \ chosen : lat[i] <= lat[j]

\* The candidates have no doubles, each has a number for its latency, and what the
\* search has returned are the best.
PickInv ==
  /\ candidates \in Distinct
  /\ latency \in [1..Len(candidates) -> Nat]
  /\ search = "done" /\ opts.validate => BestOf(candidates, usable, latency, picked)

-----------------------------------------------------------------------------
(* Sequences and numbers                                                   *)

\* The options are positive.
LEMMA OptionsPositive ==
  ASSUME NEW o \in SearchOptions
  PROVE  /\ o.max \in Nat /\ o.perProxy \in Nat /\ o.overfetch \in Nat
         /\ o.maxProbes \in Nat /\ o.concurrency \in Nat
         /\ o.max > 0 /\ o.perProxy > 0 /\ o.overfetch > 0
         /\ o.maxProbes > 0 /\ o.concurrency > 0
BY SearchAssumption

\* A function on 1..n is a sequence of length n.
LEMMA LenOfFunction ==
  ASSUME NEW n \in Nat, NEW S, NEW f \in [1..n -> S]
  PROVE  f \in Seq(S) /\ Len(f) = n
<1>1. f \in Seq(S)
  BY SeqDef
<1> QED BY <1>1, LenProperties

\* slice(0, n): the first n elements.
LEMMA UptoProperties ==
  ASSUME NEW S, NEW s \in Seq(S), NEW n \in Nat
  PROVE  /\ Upto(s, n) \in Seq(S)
         /\ Len(Upto(s, n)) \in Nat
         /\ Len(Upto(s, n)) = IF n < Len(s) THEN n ELSE Len(s)
         /\ \A i \in 1..Len(Upto(s, n)) : i \in 1..Len(s) /\ Upto(s, n)[i] = s[i]
<1> DEFINE m == IF n < Len(s) THEN n ELSE Len(s)
<1>1. Len(s) \in Nat /\ m \in Nat /\ m <= Len(s)
  BY LenProperties
<1>2. \A i \in 1..m : i \in 1..Len(s) /\ s[i] \in S
  BY <1>1, ElementOfSeq
<1>3. Upto(s, n) = SubSeq(s, 1, m)
  BY DEF Upto
<1> HIDE DEF m
<1>4. /\ SubSeq(s, 1, m) \in Seq(S)
      /\ Len(SubSeq(s, 1, m)) = IF 1 <= m THEN m - 1 + 1 ELSE 0
      /\ \A i \in 1..(m - 1 + 1) : SubSeq(s, 1, m)[i] = s[1 + i - 1]
  BY <1>1, <1>2, SubSeqProperties
<1>5. Len(Upto(s, n)) = m
  BY <1>1, <1>3, <1>4
<1>6. \A i \in 1..m : Upto(s, n)[i] = s[i]
  BY <1>1, <1>3, <1>4
<1> QED BY <1>1, <1>2, <1>3, <1>4, <1>5, <1>6 DEF m

\* The number of proxies that a search needs is a positive number.
LEMMA NeedTyped ==
  ASSUME opts \in SearchOptions
  PROVE  Need \in Nat /\ Need > 0
<1>1. /\ opts.max \in Nat /\ opts.overfetch \in Nat /\ opts.perProxy \in Nat /\ opts.perProxy > 0
  BY OptionsPositive
<1>2. opts.max * opts.overfetch \in Nat
  BY <1>1
<1>3. CeilDiv(opts.max * opts.overfetch, opts.perProxy) \in Int
  BY <1>1, <1>2 DEF CeilDiv
<1> QED BY <1>3 DEF Need, AtLeastOne

\* pickValidated() keeps as many as there are, up to what is asked for.
LEMMA PickedLen ==
  ASSUME NEW ok, IsFiniteSet(ok), NEW lat, NEW max \in Nat
  PROVE  Len(PickValidated(ok, lat, max)) =
           IF max < Cardinality(ok) THEN max ELSE Cardinality(ok)
<1> DEFINE rank(i) == Cardinality({j \in ok : Faster(lat, j, i)})
           f == [n \in 1..Cardinality(ok) |-> candidates[CHOOSE i \in ok : rank(i) = n - 1]]
           S == {f[n] : n \in 1..Cardinality(ok)}
<1>1. Cardinality(ok) \in Nat
  BY FS_CardinalityType
<1>2. f \in [1..Cardinality(ok) -> S]
  OBVIOUS
<1>3. PickValidated(ok, lat, max) = Upto(f, max)
  BY DEF PickValidated
<1> HIDE DEF f, S
<1>4. f \in Seq(S) /\ Len(f) = Cardinality(ok)
  BY <1>1, <1>2, LenOfFunction
<1> QED BY <1>3, <1>4, UptoProperties

\* The loops of the search are folds.
LEMMA LoopsAreFolds ==
  /\ \A p : ParseProxyList(p) = Parsing!Fold(p, <<>>, p.lines)
  /\ \A out, list : FirstSeen(out, list) = Noting!Fold(0, out, list)
  /\ \A ls : DedupeProxies(ls) = Merging!Fold(0, <<>>, ls)
<1>1. \A p : ParseProxyList(p) = Parsing!Fold(p, <<>>, p.lines)
  BY Zenon DEF ParseProxyList, Parsing!Fold, FoldLeft, Parsing!FoldLeft,
               MapThenFoldSet, Parsing!MapThenFoldSet, Max, Parsing!Max
<1>2. \A out, list : FirstSeen(out, list) = Noting!Fold(0, out, list)
  BY Zenon DEF FirstSeen, Noting!Fold, FoldLeft, Noting!FoldLeft,
               MapThenFoldSet, Noting!MapThenFoldSet, Max, Noting!Max,
               ToSet, Noting!ToSet
<1>3. \A ls : DedupeProxies(ls) = Merging!Fold(0, <<>>, ls)
  BY Zenon DEF DedupeProxies, Merging!Fold, FoldLeft, Merging!FoldLeft,
               MapThenFoldSet, Merging!MapThenFoldSet, Max, Merging!Max
<1> QED BY <1>1, <1>2, <1>3

\* parseProxyList(): what it returns are proxies.
LEMMA ParsedTyped ==
  ASSUME NEW p \in ProxyLists
  PROVE  ParseProxyList(p) \in Seq(ProxyUrls)
<1> DEFINE I == Seq(ProxyUrls)
<1>1. <<>> \in I
  BY EmptySeq
<1>2. ASSUME NEW out \in I, NEW l \in ListLines
      PROVE  (IF l.valid
                THEN Append(out, [scheme |-> IF l.scheme = "none" THEN p.scheme ELSE l.scheme,
                                  addr   |-> l.addr])
                ELSE out) \in I
  <2>1. [scheme |-> IF l.scheme = "none" THEN p.scheme ELSE l.scheme, addr |-> l.addr] \in ProxyUrls
    BY DEF ProxyLists, ListLines, ProxyUrls
  <2> QED BY <2>1, AppendProperties
<1>3. \A s \in Seq(ListLines) : Parsing!Fold(p, <<>>, s) \in I
  <2> HIDE DEF I
  <2> QED BY <1>1, <1>2, Parsing!FoldStays
<1> QED BY <1>3, LoopsAreFolds DEF ProxyLists

\* A list without doubles stays one when another list is added to it.
LEMMA FirstSeenTyped ==
  ASSUME NEW out \in Distinct, NEW list \in Seq(ProxyUrls)
  PROVE  FirstSeen(out, list) \in Distinct
<1>1. ASSUME NEW o \in Distinct, NEW p \in ProxyUrls
      PROVE  (IF p \in ToSet(o) THEN o ELSE Append(o, p)) \in Distinct
  <2> SUFFICES ASSUME p \notin ToSet(o) PROVE Append(o, p) \in Distinct
    OBVIOUS
  <2> DEFINE a == Append(o, p)
  <2>1. /\ o \in Seq(ProxyUrls) /\ \A i, j \in DOMAIN o : o[i] = o[j] => i = j
        /\ \A i \in DOMAIN o : o[i] # p
    BY DEF Distinct, ToSet
  <2>2. /\ a \in Seq(ProxyUrls) /\ Len(o) \in Nat /\ Len(a) = Len(o) + 1
        /\ a[Len(o) + 1] = p /\ \A i \in 1..Len(o) : a[i] = o[i]
        /\ DOMAIN o = 1..Len(o) /\ DOMAIN a = 1..(Len(o) + 1)
    BY <2>1, AppendProperties, LenProperties
  <2> HIDE DEF a
  <2>3. ASSUME NEW i \in DOMAIN a, NEW j \in DOMAIN a, a[i] = a[j] PROVE i = j
    <3>1. \A k \in DOMAIN a : k = Len(o) + 1 \/ k \in 1..Len(o)
      BY <2>2
    <3> QED BY <2>1, <2>2, <2>3, <3>1
  <2>4. a \in Distinct
    BY <2>2, <2>3 DEF Distinct
  <2> QED BY <2>4 DEF a
<1>2. \A s \in Seq(ProxyUrls) : Noting!Fold(0, out, s) \in Distinct
  BY <1>1, Noting!FoldStays DEF ToSet, Noting!ToSet
<1> QED BY <1>2, LoopsAreFolds

\* dedupeProxies(): what it returns has no doubles, whichever providers answer.
LEMMA MergedDistinct ==
  ASSUME NEW ls \in Seq(Seq(ProxyUrls))
  PROVE  DedupeProxies(ls) \in Distinct
<1>1. <<>> \in Distinct
  <2>1. <<>> \in Seq(ProxyUrls) /\ DOMAIN <<>> = {}
    OBVIOUS
  <2> QED BY <2>1 DEF Distinct
<1>2. \A out \in Distinct, list \in Seq(ProxyUrls) : FirstSeen(out, list) \in Distinct
  BY FirstSeenTyped
<1>3. \A s \in Seq(Seq(ProxyUrls)) : Merging!Fold(0, <<>>, s) \in Distinct
  BY <1>1, <1>2, Merging!FoldStays
<1> QED BY <1>3, LoopsAreFolds

\* Whichever providers have answered, the union of their lists has no doubles.
LEMMA FetchedDistinct ==
  ASSUME NEW o \in SearchOptions, NEW ls,
         ls = [k \in DOMAIN o.providers |-> ls[k]],
         \A k \in DOMAIN o.providers : ls[k] \in {ParseProxyList(o.providers[k]), <<>>}
  PROVE  DedupeProxies(ls) \in Distinct
<1> DEFINE n == Len(o.providers)
<1>1. o.providers \in Seq(ProxyLists) /\ n \in Nat /\ DOMAIN o.providers = 1..n
  BY SearchAssumption, LenProperties
<1>2. \A k \in 1..n : ls[k] \in Seq(ProxyUrls)
  <2> SUFFICES ASSUME NEW k \in 1..n PROVE ls[k] \in Seq(ProxyUrls)
    OBVIOUS
  <2>1. o.providers[k] \in ProxyLists
    BY <1>1, ElementOfSeq
  <2>2. ParseProxyList(o.providers[k]) \in Seq(ProxyUrls)
    BY <2>1, ParsedTyped
  <2>3. <<>> \in Seq(ProxyUrls)
    BY EmptySeq
  <2> QED BY <1>1, <2>2, <2>3
<1> HIDE DEF n
<1>3. ls \in [1..n -> Seq(ProxyUrls)]
  BY <1>1, <1>2
<1>4. ls \in Seq(Seq(ProxyUrls))
  BY <1>1, <1>3, LenOfFunction
<1> QED BY <1>4, MergedDistinct

\* The candidates are finitely many.
LEMMA FlightFinite ==
  ASSUME NEW n \in Nat, NEW p \in [1..n -> Probes]
  PROVE  /\ IsFiniteSet(InFlight(p)) /\ Cardinality(InFlight(p)) \in Nat
         /\ IsFiniteSet(Seen(p)) /\ Cardinality(Seen(p)) \in Nat
<1>1. IsFiniteSet(1..n)
  BY FS_Interval
<1>2. InFlight(p) \subseteq 1..n /\ Seen(p) \subseteq 1..n
  BY DEF InFlight, Seen
<1> QED BY <1>1, <1>2, FS_Subset, FS_CardinalityType

-----------------------------------------------------------------------------
(* The choice                                                              *)

\* A set of pairs that orders a set strictly and totally, and how many come before each.
Orders(B, ok) ==
  /\ \A i \in ok : <<i, i>> \notin B
  /\ \A i, j, k \in ok : <<i, j>> \in B /\ <<j, k>> \in B => <<i, k>> \in B
  /\ \A i, j \in ok : i # j => <<i, j>> \in B \/ <<j, i>> \in B
Ranks(B, ok) == [i \in ok |-> Cardinality({j \in ok : <<j, i>> \in B})]

\* Ranks in a strict total order of finitely many are 0 to one less than their number.
LEMMA RanksCount ==
  ASSUME NEW ok, IsFiniteSet(ok), NEW B, Orders(B, ok), NEW rank, rank = Ranks(B, ok)
  PROVE  /\ Cardinality(ok) \in Nat
         /\ \A i \in ok : rank[i] \in 0..(Cardinality(ok) - 1)
         /\ \A i, j \in ok : <<i, j>> \in B <=> rank[i] < rank[j]
         /\ \A i, j \in ok : rank[i] = rank[j] => i = j
         /\ \A k \in 0..(Cardinality(ok) - 1) : \E i \in ok : rank[i] = k
<1> DEFINE n == Cardinality(ok)
           below(i) == {j \in ok : <<j, i>> \in B}
<1> USE DEF Orders, Ranks
<1>1. n \in Nat
  BY FS_CardinalityType
<1>2. \A i \in ok : /\ IsFiniteSet(below(i)) /\ Cardinality(below(i)) \in Nat
                    /\ rank[i] = Cardinality(below(i))
  <2> SUFFICES ASSUME NEW i \in ok
               PROVE  IsFiniteSet(below(i)) /\ Cardinality(below(i)) \in Nat
                      /\ rank[i] = Cardinality(below(i))
    OBVIOUS
  <2>1. below(i) \subseteq ok /\ rank[i] = Cardinality(below(i))
    OBVIOUS
  <2> HIDE DEF below
  <2> QED BY <2>1, FS_Subset, FS_CardinalityType
<1>3. \A i \in ok : rank[i] \in 0..(n - 1)
  <2> SUFFICES ASSUME NEW i \in ok PROVE rank[i] \in 0..(n - 1)
    OBVIOUS
  <2>1. below(i) \subseteq ok /\ below(i) # ok
    OBVIOUS
  <2> DEFINE b == below(i)
  <2> HIDE DEF below, b
  <2>2. Cardinality(b) <= Cardinality(ok) /\ Cardinality(b) # Cardinality(ok)
    BY <2>1, FS_Subset DEF b
  <2>3. Cardinality(b) \in Nat /\ rank[i] = Cardinality(b)
    BY <1>2 DEF b
  <2> HIDE DEF n
  <2> QED BY <1>1, <2>2, <2>3 DEF n
<1>4. \A i, j \in ok : <<i, j>> \in B => rank[i] < rank[j]
  <2> SUFFICES ASSUME NEW i \in ok, NEW j \in ok, <<i, j>> \in B PROVE rank[i] < rank[j]
    OBVIOUS
  <2>1. below(i) \subseteq below(j) /\ i \in below(j) /\ i \notin below(i)
    OBVIOUS
  <2>2. below(i) \subseteq below(j) /\ below(i) # below(j)
    BY <2>1
  <2> DEFINE a == below(i)
             b == below(j)
  <2> HIDE DEF below, a, b
  <2>3. IsFiniteSet(b) /\ a \in SUBSET b /\ a # b
    BY <1>2, <2>2 DEF a, b
  <2>4. Cardinality(a) <= Cardinality(b) /\ Cardinality(a) # Cardinality(b)
    BY <2>3, FS_Subset
  <2>5. /\ Cardinality(a) \in Nat /\ rank[i] = Cardinality(a)
        /\ Cardinality(b) \in Nat /\ rank[j] = Cardinality(b)
    BY <1>2 DEF a, b
  <2> QED BY <2>4, <2>5
<1> HIDE DEF below, n
<1>5. \A i, j \in ok : rank[i] \in Nat /\ rank[j] \in Nat
  BY <1>1, <1>3
<1>6. \A i, j \in ok : rank[i] = rank[j] => i = j
  <2> SUFFICES ASSUME NEW i \in ok, NEW j \in ok, rank[i] = rank[j], i # j PROVE FALSE
    OBVIOUS
  <2>1. rank[i] < rank[j] \/ rank[j] < rank[i]
    BY <1>4
  <2> QED BY <1>5, <2>1
<1>7. \A i, j \in ok : rank[i] < rank[j] => <<i, j>> \in B
  <2> SUFFICES ASSUME NEW i \in ok, NEW j \in ok, rank[i] < rank[j] PROVE <<i, j>> \in B
    OBVIOUS
  <2>1. i # j
    BY <1>5
  <2>2. <<j, i>> \in B => rank[j] < rank[i]
    BY <1>4
  <2> QED BY <1>5, <2>1, <2>2
<1>8. IsFiniteSet(0..(n - 1)) /\ Cardinality(0..(n - 1)) = n
  <2>1. 0 \in Int /\ n - 1 \in Int
    BY <1>1
  <2>2. /\ IsFiniteSet(0..(n - 1))
        /\ Cardinality(0..(n - 1)) = IF 0 > n - 1 THEN 0 ELSE (n - 1) - 0 + 1
    BY <2>1, FS_Interval
  <2> QED BY <1>1, <2>2
<1>9. rank \in Injection(ok, 0..(n - 1))
  <2>1. rank \in [ok -> 0..(n - 1)]
    BY <1>3
  <2> QED BY <1>6, <2>1 DEF Injection, IsInjective
<1>10. rank \in Surjection(ok, 0..(n - 1))
  BY <1>8, <1>9, FS_Injection DEF n
<1>11. \A k \in 0..(n - 1) : \E i \in ok : rank[i] = k
  BY <1>10 DEF Surjection
<1> QED BY <1>1, <1>3, <1>4, <1>6, <1>7, <1>11 DEF n

\* Fastest first, and proxies of the same speed by their text: a strict total order.
LEMMA FasterOrders ==
  ASSUME candidates \in Distinct, NEW ok \in SUBSET DOMAIN candidates,
         NEW lat, \A i \in ok : lat[i] \in Nat
  PROVE  /\ \A i \in ok : ~Faster(lat, i, i)
         /\ \A i, j, k \in ok : Faster(lat, i, j) /\ Faster(lat, j, k) => Faster(lat, i, k)
         /\ \A i, j \in ok : i # j => Faster(lat, i, j) \/ Faster(lat, j, i)
<1>1. \A i \in ok : /\ candidates[i] \in ProxyUrls
                    /\ candidates[i] = [scheme |-> candidates[i].scheme, addr |-> candidates[i].addr]
                    /\ candidates[i].scheme \in {"socks4", "socks5"} /\ candidates[i].addr \in Nat
  <2>1. \A i \in DOMAIN candidates : candidates[i] \in ProxyUrls
    BY ElementOfSeq, LenProperties DEF Distinct
  <2> QED BY <2>1 DEF ProxyUrls, Schemes
<1> DEFINE Earlier(i, j) ==
             \/ candidates[i].scheme = "socks4" /\ candidates[j].scheme = "socks5"
             \/ candidates[i].scheme = candidates[j].scheme /\ candidates[i].addr < candidates[j].addr
<1>5. \A i, j : Faster(lat, i, j) <=> lat[i] < lat[j] \/ (lat[i] = lat[j] /\ Earlier(i, j))
  BY DEF Faster
<1>6. \A i \in ok : ~Earlier(i, i)
  <2> SUFFICES ASSUME NEW i \in ok PROVE ~Earlier(i, i)
    OBVIOUS
  <2>1. \A a \in Nat : ~(a < a)
    OBVIOUS
  <2>2. ~(candidates[i].addr < candidates[i].addr)
    BY <1>1, <2>1
  <2>3. ~(candidates[i].scheme = "socks4" /\ candidates[i].scheme = "socks5")
    OBVIOUS
  <2> QED BY <2>2, <2>3
<1>7. \A i, j, k \in ok : Earlier(i, j) /\ Earlier(j, k) => Earlier(i, k)
  <2> SUFFICES ASSUME NEW i \in ok, NEW j \in ok, NEW k \in ok, Earlier(i, j), Earlier(j, k)
               PROVE  Earlier(i, k)
    OBVIOUS
  <2> DEFINE a == candidates[i].addr
             b == candidates[j].addr
             c == candidates[k].addr
  <2>1. a \in Nat /\ b \in Nat /\ c \in Nat
    BY <1>1
  <2>2. a < b /\ b < c => a < c
    <3> HIDE DEF a, b, c
    <3> QED BY <2>1
  <2> QED BY <1>1, <2>2
<1>8. \A i, j \in ok : i # j => Earlier(i, j) \/ Earlier(j, i)
  <2> SUFFICES ASSUME NEW i \in ok, NEW j \in ok, i # j PROVE Earlier(i, j) \/ Earlier(j, i)
    OBVIOUS
  <2>1. candidates[i] # candidates[j]
    BY DEF Distinct
  <2>2. candidates[i].scheme # candidates[j].scheme \/ candidates[i].addr # candidates[j].addr
    BY <1>1, <2>1
  <2> DEFINE a == candidates[i].addr
             b == candidates[j].addr
  <2>3. a # b => a < b \/ b < a
    <3>1. a \in Nat /\ b \in Nat
      BY <1>1
    <3> HIDE DEF a, b
    <3> QED BY <3>1
  <2> QED BY <1>1, <2>2, <2>3
<1> HIDE DEF Earlier
<1>2. \A i \in ok : ~Faster(lat, i, i)
  BY <1>5, <1>6
<1>3. \A i, j, k \in ok : Faster(lat, i, j) /\ Faster(lat, j, k) => Faster(lat, i, k)
  BY <1>5, <1>7
<1>4. \A i, j \in ok : i # j => Faster(lat, i, j) \/ Faster(lat, j, i)
  BY <1>5, <1>8
<1> QED BY <1>2, <1>3, <1>4

\* pickValidated(): as many as are asked for, without doubles, the fastest of all.
LEMMA PickedBest ==
  ASSUME candidates \in Distinct, NEW ok \in SUBSET DOMAIN candidates,
         NEW lat, \A i \in ok : lat[i] \in Nat, NEW max \in Nat
  PROVE  BestOf(candidates, ok, lat, PickValidated(ok, lat, max))
<1> DEFINE B == {ss \in ok \X ok : Faster(lat, ss[1], ss[2])}
           rank == Ranks(B, ok)
           c == Cardinality(ok)
           at(n) == CHOOSE i \in ok : rank[i] = n - 1
           m == IF max < c THEN max ELSE c
           kept == PickValidated(ok, lat, max)
           indexOf(p) == CHOOSE i \in DOMAIN candidates : candidates[i] = p
           chosen == {indexOf(kept[n]) : n \in DOMAIN kept}
<1>1. \A i, j \in ok : <<i, j>> \in B <=> Faster(lat, i, j)
  OBVIOUS
<1>2. IsFiniteSet(ok)
  <2>1. DOMAIN candidates = 1..Len(candidates) /\ Len(candidates) \in Nat
    BY LenProperties DEF Distinct
  <2>2. IsFiniteSet(1..Len(candidates))
    BY <2>1, FS_Interval
  <2> QED BY <2>1, <2>2, FS_Subset
<1>3. Orders(B, ok)
  <2> HIDE DEF B
  <2> QED BY <1>1, FasterOrders DEF Orders
<1>4. /\ c \in Nat
      /\ \A i \in ok : rank[i] \in 0..(c - 1)
      /\ \A i, j \in ok : <<i, j>> \in B <=> rank[i] < rank[j]
      /\ \A i, j \in ok : rank[i] = rank[j] => i = j
      /\ \A k \in 0..(c - 1) : \E i \in ok : rank[i] = k
  <2> HIDE DEF B
  <2> QED BY <1>2, <1>3, RanksCount
<1>5. \A n \in 1..c : at(n) \in ok /\ rank[at(n)] = n - 1
  <2> SUFFICES ASSUME NEW n \in 1..c PROVE at(n) \in ok /\ rank[at(n)] = n - 1
    OBVIOUS
  <2>1. n - 1 \in 0..(c - 1)
    BY <1>4
  <2>2. \E i \in ok : rank[i] = n - 1
    <3> HIDE DEF rank, c
    <3> QED BY <1>4, <2>1
  <2> HIDE DEF rank
  <2> QED BY <2>2
<1>6. kept = Upto([n \in 1..c |-> candidates[at(n)]], max)
  <2>1. \A i \in ok : rank[i] = Cardinality({j \in ok : Faster(lat, j, i)})
    <3>1. \A i \in ok : {j \in ok : <<j, i>> \in B} = {j \in ok : Faster(lat, j, i)}
      OBVIOUS
    <3> HIDE DEF B
    <3> QED BY <3>1 DEF Ranks
  <2> DEFINE seek(n) == CHOOSE i \in ok : Cardinality({j \in ok : Faster(lat, j, i)}) = n - 1
  <2>2. \A n \in 1..c : at(n) = seek(n)
    <3> SUFFICES ASSUME NEW n \in 1..c PROVE at(n) = seek(n)
      OBVIOUS
    <3>1. \A i \in ok : rank[i] = n - 1 <=> Cardinality({j \in ok : Faster(lat, j, i)}) = n - 1
      BY <2>1
    <3> HIDE DEF rank
    <3> QED BY <3>1
  <2>3. [n \in 1..c |-> candidates[at(n)]] = [n \in 1..c |-> candidates[seek(n)]]
    <3> HIDE DEF at, seek, c
    <3> QED BY <2>2
  <2>4. kept = Upto([n \in 1..c |-> candidates[seek(n)]], max)
    BY DEF PickValidated
  <2> QED BY <2>3, <2>4
<1> DEFINE f == [n \in 1..c |-> candidates[at(n)]]
<1>7. m \in Nat /\ m <= c
  <2> HIDE DEF c
  <2> QED BY <1>4
<1>8. \A n \in 1..c : candidates[at(n)] \in ProxyUrls
  <2>1. \A i \in DOMAIN candidates : candidates[i] \in ProxyUrls
    BY ElementOfSeq, LenProperties DEF Distinct
  <2> HIDE DEF at, c
  <2> QED BY <1>5, <2>1
<1>9. f \in Seq(ProxyUrls) /\ Len(f) = c
  <2>1. f \in [1..c -> ProxyUrls]
    <3> HIDE DEF at, c
    <3> QED BY <1>8
  <2> HIDE DEF f, c
  <2> QED BY <1>4, <2>1, LenOfFunction
<1>10. Len(kept) = m /\ DOMAIN kept = 1..m /\ \A n \in 1..m : kept[n] = candidates[at(n)]
  <2>1. kept \in Seq(ProxyUrls) /\ Len(kept) = m /\ \A n \in 1..m : kept[n] = f[n]
    <3>1. kept = Upto(f, max)
      BY <1>6
    <3> HIDE DEF f, kept, c
    <3> QED BY <1>9, <3>1, UptoProperties
  <2>2. \A n \in 1..m : n \in 1..c
    <3> HIDE DEF m, c
    <3> QED BY <1>4, <1>7
  <2>3. \A n \in 1..m : f[n] = candidates[at(n)]
    <3> HIDE DEF at, c, m
    <3> QED BY <2>2
  <2> HIDE DEF kept, f, m
  <2> QED BY <2>1, <2>3, LenProperties
<1> HIDE DEF kept, f, at, rank, B
<1>11. \A n \in 1..m : n \in 1..c
  <2> HIDE DEF m, c
  <2> QED BY <1>4, <1>7
<1>12. \A n \in 1..m : indexOf(kept[n]) = at(n)
  <2> SUFFICES ASSUME NEW n \in 1..m PROVE indexOf(kept[n]) = at(n)
    OBVIOUS
  <2>1. at(n) \in DOMAIN candidates /\ candidates[at(n)] = kept[n]
    BY <1>5, <1>10, <1>11
  <2>2. \A i \in DOMAIN candidates : candidates[i] = kept[n] => i = at(n)
    BY <2>1 DEF Distinct
  <2> QED BY <2>1, <2>2
<1> HIDE DEF indexOf
<1>13. chosen = {at(n) : n \in 1..m}
  BY <1>10, <1>12
<1> HIDE DEF chosen
<1>14. \A i \in ok : i \in chosen <=> rank[i] < m
  <2> SUFFICES ASSUME NEW i \in ok PROVE i \in chosen <=> rank[i] < m
    OBVIOUS
  <2>1. rank[i] \in 0..(c - 1)
    BY <1>4
  <2>2. rank[i] + 1 \in 1..c /\ (rank[i] + 1) - 1 = rank[i]
    <3> HIDE DEF c
    <3> QED BY <1>4, <2>1
  <2>3. at(rank[i] + 1) = i
    BY <1>4, <1>5, <2>2
  <2>4. ASSUME rank[i] < m PROVE i \in chosen
    <3>1. rank[i] + 1 \in 1..m
      <4> HIDE DEF c, m
      <4> QED BY <1>7, <2>1, <2>4
    <3> QED BY <1>13, <2>3, <3>1
  <2>5. ASSUME i \in chosen PROVE rank[i] < m
    <3>1. PICK n \in 1..m : i = at(n)
      BY <1>13, <2>5
    <3>2. rank[i] = n - 1
      BY <1>5, <1>11, <3>1
    <3> HIDE DEF m
    <3> QED BY <1>7, <3>1, <3>2
  <2> QED BY <2>4, <2>5
<1>15. chosen \subseteq ok
  BY <1>5, <1>11, <1>13
<1>16. Cardinality(chosen) = m
  <2> DEFINE g == [n \in 1..m |-> at(n)]
  <2>1. g \in Surjection(1..m, chosen)
    BY <1>13 DEF Surjection
  <2>2. \A n, k \in 1..m : g[n] = g[k] => n = k
    <3> SUFFICES ASSUME NEW n \in 1..m, NEW k \in 1..m, at(n) = at(k) PROVE n = k
      OBVIOUS
    <3>1. n - 1 = k - 1
      BY <1>5, <1>11
    <3>2. n \in Int /\ k \in Int
      OBVIOUS
    <3> QED BY <3>1, <3>2
  <2>3. g \in Bijection(1..m, chosen)
    <3> HIDE DEF m
    <3> QED BY <2>1, <2>2 DEF Bijection, Surjection, Injection, IsInjective
  <2>4. ExistsBijection(1..m, chosen)
    <3> HIDE DEF g, m
    <3> QED BY <2>3 DEF ExistsBijection
  <2> HIDE DEF m
  <2> QED BY <1>7, <2>4, FS_CountingElements
<1>17. ASSUME NEW i \in chosen, NEW j \in ok \ chosen PROVE lat[i] <= lat[j]
  <2>1. i \in ok /\ rank[i] < m /\ ~(rank[j] < m) /\ rank[i] \in 0..(c - 1) /\ rank[j] \in 0..(c - 1)
    BY <1>4, <1>14, <1>15
  <2>2. rank[i] < rank[j]
    <3> HIDE DEF m, c
    <3> QED BY <1>4, <1>7, <2>1
  <2>3. Faster(lat, i, j)
    BY <1>1, <1>4, <2>1, <2>2
  <2> QED BY <2>1, <2>3 DEF Faster
<1> QED BY <1>10, <1>15, <1>16, <1>17 DEF BestOf, chosen, indexOf, kept
-----------------------------------------------------------------------------
(* The start                                                               *)

\* A search that has not started satisfies the invariant.
LEMMA InitHolds == SearchInit => SearchInv
<1> SUFFICES ASSUME SearchInit PROVE SearchInv
  OBVIOUS
<1>1. Len(candidates) = 0 /\ probe \in [1..0 -> Probes]
  BY DEF SearchInit
<1>2. InFlight(probe) = {} /\ Seen(probe) = {}
  BY <1>1 DEF InFlight, Seen
<1>3. Cardinality({}) = 0
  BY FS_EmptySet
<1>4. opts.concurrency \in Nat
  BY OptionsPositive DEF SearchInit
<1>5. Given
  BY DEF SearchInit, Given
<1>6. Typed
  <2>1. search \in {"idle", "fetching", "probing", "done"} /\ next \in Nat /\ checked \in Nat
    BY DEF SearchInit
  <2>2. Len(candidates) \in Nat /\ probe \in [1..Len(candidates) -> Probes]
    BY <1>1
  <2> QED BY <2>1, <2>2 DEF Typed
<1>7. HandedOut
  BY <1>1 DEF SearchInit, HandedOut
<1>8. Staged
  BY DEF SearchInit, Staged
<1>9. Counted
  <2>1. checked = 0 /\ search = "idle"
    BY DEF SearchInit
  <2> QED BY <1>2, <1>3, <1>4, <2>1 DEF Counted
<1> QED BY <1>5, <1>6, <1>7, <1>8, <1>9 DEF SearchInv

\* The workers start with the first candidates, one each.
LEMMA StartKeeps ==
  ASSUME SearchInv, search = "fetching", NEW fetched, Len(fetched) \in Nat,
         StartProbing(fetched), UNCHANGED <<opts, checked, sockets>>
  PROVE  (Typed /\ HandedOut /\ Staged /\ Counted)'
<1>1. PICK order \in [1..Len(fetched) -> 1..Len(fetched)] :
        LET shuffled == [i \in 1..Len(fetched) |-> fetched[order[i]]]
            chosen == Upto(shuffled, opts.maxProbes)
            limit == IF opts.concurrency < Len(chosen) THEN opts.concurrency ELSE Len(chosen)
        IN /\ candidates' = chosen
           /\ probe' = [i \in 1..Len(chosen) |-> IF i <= limit THEN "tunnel" ELSE "new"]
           /\ latency' = [i \in 1..Len(chosen) |-> 0]
           /\ next' = limit
           /\ search' = "probing"
           /\ UNCHANGED picked
  BY DEF StartProbing
<1> DEFINE shuffled == [i \in 1..Len(fetched) |-> fetched[order[i]]]
           S == {shuffled[i] : i \in 1..Len(fetched)}
           n == Len(candidates')
           limit == IF opts.concurrency < n THEN opts.concurrency ELSE n
<1>2. shuffled \in [1..Len(fetched) -> S]
  OBVIOUS
<1>3. candidates' = Upto(shuffled, opts.maxProbes)
  BY <1>1
<1>4. probe' = [i \in 1..n |-> IF i <= limit THEN "tunnel" ELSE "new"]
  BY <1>1
<1>5. next' = limit /\ search' = "probing"
  BY <1>1
<1>6. opts.maxProbes \in Nat /\ opts.concurrency \in Nat
  BY OptionsPositive DEF SearchInv, Given
<1>7. n \in Nat
  <2> HIDE DEF shuffled, S
  <2>1. shuffled \in Seq(S)
    BY <1>2, LenOfFunction
  <2> QED BY <1>3, <1>6, <2>1, UptoProperties
<1> HIDE DEF shuffled, S, n
<1>8. limit \in Nat /\ limit <= opts.concurrency /\ limit <= n
  BY <1>6, <1>7
<1> HIDE DEF limit
<1>9. probe = <<>> /\ checked = 0 /\ sockets = {}
  BY DEF SearchInv, Staged, Typed, HandedOut
<1>10. InFlight(probe') = 1..limit /\ Seen(probe') = 1..limit
  BY <1>4, <1>7, <1>8 DEF InFlight, Seen
<1>11. Cardinality(1..limit) = limit
  BY <1>8, FS_Interval
<1>12. Typed'
  BY <1>4, <1>5, <1>7, <1>8, <1>9 DEF Typed, Probes, n
<1>13. HandedOut'
  BY <1>4, <1>5, <1>7, <1>8, <1>9 DEF HandedOut
<1>14. Staged'
  BY <1>5 DEF Staged
<1>15. Counted'
  BY <1>5, <1>8, <1>9, <1>10, <1>11 DEF Counted
<1> QED BY <1>12, <1>13, <1>14, <1>15

-----------------------------------------------------------------------------
(* The workers                                                             *)

\* A probe that keeps its worker waiting changes nothing that is counted.
LEMMA ProbeMoves ==
  ASSUME SearchInv, NEW i \in DOMAIN probe, NEW result \in Probes,
         probe' = [probe EXCEPT ![i] = result],
         probe[i] # "new", result # "new",
         probe[i] \in {"tunnel", "status"} <=> result \in {"tunnel", "status"},
         sockets' \subseteq IF result = "status" THEN sockets \cup {i} ELSE sockets \ {i},
         UNCHANGED <<opts, search, lists, candidates, next, checked, picked>>
  PROVE  SearchInv'
<1>1. Len(candidates) \in Nat /\ probe \in [1..Len(candidates) -> Probes] /\ DOMAIN probe' = DOMAIN probe
  BY DEF SearchInv, Typed
<1>2. probe' \in [1..Len(candidates) -> Probes] /\ probe'[i] = result
      /\ \A j \in DOMAIN probe : j # i => probe'[j] = probe[j]
  BY <1>1
<1>3. InFlight(probe') = InFlight(probe) /\ Seen(probe') = Seen(probe)
  BY <1>1, <1>2 DEF InFlight, Seen
<1>4. Given' /\ Typed'
  BY <1>2 DEF SearchInv, Given, Typed
<1>5. HandedOut'
  BY <1>1, <1>2 DEF SearchInv, HandedOut
<1>6. Staged'
  BY <1>3 DEF SearchInv, Staged
<1>7. Counted'
  BY <1>3 DEF SearchInv, Counted, Need
<1> QED BY <1>4, <1>5, <1>6, <1>7 DEF SearchInv

\* A worker that has its answer goes on with the next candidate, or returns; the
\* last one ends the search with as many proxies as it needs, or all are probed.
LEMMA AnsweredKeeps ==
  ASSUME SearchInv, NEW i \in InFlight(probe), NEW result \in {"usable", "dead", "late"},
         Answered(i, result), sockets' = sockets \ {i}
  PROVE  SearchInv'
<1> DEFINE L == Len(candidates)
           ok == IF result = "usable" THEN usable \cup {i} ELSE usable
           goesOn == Cardinality(ok) < Need
           takes == goesOn /\ next < L
           after == [probe EXCEPT ![i] = result]
           N == next + 1
<1>1. L \in Nat /\ probe \in [1..L -> Probes] /\ next \in Nat /\ checked \in Nat
  BY DEF SearchInv, Typed
<1>2. i \in 1..L /\ probe[i] \in {"tunnel", "status"}
  BY <1>1 DEF InFlight
<1>3. /\ checked' = checked + 1
      /\ next' = IF goesOn THEN N ELSE next
      /\ probe' = IF takes THEN [after EXCEPT ![N] = "tunnel"] ELSE after
      /\ IF InFlight(probe') = {}
           THEN search' = "done" /\ picked' = PickValidated(ok, latency', Need)
           ELSE UNCHANGED <<search, picked>>
      /\ UNCHANGED <<opts, pending, lists, candidates>>
  BY DEF Answered, Returns
<1>4. opts \in SearchOptions /\ Need \in Nat /\ Need > 0 /\ Need' = Need
  BY <1>3, NeedTyped DEF SearchInv, Given, Need
<1>5. IsFiniteSet(ok) /\ Cardinality(ok) \in Nat
  <2>1. IsFiniteSet(1..L)
    BY <1>1, FS_Interval
  <2>2. ok \subseteq 1..L
    BY <1>1, <1>2 DEF usable
  <2> HIDE DEF ok
  <2> QED BY <2>1, <2>2, FS_Subset, FS_CardinalityType
<1>6. search = "probing"
  <2>1. search # "done"
    BY DEF SearchInv, Staged
  <2>2. search \notin {"idle", "fetching"}
    <3>1. L # 0
      BY <1>1, <1>2
    <3> QED BY <3>1 DEF SearchInv, Staged
  <2> QED BY <2>1, <2>2 DEF SearchInv, Typed
<1>7. \A j \in 1..L : probe[j] = "new" <=> j > next
  BY <1>1 DEF SearchInv, HandedOut
<1>8. sockets \subseteq {j \in 1..L : probe[j] = "status"}
  BY <1>1 DEF SearchInv, HandedOut
<1>9. /\ IsFiniteSet(InFlight(probe)) /\ Cardinality(InFlight(probe)) \in Nat
      /\ IsFiniteSet(Seen(probe)) /\ Cardinality(Seen(probe)) \in Nat
  BY <1>1, FlightFinite
<1>10. /\ opts.concurrency \in Nat /\ Cardinality(InFlight(probe)) <= opts.concurrency
       /\ checked + Cardinality(InFlight(probe)) = Cardinality(Seen(probe))
  BY <1>4, OptionsPositive DEF SearchInv, Counted
<1>11. after \in [1..L -> Probes] /\ after[i] = result /\ \A j \in 1..L : j # i => after[j] = probe[j]
  BY <1>1, <1>2 DEF Probes
<1>12. InFlight(after) = InFlight(probe) \ {i} /\ Seen(after) = Seen(probe)
  BY <1>1, <1>2, <1>11 DEF InFlight, Seen
<1>13. Cardinality(InFlight(after)) = Cardinality(InFlight(probe)) - 1
       /\ IsFiniteSet(InFlight(after))
  <2> DEFINE F == InFlight(probe)
  <2>1. i \in F
    BY <1>1, <1>2 DEF InFlight
  <2>2. IsFiniteSet(F) /\ InFlight(after) = F \ {i}
    BY <1>9, <1>12
  <2> HIDE DEF F, after
  <2>3. IsFiniteSet(F \ {i}) /\ Cardinality(F \ {i}) = Cardinality(F) - 1
    BY <2>1, <2>2, FS_RemoveElement
  <2> QED BY <2>2, <2>3 DEF F
<1>14. Given'
  BY <1>3 DEF SearchInv, Given
<1> HIDE DEF ok, after
<1>15. CASE takes
  <2>1. N \in 1..L /\ probe[N] = "new" /\ N # i
    BY <1>1, <1>2, <1>7, <1>15
  <2>2. probe' = [after EXCEPT ![N] = "tunnel"] /\ next' = N
    BY <1>3, <1>15
  <2> HIDE DEF N
  <2>3. probe' \in [1..L -> Probes] /\ probe'[N] = "tunnel" /\ \A j \in 1..L : j # N => probe'[j] = after[j]
    BY <1>11, <2>1, <2>2 DEF Probes
  <2>4. InFlight(probe') = InFlight(after) \cup {N} /\ N \notin InFlight(after)
    BY <1>11, <2>1, <2>3 DEF InFlight
  <2>5. Seen(probe') = Seen(probe) \cup {N} /\ N \notin Seen(probe)
    BY <1>1, <1>11, <1>12, <2>1, <2>3 DEF Seen
  <2>6. Cardinality(InFlight(probe')) = Cardinality(InFlight(probe))
    <3>1. Cardinality(InFlight(probe')) = Cardinality(InFlight(after)) + 1
      BY <1>13, <2>4, FS_AddElement
    <3> QED BY <1>9, <1>13, <3>1
  <2>7. Cardinality(Seen(probe')) = Cardinality(Seen(probe)) + 1
    BY <1>9, <2>5, FS_AddElement
  <2>8. InFlight(probe') # {}
    BY <2>4
  <2>9. search' = search /\ picked' = picked /\ checked' = checked + 1 /\ candidates' = candidates
        /\ opts' = opts
    BY <1>3, <2>8
  <2>10. Typed'
    BY <1>1, <2>1, <2>2, <2>3, <2>9 DEF SearchInv, Typed
  <2>11. HandedOut'
    <3>1. \A j \in 1..L : probe'[j] = "new" <=> j > N
      <4> SUFFICES ASSUME NEW j \in 1..L PROVE probe'[j] = "new" <=> j > N
        OBVIOUS
      <4>1. CASE j = N
        BY <1>1, <2>1, <2>3, <4>1
      <4>2. CASE j = i
        BY <1>1, <1>2, <1>7, <1>11, <2>1, <2>3, <4>2 DEF N
      <4>3. CASE j # N /\ j # i
        BY <1>1, <1>7, <1>11, <2>1, <2>3, <4>3 DEF N
      <4> QED BY <4>1, <4>2, <4>3
    <3>2. sockets' \subseteq {j \in 1..L : probe'[j] = "status"}
      BY <1>8, <1>11, <2>1, <2>3
    <3> QED BY <2>2, <2>3, <3>1, <3>2 DEF HandedOut
  <2>12. Staged'
    BY <1>6, <2>9 DEF Staged
  <2>13. Counted'
    BY <1>1, <1>6, <1>9, <1>10, <2>6, <2>7, <2>9 DEF Counted
  <2> QED BY <1>14, <2>10, <2>11, <2>12, <2>13 DEF SearchInv
<1>16. CASE ~takes
  <2>1. probe' = after
    BY <1>3, <1>16
  <2>2. next' \in Nat /\ (goesOn => next' = N /\ next >= L) /\ (~goesOn => next' = next)
    BY <1>1, <1>3, <1>16
  <2>3. checked' = checked + 1 /\ candidates' = candidates /\ opts' = opts
        /\ search' \in {"probing", "done"}
    BY <1>3, <1>6
  <2>4. Typed'
    BY <1>1, <1>11, <2>1, <2>2, <2>3 DEF Typed
  <2>5. HandedOut'
    <3>1. \A j \in 1..L : probe'[j] = "new" <=> j > next'
      <4> SUFFICES ASSUME NEW j \in 1..L PROVE probe'[j] = "new" <=> j > next'
        OBVIOUS
      <4>1. after[j] = "new" <=> probe[j] = "new"
        BY <1>2, <1>11
      <4>2. j > next' <=> j > next
        <5>1. CASE goesOn
          BY <1>1, <2>2, <5>1
        <5>2. CASE ~goesOn
          BY <2>2, <5>2
        <5> QED BY <5>1, <5>2
      <4> QED BY <1>7, <2>1, <4>1, <4>2
    <3>2. sockets' \subseteq {j \in 1..L : probe'[j] = "status"}
      BY <1>8, <1>11, <2>1
    <3> QED BY <1>11, <2>1, <3>1, <3>2 DEF HandedOut
  <2>6. Staged'
    BY <1>3, <1>6, <2>3 DEF Staged
  <2>7. checked' + Cardinality(InFlight(probe')) = Cardinality(Seen(probe'))
        /\ Cardinality(InFlight(probe')) <= opts'.concurrency
    <3>1. Cardinality(InFlight(probe')) = Cardinality(InFlight(probe)) - 1
      BY <1>13, <2>1
    <3>2. Cardinality(Seen(probe')) = Cardinality(Seen(probe))
      BY <1>12, <2>1
    <3> QED BY <1>1, <1>9, <1>10, <2>3, <3>1, <3>2
  <2>8. search' = "done" /\ Len(picked') < Need => checked' = L
    <3> SUFFICES ASSUME search' = "done", Len(picked') < Need PROVE checked' = L
      OBVIOUS
    <3>1. InFlight(probe') = {} /\ picked' = PickValidated(ok, latency', Need)
      BY <1>3, <1>6
    <3>2. goesOn
      BY <1>4, <1>5, <3>1, PickedLen
    <3>3. Seen(probe') = 1..L
      BY <1>1, <1>7, <1>12, <2>1, <2>2, <3>2 DEF Seen
    <3>4. Cardinality(InFlight(probe')) = 0 /\ Cardinality(Seen(probe')) = L
      <4>1. Cardinality(InFlight(probe')) = 0
        BY <3>1, FS_EmptySet
      <4>2. Cardinality(1..L) = L
        <5> HIDE DEF L
        <5>1. 0 \in Int /\ 1 \in Int /\ L \in Int
          BY <1>1
        <5>2. Cardinality(1..L) = IF 1 > L THEN 0 ELSE L - 1 + 1
          BY <5>1, FS_Interval
        <5> QED BY <1>1, <5>2
      <4> QED BY <3>3, <4>1, <4>2
    <3> QED BY <1>1, <2>3, <2>7, <3>4
  <2>9. Counted'
    BY <1>4, <2>3, <2>7, <2>8 DEF Counted
  <2> QED BY <1>14, <2>4, <2>5, <2>6, <2>9 DEF SearchInv
<1> QED BY <1>15, <1>16

-----------------------------------------------------------------------------
(* The steps                                                               *)

\* A provider settles: the last one to do so ends the search or starts the workers.
LEMMA FetchKeeps ==
  ASSUME SearchInv, NEW k \in pending, FetchSettles(k)
  PROVE  SearchInv'
<1>1. search = "fetching" /\ UNCHANGED <<opts, checked, sockets>>
  BY DEF FetchSettles
<1>2. candidates = <<>> /\ checked = 0 /\ Len(candidates) = 0 /\ probe = <<>> /\ sockets = {}
  BY <1>1 DEF SearchInv, Staged, Typed, HandedOut
<1>3. Given'
  BY DEF SearchInv, Given, FetchSettles
<1>4. InFlight(probe) = {}
  BY <1>2 DEF InFlight
<1>5. ASSUME UNCHANGED <<candidates, probe, next>>, search' \in {"fetching", "done"},
             search' = "done" /\ opts.validate => Len(candidates) = 0
      PROVE  SearchInv'
  <2>1. Typed'
    BY <1>1, <1>5 DEF SearchInv, Typed
  <2>2. HandedOut'
    BY <1>1, <1>5 DEF SearchInv, HandedOut
  <2>3. Staged'
    BY <1>1, <1>2, <1>4, <1>5 DEF Staged
  <2>4. Counted'
    BY <1>1, <1>2, <1>5 DEF SearchInv, Counted
  <2> QED BY <1>3, <2>1, <2>2, <2>3, <2>4 DEF SearchInv
<1>6. CASE pending' # {}
  BY <1>1, <1>5, <1>6 DEF FetchSettles
<1>7. CASE pending' = {}
  <2> DEFINE fetched == DedupeProxies(lists')
  <2>1. Len(fetched) \in Nat
    <3>1. fetched \in Distinct
      BY <1>3, FetchedDistinct DEF Given
    <3> QED BY <3>1, LenProperties DEF Distinct
  <2>2. Resolve(fetched)
    BY <1>7 DEF FetchSettles
  <2> HIDE DEF fetched
  <2>3. CASE UNCHANGED <<candidates, probe, latency, next>> /\ search' = "done"
    BY <1>2, <1>5, <2>3
  <2>4. CASE StartProbing(fetched)
    <3>1. (Typed /\ HandedOut /\ Staged /\ Counted)'
      BY <1>1, <2>1, <2>4, StartKeeps
    <3> QED BY <1>3, <3>1 DEF SearchInv
  <2> QED BY <2>2, <2>3, <2>4 DEF Resolve, Returns
<1> QED BY <1>6, <1>7

\* Every step of a search keeps the invariant.
LEMMA SearchKeeps ==
  ASSUME SearchInv, [SearchStarts \/ SearchStep]_searchVars
  PROVE  SearchInv'
<1>1. CASE SearchStarts
  <2>1. Given' /\ Typed' /\ HandedOut'
    BY <1>1 DEF SearchStarts, SearchInv, Given, Typed, HandedOut
  <2>2. Staged' /\ Counted'
    BY <1>1 DEF SearchStarts, SearchInv, Staged, Counted
  <2> QED BY <2>1, <2>2 DEF SearchInv
<1>2. ASSUME NEW k \in pending, FetchSettles(k) PROVE SearchInv'
  BY <1>2, FetchKeeps
<1>3. ASSUME NEW i \in DOMAIN probe, TunnelOpens(i) PROVE SearchInv'
  BY <1>3, ProbeMoves DEF TunnelOpens, Probes
<1>4. ASSUME NEW i \in DOMAIN probe, LateTunnel(i) PROVE SearchInv'
  <2>1. sockets \subseteq sockets \ {i}
    BY <1>4 DEF LateTunnel, SearchInv, HandedOut
  <2> QED BY <1>4, <2>1, ProbeMoves DEF LateTunnel, Probes
<1>5. ASSUME NEW i \in DOMAIN probe, TunnelFails(i) \/ TunnelTimesOut(i) PROVE SearchInv'
  <2>1. i \in InFlight(probe)
    BY <1>5 DEF TunnelFails, TunnelTimesOut, InFlight
  <2>2. sockets' = sockets \ {i}
    BY <1>5 DEF TunnelFails, TunnelTimesOut, SearchInv, HandedOut
  <2> QED BY <1>5, <2>1, <2>2, AnsweredKeeps DEF TunnelFails, TunnelTimesOut
<1>6. ASSUME NEW i \in DOMAIN probe, StatusAnswers(i) \/ StatusFails(i) PROVE SearchInv'
  <2>1. i \in InFlight(probe)
    BY <1>6 DEF StatusAnswers, StatusFails, InFlight
  <2> QED BY <1>6, <2>1, AnsweredKeeps DEF StatusAnswers, StatusFails
<1>7. CASE UNCHANGED searchVars
  <2>1. Given' /\ Typed' /\ HandedOut'
    BY <1>7 DEF searchVars, SearchInv, Given, Typed, HandedOut
  <2>2. Staged' /\ Counted'
    BY <1>7 DEF searchVars, SearchInv, Staged, Counted, Need
  <2> QED BY <2>1, <2>2 DEF SearchInv
<1> QED
  BY <1>1, <1>2, <1>3, <1>4, <1>5, <1>6, <1>7 DEF SearchStep, ProbeStep

\* Nothing has been chosen yet when a search starts.
LEMMA PickInit == SearchInit => PickInv
<1> SUFFICES ASSUME SearchInit PROVE PickInv
  OBVIOUS
<1>1. candidates = <<>> /\ latency = <<>> /\ search = "idle"
  BY DEF SearchInit
<1>2. <<>> \in Distinct
  <2>1. <<>> \in Seq(ProxyUrls) /\ DOMAIN <<>> = {}
    OBVIOUS
  <2> QED BY <2>1 DEF Distinct
<1>3. latency \in [1..Len(candidates) -> Nat]
  BY <1>1
<1> QED BY <1>1, <1>2, <1>3 DEF PickInv

\* The shuffled candidates are some of those that were fetched, each once.
LEMMA CandidatesDistinct ==
  ASSUME NEW fetched \in Distinct, opts \in SearchOptions, StartProbing(fetched)
  PROVE  candidates' \in Distinct /\ latency' \in [1..Len(candidates') -> Nat]
<1> DEFINE n == Len(fetched)
<1>1. PICK order \in [1..n -> 1..n] :
        /\ \A i, j \in 1..n : order[i] = order[j] => i = j
        /\ candidates' = Upto([i \in 1..n |-> fetched[order[i]]], opts.maxProbes)
        /\ latency' = [i \in 1..Len(Upto([i \in 1..n |-> fetched[order[i]]], opts.maxProbes)) |-> 0]
  BY DEF StartProbing
<1> DEFINE shuffled == [i \in 1..n |-> fetched[order[i]]]
<1>2. /\ n \in Nat /\ DOMAIN fetched = 1..n /\ \A i \in 1..n : fetched[i] \in ProxyUrls
      /\ \A i, j \in 1..n : fetched[i] = fetched[j] => i = j
  BY LenProperties, ElementOfSeq DEF Distinct
<1> HIDE DEF n
<1>3. shuffled \in [1..n -> ProxyUrls]
  BY <1>2
<1>4. \A i, j \in 1..n : shuffled[i] = shuffled[j] => i = j
  BY <1>1, <1>2
<1>5. candidates' = Upto(shuffled, opts.maxProbes) /\ opts.maxProbes \in Nat
  BY <1>1, OptionsPositive
<1> HIDE DEF shuffled
<1>6. shuffled \in Seq(ProxyUrls) /\ Len(shuffled) = n
  BY <1>2, <1>3, LenOfFunction
<1>7. /\ candidates' \in Seq(ProxyUrls) /\ Len(candidates') \in Nat
      /\ \A i \in 1..Len(candidates') : i \in 1..n /\ candidates'[i] = shuffled[i]
  BY <1>5, <1>6, UptoProperties
<1>8. DOMAIN candidates' = 1..Len(candidates')
  BY <1>7, LenProperties
<1>9. candidates' \in Distinct
  BY <1>4, <1>7, <1>8 DEF Distinct
<1>10. latency' = [i \in 1..Len(candidates') |-> 0]
  BY <1>1
<1> QED BY <1>9, <1>10

\* The answer to the last worker ends a search with the best of its candidates.
LEMMA AnsweredPicks ==
  ASSUME SearchInv, PickInv, NEW i \in InFlight(probe),
         NEW result \in {"usable", "dead", "late"}, Answered(i, result),
         latency' \in [1..Len(candidates) -> Nat]
  PROVE  PickInv'
<1> DEFINE ok == IF result = "usable" THEN usable \cup {i} ELSE usable
           takes == Cardinality(ok) < Need /\ next < Len(candidates)
           after == [probe EXCEPT ![i] = result]
<1>1. /\ probe' = IF takes THEN [after EXCEPT ![next + 1] = "tunnel"] ELSE after
      /\ IF InFlight(probe') = {}
           THEN search' = "done" /\ picked' = PickValidated(ok, latency', Need)
           ELSE UNCHANGED <<search, picked>>
      /\ UNCHANGED <<opts, candidates>>
  BY DEF Answered, Returns
<1>2. /\ Len(candidates) \in Nat /\ DOMAIN probe = 1..Len(candidates) /\ next \in Nat
      /\ candidates \in Distinct /\ DOMAIN candidates = 1..Len(candidates)
  BY LenProperties DEF SearchInv, Typed, PickInv, Distinct
<1>3. search # "done"
  BY DEF SearchInv, Staged
<1>4. CASE InFlight(probe') = {}
  <2>1. ~takes
    <3> SUFFICES ASSUME takes PROVE FALSE
      OBVIOUS
    <3>1. next + 1 \in DOMAIN after
      BY <1>2
    <3>2. probe'[next + 1] = "tunnel" /\ next + 1 \in DOMAIN probe'
      BY <1>1, <3>1
    <3> QED BY <1>4, <3>2 DEF InFlight
  <2>2. probe' = after
    BY <1>1, <2>1
  <2>3. usable' = ok
    <3>1. i \in DOMAIN probe /\ probe[i] # "usable"
      BY DEF InFlight
    <3>2. DOMAIN probe' = DOMAIN probe /\ probe'[i] = result
          /\ \A j \in DOMAIN probe : j # i => probe'[j] = probe[j]
      BY <2>2, <3>1
    <3> QED BY <3>1, <3>2 DEF usable
  <2>4. ok \in SUBSET DOMAIN candidates
    BY <1>2 DEF usable, InFlight
  <2> HIDE DEF ok, takes, after
  <2>5. \A j \in ok : latency'[j] \in Nat
    BY <1>2, <2>4
  <2>6. Need \in Nat
    BY NeedTyped DEF SearchInv, Given
  <2>7. BestOf(candidates, ok, latency', PickValidated(ok, latency', Need))
    BY <1>2, <2>4, <2>5, <2>6, PickedBest
  <2>8. BestOf(candidates', usable', latency', picked')
    BY <1>1, <1>4, <2>3, <2>7
  <2> QED BY <1>1, <1>2, <2>8 DEF PickInv
<1>5. CASE InFlight(probe') # {}
  <2>1. search' # "done"
    BY <1>1, <1>3, <1>5
  <2> QED BY <1>1, <1>2, <2>1 DEF PickInv
<1> QED BY <1>4, <1>5

\* Every step of a search keeps what was chosen the best.
LEMMA PickKeeps ==
  ASSUME SearchInv, PickInv, [SearchStarts \/ SearchStep]_searchVars
  PROVE  PickInv'
<1>1. ASSUME UNCHANGED <<opts, candidates, latency, picked>>, usable' = usable,
             search' = "done" => search = "done"
      PROVE  PickInv'
  BY <1>1 DEF PickInv
<1>2. CASE SearchStarts
  BY <1>1, <1>2 DEF SearchStarts, usable
<1>3. ASSUME NEW k \in pending, FetchSettles(k) PROVE PickInv'
  <2>1. /\ search = "fetching" /\ opts' = opts /\ candidates = <<>> /\ probe = <<>>
        /\ opts \in SearchOptions
    BY <1>3 DEF FetchSettles, SearchInv, Staged, Typed, Given
  <2>2. CASE pending' # {}
    BY <1>1, <1>3, <2>1, <2>2 DEF FetchSettles, usable
  <2>3. CASE pending' = {}
    <3> DEFINE fetched == DedupeProxies(lists')
    <3>1. fetched \in Distinct
      <4>1. Given'
        BY <1>3 DEF SearchInv, Given, FetchSettles
      <4> QED BY <4>1, FetchedDistinct DEF Given
    <3>2. Resolve(fetched)
      BY <1>3, <2>3 DEF FetchSettles
    <3> HIDE DEF fetched
    <3>3. CASE fetched = <<>> /\ Returns(<<>>) /\ UNCHANGED <<candidates, probe, latency>>
      <4>1. picked' = <<>> /\ candidates' = <<>> /\ probe' = <<>> /\ latency' = latency
        BY <2>1, <3>3 DEF Returns
      <4>2. usable' = {}
        BY <4>1 DEF usable
      <4>3. BestOf(<<>>, {}, latency, <<>>)
        <5>1. \A n \in DOMAIN <<>> : FALSE
          OBVIOUS
        <5>2. Cardinality({}) = 0 /\ Len(<<>>) = 0
          BY FS_EmptySet
        <5> QED BY <5>1, <5>2 DEF BestOf
      <4> QED BY <2>1, <4>1, <4>2, <4>3 DEF PickInv
    <3>4. CASE ~opts.validate /\ UNCHANGED <<candidates, probe, latency>>
      BY <2>1, <3>4 DEF PickInv
    <3>5. CASE StartProbing(fetched)
      <4>1. search' = "probing"
        BY <3>5 DEF StartProbing
      <4> QED BY <2>1, <3>1, <3>5, <4>1, CandidatesDistinct DEF PickInv
    <3> QED BY <3>2, <3>3, <3>4, <3>5 DEF Resolve
  <2> QED BY <2>2, <2>3
<1>4. ASSUME NEW i \in DOMAIN probe, TunnelOpens(i) \/ LateTunnel(i) PROVE PickInv'
  <2>1. usable' = usable /\ UNCHANGED <<opts, search, candidates, latency, picked>>
    BY <1>4 DEF TunnelOpens, LateTunnel, usable
  <2> QED BY <1>1, <2>1
<1>5. ASSUME NEW i \in DOMAIN probe, TunnelFails(i) \/ TunnelTimesOut(i) \/ StatusFails(i)
      PROVE  PickInv'
  <2>1. i \in InFlight(probe) /\ latency' \in [1..Len(candidates) -> Nat]
    BY <1>5 DEF TunnelFails, TunnelTimesOut, StatusFails, InFlight, PickInv
  <2> QED BY <1>5, <2>1, AnsweredPicks DEF TunnelFails, TunnelTimesOut, StatusFails
<1>6. ASSUME NEW i \in DOMAIN probe, StatusAnswers(i) PROVE PickInv'
  <2>1. PICK ms \in Latencies : latency' = [latency EXCEPT ![i] = ms]
    BY <1>6 DEF StatusAnswers
  <2>2. ms \in Nat
    BY SearchAssumption
  <2>3. i \in InFlight(probe) /\ latency' \in [1..Len(candidates) -> Nat]
    BY <1>6, <2>1, <2>2 DEF StatusAnswers, InFlight, PickInv
  <2> QED BY <1>6, <2>3, AnsweredPicks DEF StatusAnswers
<1>7. CASE UNCHANGED searchVars
  BY <1>1, <1>7 DEF searchVars, usable
<1> QED BY <1>2, <1>3, <1>4, <1>5, <1>6, <1>7 DEF SearchStep, ProbeStep

\* Whatever tunnels open, fail, or open after their time is up, a search that has
\* returned has destroyed every socket.
LEMMA InvNoSocket == SearchInv => NoSocketLeft
BY DEF SearchInv, HandedOut, Staged, InFlight, NoSocketLeft

\* Concurrent workers hand out every candidate once and never more than they may
\* at a time, and give up only when there is none left.
LEMMA InvProbedOnce == SearchInv => ProbedExactlyOnce
BY DEF SearchInv, HandedOut, Counted, Seen, ProbedExactlyOnce

\* Whatever was measured and in whatever order, what a search keeps is usable and
\* comes once, and no usable proxy it left out was faster.
LEMMA InvBest == PickInv => BestOnesKept
BY Zenon DEF PickInv, BestOf, BestOnesKept

\* A search leaves no socket, probes each candidate once and keeps the best.
THEOREM SearchCorrect == SearchSpec => [](NoSocketLeft /\ ProbedExactlyOnce /\ BestOnesKept)
<1>1. SearchInit => SearchInv /\ PickInv
  BY InitHolds, PickInit
<1>2. SearchInv /\ PickInv /\ [SearchStarts \/ SearchStep]_searchVars => (SearchInv /\ PickInv)'
  BY SearchKeeps, PickKeeps
<1> QED BY <1>1, <1>2, InvNoSocket, InvProbedOnce, InvBest, PTL DEF SearchSpec
=============================================================================
