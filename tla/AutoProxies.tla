----------------------------- MODULE AutoProxies -----------------------------
(***************************************************************************)
(* The search for free proxies (net/autoProxies.ts): fetch every provider, *)
(* merge the lists, and probe the candidates with a bounded number of      *)
(* workers until enough of them answer.  A probe (net/proxyProbe.ts) opens *)
(* a tunnel under a hard timeout (net/proxyConnect.ts) and asks a status   *)
(* of the server through it.                                               *)
(*                                                                         *)
(* A worker that has not returned is awaiting the probe of one candidate,  *)
(* so the workers are the candidates in flight.  What follows a promise in *)
(* microtasks belongs to the step that settles it.                         *)
(***************************************************************************)
EXTENDS Integers, Sequences, FiniteSets, SequencesExt

CONSTANTS
  SearchOptions,  \* the options a search may be given
  Latencies       \* what a probe may measure

\* The list of a provider, line by line: junk, or an address with or without a
\* scheme.  Addresses are numbers in the order of their text.
Schemes == {"socks4", "socks5"}
ProxyUrls == [scheme : Schemes, addr : Nat]
ListLines == [valid : BOOLEAN, scheme : Schemes \cup {"none"}, addr : Nat]
ProxyLists == [scheme : Schemes, lines : Seq(ListLines)]

\* config/schema.ts: what the options count is at least one.
ASSUME SearchAssumption ==
  /\ Latencies \subseteq Nat
  /\ \A o \in SearchOptions :
       /\ {o.max, o.perProxy, o.overfetch, o.maxProbes, o.concurrency} \subseteq Nat \ {0}
       /\ o.providers \in Seq(ProxyLists)

VARIABLES
  opts,       \* ResolveOptions, and what the providers' lists hold
  search,     \* where resolveAutoProxies() stands
  pending,    \* the providers that have not answered
  lists,      \* the parsed list of each provider
  candidates, \* the proxies to probe, shuffled
  next,       \* index of the next candidate, counted from 0
  checked,    \* how many probes have answered their worker
  probe,      \* where the probe of each candidate stands
  latency,    \* what the probe of a usable candidate measured
  sockets,    \* candidates with an open socket
  picked      \* what the search has returned

searchVars ==
  <<opts, search, pending, lists, candidates, next, checked, probe, latency, sockets, picked>>

\* tunnel: the SOCKS negotiation runs.  late: it still runs, but its time is up.
\* status: the tunnel is open, the server has been asked.
Probes == {"new", "tunnel", "late", "status", "usable", "dead"}
CeilDiv(a, b) == (a + b - 1) \div b
AtLeastOne(n) == IF n < 1 THEN 1 ELSE n
Upto(s, n) == SubSeq(s, 1, IF n < Len(s) THEN n ELSE Len(s))

-----------------------------------------------------------------------------
\* The lines that name a proxy, in their order; a bare one has the provider's scheme.
ParseProxyList(p) ==
  FoldLeft(LAMBDA out, l :
             IF l.valid
               THEN Append(out, [scheme |-> IF l.scheme = "none" THEN p.scheme ELSE l.scheme,
                                 addr   |-> l.addr])
               ELSE out,
           <<>>, p.lines)

\* Mutant of DedupeProxies: the lists one after the other.
KeepDoubles(ls) == FlattenSeq(ls)

\* The lists one after the other, each proxy where it is first seen.
FirstSeen(out, list) ==
  FoldLeft(LAMBDA o, p : IF p \in ToSet(o) THEN o ELSE Append(o, p), out, list)
DedupeProxies(ls) == FoldLeft(FirstSeen, <<>>, ls)

\* Bots per proxy decide how many proxies a run needs, and a buffer is kept.
Need == AtLeastOne(CeilDiv(opts.max * opts.overfetch, opts.perProxy))

usable == {i \in DOMAIN probe : probe[i] = "usable"}
InFlight(p) == {i \in DOMAIN p : p[i] \in {"tunnel", "status"}}

\* Fastest first; ties break on the text of the proxy, scheme before address.
Faster(lat, i, j) ==
  LET a == candidates[i]  b == candidates[j]
  IN \/ lat[i] < lat[j]
     \/ /\ lat[i] = lat[j]
        /\ \/ a.scheme = "socks4" /\ b.scheme = "socks5"
           \/ a.scheme = b.scheme /\ a.addr < b.addr
PickValidated(ok, lat, max) ==
  LET rank(i) == Cardinality({j \in ok : Faster(lat, j, i)})
  IN Upto([n \in 1..Cardinality(ok) |->
             candidates[CHOOSE i \in ok : rank(i) = n - 1]], max)

-----------------------------------------------------------------------------
SearchInit ==
  /\ opts \in SearchOptions
  /\ search = "idle"
  /\ pending = DOMAIN opts.providers
  /\ lists = [k \in DOMAIN opts.providers |-> <<>>]
  /\ candidates = <<>> /\ probe = <<>> /\ latency = <<>>
  /\ next = 0 /\ checked = 0
  /\ sockets = {}
  /\ picked = <<>>

SearchStarts ==
  /\ search = "idle"
  /\ search' = "fetching"
  /\ UNCHANGED <<opts, pending, lists, candidates, next, checked, probe, latency, sockets, picked>>

Returns(proxies) == search' = "done" /\ picked' = proxies

\* The workers start at once, each with the next candidate.
StartProbing(fetched) ==
  \E order \in {f \in [1..Len(fetched) -> 1..Len(fetched)] :
                  \A i, j \in 1..Len(fetched) : f[i] = f[j] => i = j} :
    LET shuffled == [i \in 1..Len(fetched) |-> fetched[order[i]]]
        chosen == Upto(shuffled, opts.maxProbes)
        limit == IF opts.concurrency < Len(chosen) THEN opts.concurrency ELSE Len(chosen)
    IN /\ candidates' = chosen
       /\ probe' = [i \in 1..Len(chosen) |-> IF i <= limit THEN "tunnel" ELSE "new"]
       /\ latency' = [i \in 1..Len(chosen) |-> 0]
       /\ next' = limit
       /\ search' = "probing"
       /\ UNCHANGED picked

Resolve(fetched) ==
  \/ /\ fetched = <<>>
     /\ Returns(<<>>)
     /\ UNCHANGED <<candidates, probe, latency, next>>
  \/ /\ fetched # <<>> /\ ~opts.validate
     /\ Returns(Upto(fetched, AtLeastOne(CeilDiv(opts.max, opts.perProxy))))
     /\ UNCHANGED <<candidates, probe, latency, next>>
  \/ fetched # <<>> /\ opts.validate /\ StartProbing(fetched)

\* A provider answers; or it fails, is no list, or takes more than ten seconds.
FetchSettles(k) ==
  /\ search = "fetching"
  /\ pending' = pending \ {k}
  /\ \E answer \in {ParseProxyList(opts.providers[k]), <<>>} :
       lists' = [lists EXCEPT ![k] = answer]
  /\ IF pending' # {}
       THEN UNCHANGED <<search, candidates, probe, latency, next, picked>>
       ELSE Resolve(DedupeProxies(lists'))
  /\ UNCHANGED <<opts, checked, sockets>>

\* Mutant of Answered: `next` is read, but moves only when no worker goes on.
AnsweredSame(i, result) ==
  LET ok == IF result = "usable" THEN usable \cup {i} ELSE usable
      takes == Cardinality(ok) < Need /\ next < Len(candidates)
      after == [probe EXCEPT ![i] = result]
  IN /\ checked' = checked + 1
     /\ next' = IF takes THEN next ELSE next + 1
     /\ probe' = IF takes THEN [after EXCEPT ![next + 1] = "tunnel"] ELSE after
     /\ IF InFlight(probe') = {}
          THEN Returns(PickValidated(ok, latency', Need))
          ELSE UNCHANGED <<search, picked>>
     /\ UNCHANGED <<opts, pending, lists, candidates>>

\* The worker of candidate i has its answer: it takes the next candidate unless
\* enough are usable or none is left, and the last worker ends the search.
Answered(i, result) ==
  LET ok == IF result = "usable" THEN usable \cup {i} ELSE usable
      goesOn == Cardinality(ok) < Need
      takes == goesOn /\ next < Len(candidates)
      after == [probe EXCEPT ![i] = result]
  IN /\ checked' = checked + 1
     /\ next' = IF goesOn THEN next + 1 ELSE next
     /\ probe' = IF takes THEN [after EXCEPT ![next + 1] = "tunnel"] ELSE after
     /\ IF InFlight(probe') = {}
          THEN Returns(PickValidated(ok, latency', Need))
          ELSE UNCHANGED <<search, picked>>
     /\ UNCHANGED <<opts, pending, lists, candidates>>

-----------------------------------------------------------------------------
\* withTimeout(): the tunnel opens in time, fails, or its time is up.
TunnelOpens(i) ==
  /\ probe[i] = "tunnel"
  /\ probe' = [probe EXCEPT ![i] = "status"]
  /\ sockets' = sockets \cup {i}
  /\ UNCHANGED <<opts, search, pending, lists, candidates, next, checked, latency, picked>>

TunnelFails(i) ==
  /\ probe[i] = "tunnel"
  /\ UNCHANGED <<latency, sockets>>
  /\ Answered(i, "dead")

TunnelTimesOut(i) ==
  /\ probe[i] = "tunnel"
  /\ UNCHANGED <<latency, sockets>>
  /\ Answered(i, "late")

\* Mutant of LateTunnel: a socket that comes after the timeout is left open.
LateTunnelKept(i) ==
  /\ probe[i] = "late"
  /\ probe' = [probe EXCEPT ![i] = "dead"]
  /\ sockets' = sockets \cup {i}
  /\ UNCHANGED <<opts, search, pending, lists, candidates, next, checked, latency, picked>>

\* The negotiation ends after its time: a socket that comes now is destroyed.
LateTunnel(i) ==
  /\ probe[i] = "late"
  /\ probe' = [probe EXCEPT ![i] = "dead"]
  /\ UNCHANGED <<opts, search, pending, lists, candidates, next, checked, latency, sockets, picked>>

\* minecraftStatus(): the status packet is there.
StatusAnswers(i) ==
  /\ probe[i] = "status"
  /\ sockets' = sockets \ {i}
  /\ \E ms \in Latencies : latency' = [latency EXCEPT ![i] = ms]
  /\ Answered(i, "usable")

\* Another packet, an error, the end of the socket, or no answer in time.
StatusFails(i) ==
  /\ probe[i] = "status"
  /\ sockets' = sockets \ {i}
  /\ UNCHANGED latency
  /\ Answered(i, "dead")

ProbeStep(i) ==
  \/ TunnelOpens(i) \/ TunnelFails(i) \/ TunnelTimesOut(i)
  \/ LateTunnel(i) \/ StatusAnswers(i) \/ StatusFails(i)

SearchStep ==
  \/ \E k \in pending : FetchSettles(k)
  \/ \E i \in DOMAIN probe : ProbeStep(i)

SearchSpec == SearchInit /\ [][SearchStarts \/ SearchStep]_searchVars

-----------------------------------------------------------------------------
SearchTypeOK ==
  /\ search \in {"idle", "fetching", "probing", "done"}
  /\ next \in Nat /\ checked \in Nat
  /\ probe \in [1..Len(candidates) -> Probes]
  /\ latency \in [1..Len(candidates) -> Latencies \cup {0}]
  /\ sockets \subseteq 1..Len(candidates)

\* probeUntil(): concurrent workers hand out every candidate once, in order, and
\* never probe more than `concurrency` of them at a time; and when the search
\* returns fewer proxies than it needs, it has probed them all.
ProbedExactlyOnce ==
  /\ Cardinality(InFlight(probe)) <= opts.concurrency
  /\ \A i \in DOMAIN probe : probe[i] = "new" <=> i > next
  /\ checked + Cardinality(InFlight(probe)) =
       Cardinality({i \in DOMAIN probe : probe[i] # "new"})
  /\ search = "done" /\ opts.validate /\ Len(picked) < Need => checked = Len(candidates)

\* withTimeout() and minecraftStatus(): once the search is over every socket it
\* opened has been destroyed, also those that open after their time.
NoSocketLeft == search = "done" => sockets = {}

\* pickValidated(): what is kept is usable, without doubles (each double would
\* carry another load of bots), and no usable proxy that was left out was faster
\* than one that was kept.
BestOnesKept ==
  search = "done" /\ opts.validate =>
    LET indexOf(p) == CHOOSE i \in DOMAIN candidates : candidates[i] = p
        kept == {indexOf(picked[n]) : n \in DOMAIN picked}
    IN /\ Cardinality(kept) = Len(picked)
       /\ kept \subseteq usable
       /\ \A i \in kept, j \in usable \ kept : latency[i] <= latency[j]
=============================================================================
