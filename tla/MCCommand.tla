------------------------------ MODULE MCCommand ------------------------------
(* Instances of Command: the invocations, each with what it may meet.       *)
EXTENDS Command

Line(s, a) == [valid |-> TRUE, scheme |-> s, addr |-> a]
Junk == [valid |-> FALSE, scheme |-> "none", addr |-> 0]

\* Two providers: a double in other words, a line that is no proxy.
Providers ==
  <<[scheme |-> "socks5", lines |-> <<Line("none", 1), Line("socks4", 2)>>],
    [scheme |-> "socks4", lines |-> <<Line("none", 2), Junk, Line("socks5", 1), Line("none", 3)>>]>>

\* Two workers for three candidates: a search that needs one proxy and one that
\* needs two, one without validation, one that may probe two candidates only.
Search == [providers |-> Providers, validate |-> TRUE, max |-> 2, perProxy |-> 2,
           overfetch |-> 1, maxProbes |-> 3, concurrency |-> 2]
TwoNeeded == [Search EXCEPT !.overfetch = 2]
Unvalidated == [Search EXCEPT !.validate = FALSE]
Searches == {Search, TwoNeeded, Unvalidated, [Search EXCEPT !.max = 3, !.maxProbes = 2]}

\* No packet; a server at 10 ticks a second, one packet of it too early.
Packets ==
  {<<>>, <<[age |-> 100, at |-> 0], [age |-> 101, at |-> 60], [age |-> 121, at |-> 2060]>>}

\* One worker has a bot more than the other; as many workers as bots, with a reconnect.
Single == [count |-> 1, shards |-> 1, retries |-> 0]
Splits == {Single, [count |-> 3, shards |-> 2, retries |-> 0], [count |-> 2, shards |-> 5, retries |-> 1]}

Base == [sub |-> "run", authorized |-> TRUE, auto |-> FALSE, listed |-> FALSE, script |-> FALSE,
         searches |-> {Search}, plans |-> {Single}, servers |-> {{}},
         scans |-> {[deep |-> FALSE, versions |-> FALSE]}]

RunsSearched ==
  {[Base EXCEPT !.auto = TRUE, !.searches = Searches],
   [Base EXCEPT !.auto = TRUE, !.searches = {Unvalidated}, !.plans = {[Single EXCEPT !.count = 2, !.shards = 2]}]}
RunsGiven == {Base, [Base EXCEPT !.listed = TRUE, !.plans = Splits]}
Scans == {[Base EXCEPT !.sub = "scan", !.servers = SUBSET Signs,
                       !.scans = [deep : BOOLEAN, versions : BOOLEAN]]}
Debugs == {[Base EXCEPT !.sub = "debug", !.script = s] : s \in BOOLEAN}
Serves == {[Base EXCEPT !.sub = "serve", !.listed = l] : l \in BOOLEAN}
ServesAuto == {[Base EXCEPT !.sub = "serve", !.auto = TRUE]}

Authorized == RunsSearched \cup RunsGiven \cup Scans \cup Debugs \cup Serves
Refused == {[Base EXCEPT !.authorized = FALSE, !.sub = s, !.auto = a] :
              s \in {"run", "scan", "debug", "serve"}, a \in BOOLEAN}
Cli == Authorized \cup Refused
=============================================================================
