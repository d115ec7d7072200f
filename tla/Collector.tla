------------------------------ MODULE Collector ------------------------------
(***************************************************************************)
(* metrics/collector.ts: the counters of a run.  One operator per          *)
(* listener of track(); `counted` is the listener's per-driver flag that   *)
(* says whether this driver is in `active` at the moment.  The histograms, *)
(* packet rates and kick reasons are not counters of bots and are left out.*)
(***************************************************************************)
EXTENDS Integers

Metrics == [attempted : Nat, connected : Nat, loggedIn : Nat, spawned : Nat,
            ended : Nat, kicked : Nat, errors : Nat, active : Int]

NoMetrics == [attempted |-> 0, connected |-> 0, loggedIn |-> 0, spawned |-> 0,
              ended |-> 0, kicked |-> 0, errors |-> 0, active |-> 0]

track(m) == [m EXCEPT !.attempted = @ + 1]

onLogin(m) == [m EXCEPT !.loggedIn = @ + 1]

onSpawned(m) == [m EXCEPT !.spawned = @ + 1]

onKicked(m) == [m EXCEPT !.kicked = @ + 1]

onError(m) == [m EXCEPT !.errors = @ + 1]

recordUnavailableProxy(m) == onError(track(m))

\* Puts a driver into `active`, or takes it out.
activate(m) == [m EXCEPT !.active = @ + 1]
deactivate(m) == [m EXCEPT !.active = @ - 1]

\* Mutant of onConnected: no guard against counting a driver twice.
onConnectedUnguarded(m, counted) == activate([m EXCEPT !.connected = @ + 1])

onConnected(m, counted) ==
  LET n == [m EXCEPT !.connected = @ + 1] IN IF counted THEN n ELSE activate(n)

\* Mutant of onEnd: also uncounts a driver that never connected.
onEndUnguarded(m, counted) == deactivate([m EXCEPT !.ended = @ + 1])

onEnd(m, counted) ==
  LET n == [m EXCEPT !.ended = @ + 1] IN IF counted THEN deactivate(n) ELSE n
=============================================================================
