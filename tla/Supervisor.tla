------------------------------ MODULE Supervisor -----------------------------
(***************************************************************************)
(* What the engine promises about every bot of a run, without timers,      *)
(* registry, drivers or proxies: a bot is started at most once, is brought *)
(* back at most `limit` times after it is lost, is never up twice, and     *)
(* nothing is started any more once the run has been stopped.              *)
(***************************************************************************)
EXTENDS Naturals

CONSTANT Bots    \* the bots of the run

VARIABLES
  limit,    \* how often a lost bot may be brought back
  slot,     \* where each bot stands
  starts,   \* how often each bot has been started
  stopped   \* the run has been stopped

vars == <<limit, slot, starts, stopped>>

\* idle: not started yet.  up: started.  lost: to be brought back.  gone: never
\* to be started again.
Slots == {"idle", "up", "lost", "gone"}

Init ==
  /\ limit \in Nat
  /\ slot = [id \in Bots |-> "idle"]
  /\ starts = [id \in Bots |-> 0]
  /\ stopped = FALSE

\* A first start, or another one within the limit.
Start(id) ==
  /\ ~stopped
  /\ \/ slot[id] = "idle" /\ starts[id] = 0
     \/ slot[id] = "lost" /\ starts[id] <= limit
  /\ slot' = [slot EXCEPT ![id] = "up"]
  /\ starts' = [starts EXCEPT ![id] = @ + 1]
  /\ UNCHANGED <<limit, stopped>>

\* A bot that cannot be started is given up.
GiveUp(id) ==
  /\ slot[id] = "idle"
  /\ slot' = [slot EXCEPT ![id] = "gone"]
  /\ UNCHANGED <<limit, starts, stopped>>

\* A bot that is up goes down; only a run that goes on brings it back.
Lose(id) ==
  /\ slot[id] = "up"
  /\ \/ ~stopped /\ starts[id] <= limit /\ slot' = [slot EXCEPT ![id] = "lost"]
     \/ slot' = [slot EXCEPT ![id] = "gone"]
  /\ UNCHANGED <<limit, starts, stopped>>

\* Stopping the run gives up every bot that is not up.
StopRun ==
  /\ ~stopped
  /\ stopped' = TRUE
  /\ slot' = [id \in Bots |-> IF slot[id] = "up" THEN "up" ELSE "gone"]
  /\ UNCHANGED <<limit, starts>>

Next == StopRun \/ \E id \in Bots : Start(id) \/ GiveUp(id) \/ Lose(id)

Spec == Init /\ [][Next]_vars
=============================================================================
