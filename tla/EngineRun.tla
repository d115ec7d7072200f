------------------------------- MODULE EngineRun ------------------------------
(***************************************************************************)
(* What the caller of an Engine (engine/engine.ts) can count on: how the   *)
(* promise of run() moves, and what stop() and the engine's own timers do  *)
(* to it.  Engine implements this specification; RunManager relies on it.  *)
(***************************************************************************)

VARIABLES
  phase,     \* where the promise of run() stands
  stopping   \* shutdown() has begun

vars == <<phase, stopping>>

\* preflight: before the await of the ping.  waiting: the promise that shutdown()
\* resolves exists.  crashed: the process is gone.
Phases == {"new", "preflight", "waiting", "resolved", "rejected", "crashed"}

Init == phase = "new" /\ stopping = FALSE

\* run() is called: it rejects, or returns at its first await or at its end.
Start ==
  /\ phase = "new"
  /\ phase' \in {"rejected", "preflight", "waiting"}
  /\ UNCHANGED stopping

\* The preflight is over, whether or not stop() came meanwhile.
Settle ==
  /\ phase = "preflight"
  /\ phase' = "waiting"
  /\ UNCHANGED stopping

\* The first shutdown() resolves the promise, if run() has made it.
Finish ==
  /\ ~stopping
  /\ stopping' = TRUE
  /\ phase' = IF phase = "waiting" THEN "resolved" ELSE phase

\* A shutdown() that cannot write its reports resolves nothing.
FinishThrows ==
  /\ ~stopping
  /\ stopping' = TRUE
  /\ UNCHANGED phase

\* stop() at any time after run().
Stop == phase \notin {"new", "crashed"} /\ (Finish \/ FinishThrows)

\* The duration timer fires or SIGINT comes, and every report is written.
EndsByItself == phase = "waiting" /\ Finish

\* A timer callback throws: in a spawn, or in the shutdown of the run.
Crash ==
  /\ phase = "waiting"
  /\ ~stopping
  /\ phase' = "crashed"
  /\ stopping' \in BOOLEAN

Next == Start \/ Settle \/ Stop \/ EndsByItself \/ Crash

Spec == Init /\ [][Next]_vars
=============================================================================
