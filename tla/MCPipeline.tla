------------------------------ MODULE MCPipeline -----------------------------
(* Instances of Pipeline for TLC: small pipelines.                         *)
EXTENDS Pipeline

Stage(kind, onFailure, retries, timed) ==
  [kind |-> kind, onFailure |-> onFailure, retries |-> retries, timed |-> timed]

Auth == Stage("auth", "retry", 1, TRUE)
Commands == Stage("commands", "continue", 0, TRUE)
Daemon == Stage("daemon", "continue", 0, FALSE)
Blueprint == Stage("blueprint", "retry", 1, TRUE)

\* Every kind and every policy: retries before and after the spawn, with and
\* without a timeout, a stage that stops the pipeline, stages with nothing to do.
MixedPipelines ==
  {<<>>,
   <<Auth, Commands, Daemon>>,
   <<Blueprint, Auth>>,
   <<Blueprint, Stage("commands", "stop", 0, TRUE), Stage("inert", "continue", 0, TRUE)>>,
   <<Stage("blueprint", "stop", 0, FALSE), Auth>>,
   <<Daemon, Stage("commands", "retry", 2, TRUE)>>,
   <<Stage("commands", "retry", 2, TRUE), Commands>>,
   <<Stage("auth", "continue", 0, TRUE), Commands, Daemon>>,
   <<Stage("auth", "retry", 2, FALSE), Commands, Commands>>,
   <<Daemon, Stage("commands", "stop", 0, TRUE), Daemon>>}

\* Commands that are retried when they take too long.
ImpatientPipelines == {<<Stage("commands", "retry", 1, TRUE)>>}
=============================================================================
