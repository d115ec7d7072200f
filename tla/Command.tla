-------------------------------- MODULE Command --------------------------------
(***************************************************************************)
(* One process of the command line (cli.ts): `mcst` runs bots, after a     *)
(* search for proxies if the config asks for one, itself or split over     *)
(* workers; `mcst scan` scans a server; `mcst debug` drives one bot from a *)
(* script or a prompt; `mcst serve` starts runs that it is asked for.      *)
(*                                                                         *)
(* The parts are modules of their own: AutoProxies, Shards and Scan.  Of an*)
(* engine only its run promise is kept (EngineRun, Engine).                *)
(***************************************************************************)
EXTENDS AutoProxies, Shards, Scan

CONSTANTS
  Invocations,  \* what is asked for, and what it may meet (MCCommand)
  MaxTyped      \* commands of the prompt that may be under way

\* config/schema.ts: a run has bots and workers; and its means are whole.
ASSUME PlansAssumption ==
  \A c \in Invocations : c.plans \subseteq Plans /\ \A p \in c.plans : WholeMeans(p)

VARIABLES
  cmd,    \* the invocation: its subcommand and what its config says
  stage,  \* where the command stands
  launch, \* how bots were launched, and whether without proxies
  typed,  \* commands of the prompt that have not answered
  code    \* the exit code; -1 while the process runs

cliVars == <<cmd, stage, launch, typed>>
commandVars == <<searchVars, shardVars, scanVars, cliVars, code>>

Alive == code = -1
Exit(c) == code' = c

CommandInit ==
  /\ cmd \in Invocations
  /\ stage = "start"
  /\ launch = [how |-> "none", direct |-> FALSE]
  /\ typed = 0
  /\ code = -1
  /\ SearchInit /\ opts \in cmd.searches
  /\ ShardInit(cmd.plans)
  /\ ScanInit(cmd.servers, cmd.scans)

-----------------------------------------------------------------------------
(* mcst                                                                    *)

\* assertAuthorized() is the first thing an engine and runSharded() do.  A run
\* without proxies in its config is direct.
Launch(direct) ==
  IF ~cmd.authorized
    THEN /\ Exit(2)
         /\ UNCHANGED <<shardVars, stage, launch>>
    ELSE /\ launch' = [how |-> IF plan.shards > 1 THEN "shards" ELSE "engine",
                       direct |-> direct]
         /\ stage' = "run"
         /\ IF plan.shards > 1 THEN RunSharded ELSE UNCHANGED shardVars
         /\ UNCHANGED code

\* runCommand(): with proxies.auto the list is the result of a search.
Run ==
  /\ cmd.sub = "run" /\ stage = "start"
  /\ IF cmd.auto
       THEN /\ stage' = "search" /\ SearchStarts
            /\ UNCHANGED <<shardVars, launch, code>>
       ELSE Launch(~cmd.listed) /\ UNCHANGED searchVars
  /\ UNCHANGED <<scanVars, cmd, typed>>

\* Mutant of SearchReturns: a run without a usable proxy is launched all the same.
SearchReturnsAnyhow ==
  /\ stage = "search" /\ search = "done"
  /\ Launch(picked = <<>>)
  /\ UNCHANGED <<searchVars, scanVars, cmd, typed>>

SearchReturns ==
  /\ stage = "search" /\ search = "done"
  /\ IF picked = <<>>
       THEN Exit(1) /\ UNCHANGED <<shardVars, stage, launch>>
       ELSE Launch(picked = <<>>)
  /\ UNCHANGED <<searchVars, scanVars, cmd, typed>>

\* The engine's promise settles: something threw, or its reports are written and
\* nothing is left to do.  That does not end the process while a client is held:
\* one that had no socket to close when it was told to disconnect (a full client
\* before its login, a client whose proxy or whose server is still looked up).
EngineSettles ==
  /\ stage = "run" /\ launch.how = "engine"
  /\ \/ Exit(1) /\ UNCHANGED stage
     \/ stage' \in {"left", "held"} /\ UNCHANGED code
  /\ UNCHANGED <<searchVars, shardVars, scanVars, cmd, launch, typed>>

\* The last client that was held ends, if it ever does.
ClientEnds ==
  /\ stage = "held"
  /\ stage' = "left"
  /\ UNCHANGED <<searchVars, shardVars, scanVars, cmd, launch, typed, code>>

\* Node ends a process that nothing keeps.
ProcessEnds ==
  /\ stage = "left"
  /\ Exit(0)
  /\ UNCHANGED <<searchVars, shardVars, scanVars, cliVars>>

\* runSharded() returns, and the parent writes the report of all; or it throws.
ShardsReturn ==
  /\ stage = "run" /\ launch.how = "shards"
  /\ \/ parent = "merged" /\ \E c \in {0, 1} : Exit(c)
     \/ parent = "failed" /\ Exit(1)
     \/ parent = "killed" /\ Exit(130)
  /\ UNCHANGED <<searchVars, shardVars, scanVars, cliVars>>

-----------------------------------------------------------------------------
(* mcst scan                                                               *)

ScanCommand ==
  /\ cmd.sub = "scan" /\ stage = "start"
  /\ IF cmd.authorized
       THEN stage' = "scan" /\ ScanStarts /\ UNCHANGED code
       ELSE Exit(2) /\ UNCHANGED <<scanVars, stage>>
  /\ UNCHANGED <<searchVars, shardVars, cmd, launch, typed>>

\* The report is printed, or the ping has failed.  The process ends when nothing
\* keeps it: not while the bot of the scan is connected, nor before its timers.
ScanReturns ==
  /\ stage = "scan"
  /\ \/ scan = "failed" /\ Exit(1)
     \/ scan = "done" /\ bot \in {"none", "gone"} /\ unasked = {} /\ Exit(0)
  /\ UNCHANGED <<searchVars, shardVars, scanVars, cliVars>>

-----------------------------------------------------------------------------
(* mcst debug                                                              *)

DebugCommand ==
  /\ cmd.sub = "debug" /\ stage = "start"
  /\ IF cmd.authorized
       THEN stage' = "connect" /\ UNCHANGED code
       ELSE Exit(2) /\ UNCHANGED stage
  /\ UNCHANGED <<searchVars, shardVars, scanVars, cmd, launch, typed>>

\* BotApi.connect() resolves with the spawn; an error or the end before it rejects.
DebugConnects ==
  /\ stage = "connect"
  /\ \/ stage' = (IF cmd.script THEN "script" ELSE "prompt") /\ UNCHANGED code
     \/ Exit(1) /\ UNCHANGED stage
  /\ UNCHANGED <<searchVars, shardVars, scanVars, cmd, launch, typed>>

\* A script that throws or runs out of time sets the exit code.
ScriptEnds ==
  /\ stage = "script"
  /\ \E c \in {0, 1} : Exit(c)
  /\ UNCHANGED <<searchVars, shardVars, scanVars, cliVars>>

\* A line of the prompt starts a command; the next line does not wait for it.
LineTyped ==
  /\ stage = "prompt"
  /\ typed < MaxTyped
  /\ typed' = typed + 1
  /\ UNCHANGED <<searchVars, shardVars, scanVars, cmd, stage, launch, code>>

\* Its command answers; or it is `quit`, or rejects, which nothing catches.
LineAnswered ==
  /\ stage = "prompt" /\ typed > 0
  /\ typed' = typed - 1
  /\ UNCHANGED code \/ \E c \in {0, 1} : Exit(c)
  /\ UNCHANGED <<searchVars, shardVars, scanVars, cmd, stage, launch>>

\* The bot ends or the input does, which closes the prompt; or the bot has an
\* error, for which nothing listens.
PromptEnds ==
  /\ stage = "prompt"
  /\ \E c \in {0, 1} : Exit(c)
  /\ UNCHANGED <<searchVars, shardVars, scanVars, cliVars>>

-----------------------------------------------------------------------------
(* mcst serve                                                              *)

\* The daemon (RunManager) takes requests.
Serve ==
  /\ cmd.sub = "serve" /\ stage = "start"
  /\ stage' = "serve"
  /\ UNCHANGED <<searchVars, shardVars, scanVars, cmd, launch, typed, code>>

\* POST /api/runs: the config as it is posted, its `auto` and `shards` unused.
ApiStart ==
  /\ stage = "serve" /\ launch.how = "none"
  /\ cmd.authorized
  /\ launch' = [how |-> "engine", direct |-> ~cmd.listed]
  /\ UNCHANGED <<searchVars, shardVars, scanVars, cmd, stage, typed, code>>

-----------------------------------------------------------------------------
CliStep ==
  \/ Run \/ SearchReturns \/ EngineSettles \/ ClientEnds \/ ProcessEnds \/ ShardsReturn
  \/ ScanCommand \/ ScanReturns
  \/ DebugCommand \/ DebugConnects \/ ScriptEnds
  \/ LineTyped \/ LineAnswered \/ PromptEnds
  \/ Serve \/ ApiStart

CommandNext ==
  \/ Alive /\ CliStep
  \/ Alive /\ SearchStep /\ UNCHANGED <<shardVars, scanVars, cliVars, code>>
  \/ (Alive \/ parent = "failed" \/ parent = "killed") /\ ShardStep
       /\ UNCHANGED <<searchVars, scanVars, cliVars, code>>
  \/ Alive /\ ScanStep /\ UNCHANGED <<searchVars, shardVars, cliVars, code>>

CommandSpec == CommandInit /\ [][CommandNext]_commandVars

\* Timeouts end a fetch of proxies, a probe, a ping, a reconnaissance and a script; a
\* run has a duration (Engine: RunSettles); Node delivers what a worker sent and its
\* exit, and ends a process that has nothing left to do.  Without a timeout are the
\* connection of a debugged bot (botApi.ts:90), the request to osv.dev
\* (advisories.ts:137) and a client that is held or lingers: nothing is assumed of
\* them, so that a lookup is certain to end only if there is nothing to ask.
NothingToLookUp == ToLookUp = {} /\ LookupsEnd

CommandFairness ==
  /\ WF_commandVars(Alive /\ (Run \/ SearchReturns \/ EngineSettles \/ ProcessEnds \/ ShardsReturn))
  /\ WF_commandVars(Alive /\ (ScanCommand \/ ScanReturns \/ DebugCommand \/ ScriptEnds))
  /\ WF_commandVars(Alive /\ SearchStep /\ UNCHANGED <<shardVars, scanVars, cliVars, code>>)
  /\ WF_commandVars(Alive /\ (ScanSettles \/ NothingToLookUp)
                     /\ UNCHANGED <<searchVars, shardVars, cliVars, code>>)
  /\ WF_commandVars(Alive /\ (\E i \in DOMAIN worker : WorkerStep(i))
                     /\ UNCHANGED <<searchVars, scanVars, cliVars, code>>)

FairCommandSpec == CommandSpec /\ CommandFairness

-----------------------------------------------------------------------------
\* "Running direct after asking for proxies would send the real IP; refuse
\* instead" (cli.ts:215): a run whose config asks for free proxies is never
\* launched without one, whether the search fails, finds none or is cut short.
NeverDirect == cmd.auto /\ launch.how # "none" => ~launch.direct

\* "Anything that probes or attacks (proxies, the security scanner) is
\* authorized-only" (docs/roadmap.md:70): nothing is sent to the target before
\* the authorization is there.
AuthorizedFirst ==
  ~cmd.authorized =>
    sockets = {} /\ scan = "idle" /\ launch.how = "none" /\ worker = <<>>

\* A command that nobody types at comes to its end.  A run does, by the timeouts of
\* its search and its duration, whatever its workers do, but for a client that still
\* connects, here or in a worker; a scan has its report, but for an answer of osv.dev;
\* the script of a debugged bot is over with its time, once the bot has joined.
CommandEnds ==
  /\ cmd.sub = "run" ~> ~Alive \/ stage = "held" \/ \E i \in DOMAIN worker : worker[i] = "lingering"
  /\ cmd.sub = "scan" ~> ~Alive \/ scan = "done" \/ (scan = "lookup" /\ ToLookUp # {})
  /\ stage = "script" ~> ~Alive
=============================================================================
