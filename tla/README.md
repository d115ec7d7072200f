# A formal model of the Minecraft stress tester

The repository's `packages/core` drives many bots at one Minecraft server from one
Node process, or from several; `packages/server` is a daemon that starts such runs over
HTTP and debugs single bots over a WebSocket; `packages/ui` is a browser client of that
daemon. Everything runs on event loops, so the hard part of this code is not
arithmetic but *which callback runs when*: timers that fire late, sockets that end
twice, awaits across which the world changes, answers that overtake each other. This
directory holds TLA+ modules for that part, TLC runs over small instances, and proofs
for every size.

Paths below are relative to the repository; `core/`, `server/` and `ui/` stand for
`packages/core/src/`, `packages/server/src/` and `packages/ui/src/`.

## The system

| part | state | operations | who it talks to |
|---|---|---|---|
| Engine (`core/engine/engine.ts`) | timers, `shuttingDown`, `resolveRun`, registry, specs, skipped bots | `run`, `stop`, `snapshot`, spawn / reconnect / duration timers, SIGINT | drivers (events), pool, accounts, collector, pipeline, reports |
| Registry (`core/engine/registry.ts`) | id → current driver and retries | `add`, `replace`, `incRetry`, `remove`, `all` | engine |
| Proxy pool (`core/net/proxy.ts`) | rotation index, bots per proxy | `acquire`, `release` (never called) | engine |
| Accounts (`core/net/accounts.ts`) | rotation index | `next` | engine |
| Drivers (`core/drivers/*.ts`) | the client and its socket | `connect`, `disconnect`, events `connected`, `login`, `spawned`, `kicked`, `error`, `end` | server, tunnel, engine, collector, pipeline |
| Collector (`core/metrics/collector.ts`) | counters, histograms | `track` and its listeners, `snapshot` | drivers, reports |
| Pipeline (`core/pipeline/*.ts`) | handles, `stopped`, the stage awaited | `runPipeline`, `withTimeout`, stages' `start`/`stop` | one driver |
| Run manager (`server/runManager.ts`, `server/router.ts`, `server/httpServer.ts`) | records of runs, streams | `start`, `stop`, `snapshot`, metrics stream | engines, HTTP clients |
| Debug session (`server/wsServer.ts`, `server/wsRouter.ts`) | the socket's bot and script | attach, debug lines, script start and stop, close | bot API, sandbox |
| Script sandbox (`core/script/sandbox/*.ts`) | an isolate with its messages, a timeout | start, stop, calls to the bot | bot API |
| Automatic proxies (`core/net/autoProxies.ts`, `proxyProbe.ts`) | candidates, the next one, the usable ones | fetch, merge, `probeUntil`, pick | providers, target, tunnels |
| Proxy tunnel (`core/net/proxyConnect.ts`) | one socket | SOCKS / HTTP connect under a timeout | probes, drivers |
| Sharded runs (`core/engine/sharded.ts`, `shard.ts`) | worker processes, their configs on disk, their snapshots | `runSharded`, `splitConfig`, `mergeSnapshots` | forked processes, each with an engine |
| TPS, histograms (`core/metrics/tps.ts`, `histogram.ts`) | the last packet, samples | `record`, `summary` | collector, merge |
| Scan (`core/scan/*.ts`) | the reconnaissance bot, channels, commands and chat lines it saw | ping, recon with a timeout, version probes, look-ups | server, OSV / Maven |
| Command line (`core/cli.ts`) | the stage of one command | `run`, `scan`, `debug`, `serve` and their exits | all of the above |
| Blueprints and graphs (`core/script/*.ts`) | – | validity, blueprint ↔ graph, interpreter, compiler | pipeline stage, editor |
| Config store, history (`server/configStore.ts`, `history.ts`) | files | list, load, save, delete; list and read reports | router, runs of other processes |
| Web interface (`ui/`) | the state of each view, requests under way | buttons, polls, `EventSource`, debounce | router, streams |
| Ramp, preflight, configuration, reports, live views | mostly none | functions and I/O | – |

Hard behaviours, with the properties about them (`PROJECT.json` lists each at its
source line under `hazards`):

* **State checked before an await and used after it**: `run()` awaits the preflight
  ping and does not look at `shuttingDown` again; an editor awaits a load while another
  one is asked for.
* **Two events for one fact**: a kick emits `kicked` *and* `end`; a failing tunnel
  emits `error` and *no* `end`; a full client emits `connected` with every transfer.
* **Timers against shutdown**: spawn, reconnect and duration timers, SIGINT and
  `stop()` meet in any order.
* **Resources handed out once and shared over reconnects**: proxy places, accounts.
* **A result against its timeout**: pipeline stages, tunnels, sandboxed scripts, the
  reconnaissance of a scan.
* **Concurrent workers over one list**: probes share the index of the next candidate
  and the count of usable ones; a stop condition holds for all of them.
* **One step of several failing**: a report that cannot be written after all bots are
  disconnected; an empty account list found inside a timer callback; one worker process
  that dies while the others go on; a report another process has written half of.
* **Promises that only one path resolves**: the run's, a pipeline's `finished`, the
  daemon's exit.
* **Answers out of order**: HTTP answers that overtake each other, a stream of the run
  that was selected before.

What makes each part correct: the engine never has two connections for one bot,
stays within its retries and its proxies' caps, reaches every open bot when it shuts
down, starts nothing afterwards, and resolves its promise once; the collector's
counters are exact; a pipeline gates its stages in order and leaves nothing running
that it gave up; a debug session has one bot and one script at a time and leaves none
behind; the daemon reports of every run what its engine does, finally, and ends its
streams with the final snapshot; a search probes each candidate once, keeps the fastest
and leaves no socket; a split run is worth its workers; a scan reports what it saw; a
page shows what belongs together.

## Modules

| module | models | state and actions against the code |
|---|---|---|
| `ProxyPool` | `ProxyPool` | a record of `active` and `idx`; `Acquired`/`AfterAcquire` are the result and effect of `acquire()` |
| `Registry` | `Registry` | a function from ids to the number of the current driver and the retries; operators with the method names |
| `Collector` | `MetricsCollector` counters | one operator per listener of `track()`, with the `counted` flag of its closure |
| `Engine` | `Engine`, `AccountManager`, the drivers' events, the authorization gate and the preflight | see below |
| `EngineRun` | what a caller of an engine may rely on (abstract) | phases of the run's promise against `stop()` |
| `Supervisor` | what the engine promises about each bot (abstract) | idle / up / lost / gone slots, starts within a limit |
| `Pipeline` | `runPipeline`, `withTimeout`, all stages of `stdlib.ts`, over one bot | `StartStage`, `Advance`, `Retry`, `GiveUp` are the loop; `Resume` is its continuation after the await; the other actions are events and timers |
| `RunManager` | run manager, run requests, metrics stream, `serve`'s SIGINT | engines are kept as their promise only, moving as `EngineRun` allows |
| `Session` | one WebSocket: `setupSession`, `handleWsMessage`, the bot API, the console's commands that change something, a script as host and isolate | `bot` and `script` are the closure's variables; bots and scripts are numbered; `inbox` is the message port of an isolate, `goal` the `goto` awaited on a bot |
| `AutoProxies` | the search for free proxies and one tunnel per probe | `pending` providers, `candidates`, `next`, `checked`; a worker of `probeUntil` is the candidate it awaits; `late` is a tunnel still under way after its timeout |
| `Shards` | `runSharded`, `splitConfig`, `mergeSnapshots`, histogram and TPS | `worker` are processes, `measured` the launches each tried and the samples of those that spawned, reconnects included, `inbox` the IPC messages under way, `verdict` the promise of each `runWorker()`, `dir` the directory of their configs; `Summary`, `Quantile`, `Tps` are functions of samples |
| `Scan` | `scan()`, `recon()`, detection and merge | `shows` is what the server gives away; `channels`, `lines`, `commands` what the bot has seen; `Finish` is whoever settles the reconnaissance |
| `Command` | `mcst run`, `scan`, `debug`, `serve` | extends the three above; `stage` is the await the command stands at (`held`: none any more, but a client keeps the process), `code` its exit code |
| `Graph` | blueprints: schema, both conversions, interpreter, compiler | operators only; `RunBlueprint` and `RunCode` are what interpreter and ejected code do: the sequences of actions that start at once, side by side or in turn, those that each event starts, and whether events are missed while the first ones wait |
| `Panel` | one browser page: Dashboard, ConfigEditor, History, GraphEditor, Scripts; router, config store, history | extends `RunManager` and `Graph`; requests are `sent` until the daemon reads them, answers `answered` until they arrive, in any order; one record per view |
| `MCEngine`, `MCPipeline`, `MCCommand`, `MCPanel` | instances for TLC | configurations, pipelines, invocations, plans |
| `Engine_proofs`, `Pipeline_proofs`, `RunManager_proofs`, `Session_proofs`, `AutoProxies_proofs`, `Command_proofs`, `Panel_proofs` | theorems about the modules they are named after | see *Proofs* |
| `FoldTheory` | folds over sequences, for any operator | a theory that the proof modules instantiate, see *Proofs* |

**How modules compose.** `Engine` extends `ProxyPool`, `Registry` and `Collector` and
keeps their state in its own variables (`pool`, `registry`, `metrics`), because an
engine's callback updates them in one go. `Engine` is shown to implement `EngineRun`
and `Supervisor` with `INSTANCE ... WITH`. `RunManager` does not contain `Engine`: it
contains one `EngineRun` per run, and `EnginesKeepTheirContract` shows that it drives
them only as `EngineRun` allows, which `Engine` in turn is proved to implement. The
call `runPipeline(bot, ...)` in the engine's `launch` touches no state of the engine; it is
`Pipeline`, a module of its own over one bot. What a WebSocket does to the rest of the daemon
is two actions of `RunManager`: `Holds` (an open socket, like a `POST /api/script/run` that
waits for its script, keeps the server from closing) and `SessionThrows` (an exception that leaves `Session`, which ends the process).
`Session` starts no run, so nothing else passes between them. `Command` is one process of
the command line; each subcommand uses the state of the part it needs, and of the
engine only that its promise settles. `Panel` puts one page on top of `RunManager`:
its streams are the `EventSource`s of the dashboard, its start and stop requests are
`RunManager`'s `Start` and `Stop`, and a script it runs is the `SessionThrows` of a bot
that emits an error (`ScriptBotThrows`). A request that touches files may find that the file
system throws (`FileFails`), where the plan of the use says so.

**One action is one callback.** JavaScript runs a callback to its end. `SpawnFires` is
the callback of a spawn timer with all it calls (`makeSpec`, `pool.acquire`, `launch`,
`track`, `registry.add`); `End(d)` is every listener of one driver's `end`;
`Shutdown` is `shutdown()` with `clearTimers`, `disconnect` of each bot, `writeReports`
and the resolution. An `await` splits a function in two actions (`RunPreflight`,
`PreflightSettles`). Handlers on a promise that has settled run before other
callbacks (`Settled` in `Pipeline` and `RunManager`); where nothing can come between, as after
the `await` in `attach()` or in a probing worker, they belong to the event that settles the
promise. An isolate is a thread of its own, and so are a worker process and a browser: what
they post and what the other side takes are different steps (`WorkerCalls` and
`HostTakes`, `WorkerSends` and `WorkerMessage`, `ServeRead` and `LoadArrives`).

**Names in `Engine`.** A driver is a pair of a bot id and its incarnation number, so
that two connections of one bot can be told apart. `st` is the driver's socket;
`told` are those that `disconnect()` has reached: a light client always, a full
client only once mineflayer has attached `quit()`. `run` is the promise of `run()`, with
`crashed` for an exception that leaves a callback nobody wraps (Node exits).
Delays are not modelled: all timers that are pending may fire in any order, which
covers every ramp, jitter and backoff.

**Names in `Panel`.** A view is mounted while its tab is open, and an answer to a view
that is gone reaches nobody. `kept` is a history variable: every text a file ever had,
with its name. An answer that is an error only sets a message, so its request is
dropped when it is read. What a user does is one of the `Plans`: which tabs, how many
clicks, and how many answers of a kind may be on their way.

**Definitions for comparison.** Some modules hold operators and actions marked "Mutant
of": a plausible slip in the definition they name (a dropped guard, a missing reset, a
swapped order). They are part of no specification. With one in the place of the original
the run named in `PROJECT.json` (`mutants`) finds the property violated, which shows that
the property depends on that line.

## Runs

| run | asks | bounds |
|---|---|---|
| `engine` | no second connection for a bot, retries, no lost bot forgotten, shutdown, accounts apart and kept over reconnects, caps, counters; the refinements of `Supervisor` and `EngineRun`; the run settles | 2 bots, 2 proxies, 3 drivers each, 1 retry, 3 logins, 1 kick, 1 error; 6 configurations without proxies and 4 with; fair |
| `engine_stop_early` | *violation*: "stop() resolves the run too" (`server/runManager.ts:63`) | 2 bots, fair |
| `engine_slot_leak` | *violation*: a bot is skipped only when all proxies are at their cap (`core/engine/engine.ts:153`) | 2 bots, 1 proxy with 1 place |
| `pipeline` | gating, quiet after giving up, torn down, ends | 10 pipelines over every kind of stage and policy, 9 handles, 2 logins, fair |
| `pipeline_retry_after_end` | *violation*: everything is torn down when the bot ends (`core/pipeline/runner.ts:39`) | one timed stage with a retry |
| `runs` | statuses honest and final, streams end with the final snapshot, the daemon exits | 2 runs, 2 streams, WebSockets and script runs that hold the server, fair |
| `session` | one bot and none left behind for a client that waits for its `attach`; one script at a time; scripts end for good | 2 bots, 2 scripts, 1 call under way per isolate, fair |
| `session_overlap` | *violation*: "per-connection it attaches one bot" (`server/wsServer.ts:19`) | 2 attaches |
| `command` | every candidate probed once, no socket left, the fastest kept, never direct, shards add up, merged figures, grounded scan reports, every command ends | 4 searches over 2 providers, 3 candidates and 2 workers; 3 bots over 2 workers, and 2 over 5 with a reconnect each; spawn times of 12, 24 and 60 ms; 2 plugins, one with published versions; 2 chat lines, 2 commands typed; fair |
| `command_gate` | *violation*: "anything that probes … is authorized-only" (`docs/roadmap.md:70`) | the same invocations |
| `api_auto_direct` | *violation*: a run that asks for free proxies is never direct, for a daemon that is posted one (`core/cli.ts:215`) | one invocation |
| `panel` | live metrics of the selected run, text and name and form of an editor in step, ejected code, what opening, saving and deleting may end, the dashboard catches up | seven plans of 2–6 clicks and 1–2 answers of a kind, one of them with a file system that fails; 2 runs, 2 streams, 3 names, 2 reports, 6 blueprints; fair |

**Why these bounds are enough.** *Engine.* Two bots let one bot's events run between
another's, and compete for one place on a proxy; a list that names a proxy twice makes the
pool pass over a full one.
Three drivers are one more than one retry can create: with `maxRetries = 1` a launch
beyond the budget is possible in the model and excluded by the code, not by the bound
(`ConfigAssumption` asks for `maxRetries + 2 <= MaxDrivers`, and `RetryBudget` is
proved, so the guard `k <= MaxDrivers` of `Launch` never blocks). `MaxLogins`,
`MaxErrors` and `MaxKicks` stop counters that would grow without end; a driver
still ends, with or without a kick, at any point.
*Pipeline.* Two stages are enough for
gating and a third shows that gating is transitive; two retries show that the attempt
counter is reset per stage. `MaxHandles` is what the assumption of `Pipeline` requires
of the pipelines given.
*Runs.* Two runs show that a callback of one does not disturb the
other; a second stream shows that ending one leaves the other.
*Session.* Two bots and two scripts on a socket are what it takes for an attach during an
attach, an attach under a running script, and a script started over another one;
`MaxInbox = 1` leaves one call behind when a script is given up, which is enough for a
call that comes late (its `done` may queue behind it).
*Command.* Two workers on three candidates are a worker that takes the next candidate
while the other awaits, and one that returns because enough are usable; the searches
differ in how many they need, in whether they validate and in how many they may probe.
The two splits are one that does not divide evenly and one with more workers than bots.
With a reconnect a worker tries, and samples, up to twice as many launches as it has bots,
and may stop before it has launched them all. Spawn times are multiples of 12 so that the
mean of up to four is whole.
*Panel.* Two clicks of one kind are two requests that may overtake each other; each
plan opens the views that share state, so that the product of all views is not explored.
One of the three names is not allowed, one ends in `.json`. Three of the blueprints meet
what `EjectedDoesTheSame` asks or nearly do: two spawn rules between event rules that wait,
one spawn rule that waits by itself, and one that waits before other rules (outside). One
has outcomes, and two are refused by the schema.

**Fairness.** Node runs every timer that is due and every microtask, and the preflight
ping has a timeout of its own; so weak fairness on those callbacks, per bot, per run
and per stream (`FairSpec`). In `Session` the timer of a script is such a timer, its
messages are taken, and an isolate that was told to terminate does. `FairCommandSpec`:
timeouts end a fetch of proxies, a probe, a ping, a reconnaissance and a script, an engine
settles as `RunSettles` says, Node delivers what a worker sent and its exit, and ends a
process that nothing keeps; a worker may still crash before it sends. Nothing is assumed of
what has no timeout: the connection of a debugged bot (`core/bot/botApi.ts:90`), the request
to osv.dev (`core/scan/advisories.ts:137`; a look-up is only certain to end if there is nothing
to ask), and a client that goes on connecting after its run, which keeps the process of
`mcst run` or of a worker since neither calls `process.exit` then (`held`, `lingering`).
`CommandEnds` says so for each of them. `FairPanelSpec`: the fairness of `RunManager`, the dashboard polls, a list that is
asked for is read and arrives, the effect of a selection runs, and an `EventSource`
connects, receives and reconnects. The user need do nothing. Nothing is assumed of the
Minecraft server, of proxies, of clients or of the operator: they may stay silent for
good. Stage timeouts are timers, so
`PipelineEnds` asks for pipelines whose gating stages have one; without it the
property is false, see below.

`CHECK_DEADLOCK FALSE` is said in every configuration, because each system may really
stop: a run that has resolved, a process that has exited, a pipeline that has finished, a
page whose user does nothing more.

## Proofs

The theorems hold for every value of the constants that meets the named assumptions:
`NoProxyAssumption` (`NoProxy` is not a proxy), `MaxDriversAssumption` and
`BoundAssumption` (bounds are natural numbers), `ConfigAssumption` (configurations are
typed, and `maxRetries + 2 <= MaxDrivers`), `PipelineAssumption` (pipelines are sequences
of stages, and there are handles enough for their attempts), `SessionAssumption` (bounds
are natural numbers) and those below. TLC evaluates each of them for the instances above.

* `SearchAssumption`: latencies are natural numbers, what the options of a search count is
  at least one, and the providers of a search are a sequence of lists.
* `MeasuresAssumption`, `PlansAssumption`: spawn times are natural numbers, time packets
  are sequences of pairs of integers, and a run has at least one bot and one shard. The
  mean of as many times as a run may launch bots is whole (`WholeMeans`): that is a choice of
  the unit of time, since for any count there is a unit so small that it holds; JavaScript's
  fractions are not modelled.
* `PanelAssumption`: for each name there is a text on disk from the start or no file; a plan
  of a user opens tabs that exist, starts runs and writes reports that exist, with any number
  of clicks and of answers under way; blueprints have the fields of `BlueprintType`.

With these every safety invariant and every action property that a run checks is proved, the
refinements included. Liveness is not (see *Only model-checked*).

**Folds** (`FoldTheory`). Lists, sums, walks and conversions are folds over sequences in the
models. The provers cannot instantiate a theorem with an operator as its parameter, so an
induction principle cannot be cited. `FoldTheory` has the operator of the fold as a
CONSTANT instead and proves the equations of any fold: of nothing it is the base
(`FoldEmpty`), one more element is one more application (`FoldAppend`), it stays in a set
that the operator stays in (`FoldStays`), and it goes over a concatenation one part
after the other (`FoldConcat`). A proof module takes it with `INSTANCE FoldTheory WITH
Op <- LAMBDA ...`, once for each fold it reasons about. Inductions over the length of a
sequence go by a set: a set of numbers that has 0 and the next of each has them all
(`SetInduction`), which follows from the well-foundedness of `<`.

**Engine** (`Engine_proofs`). `TypeCorrect` and `Inductive`: `IInv` is `TypeOK` with
`DriversInOrder` (an id's drivers are numbered without gaps, and all but the
newest have ended), `NothingBeforeSchedule` (nothing is pending or born before
`run()` has scheduled), `RegistryNamesLast` (an entry names the newest driver),
`ReconnectsArePaid` (a pending reconnect is the only one of its id, its bot has
no connection and its id is registered), `RetriesBoundLaunches`
(launches are at most retries + 1) and the targets themselves. From it follow
`RetryBudgetHolds`, `ShutdownReaches`, `OneConnection` and `NothingLaunchesLate`. None of
these is inductive alone. "At most one
connection" would be broken by a reconnect timer that fires while the bot is still
up; that no such timer exists follows only from the fact that timers are set when
the newest driver ends, and that this driver is the only one open. That every open
driver is reached at shutdown needs that the registry names the *newest* driver and
that older ones have ended.

Five more results stand on `IInv`, each with what it needs:

* `LostBotsAreAwaited` (`LostHaveTimers`): while the run goes on, a registered bot has
  exactly one reconnect
  timer when its connection has ended and none otherwise. With the fairness of timers
  that is why a lost bot comes back unless the run ends first; stated as a leads-to it
  would say nothing, because the duration timer ends every run.
* `ResolvedIsQuiet` (`SettledOnce`): `shutdown()` passes its body once, so a promise that
  has resolved has written its reports once and left no timer and no handler.
* `AccountsAreKept`, of two parts. `AccountsStayApart` (`RotationHasRoom`, `AccountsDiffer`):
  as many accounts are handed out as bots were scheduled and are not pending any more, so
  the rotation only comes round when bots outnumber accounts. `SpecsStay`: a spec is made by
  a spawn timer only, and that of a bot that was launched is no longer pending; so a
  reconnect brings a bot back with its account and its proxy.
* `ProxiesStayUnderCap` (`PoolCountsHolders`): `pool.active[p]` is at least the number of
  bots whose spec carries `p`. Only a bot's first launch acquires a place; its
  reconnects use the one it has, and nothing gives it back.
* `ActiveCounts`, `AttemptsAddUp` (`CountersCount`): each counter equals the number of
  drivers in certain states, with a lemma for one driver that moves between two sets.

Two theorems are refinements: `KeepsItsPromise` (`Engine` implements `EngineRun`) and
`SupervisorHolds` (`Engine` implements `Supervisor`). Both map initial states to initial
states and each action
to a step or a stutter, under `RInv`, `IInv` with `ShutdownSettles` (a promise that
is still pending although the shutdown has begun has no timer that could settle it).

**Pipeline** (`Pipeline_proofs`). `PipeInv` is `TypeOK`, `Bound` and the targets, for every
set of pipelines: `StagesGate`, `DroppedStaysQuiet`, `PatientIsTornDown`. `Bound` says
that each handle is one of its stage's attempts, and what a handle of each kind
may do; without it a late result could be one of another stage.

**Run manager** (`RunManager_proofs`). `RunInv` relates each status to where the engine
stands, and each stream to the status and the snapshots of its run: `StatusHonest`,
`StatusFinal`, `StreamsEndFinal`, and `EnginesKeep`, the refinement of `EngineRun` by each
engine of the daemon. Streams end in a poll that reads both, so the invariant has to say
which pairs a poll can meet.

**Session** (`Session_proofs`). `SessionInv` numbers bots and scripts, and says of a
client that waits which bots nobody has told to go: `OneScript`, `PatientHasOneBot`. The
second needs that while an attach is awaited the bot of before has been told.

**Search, workers, scan, command** (`AutoProxies_proofs`, `Command_proofs`).

* `SearchInv` says where each candidate stands against `next` and `checked`, `PickInv`
  that candidates have no doubles and a number for their latency: `SearchCorrect` for a
  search by itself in any interleaving of its workers; `NoSocket`, `ProbedOnce` and
  `BestKept` for the search inside the command, where nothing else touches it. That a
  search that returns too few has probed them all needs that its workers stop only when
  there is no next candidate or enough are usable. That the fastest are kept needs
  that the merge of the lists drops doubles, for any lists: the candidate that a kept proxy
  came from is found by its URL.
* `Proxied` gives `ProxiedOnly` under the hypothesis that no authorized daemon is posted
  a configuration that asks for free proxies; without it the property is false (finding 6).
  `Gated`: without the authorization no bot, worker or scan starts, though the search may.
* `ShardInv` gives `HandedIn`: the figures of a split run are made from those of every
  worker. `SplitUp` (the budgets are those of `SplitBudget`, and each worker tries no more launches
  than its share and its retries allow, with a sample for each that spawned) gives `AddedUp`, that shares add up for every number of bots and workers
  and differ by one at most, and `MergedExactly`. The latter rests on `Stands`, a relation
  between the samples of all workers and the rows that are merged, kept by each worker
  that is added: counts and weighted means have the same sums, each row's extremes are
  samples, and each sample lies in the range of a row; the attempts of a row are no fewer than
  its spawns. The merged percentiles are only said
  to lie in order between the extremes, which is all that a weighted mean of
  percentiles promises.
* `ScanInv` gives `Grounded`, whoever settles the reconnaissance.

**Panel** (`Panel_proofs`).

* `BoardInv` (every open stream is one of the watched run) gives `LiveMetrics`; `LoadInv`
  (what an answer to a load says was stored under that name) and `EditorInv` give
  `NameInSync` and `FormInSync`, for any number of requests under way.
* `RunSafe` is the run manager's invariant inside the panel. Its steps there are
  `RunManager`'s own, but for the page that closes its stream; so `ToldTheTruth` states
  `StatusIsHonest` of the whole.
* `PageInv` says that a page knows only runs that exist and reports that were complete
  when they were listed; hence what `OpensHarmlessly` says of an opened report, however
  late the request is read. A plan with failing files is the one exception, and then the step
  that ends the daemon is shown to take a request that touches them.
* `RoundTrip`: `graphToBlueprint()` gives back what `blueprintToGraph()` was given, for
  every valid blueprint without outcomes. The nodes of the graph are folded rule by
  rule; within a rule the walk along the edges of its row collects its actions and
  ends at the last one, and no edge leaves a row. `CodeSame`: the compiled code does what
  the interpreter does and listens as early, for every blueprint without outcomes in which no
  spawn rule waits (`QuietSame`: what starts at once and never waits is over before anything
  else runs, so side by side or in turn makes no difference), or whose only rule is the one that
  waits (`LoneSame`). `CanvasInv` says that the graph and the code on the canvas, and
  those on their way, belong to the blueprint they are said to be of. Together:
  `EjectsTheSame`. A blueprint with an outcome is outside, because
  `toAction()` loses the outcome (see *Blueprints* below).

**Only model-checked.** Liveness (`RunSettles`, `PipelineEnds`, `StreamsEnd`,
`DaemonExits`, `ScriptsEnd`, `CommandEnds`, `DashboardCatchesUp`), which needs fairness and
`ENABLED`, out of reach of these provers.

## Where code and documentation differ

Found while modelling, with a run each (`findings` in `PROJECT.json`):

1. `stop()` during the preflight ping finds no promise to resolve; `run()` goes on,
   schedules its timers, and they return at once because `shuttingDown` is set: the
   promise never settles. The run manager's comment says that `stop()` resolves it.
   The record of the run then never gets its final snapshot although `docs/api.md:30`
   promises one once the run ended.
2. Nothing calls `release()`: a bot that is given up keeps its place, and a later bot
   is skipped as if all proxies were at their cap.
3. A stage's timeout that fires after the bot has ended starts another attempt, which
   no `stop()` reaches.
4. Two `attach` messages in a row on one WebSocket: while the first is awaited the
   session's `bot` is not set, so the second disconnects nobody, both bots join, and
   one of them has no owner. `PatientClientHasOneBot` shows what does hold: with a client
   that waits for the answer and a connection that ends when it fails, there is one
   bot at most and none after the socket has closed.
5. `mcst run` with `proxies.auto` searches before anything asks for the authorization
   (`core/cli.ts:197`): tunnels to the target open and its status is asked, then the
   command is refused. `docs/roadmap.md:70` wants everything that probes authorized.
6. A run that is posted to the daemon with `proxies.auto` is launched without any proxy:
   only `runCommand()` resolves them (`server/router.ts:91` against `core/cli.ts:215`).

### Noted without a run

*Engine and pipeline.* A full client that is still connecting at shutdown is not reached
by `disconnect()` and stays if it connects later (`core/drivers/full.ts:77`), so
`ShutdownReachesEveryBot` is about light clients. `peak logged-in` in the report
(`core/report/summary.ts:13`)
prints a counter of join-game packets (`core/metrics/collector.ts:66`), not a peak.
Actions of a blueprint stage are not interrupted by `stop()`
(`core/pipeline/stdlib.ts:214`). A pipeline without timeouts that is stopped in a
stage that waits for the spawn never resolves `finished` (`core/pipeline/runner.ts`).
A run stopped in its preflight installs its SIGINT handler afterwards, which swallows
one Ctrl+C of the daemon. The TPS estimator takes the packets of all bots as those of one
clock, and a packet it ignores still becomes the last one (`core/metrics/tps.ts:22`).

*Daemon and session.* An open WebSocket keeps the daemon running after Ctrl+C,
because `server.close()` waits for it (`DaemonExits` asks for none). Runs are never
removed from the manager (`server/runManager.ts:40`). A socket that closes
during `attach` leaves the bot on the server (`raced` in `Session`). A console `goto` that
is displaced or finds no path rejects in a handler that nobody awaits, and an `error` of a
debugged bot is emitted where nobody listens: either ends the daemon with its runs
(`SetGoal`, `BotError`). A call of a script that has timed out still acts on its bot
(`HostTakes`). `shards` in a configuration posted to the API is ignored. A file operation that throws in a
request (`server/configStore.ts:42,49,57-58,66`, `server/history.ts:24,47`) rejects `serve()`
(`server/httpServer.ts:247`), which nobody catches: the daemon ends with its runs (`FileFails`).
`POST /api/script/run` keeps `server.close()` waiting while its bot connects, for which there
is no timeout.

*Split runs.* Every worker gets the whole list of proxies and accounts and bot ids from 0
(`core/engine/sharded.ts:33`), so caps and user names hold per worker only. A reconnect counts as
an attempt and as a spawn once more (`core/metrics/collector.ts:53-55`), so both may exceed
the number of bots. When one
worker fails the others go on without a parent that waits for them, and those that have not
read their configuration find it gone (`stranded`). Ctrl+C leaves the directory of the
configurations behind, and no aggregate report.

*Search and scan.* The schema's words for how many proxies a search looks for
(`core/config/schema.ts:115`) and the formula (`core/net/autoProxies.ts:200`) differ. The
severity of an advisory is the first number in its CVSS vector
(`core/scan/advisories.ts`). A reconnaissance that times out or is kicked while it asks
for versions drops the commands it had found. A bot that joins after the scan gave up
keeps the process alive. Two reports within a millisecond have one file name.

*Blueprints.* `toAction()` makes `succeed` and `fail` a `stop`, so that a graph with
outcomes does not "round-trip" (`core/script/graph.ts:6`, `docs/gui.md:26`). The
interpreter starts every spawn rule without waiting for it and subscribes at once
(`core/script/run.ts:60-70`); ejected code awaits its spawn rules one after the other and
subscribes after them (`core/script/compile.ts:39-43`). When a spawn rule waits, the code
therefore starts the next one later and misses the chats and deaths until then; a return or
an exception among them drops the subscriptions altogether. So `EjectedDoesTheSame` is about
blueprints without outcomes in which no spawn rule waits, or only one that is the only rule.

*Web interface.* `api()` throws on a 400 with `body.error` only, so the lists of `errors`
are never shown. `onCompile` and the validation of a script have no `try`. The interface
knows the statuses "finished" and "error" (`ui/api.ts:47`), the server says "completed" and
"failed". History may show the report that was opened before (`ui/views/History.tsx:22`).
A stale verdict of a validation replaces a newer one, and is always that of YAML. Edits made
while a load is under way are lost. An `EventSource` reconnects for ever to a run that has
finished. Leaving the Scripts tab forgets that one is running.

## Not modelled

* **Delays**: ramp, jitter, backoff. Pending timers fire in every order, which covers
  every schedule; no property depends on durations.
* **Text and layout**: reports, dashboards, tables, help and log lines.
* **Parsing**: proxy lines, ping answers, command line options, the merge of
  configuration sources; validation is a set of good values. A fractional `autoOverfetch`.
* **Packets**: drivers are the events they emit; chat, movement and what bots look at are
  left out, as are packet rates and kick reasons in the collector.
* **Tables**: known commands, channels, coordinates and advisories of the scan.
* **The `script` and `ping` subcommands**, which call one part each; the Console view,
  whose socket is `Session`; file import and export in the browser; tokens and paths of
  the router, which change no state.

A hazard without a property is the exceptions that end the daemon from a session: they are
modelled, so that every property holds over them, but the repository promises nothing about
them. Next to
add would be the engine inside each worker of `Shards` in the place of its samples, and
two pages on one daemon.
