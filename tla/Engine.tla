-------------------------------- MODULE Engine -------------------------------
(***************************************************************************)
(* engine/engine.ts: one stress-test run in one process.  The engine       *)
(* schedules a spawn timer per bot, launches a driver when it fires,       *)
(* relaunches with backoff when the driver's connection ends, and shuts    *)
(* everything down when the duration timer fires, on SIGINT, or when       *)
(* stop() is called.  All of it runs on one event loop: an action is one   *)
(* callback, and the callbacks interleave in any order their timers and    *)
(* sockets allow (delays are jittered, so no order of the timers is        *)
(* excluded).                                                              *)
(*                                                                         *)
(* The driver (drivers/light.ts, drivers/full.ts) is modelled by the       *)
(* events it emits and by what disconnect() reaches.                       *)
(***************************************************************************)
EXTENDS ProxyPool, Registry, Collector, FiniteSets

CONSTANTS Configs,     \* the configurations a run may be constructed with
          MaxLogins,   \* bound: join-game packets counted in a run
          MaxErrors,   \* bound: errors counted before a further driver error
          MaxKicks     \* bound: kicks counted in a run

\* What the engine reads of a Config (config/schema.ts).  `accounts` is the
\* length of microsoftAccounts; `reports` says whether a report is written.
ConfigType ==
  [authorized : BOOLEAN, skipPreflight : BOOLEAN, driver : {"light", "full"},
   proxies : Seq(Proxies), maxPerProxy : Nat \ {0},
   reconnect : BOOLEAN, maxRetries : Nat,
   microsoft : BOOLEAN, accounts : Nat, reports : BOOLEAN]

ASSUME ConfigAssumption ==
  /\ Configs \subseteq ConfigType
  /\ \A c \in Configs : c.maxRetries + 2 <= MaxDrivers

ASSUME BoundAssumption ==
  /\ IsFiniteSet(Bots)
  /\ {MaxLogins, MaxErrors, MaxKicks} \subseteq Nat

VARIABLES
  config,           \* the configuration, fixed by the constructor
  run,              \* where the promise of run() stands
  shuttingDown,     \* the engine's flag of that name
  spawnTimers,      \* ids whose spawn timer is pending
  reconnectTimers,  \* how many reconnect timers of each id are pending
  durationTimer,    \* the duration timer is pending
  sigint,           \* run()'s SIGINT handler is installed
  registry,         \* the Registry
  pool,             \* the ProxyPool
  accountIdx,       \* AccountManager.idx
  spec,             \* the BotSpec of each id: its proxy and its account
  noProxySkipped,   \* bots not launched for want of a proxy
  born,             \* drivers created so far for each id
  st,               \* the state of each driver
  told,             \* live drivers that disconnect() has reached
  counted,          \* drivers whose `counted` flag in track() is set
  metrics,          \* the MetricsCollector's counters
  reportsWritten    \* how often a report has been written

timers == <<spawnTimers, reconnectTimers, durationTimer>>
specs == <<pool, accountIdx, spec>>
drivers == <<born, st, told>>
vars == <<config, run, shuttingDown, timers, sigint, registry, specs,
          noProxySkipped, drivers, counted, metrics, reportsWritten>>

-----------------------------------------------------------------------------
(* Drivers                                                                 *)

Drivers == Bots \X (1 .. MaxDrivers)

\* connecting: connect() was called.  up: the socket is up (a FullBot now has
\* quit()).  play: join-game was received.  world: in the world.  ended: `end`
\* was emitted.  dead: the proxy tunnel failed, so there is no socket at all.
Online == {"up", "play", "world"}
Open == Online \cup {"connecting"}
DriverStates == Open \cup {"none", "ended", "dead"}

\* The drivers of id that still have, or may still get, a socket.
LiveOf(id) == {k \in 1 .. MaxDrivers : st[<<id, k>>] \in Open}

Live == {d \in Drivers : st[d] \in Open}

\* disconnect() reaches every LightBot's client, but a FullBot only once quit()
\* is attached; before that it just drops its reference.
Reached(d) == st[d] \in IF config.driver = "light" THEN Open ELSE Online

NoSpec == [proxy |-> NoProxy, account |-> 0]
Specs == [proxy : Proxies \cup {NoProxy}, account : Nat]

-----------------------------------------------------------------------------
(* Initial state: the engine has been constructed.                         *)

Init ==
  /\ config \in Configs
  /\ run = "new"
  /\ shuttingDown = FALSE
  /\ spawnTimers = {}
  /\ reconnectTimers = [id \in Bots |-> 0]
  /\ durationTimer = FALSE
  /\ sigint = FALSE
  /\ registry = NewRegistry
  /\ pool = NewPool
  /\ accountIdx = 0
  /\ spec = [id \in Bots |-> NoSpec]
  /\ noProxySkipped = 0
  /\ born = [id \in Bots |-> 0]
  /\ st = [d \in Drivers |-> "none"]
  /\ told = {}
  /\ counted = {}
  /\ metrics = NoMetrics
  /\ reportsWritten = 0

-----------------------------------------------------------------------------
(* run()                                                                   *)

\* Mutant of Schedule: the duration timer is not set.
ScheduleForever ==
  /\ run' = "waiting"
  /\ spawnTimers' = Bots
  /\ sigint' = TRUE
  /\ UNCHANGED <<config, shuttingDown, reconnectTimers, durationTimer, registry, specs,
                 noProxySkipped, drivers, counted, metrics, reportsWritten>>

\* The rest of run() once the preflight has settled: schedule every timer,
\* install the SIGINT handler and return the promise.
Schedule ==
  /\ run' = "waiting"
  /\ spawnTimers' = Bots
  /\ durationTimer' = TRUE
  /\ sigint' = TRUE
  /\ UNCHANGED <<config, shuttingDown, reconnectTimers, registry, specs,
                 noProxySkipped, drivers, counted, metrics, reportsWritten>>

\* run() without authorization: the promise is rejected, nothing is scheduled.
RunRefused ==
  /\ run = "new"
  /\ ~config.authorized
  /\ run' = "rejected"
  /\ UNCHANGED <<config, shuttingDown, timers, sigint, registry, specs,
                 noProxySkipped, drivers, counted, metrics, reportsWritten>>

\* run() with no preflight: the caller opted out, or proxies are enabled.
RunWithoutPreflight ==
  /\ run = "new"
  /\ config.authorized
  /\ config.skipPreflight \/ enabled(config.proxies)
  /\ Schedule

\* run() up to the await of the preflight ping.
RunPreflight ==
  /\ run = "new"
  /\ config.authorized
  /\ ~config.skipPreflight
  /\ ~enabled(config.proxies)
  /\ run' = "preflight"
  /\ UNCHANGED <<config, shuttingDown, timers, sigint, registry, specs,
                 noProxySkipped, drivers, counted, metrics, reportsWritten>>

\* The ping answers or fails; either way run() goes on, whatever happened to
\* the engine meanwhile.
PreflightSettles ==
  /\ run = "preflight"
  /\ Schedule

-----------------------------------------------------------------------------
(* launch()                                                                *)

\* Creates the next driver of id, tracks it, puts it in the registry and calls
\* connect().
Launch(id, fresh) ==
  LET k == born[id] + 1 IN
  /\ k <= MaxDrivers
  /\ born' = [born EXCEPT ![id] = k]
  /\ st' = [st EXCEPT ![<<id, k>>] = "connecting"]
  /\ metrics' = track(metrics)
  /\ registry' = IF fresh THEN add(registry, id, k) ELSE replace(registry, id, k)

\* AccountManager.next throws when it has no Microsoft account to hand out.
NoAccount == config.microsoft /\ config.accounts = 0

\* makeSpec(): an account first, then a proxy; both stay with the id for good.
MakeSpec(id) ==
  /\ accountIdx' = IF config.microsoft THEN accountIdx + 1 ELSE accountIdx
  /\ pool' = AfterAcquire(pool, config.proxies, config.maxPerProxy)
  /\ spec' = [spec EXCEPT ![id] =
                [proxy   |-> Acquired(pool, config.proxies, config.maxPerProxy),
                 account |-> IF config.microsoft THEN accountIdx % config.accounts ELSE 0]]

\* With proxies configured, a spec without one must not connect.
WouldGoDirect(id) == enabled(config.proxies) /\ spec'[id].proxy = NoProxy

\* Mutant of SpawnLaunches: does not look at shuttingDown.
SpawnLaunchesAnyway(id) ==
  /\ ~NoAccount
  /\ MakeSpec(id)
  /\ ~WouldGoDirect(id)
  /\ Launch(id, TRUE)
  /\ UNCHANGED <<run, noProxySkipped>>

SpawnLaunches(id) ==
  /\ ~shuttingDown
  /\ ~NoAccount
  /\ MakeSpec(id)
  /\ ~WouldGoDirect(id)
  /\ Launch(id, TRUE)
  /\ UNCHANGED <<run, noProxySkipped>>

SpawnSkips(id) ==
  /\ ~shuttingDown
  /\ ~NoAccount
  /\ MakeSpec(id)
  /\ WouldGoDirect(id)
  /\ noProxySkipped' = noProxySkipped + 1
  /\ metrics' = recordUnavailableProxy(metrics)
  /\ UNCHANGED <<run, born, st, registry>>

\* The exception leaves a timer callback: nobody catches it, the process ends.
SpawnThrows(id) ==
  /\ ~shuttingDown
  /\ NoAccount
  /\ run' = "crashed"
  /\ UNCHANGED <<specs, noProxySkipped, metrics, born, st, registry>>

SpawnTooLate(id) ==
  /\ shuttingDown
  /\ UNCHANGED <<run, specs, noProxySkipped, metrics, born, st, registry>>

SpawnFires(id) ==
  /\ id \in spawnTimers
  /\ spawnTimers' = spawnTimers \ {id}
  /\ \/ SpawnLaunches(id)
     \/ SpawnSkips(id)
     \/ SpawnThrows(id)
     \/ SpawnTooLate(id)
  /\ UNCHANGED <<config, shuttingDown, reconnectTimers, durationTimer, sigint,
                 told, counted, reportsWritten>>

\* Mutant of ReconnectFires: the timer makes a new spec, as a spawn does.
ReconnectWithNewSpec(id) ==
  /\ reconnectTimers[id] > 0
  /\ reconnectTimers' = [reconnectTimers EXCEPT ![id] = @ - 1]
  /\ \/ /\ ~shuttingDown
        /\ MakeSpec(id)
        /\ Launch(id, FALSE)
     \/ /\ shuttingDown
        /\ UNCHANGED <<specs, born, st, metrics, registry>>
  /\ UNCHANGED <<config, run, shuttingDown, spawnTimers, durationTimer, sigint,
                 noProxySkipped, told, counted, reportsWritten>>

ReconnectFires(id) ==
  /\ reconnectTimers[id] > 0
  /\ reconnectTimers' = [reconnectTimers EXCEPT ![id] = @ - 1]
  /\ \/ /\ ~shuttingDown
        /\ Launch(id, FALSE)
     \/ /\ shuttingDown
        /\ UNCHANGED <<born, st, metrics, registry>>
  /\ UNCHANGED <<config, run, shuttingDown, spawnTimers, durationTimer, sigint,
                 specs, noProxySkipped, told, counted, reportsWritten>>

-----------------------------------------------------------------------------
(* shutdown()                                                              *)

\* Mutant of Shutdown: does not look at shuttingDown, so that it runs again.
ShutdownAgain(thrown) ==
  /\ shuttingDown' = TRUE
  /\ spawnTimers' = {}
  /\ reconnectTimers' = [id \in Bots |-> 0]
  /\ durationTimer' = FALSE
  /\ told' = told \cup {d \in all(registry) : Reached(d)}
  /\ reportsWritten' = reportsWritten + 1
  /\ run' = IF run = "waiting" THEN "resolved" ELSE run
  /\ UNCHANGED <<config, registry, specs, noProxySkipped, born, st, counted, metrics>>

\* The body of shutdown() once per run: clear the timers, disconnect what the
\* registry holds, write the reports, resolve the promise if run() has made it.
\* A report that cannot be written throws; `thrown` is what run becomes then.
Shutdown(thrown) ==
  /\ ~shuttingDown
  /\ shuttingDown' = TRUE
  /\ spawnTimers' = {}
  /\ reconnectTimers' = [id \in Bots |-> 0]
  /\ durationTimer' = FALSE
  /\ told' = told \cup {d \in all(registry) : Reached(d)}
  /\ \/ /\ reportsWritten' = reportsWritten + 1
        /\ run' = IF run = "waiting" THEN "resolved" ELSE run
     \/ /\ config.reports
        /\ run' = thrown
        /\ UNCHANGED reportsWritten
  /\ UNCHANGED <<config, registry, specs, noProxySkipped, born, st, counted, metrics>>

\* stop(): the control plane or a library caller, at any time after run().  An
\* exception goes back to that caller.
Stop ==
  /\ run \notin {"new", "crashed"}
  /\ Shutdown(run)
  /\ sigint' = (sigint /\ run' # "resolved")

DurationFires ==
  /\ durationTimer
  /\ \/ /\ Shutdown("crashed")
        /\ sigint' = (sigint /\ run' # "resolved")
     \/ /\ shuttingDown
        /\ durationTimer' = FALSE
        /\ UNCHANGED <<config, run, shuttingDown, spawnTimers, reconnectTimers, sigint,
                       registry, specs, noProxySkipped, drivers, counted, metrics,
                       reportsWritten>>

\* The handler is registered with `once`; without it SIGINT ends the process.
Sigint ==
  /\ sigint
  /\ sigint' = FALSE
  /\ \/ Shutdown("crashed")
     \/ /\ shuttingDown
        /\ UNCHANGED <<config, run, shuttingDown, timers, registry, specs,
                       noProxySkipped, drivers, counted, metrics, reportsWritten>>

-----------------------------------------------------------------------------
(* Driver events and their listeners                                       *)

\* Mutant of ScheduleReconnect: schedules during the shutdown as well.
ScheduleReconnectAlways(id) ==
  IF ~config.reconnect
    THEN UNCHANGED <<registry, reconnectTimers>>
    ELSE LET counting == incRetry(registry, id) IN
         IF RetriesExceed(counting, id, config.maxRetries)
           THEN /\ registry' = remove(counting, id)
                /\ UNCHANGED reconnectTimers
           ELSE /\ registry' = counting
                /\ reconnectTimers' = [reconnectTimers EXCEPT ![id] = @ + 1]

\* Mutant of ScheduleReconnect: counts the retry and sets no timer.
ScheduleReconnectForgets(id) ==
  /\ registry' = incRetry(registry, id)
  /\ UNCHANGED reconnectTimers

\* scheduleReconnect(): the retry is counted before the limit is compared.
ScheduleReconnect(id) ==
  IF shuttingDown \/ ~config.reconnect
    THEN UNCHANGED <<registry, reconnectTimers>>
    ELSE LET counting == incRetry(registry, id) IN
         IF RetriesExceed(counting, id, config.maxRetries)
           THEN /\ registry' = remove(counting, id)
                /\ UNCHANGED reconnectTimers
           ELSE /\ registry' = counting
                /\ reconnectTimers' = [reconnectTimers EXCEPT ![id] = @ + 1]

\* What a driver event leaves alone when it ends nothing.
EventKeeps == UNCHANGED <<config, run, shuttingDown, timers, sigint, registry, specs,
                          noProxySkipped, born, told, reportsWritten>>

\* The socket is up.  Only LightBot emits `connected` here; with a proxy this
\* may come after disconnect(), which does not cancel the tunnel.
Connected(d) ==
  /\ st[d] = "connecting"
  /\ st' = [st EXCEPT ![d] = "up"]
  /\ IF config.driver = "light"
       THEN /\ metrics' = onConnected(metrics, d \in counted)
            /\ counted' = counted \cup {d}
       ELSE UNCHANGED <<metrics, counted>>
  /\ EventKeeps

\* A join-game packet: the first one of the session, or the one a proxy network
\* sends when it transfers the bot.  A FullBot emits `connected` with each.
Login(d) ==
  /\ st[d] \in Online
  /\ metrics.loggedIn < MaxLogins
  /\ st' = [st EXCEPT ![d] = IF @ = "up" THEN "play" ELSE @]
  /\ IF config.driver = "full"
       THEN /\ metrics' = onLogin(onConnected(metrics, d \in counted))
            /\ counted' = counted \cup {d}
       ELSE /\ metrics' = onLogin(metrics)
            /\ UNCHANGED counted
  /\ EventKeeps

\* Mutant of Position: every position packet counts as a spawn.
PositionRepeats(d) ==
  /\ st[d] \in {"play", "world"}
  /\ st' = [st EXCEPT ![d] = "world"]
  /\ metrics' = onSpawned(metrics)
  /\ UNCHANGED counted
  /\ EventKeeps

\* A position packet: the driver emits `spawned` for the first one only.
Position(d) ==
  /\ st[d] = "play"
  /\ st' = [st EXCEPT ![d] = "world"]
  /\ metrics' = onSpawned(metrics)
  /\ UNCHANGED counted
  /\ EventKeeps

\* Mutant of Kicked: a kick schedules a reconnect, and so does the end after it.
KickedReconnects(d) ==
  /\ st[d] \in Online
  /\ metrics.kicked < MaxKicks
  /\ metrics' = onKicked(metrics)
  /\ ScheduleReconnect(d[1])
  /\ UNCHANGED <<config, run, shuttingDown, spawnTimers, durationTimer, sigint, specs,
                 noProxySkipped, born, st, told, counted, reportsWritten>>

\* A kick by itself changes no engine state: reconnection waits for `end`.
Kicked(d) ==
  /\ st[d] \in Online
  /\ metrics.kicked < MaxKicks
  /\ metrics' = onKicked(metrics)
  /\ UNCHANGED <<st, counted>>
  /\ EventKeeps

DriverError(d) ==
  /\ st[d] \in Open
  /\ metrics.errors < MaxErrors
  /\ metrics' = onError(metrics)
  /\ UNCHANGED <<st, counted>>
  /\ EventKeeps

\* net/proxyConnect.ts: a tunnel that fails emits `error` on a client that has
\* no socket, so no `end` follows.
TunnelFails(d) ==
  /\ st[d] = "connecting"
  /\ spec[d[1]].proxy # NoProxy
  /\ st' = [st EXCEPT ![d] = "dead"]
  /\ metrics' = onError(metrics)
  /\ UNCHANGED counted
  /\ EventKeeps

\* `end`: the collector's listener runs first, then the engine's.
End(d) ==
  /\ st[d] \in Open
  /\ st' = [st EXCEPT ![d] = "ended"]
  /\ metrics' = onEnd(metrics, d \in counted)
  /\ counted' = counted \ {d}
  /\ ScheduleReconnect(d[1])
  /\ UNCHANGED <<config, run, shuttingDown, spawnTimers, durationTimer, sigint, specs,
                 noProxySkipped, born, told, reportsWritten>>

-----------------------------------------------------------------------------
(* The specification                                                       *)

Run == RunRefused \/ RunWithoutPreflight \/ RunPreflight \/ PreflightSettles

TimerFires(id) == SpawnFires(id) \/ ReconnectFires(id)

DriverEvent(d) ==
  \/ Connected(d)
  \/ Login(d)
  \/ Position(d)
  \/ Kicked(d)
  \/ DriverError(d)
  \/ TunnelFails(d)
  \/ End(d)

Next ==
  /\ run # "crashed"
  /\ \/ Run
     \/ Stop
     \/ Sigint
     \/ DurationFires
     \/ \E id \in Bots : TimerFires(id)
     \/ \E d \in Drivers : DriverEvent(d)

Spec == Init /\ [][Next]_vars

\* Node runs every timer that is due and the preflight ping has a timeout of
\* its own; nothing is assumed of the server, the proxies or the operator.
Fairness ==
  /\ WF_vars(run # "crashed" /\ (RunRefused \/ RunWithoutPreflight \/ RunPreflight))
  /\ WF_vars(run # "crashed" /\ PreflightSettles)
  /\ WF_vars(run # "crashed" /\ DurationFires)
  /\ \A id \in Bots : /\ WF_vars(run # "crashed" /\ SpawnFires(id))
                      /\ WF_vars(run # "crashed" /\ ReconnectFires(id))

FairSpec == Spec /\ Fairness

-----------------------------------------------------------------------------
(* Properties                                                              *)

\* Every variable keeps its type.
TypeOK ==
  /\ config \in Configs
  /\ run \in {"new", "preflight", "waiting", "resolved", "rejected", "crashed"}
  /\ shuttingDown \in BOOLEAN
  /\ spawnTimers \subseteq Bots
  /\ reconnectTimers \in [Bots -> Nat]
  /\ durationTimer \in BOOLEAN
  /\ sigint \in BOOLEAN
  /\ registry \in [Bots -> Entries]
  /\ pool \in Pools
  /\ accountIdx \in Nat
  /\ spec \in [Bots -> Specs]
  /\ noProxySkipped \in Nat
  /\ born \in [Bots -> 0 .. MaxDrivers]
  /\ st \in [Drivers -> DriverStates]
  /\ told \subseteq Drivers
  /\ counted \subseteq Drivers
  /\ metrics \in Metrics
  /\ reportsWritten \in Nat

\* A bot id never has two connections at once: a kick followed by an end, a
\* late spawn timer or a second reconnect timer must not launch it twice.
AtMostOneLive == \A id \in Bots : Cardinality(LiveOf(id)) <= 1

\* disconnect() at shutdown has reached every connection that is still open,
\* whatever incarnation of its bot it is: the registry has lost track of none.
\* (LightBot; a FullBot that has no quit() yet drops its client and is out of reach.)
ShutdownReachesEveryBot ==
  shuttingDown /\ config.driver = "light" => Live \subseteq told

\* No bot is launched more than 1 + maxRetries times, over all its reconnects,
\* and not more than once without reconnect.
RetryBudget ==
  \A id \in Bots :
    born[id] <= IF config.reconnect THEN config.maxRetries + 1 ELSE 1

\* While the run goes on, a bot of the registry has one reconnect timer when its
\* connection has ended and reconnect is on, and none otherwise: no lost bot is
\* forgotten, and none is scheduled off anything but `end`.
Lost(id) ==
  config.reconnect /\ has(registry, id) /\ st[<<id, registry[id].bot>>] = "ended"

LostBotIsAwaited ==
  ~shuttingDown =>
    \A id \in Bots : reconnectTimers[id] = IF Lost(id) THEN 1 ELSE 0

\* The ids that have a connection through proxy p, open or being opened.
Riders(p) == {id \in Bots : spec[id].proxy = p /\ LiveOf(id) # {}}

\* No proxy carries more bots than its cap, reconnects included, and with
\* proxies configured no driver is ever created without one.
ProxyCap ==
  enabled(config.proxies) =>
    /\ \A p \in Proxies : Cardinality(Riders(p)) <= config.maxPerProxy
    /\ \A id \in Bots : born[id] > 0 => spec[id].proxy # NoProxy

\* `active` counts exactly the drivers that have emitted `connected` and no
\* `end`: for a LightBot its open sockets, for a FullBot its logged-in clients.
ActiveIsExact ==
  metrics.active =
    Cardinality({d \in Drivers :
      st[d] \in (IF config.driver = "light" THEN Online ELSE {"play", "world"})})

\* Every attempt of the report is a driver that was created or a bot that found
\* no proxy, and no driver counts as spawned or ended twice: the success rate
\* spawned / attempted never exceeds 1.
AttemptsAccounted ==
  /\ metrics.attempted = Cardinality({d \in Drivers : st[d] # "none"}) + noProxySkipped
  /\ metrics.spawned + noProxySkipped <= metrics.attempted
  /\ metrics.ended = Cardinality({d \in Drivers : st[d] = "ended"})

\* A run whose promise has resolved has passed its reports once, and has left
\* neither a timer nor its SIGINT handler behind.
ResolvedRunIsQuiet ==
  /\ reportsWritten <= 1
  /\ run = "resolved" =>
       /\ shuttingDown
       /\ reportsWritten = 1
       /\ spawnTimers = {} /\ ~durationTimer /\ ~sigint
       /\ \A id \in Bots : reconnectTimers[id] = 0

\* Two bots that were launched share a Microsoft account only when there are fewer
\* accounts than bots.
AccountsApart ==
  config.microsoft /\ config.accounts >= Cardinality(Bots) =>
    \A i, j \in Bots : born[i] > 0 /\ born[j] > 0 /\ spec[i].account = spec[j].account => i = j

\* A bot keeps its account and its proxy from its first launch on, whatever other
\* bots take from the rotation and the pool until it reconnects: it never comes back
\* under another name or from another address.
BotKeepsItsSpec == [][\A id \in Bots : born[id] > 0 => spec'[id] = spec[id]]_vars

\* AccountManager.next() is called for each bot once: the rotation gives bots accounts
\* of their own while there are enough, and no reconnect changes them.
AccountsRotate == []AccountsApart /\ BotKeepsItsSpec

\* Once shutdown() has begun no driver is created, by a timer that was pending
\* or by one that run() sets afterwards when stop() came during the preflight.
NoLaunchAfterShutdown == [][shuttingDown => UNCHANGED born]_vars

\* "none free (all at maxPerProxy)" (engine.ts:153): a bot is only skipped when
\* every proxy of the list serves maxPerProxy bots that are still in the run.
InRun(p) == {id \in Bots : spec[id].proxy = p /\ has(registry, id)}

SkippedOnlyWhenSaturated ==
  [][noProxySkipped' > noProxySkipped =>
       \A i \in 1 .. Len(config.proxies) :
         Cardinality(InRun(config.proxies[i])) >= config.maxPerProxy]_vars

\* A run that is set up and not stopped ends by itself: its promise resolves
\* (or a bot without an account ends the process).
RunSettles ==
  run = "waiting" /\ ~shuttingDown /\ ~config.reports
    ~> run \in {"resolved", "crashed"}

\* "stop() resolves the run too" (runManager.ts:63), at whatever point it comes.
StopResolvesTheRun == shuttingDown ~> run \in {"resolved", "rejected", "crashed"}

-----------------------------------------------------------------------------
(* The engine implements the supervisor of its bots.                       *)

\* Where the bot id stands: in the run while its spawn timer is to fire or to
\* be set, up while its newest driver has not ended.
SlotOf(id) ==
  IF born[id] = 0
    THEN IF ~shuttingDown /\ (id \in spawnTimers \/ run \in {"new", "preflight", "rejected"})
           THEN "idle" ELSE "gone"
    ELSE IF st[<<id, born[id]>>] # "ended" THEN "up"
         ELSE IF reconnectTimers[id] > 0 THEN "lost" ELSE "gone"

Bot == INSTANCE Supervisor WITH
         limit   <- config.maxRetries,
         slot    <- [id \in Bots |-> SlotOf(id)],
         starts  <- born,
         stopped <- shuttingDown

\* Every behaviour of the engine is one of the supervisor.
Supervised == Bot!Spec

-----------------------------------------------------------------------------
(* The engine keeps the contract its callers rely on.                      *)

Promise == INSTANCE EngineRun WITH phase <- run, stopping <- shuttingDown

\* Every behaviour of the engine is one of that contract: stop() before the
\* promise exists resolves nothing, and at most one shutdown resolves it.
Promised == Promise!Spec
=============================================================================
