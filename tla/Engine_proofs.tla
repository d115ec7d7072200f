---------------------------- MODULE Engine_proofs ----------------------------
(***************************************************************************)
(* Theorems about the engine, for every set of bots and proxies, every     *)
(* configuration and every bound; and that it implements the contract its  *)
(* callers rely on (EngineRun) and the supervisor of its bots (Supervisor).*)
(***************************************************************************)
EXTENDS Engine, FiniteSetTheorems, WellFoundedInduction, TLAPS

-----------------------------------------------------------------------------
(* The inductive invariant                                                 *)

\* The drivers of an id are created in order, and all but the last have ended.
DriversInOrder ==
  \A id \in Bots : \A k \in 1 .. MaxDrivers :
    /\ st[<<id, k>>] = "none" <=> k > born[id]
    /\ k < born[id] => st[<<id, k>>] = "ended"

\* Until run() has set its timers nothing has been created or scheduled.
NothingBeforeSchedule ==
  /\ run \in {"new", "preflight", "rejected"} =>
       \A id \in Bots : id \notin spawnTimers /\ born[id] = 0
  /\ \A id \in Bots :
       born[id] = 0 => ~has(registry, id) /\ reconnectTimers[id] = 0
  /\ \A id \in spawnTimers : born[id] = 0

\* An entry of the registry names the last driver of its id, and a driver whose
\* id has no entry any more has ended.
RegistryNamesLast ==
  \A id \in Bots :
    /\ has(registry, id) => registry[id].bot = born[id]
    /\ ~has(registry, id) /\ born[id] > 0 => st[<<id, born[id]>>] = "ended"

\* A reconnect timer belongs to an entry whose driver has ended, is the only one
\* of its id, and was paid for with a retry.
ReconnectsArePaid ==
  \A id \in Bots :
    reconnectTimers[id] > 0 =>
      /\ reconnectTimers[id] = 1
      /\ has(registry, id)
      /\ config.reconnect
      /\ st[<<id, born[id]>>] = "ended"
      /\ born[id] <= registry[id].retries

\* The retries of an entry bound the launches of its id.
RetriesBoundLaunches ==
  \A id \in Bots :
    has(registry, id) =>
      /\ registry[id].retries <= config.maxRetries
      /\ born[id] <= registry[id].retries + 1
      /\ ~config.reconnect => registry[id].retries = 0

IInv ==
  /\ TypeOK
  /\ DriversInOrder
  /\ NothingBeforeSchedule
  /\ RegistryNamesLast
  /\ ReconnectsArePaid
  /\ RetriesBoundLaunches
  /\ RetryBudget
  /\ ShutdownReachesEveryBot

-----------------------------------------------------------------------------
(* The operators of the components                                         *)

\* A set of natural numbers has a least element, and First names it.
LEMMA FirstIsLeast ==
  ASSUME NEW S \in SUBSET Nat, S # {}
  PROVE  First(S) \in S /\ \A j \in S : First(S) <= j
<1>1. OpToRel(<, Nat) = {ss \in Nat \X Nat : ss[1] < ss[2]}
  BY Zenon DEF OpToRel
<1>2. \E x \in S : \A y \in S : ~ (<<y, x>> \in OpToRel(<, Nat))
  BY NatLessThanWellFounded, WFMin
<1>3. PICK x \in S : \A y \in S : ~ (<<y, x>> \in {ss \in Nat \X Nat : ss[1] < ss[2]})
  BY <1>1, <1>2, Zenon
<1>4. ASSUME NEW y \in S PROVE x <= y
  <2>1. <<y, x>> \in Nat \X Nat /\ <<y, x>>[1] = y /\ <<y, x>>[2] = x
    OBVIOUS
  <2>2. ~ (y < x)
    BY <1>3, <2>1
  <2>3. QED
    BY <2>2
<1>5. QED
  BY <1>4 DEF First

\* acquire() hands out a proxy of the pool or none, and leaves a pool.
LEMMA AcquireType ==
  ASSUME NEW p \in Pools, NEW list \in Seq(Proxies), NEW cap \in Nat
  PROVE  /\ AfterAcquire(p, list, cap) \in Pools
         /\ Acquired(p, list, cap) \in Proxies \cup {NoProxy}
<1>1. CASE UnderCap(p, list, cap) = {}
  BY <1>1 DEF AfterAcquire, Acquired
<1>2. CASE UnderCap(p, list, cap) # {}
  <2> DEFINE i == First(UnderCap(p, list, cap))
  <2>1. UnderCap(p, list, cap) \in SUBSET Nat
    BY DEF UnderCap
  <2>2. i \in UnderCap(p, list, cap)
    BY <1>2, <2>1, FirstIsLeast
  <2>3. i \in 0 .. (Len(list) - 1) /\ Len(list) \in Nat /\ Len(list) > 0
    BY <2>2 DEF UnderCap
  <2>4. p.idx \in Nat /\ p.active \in [Proxies -> Nat]
    BY DEF Pools
  <2>5. ((p.idx + i) % Len(list)) + 1 \in 1 .. Len(list)
    BY <2>3, <2>4
  <2>6. Nth(p, list, i) \in Proxies
    BY <2>5 DEF Nth
  <2>7. (p.idx + i + 1) % Len(list) \in Nat
    BY <2>3, <2>4
  <2>8. QED
    BY <1>2, <2>4, <2>6, <2>7 DEF AfterAcquire, Acquired, Pools
<1>3. QED
  BY <1>1, <1>2

\* Every listener of the collector leaves its counters counters.
LEMMA ListenerType ==
  ASSUME NEW m \in Metrics
  PROVE  /\ track(m) \in Metrics
         /\ recordUnavailableProxy(m) \in Metrics
         /\ onLogin(m) \in Metrics
         /\ onSpawned(m) \in Metrics
         /\ onKicked(m) \in Metrics
         /\ onError(m) \in Metrics
<1>1. \A n \in Metrics : track(n) \in Metrics /\ onError(n) \in Metrics
  BY DEF Metrics, track, onError
<1>2. recordUnavailableProxy(m) \in Metrics
  BY <1>1 DEF recordUnavailableProxy
<1>3. onLogin(m) \in Metrics /\ onSpawned(m) \in Metrics /\ onKicked(m) \in Metrics
  BY DEF Metrics, onLogin, onSpawned, onKicked
<1>4. QED
  BY <1>1, <1>2, <1>3

\* So do the two that look at the driver's `counted` flag.
LEMMA CountedListenerType ==
  ASSUME NEW m \in Metrics, NEW d, NEW S
  PROVE  onConnected(m, d \in S) \in Metrics /\ onEnd(m, d \in S) \in Metrics
<1>1. \A n \in Metrics : activate(n) \in Metrics /\ deactivate(n) \in Metrics
  BY DEF Metrics, activate, deactivate
<1>2. [m EXCEPT !.connected = @ + 1] \in Metrics /\ [m EXCEPT !.ended = @ + 1] \in Metrics
  BY DEF Metrics
<1>3. QED
  BY <1>1, <1>2 DEF onConnected, onEnd

\* The operations of the registry keep it a registry.
LEMMA RegistryType ==
  ASSUME NEW r \in [Bots -> Entries], NEW id \in Bots, NEW k \in 0 .. MaxDrivers
  PROVE  /\ add(r, id, k) \in [Bots -> Entries]
         /\ replace(r, id, k) \in [Bots -> Entries]
         /\ incRetry(r, id) \in [Bots -> Entries]
         /\ remove(r, id) \in [Bots -> Entries]
  BY MaxDriversAssumption DEF Entries, Absent, has, add, replace, incRetry, remove

-----------------------------------------------------------------------------
(* Type correctness                                                        *)

\* A constructed engine is well-typed.
LEMMA InitType == Init => TypeOK
<1>1. NewRegistry \in [Bots -> Entries]
  BY MaxDriversAssumption DEF NewRegistry, Absent, Entries
<1>2. NewPool \in Pools
  BY DEF NewPool, Pools
<1>3. NoMetrics \in Metrics
  BY DEF NoMetrics, Metrics
<1>4. "none" \in DriverStates
  BY DEF DriverStates
<1>5. NoSpec \in Specs
  BY DEF NoSpec, Specs
<1>6. 0 \in 0 .. MaxDrivers
  BY MaxDriversAssumption
<1> HAVE Init
<1>7. /\ st \in [Drivers -> DriverStates]
      /\ born \in [Bots -> 0 .. MaxDrivers]
  BY <1>4, <1>6 DEF Init
<1>8. /\ reconnectTimers \in [Bots -> Nat]
      /\ spec \in [Bots -> Specs]
  BY <1>5 DEF Init
<1>9. registry \in [Bots -> Entries] /\ pool \in Pools /\ metrics \in Metrics
  BY <1>1, <1>2, <1>3 DEF Init
<1>10. QED
  BY <1>7, <1>8, <1>9 DEF Init, TypeOK

\* launch() creates a driver within the bound and registers it.
LEMMA LaunchType ==
  ASSUME TypeOK, NEW id \in Bots, NEW fresh \in BOOLEAN, Launch(id, fresh)
  PROVE  /\ born' \in [Bots -> 0 .. MaxDrivers]
         /\ st' \in [Drivers -> DriverStates]
         /\ metrics' \in Metrics
         /\ registry' \in [Bots -> Entries]
<1> DEFINE k == born[id] + 1
<1>1. k \in 1 .. MaxDrivers
  BY MaxDriversAssumption DEF Launch, TypeOK
<1>2. metrics' \in Metrics
  BY ListenerType DEF Launch, TypeOK
<1>3. registry' \in [Bots -> Entries]
  BY <1>1, RegistryType DEF Launch, TypeOK
<1>4. born' \in [Bots -> 0 .. MaxDrivers]
  BY <1>1 DEF Launch, TypeOK
<1>5. "connecting" \in DriverStates
  BY DEF DriverStates, Open
<1>6. st' \in [Drivers -> DriverStates]
  BY <1>5 DEF Launch, TypeOK
<1>7. QED
  BY <1>2, <1>3, <1>4, <1>6

\* makeSpec() returns a spec and leaves the pool and the rotation well-formed.
LEMMA MakeSpecType ==
  ASSUME TypeOK, NEW id \in Bots, ~NoAccount, MakeSpec(id)
  PROVE  accountIdx' \in Nat /\ pool' \in Pools /\ spec' \in [Bots -> Specs]
<1>1. config \in ConfigType
  BY ConfigAssumption DEF TypeOK
<1>2. /\ AfterAcquire(pool, config.proxies, config.maxPerProxy) \in Pools
      /\ Acquired(pool, config.proxies, config.maxPerProxy) \in Proxies \cup {NoProxy}
  BY <1>1, AcquireType DEF TypeOK, ConfigType
<1>3. (IF config.microsoft THEN accountIdx % config.accounts ELSE 0) \in Nat
  BY <1>1 DEF TypeOK, ConfigType, NoAccount
<1>4. QED
  BY <1>2, <1>3 DEF MakeSpec, TypeOK, Specs

\* A spawn timer, whichever way its callback goes, keeps the types.
LEMMA SpawnType ==
  ASSUME TypeOK, NEW id \in Bots, SpawnFires(id)
  PROVE  TypeOK'
<1>1. CASE SpawnLaunches(id)
  BY <1>1, LaunchType, MakeSpecType DEF SpawnFires, SpawnLaunches, TypeOK
<1>2. CASE SpawnSkips(id)
  BY <1>2, MakeSpecType, ListenerType DEF SpawnFires, SpawnSkips, TypeOK
<1>3. CASE SpawnThrows(id)
  BY <1>3 DEF SpawnFires, SpawnThrows, TypeOK, specs
<1>4. CASE SpawnTooLate(id)
  BY <1>4 DEF SpawnFires, SpawnTooLate, TypeOK, specs
<1>5. QED
  BY <1>1, <1>2, <1>3, <1>4 DEF SpawnFires

\* So does a reconnect timer.
LEMMA ReconnectType ==
  ASSUME TypeOK, NEW id \in Bots, ReconnectFires(id)
  PROVE  TypeOK'
<1>1. reconnectTimers' \in [Bots -> Nat]
  BY DEF ReconnectFires, TypeOK
<1>2. /\ born' \in [Bots -> 0 .. MaxDrivers]
      /\ st' \in [Drivers -> DriverStates]
      /\ metrics' \in Metrics
      /\ registry' \in [Bots -> Entries]
  BY LaunchType DEF ReconnectFires, TypeOK
<1>3. QED
  BY <1>1, <1>2 DEF ReconnectFires, TypeOK, specs

\* shutdown() clears the timers and marks registered drivers only.
LEMMA ShutdownType ==
  ASSUME TypeOK, NEW t \in {run, "crashed"}, Shutdown(t), sigint' \in BOOLEAN
  PROVE  TypeOK'
<1>1. run' \in {"new", "preflight", "waiting", "resolved", "rejected", "crashed"}
  BY DEF Shutdown, TypeOK
<1>2. {d \in all(registry) : Reached(d)} \subseteq Drivers
  BY DEF all, has, TypeOK, Entries, Drivers
<1>3. /\ spawnTimers' \subseteq Bots
      /\ reconnectTimers' \in [Bots -> Nat]
      /\ told' \subseteq Drivers
      /\ reportsWritten' \in Nat
  BY <1>2 DEF Shutdown, TypeOK
<1>4. QED
  BY <1>1, <1>3 DEF Shutdown, TypeOK, specs

\* A listener of `end` schedules or removes; both keep the types.
LEMMA EndType ==
  ASSUME TypeOK, NEW d \in Drivers, End(d)
  PROVE  TypeOK'
<1>1. d[1] \in Bots
  BY DEF Drivers
<1>2. incRetry(registry, d[1]) \in [Bots -> Entries]
  BY <1>1, RegistryType DEF TypeOK
<1>3. registry' \in [Bots -> Entries] /\ reconnectTimers' \in [Bots -> Nat]
  BY <1>1, <1>2, RegistryType DEF End, ScheduleReconnect, TypeOK
<1>4. metrics' \in Metrics
  BY CountedListenerType DEF End, TypeOK
<1>5. QED
  BY <1>3, <1>4 DEF End, TypeOK, specs, DriverStates

\* So does every event of a driver, its listeners included.
LEMMA DriverEventType ==
  ASSUME TypeOK, NEW d \in Drivers, DriverEvent(d)
  PROVE  TypeOK'
<1> USE DEF EventKeeps, timers, specs, DriverStates, Open, Online
<1>1. CASE Connected(d)
  <2>1. onConnected(metrics, d \in counted) \in Metrics
    BY CountedListenerType DEF TypeOK
  <2>2. metrics' \in Metrics /\ counted' \subseteq Drivers
    BY <1>1, <2>1 DEF Connected, TypeOK
  <2>3. QED
    BY <1>1, <2>2 DEF Connected, TypeOK
<1>2. CASE Login(d)
  <2>1. onConnected(metrics, d \in counted) \in Metrics
    BY CountedListenerType DEF TypeOK
  <2>2. metrics' \in Metrics
    BY <1>2, <2>1, ListenerType DEF Login, TypeOK
  <2>3. QED
    BY <1>2, <2>2 DEF Login, TypeOK
<1>3. CASE Position(d)
  BY <1>3, ListenerType DEF Position, TypeOK
<1>4. CASE Kicked(d)
  BY <1>4, ListenerType DEF Kicked, TypeOK
<1>5. CASE DriverError(d)
  BY <1>5, ListenerType DEF DriverError, TypeOK
<1>6. CASE TunnelFails(d)
  BY <1>6, ListenerType DEF TunnelFails, TypeOK
<1>7. CASE End(d)
  BY <1>7, EndType
<1>8. QED
  BY <1>1, <1>2, <1>3, <1>4, <1>5, <1>6, <1>7 DEF DriverEvent

\* Every step keeps the types.
LEMMA NextType == TypeOK /\ [Next]_vars => TypeOK'
<1> SUFFICES ASSUME TypeOK, [Next]_vars PROVE TypeOK'
  OBVIOUS
<1>1. CASE Run
  BY <1>1 DEF Run, RunRefused, RunWithoutPreflight, RunPreflight, PreflightSettles,
              Schedule, TypeOK, timers, specs, drivers
<1>2. CASE Stop
  BY <1>2, ShutdownType DEF Stop, TypeOK
<1>3. CASE Sigint
  <2>1. CASE Shutdown("crashed")
    BY <1>3, <2>1, ShutdownType DEF Sigint
  <2>2. CASE ~Shutdown("crashed")
    BY <1>3, <2>2 DEF Sigint, TypeOK, timers, specs, drivers
  <2>3. QED
    BY <2>1, <2>2
<1>4. CASE DurationFires
  <2>1. CASE Shutdown("crashed") /\ sigint' = (sigint /\ run' # "resolved")
    BY <2>1, ShutdownType DEF TypeOK
  <2>2. CASE ~(Shutdown("crashed") /\ sigint' = (sigint /\ run' # "resolved"))
    BY <1>4, <2>2 DEF DurationFires, TypeOK, specs, drivers
  <2>3. QED
    BY <2>1, <2>2
<1>5. ASSUME NEW id \in Bots, TimerFires(id) PROVE TypeOK'
  BY <1>5, SpawnType, ReconnectType DEF TimerFires
<1>6. ASSUME NEW d \in Drivers, DriverEvent(d) PROVE TypeOK'
  BY <1>6, DriverEventType
<1>7. CASE UNCHANGED vars
  BY <1>7 DEF vars, TypeOK, timers, specs, drivers
<1>8. QED
  BY <1>1, <1>2, <1>3, <1>4, <1>5, <1>6, <1>7 DEF Next

\* Every variable of the engine keeps its type.
THEOREM TypeCorrect == Spec => []TypeOK
<1>1. QED
  BY InitType, NextType, PTL DEF Spec

-----------------------------------------------------------------------------
(* The inductive invariant holds                                           *)

\* A constructed engine satisfies the invariant.
LEMMA InitInv == Init => IInv
<1> SUFFICES ASSUME Init PROVE IInv
  OBVIOUS
<1>1. TypeOK
  BY InitType
<1>2. \A id \in Bots : ~has(registry, id) /\ born[id] = 0 /\ reconnectTimers[id] = 0
  BY DEF Init, NewRegistry, Absent, has
<1>3. DriversInOrder
  BY <1>2, MaxDriversAssumption DEF Init, DriversInOrder, Drivers
<1>4. NothingBeforeSchedule
  BY <1>2 DEF Init, NothingBeforeSchedule
<1>5. RegistryNamesLast /\ ReconnectsArePaid /\ RetriesBoundLaunches
  BY <1>2 DEF RegistryNamesLast, ReconnectsArePaid, RetriesBoundLaunches
<1>6. RetryBudget
  BY <1>2, ConfigAssumption DEF RetryBudget, Init, ConfigType
<1>7. ShutdownReachesEveryBot
  BY DEF ShutdownReachesEveryBot, Init
<1>8. QED
  BY <1>1, <1>3, <1>4, <1>5, <1>6, <1>7 DEF IInv

\* A step that creates and ends no driver, keeps the registry, sets no reconnect
\* timer, and neither begins a shutdown nor brings a driver back.
Quiet ==
  /\ UNCHANGED <<config, shuttingDown, registry, born, told>>
  /\ \A id \in Bots : reconnectTimers'[id] > 0 => reconnectTimers'[id] = reconnectTimers[id]
  /\ \A d \in Drivers : /\ st'[d] = "none" <=> st[d] = "none"
                        /\ st'[d] = "ended" <=> st[d] = "ended"
                        /\ st'[d] \in Open => st[d] \in Open

\* Such a step keeps the invariant.
LEMMA QuietInv ==
  ASSUME IInv, Quiet, TypeOK', NothingBeforeSchedule'
  PROVE  IInv'
<1>1. \A id \in Bots, k \in 1 .. MaxDrivers : <<id, k>> \in Drivers
  BY DEF Drivers
<1>2. DriversInOrder'
  BY <1>1 DEF IInv, DriversInOrder, Quiet
<1>3. \A id \in Bots : born[id] \in 0 .. MaxDrivers
  BY DEF IInv, TypeOK
<1>4. \A id \in Bots : born[id] > 0 => <<id, born[id]>> \in Drivers
  BY <1>1, <1>3, MaxDriversAssumption
<1>5. RegistryNamesLast'
  BY <1>4 DEF IInv, RegistryNamesLast, Quiet, has
<1>6. ReconnectsArePaid'
  <2> SUFFICES ASSUME NEW id \in Bots, reconnectTimers[id] > 0
               PROVE  /\ reconnectTimers[id] = 1 /\ has(registry, id) /\ config.reconnect
                      /\ st'[<<id, born[id]>>] = "ended"
                      /\ born[id] <= registry[id].retries
    BY DEF ReconnectsArePaid, Quiet, has, TypeOK
  <2>1. born[id] > 0
    BY <1>3, MaxDriversAssumption DEF IInv, NothingBeforeSchedule
  <2>2. QED
    BY <1>4, <2>1 DEF IInv, ReconnectsArePaid, Quiet
<1>7. RetriesBoundLaunches' /\ RetryBudget'
  BY DEF IInv, RetriesBoundLaunches, RetryBudget, Quiet, has
<1>8. ShutdownReachesEveryBot'
  BY DEF IInv, ShutdownReachesEveryBot, Quiet, Live
<1>9. QED
  BY <1>2, <1>5, <1>6, <1>7, <1>8 DEF IInv

\* shutdown() finds every driver that still has, or may get, a socket in the
\* registry: only the last driver of an id can have one, and its entry names it.
LEMMA LiveAreRegistered ==
  ASSUME IInv, NEW d \in Live
  PROVE  d \in all(registry)
<1>1. PICK id \in Bots, k \in 1 .. MaxDrivers : d = <<id, k>>
  BY DEF Live, Drivers
<1>2. st[<<id, k>>] # "none" /\ st[<<id, k>>] # "ended"
  BY <1>1 DEF Live, Open, Online
<1>3. born[id] \in 0 .. MaxDrivers
  BY DEF IInv, TypeOK
<1>4. k = born[id]
  BY <1>2, <1>3, MaxDriversAssumption DEF IInv, DriversInOrder
<1>5. has(registry, id) /\ registry[id].bot = born[id]
  BY <1>2, <1>3, <1>4 DEF IInv, RegistryNamesLast
<1>6. QED
  BY <1>1, <1>4, <1>5 DEF all

\* shutdown() keeps the invariant: it takes every timer away and has
\* disconnected the live drivers it found.
LEMMA ShutdownInv ==
  ASSUME IInv, NEW t \in {run, "crashed"}, Shutdown(t), TypeOK'
  PROVE  IInv'
<1>1. UNCHANGED <<config, registry, born, st>>
  BY DEF Shutdown
<1>2. DriversInOrder' /\ RegistryNamesLast' /\ RetriesBoundLaunches' /\ RetryBudget'
  BY <1>1 DEF IInv, DriversInOrder, RegistryNamesLast, RetriesBoundLaunches, RetryBudget, has
<1>3. spawnTimers' = {} /\ \A id \in Bots : reconnectTimers'[id] = 0
  BY DEF Shutdown
<1>4. NothingBeforeSchedule'
  <2>1. run' \in {"new", "preflight", "rejected"} => run = run'
    BY DEF Shutdown, IInv, TypeOK
  <2>2. QED
    BY <1>1, <1>3, <2>1 DEF IInv, NothingBeforeSchedule, has
<1>5. ReconnectsArePaid'
  BY <1>3 DEF ReconnectsArePaid
<1>6. ShutdownReachesEveryBot'
  <2> SUFFICES ASSUME config.driver = "light", NEW d \in Live PROVE d \in told'
    BY <1>1 DEF ShutdownReachesEveryBot, Live
  <2>1. Reached(d)
    BY DEF Reached, Live
  <2>2. QED
    BY <2>1, LiveAreRegistered DEF Shutdown
<1>7. QED
  BY <1>2, <1>4, <1>5, <1>6 DEF IInv

\* A spawn timer keeps the invariant: its id had no driver and no entry before.
LEMMA SpawnInv ==
  ASSUME IInv, NEW id \in Bots, SpawnFires(id), TypeOK'
  PROVE  IInv'
<1>1. id \in spawnTimers /\ born[id] = 0 /\ run \notin {"new", "preflight", "rejected"}
  BY DEF SpawnFires, IInv, NothingBeforeSchedule
<1>2. CASE SpawnLaunches(id)
  <2>1. /\ ~shuttingDown /\ UNCHANGED <<config, shuttingDown, run, reconnectTimers>>
        /\ spawnTimers' = spawnTimers \ {id}
        /\ born' = [born EXCEPT ![id] = 1]
        /\ st' = [st EXCEPT ![<<id, 1>>] = "connecting"]
        /\ registry' = [registry EXCEPT ![id] = [bot |-> 1, retries |-> 0]]
    BY <1>1, <1>2 DEF SpawnFires, SpawnLaunches, Launch, add
  <2>2. /\ born \in [Bots -> 0 .. MaxDrivers]
        /\ st \in [Drivers -> DriverStates]
        /\ registry \in [Bots -> Entries]
        /\ reconnectTimers \in [Bots -> Nat]
    BY DEF IInv, TypeOK
  <2>3. /\ born'[id] = 1 /\ has(registry, id)' /\ registry'[id] = [bot |-> 1, retries |-> 0]
        /\ \A i \in Bots : i # id => born'[i] = born[i] /\ registry'[i] = registry[i]
    BY <2>1, <2>2 DEF has
  <2>4. /\ st'[<<id, 1>>] = "connecting"
        /\ \A i \in Bots, k \in 1 .. MaxDrivers :
             <<i, k>> # <<id, 1>> => st'[<<i, k>>] = st[<<i, k>>]
    BY <2>1, <2>2, MaxDriversAssumption DEF Drivers
  <2>5. DriversInOrder'
    <3> SUFFICES ASSUME NEW i \in Bots, NEW k \in 1 .. MaxDrivers
                 PROVE  /\ st'[<<i, k>>] = "none" <=> k > born'[i]
                        /\ k < born'[i] => st'[<<i, k>>] = "ended"
      BY DEF DriversInOrder
    <3>1. CASE i = id
      BY <1>1, <2>3, <2>4, <3>1 DEF IInv, DriversInOrder
    <3>2. CASE i # id
      BY <2>3, <2>4, <3>2 DEF IInv, DriversInOrder
    <3>3. QED
      BY <3>1, <3>2
  <2>6. NothingBeforeSchedule'
    BY <1>1, <2>1, <2>2, <2>3 DEF IInv, NothingBeforeSchedule, has
  <2>7. RegistryNamesLast'
    <3> SUFFICES ASSUME NEW i \in Bots, i # id
                 PROVE  /\ has(registry, i)' => registry'[i].bot = born'[i]
                        /\ ~has(registry, i)' /\ born'[i] > 0 => st'[<<i, born'[i]>>] = "ended"
      <4>1. registry'[id].bot = born'[id]
        BY <2>3
      <4>2. QED
        BY <2>3, <4>1 DEF RegistryNamesLast
    <3>1. born[i] > 0 => born[i] \in 1 .. MaxDrivers
      BY <2>2, MaxDriversAssumption
    <3>2. QED
      BY <2>3, <2>4, <3>1 DEF IInv, RegistryNamesLast, has
  <2>8. ReconnectsArePaid'
    <3> SUFFICES ASSUME NEW i \in Bots, reconnectTimers[i] > 0
                 PROVE  /\ reconnectTimers[i] = 1 /\ has(registry, i)' /\ config.reconnect
                        /\ st'[<<i, born'[i]>>] = "ended"
                        /\ born'[i] <= registry'[i].retries
      BY <2>1 DEF ReconnectsArePaid
    <3>1. i # id /\ born[i] # 0
      BY <1>1 DEF IInv, NothingBeforeSchedule
    <3>2. born[i] \in 1 .. MaxDrivers
      BY <2>2, <3>1, MaxDriversAssumption
    <3>3. QED
      BY <2>3, <2>4, <3>1, <3>2 DEF IInv, ReconnectsArePaid, has
  <2>9. RetriesBoundLaunches' /\ RetryBudget'
    <3>1. config \in ConfigType
      BY ConfigAssumption DEF IInv, TypeOK
    <3>2. QED
      BY <2>1, <2>3, <3>1 DEF IInv, RetriesBoundLaunches, RetryBudget, has, ConfigType
  <2>10. ShutdownReachesEveryBot'
    BY <2>1 DEF ShutdownReachesEveryBot
  <2>11. QED
    BY <2>5, <2>6, <2>7, <2>8, <2>9, <2>10 DEF IInv
<1>3. CASE ~SpawnLaunches(id)
  <2>1. /\ UNCHANGED <<config, shuttingDown, reconnectTimers, registry, born, st, told>>
        /\ run' \in {run, "crashed"}
        /\ spawnTimers' = spawnTimers \ {id}
    BY <1>3 DEF SpawnFires, SpawnSkips, SpawnThrows, SpawnTooLate
  <2>2. Quiet
    BY <2>1 DEF Quiet
  <2>3. NothingBeforeSchedule'
    BY <2>1 DEF IInv, NothingBeforeSchedule, has
  <2>4. QED
    BY <2>2, <2>3, QuietInv
<1>4. QED
  BY <1>2, <1>3

\* A reconnect timer keeps the invariant: the driver it replaces has ended, and
\* the retry that set the timer pays for the launch.
LEMMA ReconnectInv ==
  ASSUME IInv, NEW id \in Bots, ReconnectFires(id), TypeOK'
  PROVE  IInv'
<1> DEFINE n == born[id] + 1
<1>1. /\ reconnectTimers[id] = 1 /\ has(registry, id) /\ config.reconnect
      /\ st[<<id, born[id]>>] = "ended" /\ born[id] <= registry[id].retries
  BY DEF ReconnectFires, IInv, ReconnectsArePaid
<1>2. /\ born \in [Bots -> 0 .. MaxDrivers]
      /\ st \in [Drivers -> DriverStates]
      /\ registry \in [Bots -> Entries]
      /\ reconnectTimers \in [Bots -> Nat]
  BY DEF IInv, TypeOK
<1>3. born[id] > 0
  BY <1>1, <1>2 DEF IInv, NothingBeforeSchedule
<1>4. /\ UNCHANGED <<config, shuttingDown, run, spawnTimers, told>>
      /\ reconnectTimers'[id] = 0
      /\ \A i \in Bots : i # id => reconnectTimers'[i] = reconnectTimers[i]
  BY <1>1, <1>2 DEF ReconnectFires
<1>5. CASE ~shuttingDown /\ Launch(id, FALSE)
  <2>1. /\ n \in 1 .. MaxDrivers
        /\ born' = [born EXCEPT ![id] = n]
        /\ st' = [st EXCEPT ![<<id, n>>] = "connecting"]
        /\ registry' = [registry EXCEPT ![id].bot = n]
    BY <1>1, <1>2, <1>5, MaxDriversAssumption DEF Launch, replace
  <2> HIDE DEF n
  <2>2. /\ born'[id] = n /\ n = born[id] + 1
        /\ registry'[id].bot = n /\ registry'[id].retries = registry[id].retries
        /\ \A i \in Bots : i # id => born'[i] = born[i] /\ registry'[i] = registry[i]
    BY <1>2, <2>1 DEF n, Entries
  <2>3. has(registry, id)'
    BY <2>1, <2>2 DEF has
  <2>4. /\ st'[<<id, n>>] = "connecting"
        /\ \A i \in Bots, k \in 1 .. MaxDrivers :
             <<i, k>> # <<id, n>> => st'[<<i, k>>] = st[<<i, k>>]
    BY <1>2, <2>1 DEF Drivers
  <2>5. DriversInOrder'
    <3> SUFFICES ASSUME NEW i \in Bots, NEW k \in 1 .. MaxDrivers
                 PROVE  /\ st'[<<i, k>>] = "none" <=> k > born'[i]
                        /\ k < born'[i] => st'[<<i, k>>] = "ended"
      BY DEF DriversInOrder
    <3>1. CASE i = id
      <4>1. born[id] \in Nat
        BY <1>2
      <4>2. CASE k = n
        BY <2>2, <2>4, <3>1, <4>1, <4>2
      <4>3. CASE k # n
        BY <1>1, <2>2, <2>4, <3>1, <4>1, <4>3 DEF IInv, DriversInOrder
      <4>4. QED
        BY <4>2, <4>3
    <3>2. CASE i # id
      BY <2>2, <2>4, <3>2 DEF IInv, DriversInOrder
    <3>3. QED
      BY <3>1, <3>2
  <2>6. NothingBeforeSchedule'
    <3>1. spawnTimers \subseteq Bots /\ born[id] \in Nat /\ id \notin spawnTimers
      BY <1>2, <1>3 DEF IInv, TypeOK, NothingBeforeSchedule
    <3>2. \A i \in Bots : born'[i] = 0 => i # id /\ born[i] = 0
      BY <2>2, <3>1
    <3>3. run \notin {"new", "preflight", "rejected"}
      BY <1>3 DEF IInv, NothingBeforeSchedule
    <3>4. \A i \in Bots : born'[i] = 0 => ~has(registry, i)' /\ reconnectTimers'[i] = 0
      BY <1>4, <2>2, <3>2 DEF IInv, NothingBeforeSchedule, has
    <3>5. \A i \in spawnTimers' : born'[i] = 0
      BY <1>4, <2>2, <3>1 DEF IInv, NothingBeforeSchedule
    <3>6. QED
      BY <1>4, <3>3, <3>4, <3>5 DEF NothingBeforeSchedule
  <2>7. RegistryNamesLast'
    <3> SUFFICES ASSUME NEW i \in Bots, i # id
                 PROVE  /\ has(registry, i)' => registry'[i].bot = born'[i]
                        /\ ~has(registry, i)' /\ born'[i] > 0 => st'[<<i, born'[i]>>] = "ended"
      BY <2>2, <2>3 DEF RegistryNamesLast
    <3>1. born[i] > 0 => born[i] \in 1 .. MaxDrivers
      BY <1>2, MaxDriversAssumption
    <3>2. QED
      BY <2>2, <2>4, <3>1 DEF IInv, RegistryNamesLast, has
  <2>8. ReconnectsArePaid'
    <3> SUFFICES ASSUME NEW i \in Bots, i # id, reconnectTimers[i] > 0
                 PROVE  /\ reconnectTimers[i] = 1 /\ has(registry, i)' /\ config.reconnect
                        /\ st'[<<i, born'[i]>>] = "ended"
                        /\ born'[i] <= registry'[i].retries
      BY <1>4 DEF ReconnectsArePaid
    <3>1. born[i] \in 1 .. MaxDrivers
      BY <1>2, MaxDriversAssumption DEF IInv, NothingBeforeSchedule
    <3>2. QED
      BY <2>2, <2>4, <3>1 DEF IInv, ReconnectsArePaid, has
  <2>9. RetriesBoundLaunches'
    <3>1. /\ registry'[id].retries <= config.maxRetries
          /\ born'[id] <= registry'[id].retries + 1
      <4>1. registry[id].retries \in Nat /\ born[id] \in Nat
        BY <1>2 DEF Entries
      <4>2. QED
        BY <1>1, <2>2, <4>1 DEF IInv, RetriesBoundLaunches
    <3>2. \A i \in Bots : i # id => has(registry, i)' = has(registry, i)
      BY <2>2 DEF has
    <3>3. QED
      BY <1>1, <1>4, <2>2, <3>1, <3>2 DEF IInv, RetriesBoundLaunches
  <2>10. RetryBudget'
    <3>1. /\ registry[id].retries <= config.maxRetries /\ registry[id].retries \in Nat
          /\ config.maxRetries \in Nat /\ born[id] \in Nat
      BY <1>1, <1>2, ConfigAssumption
         DEF IInv, RetriesBoundLaunches, Entries, TypeOK, ConfigType
    <3>2. n <= config.maxRetries + 1
      BY <1>1, <2>2, <3>1
    <3>3. QED
      BY <1>1, <1>4, <2>2, <3>2 DEF IInv, RetryBudget
  <2>11. ShutdownReachesEveryBot'
    BY <1>4, <1>5 DEF ShutdownReachesEveryBot
  <2>12. QED
    BY <2>5, <2>6, <2>7, <2>8, <2>9, <2>10, <2>11 DEF IInv
<1>6. CASE ~(~shuttingDown /\ Launch(id, FALSE))
  <2>1. UNCHANGED <<born, st, registry>>
    BY <1>6 DEF ReconnectFires
  <2>2. Quiet
    BY <1>4, <2>1 DEF Quiet
  <2>3. NothingBeforeSchedule'
    BY <1>3, <1>4, <2>1 DEF IInv, NothingBeforeSchedule, has
  <2>4. QED
    BY <2>2, <2>3, QuietInv
<1>7. QED
  BY <1>5, <1>6

\* `end` keeps the invariant: it comes from the last driver of its id, for which
\* no reconnect was pending.
LEMMA EndInv ==
  ASSUME IInv, NEW d \in Drivers, End(d), TypeOK'
  PROVE  IInv'
<1>1. PICK id \in Bots, n \in 1 .. MaxDrivers : d = <<id, n>>
  BY DEF Drivers
<1>2. d[1] = id /\ d \in Live /\ d \in all(registry)
  BY <1>1, LiveAreRegistered DEF End, Live
<1>3. has(registry, id) /\ registry[id].bot = n /\ born[id] = n
  BY <1>1, <1>2 DEF all, IInv, RegistryNamesLast
<1>4. /\ born \in [Bots -> 0 .. MaxDrivers]
      /\ st \in [Drivers -> DriverStates]
      /\ registry \in [Bots -> Entries]
      /\ reconnectTimers \in [Bots -> Nat]
      /\ spawnTimers \subseteq Bots
  BY DEF IInv, TypeOK
<1>5. n \in Nat /\ n > 0 /\ st[<<id, n>>] \in Open
  BY <1>1, MaxDriversAssumption DEF End
<1>6. reconnectTimers[id] = 0
  BY <1>3, <1>4, <1>5 DEF IInv, ReconnectsArePaid, Open, Online
<1>7. /\ UNCHANGED <<config, run, shuttingDown, spawnTimers, born, told>>
      /\ st' = [st EXCEPT ![<<id, n>>] = "ended"]
      /\ ScheduleReconnect(id)
  BY <1>1, <1>2 DEF End
<1>8. /\ st'[<<id, n>>] = "ended"
      /\ \A i \in Bots, k \in 1 .. MaxDrivers :
           <<i, k>> # <<id, n>> => st'[<<i, k>>] = st[<<i, k>>]
  BY <1>1, <1>4, <1>7 DEF Drivers
<1>9. \A i \in Bots : i # id => registry'[i] = registry[i] /\ reconnectTimers'[i] = reconnectTimers[i]
  BY <1>4, <1>7 DEF ScheduleReconnect, incRetry, remove
<1>10. \/ registry'[id] = registry[id] /\ reconnectTimers'[id] = 0
       \/ registry'[id] = Absent /\ reconnectTimers'[id] = 0
       \/ /\ config.reconnect
          /\ reconnectTimers'[id] = 1
          /\ registry'[id].bot = n
          /\ registry'[id].retries = registry[id].retries + 1
          /\ registry'[id].retries <= config.maxRetries
  <2> DEFINE counting == incRetry(registry, id)
  <2>1. /\ counting \in [Bots -> Entries]
        /\ counting[id].bot = n /\ counting[id].retries = registry[id].retries + 1
    BY <1>3, <1>4 DEF incRetry, Entries
  <2>2. CASE UNCHANGED <<registry, reconnectTimers>>
    BY <1>6, <2>2
  <2>3. CASE registry' = remove(counting, id) /\ UNCHANGED reconnectTimers
    BY <1>6, <2>1, <2>3 DEF remove
  <2>4. CASE /\ config.reconnect
             /\ ~RetriesExceed(counting, id, config.maxRetries)
             /\ registry' = counting
             /\ reconnectTimers' = [reconnectTimers EXCEPT ![id] = @ + 1]
    <3>1. counting[id].retries <= config.maxRetries
      <4>1. config.maxRetries \in Nat /\ counting[id].retries \in Nat
        BY <2>1, ConfigAssumption DEF Entries, IInv, TypeOK, ConfigType
      <4>2. QED
        BY <2>4, <4>1 DEF RetriesExceed
    <3>2. reconnectTimers'[id] = 1
      BY <1>4, <1>6, <2>4
    <3>3. QED
      BY <2>1, <2>4, <3>1, <3>2
  <2>5. QED
    BY <1>7, <2>2, <2>3, <2>4 DEF ScheduleReconnect
<1>11. has(registry, id)' => registry'[id].bot = n
  <2>1. registry'[id].bot = n \/ registry'[id].bot = 0
    BY <1>3, <1>10 DEF Absent
  <2>2. QED
    BY <2>1 DEF has
<1>12. \A i \in Bots : i # id => (has(registry, i)' <=> has(registry, i))
  BY <1>9 DEF has
<1>13. DriversInOrder'
  <2> SUFFICES ASSUME NEW i \in Bots, NEW k \in 1 .. MaxDrivers
               PROVE  /\ st'[<<i, k>>] = "none" <=> k > born[i]
                      /\ k < born[i] => st'[<<i, k>>] = "ended"
    BY <1>7 DEF DriversInOrder
  <2>1. CASE i = id /\ k = n
    BY <1>3, <1>8, <2>1
  <2>2. CASE <<i, k>> # <<id, n>>
    BY <1>8, <2>2 DEF IInv, DriversInOrder
  <2>3. QED
    BY <2>1, <2>2
<1>14. NothingBeforeSchedule'
  BY <1>3, <1>5, <1>7, <1>9, <1>12 DEF IInv, NothingBeforeSchedule
<1>15. RegistryNamesLast'
  <2> SUFFICES ASSUME NEW i \in Bots, i # id
               PROVE  /\ has(registry, i)' => registry'[i].bot = born'[i]
                      /\ ~has(registry, i)' /\ born'[i] > 0 => st'[<<i, born'[i]>>] = "ended"
    BY <1>3, <1>7, <1>8, <1>11 DEF RegistryNamesLast
  <2>1. born[i] > 0 => born[i] \in 1 .. MaxDrivers
    BY <1>4, MaxDriversAssumption
  <2>2. QED
    BY <1>7, <1>8, <1>9, <1>12, <2>1 DEF IInv, RegistryNamesLast
<1>16. RetriesBoundLaunches'
  <2>1. has(registry, id)' =>
          /\ registry'[id].retries <= config.maxRetries
          /\ born'[id] <= registry'[id].retries + 1
          /\ ~config.reconnect => registry'[id].retries = 0
    <3>1. registry[id].retries \in Nat /\ born[id] \in Nat
      BY <1>4 DEF Entries
    <3>2. QED
      BY <1>3, <1>7, <1>10, <3>1 DEF IInv, RetriesBoundLaunches, has, Absent
  <2>2. QED
    BY <1>7, <1>9, <1>12, <2>1 DEF IInv, RetriesBoundLaunches
<1>17. ReconnectsArePaid'
  <2> SUFFICES ASSUME NEW i \in Bots, reconnectTimers'[i] > 0
               PROVE  /\ reconnectTimers'[i] = 1 /\ has(registry, i)' /\ config.reconnect
                      /\ st'[<<i, born[i]>>] = "ended"
                      /\ born[i] <= registry'[i].retries
    BY <1>7 DEF ReconnectsArePaid
  <2>1. CASE i = id
    <3>1. born[id] <= registry[id].retries + 1
      BY <1>3 DEF IInv, RetriesBoundLaunches
    <3>2. QED
      BY <1>3, <1>5, <1>8, <1>10, <2>1, <3>1 DEF has
  <2>2. CASE i # id
    <3>1. born[i] \in 1 .. MaxDrivers
      BY <1>4, <1>9, <2>2, MaxDriversAssumption DEF IInv, NothingBeforeSchedule
    <3>2. QED
      BY <1>8, <1>9, <1>12, <2>2, <3>1 DEF IInv, ReconnectsArePaid
  <2>3. QED
    BY <2>1, <2>2
<1>18. RetryBudget'
  BY <1>7 DEF IInv, RetryBudget
<1>19. ShutdownReachesEveryBot'
  <2>1. \A e \in Drivers : st'[e] \in Open => st[e] \in Open
    BY <1>1, <1>4, <1>7 DEF Open, Online
  <2>2. QED
    BY <1>7, <2>1 DEF IInv, ShutdownReachesEveryBot, Live
<1>20. QED
  BY <1>13, <1>14, <1>15, <1>16, <1>17, <1>18, <1>19 DEF IInv

\* The other driver events move a driver that stays created and not ended.
LEMMA DriverEventInv ==
  ASSUME IInv, NEW d \in Drivers, DriverEvent(d), TypeOK'
  PROVE  IInv'
<1>1. CASE End(d)
  BY <1>1, EndInv
<1>2. CASE ~End(d)
  <2>1. EventKeeps
    BY <1>2 DEF DriverEvent, Connected, Login, Position, Kicked, DriverError, TunnelFails
  <2>2. \/ st' = st
        \/ /\ st[d] \in Open
           /\ \E s \in Open \cup {"dead"} : st' = [st EXCEPT ![d] = s]
    <3> USE DEF Open, Online
    <3>1. CASE Connected(d) \/ Position(d) \/ TunnelFails(d)
      BY <3>1 DEF Connected, Position, TunnelFails
    <3>2. CASE Login(d)
      BY <3>2 DEF Login
    <3>3. CASE Kicked(d) \/ DriverError(d)
      BY <3>3 DEF Kicked, DriverError
    <3>4. QED
      BY <1>2, <3>1, <3>2, <3>3 DEF DriverEvent
  <2>3. st \in [Drivers -> DriverStates]
    BY DEF IInv, TypeOK
  <2>4. Quiet
    BY <2>1, <2>2, <2>3 DEF Quiet, EventKeeps, timers, Open, Online
  <2>5. NothingBeforeSchedule'
    BY <2>1 DEF IInv, NothingBeforeSchedule, EventKeeps, timers, has
  <2>6. QED
    BY <2>4, <2>5, QuietInv
<1>3. QED
  BY <1>1, <1>2

\* Every step keeps the invariant.
LEMMA NextInv == IInv /\ [Next]_vars => IInv'
<1> SUFFICES ASSUME IInv, [Next]_vars PROVE IInv'
  OBVIOUS
<1>1. TypeOK'
  BY NextType DEF IInv
\* A step that only moves the promise of run(), the timers or SIGINT.
<1> DEFINE Idle == UNCHANGED <<config, shuttingDown, reconnectTimers, registry, drivers>>
<1>2. ASSUME Idle, NothingBeforeSchedule' PROVE IInv'
  BY <1>1, <1>2, QuietInv DEF Quiet, drivers
<1>3. CASE Run
  <2>1. Idle
    BY <1>3 DEF Run, RunRefused, RunWithoutPreflight, RunPreflight, PreflightSettles,
                Schedule, timers
  <2>2. \/ run' \in {"rejected", "preflight"} /\ spawnTimers' = spawnTimers
        \/ run' = "waiting" /\ spawnTimers' = Bots
    BY <1>3 DEF Run, RunRefused, RunWithoutPreflight, RunPreflight, PreflightSettles,
                Schedule, timers
  <2>3. \A id \in Bots : id \notin spawnTimers /\ born[id] = 0
    BY <1>3 DEF Run, RunRefused, RunWithoutPreflight, RunPreflight, PreflightSettles,
                IInv, NothingBeforeSchedule
  <2>4. spawnTimers \subseteq Bots
    BY DEF IInv, TypeOK
  <2>5. NothingBeforeSchedule'
    BY <2>1, <2>2, <2>3, <2>4 DEF IInv, NothingBeforeSchedule, drivers, has
  <2>6. QED
    BY <1>2, <2>1, <2>5
<1>4. CASE Stop
  BY <1>1, <1>4, ShutdownInv DEF Stop
<1>5. CASE Sigint
  <2>1. CASE Shutdown("crashed")
    BY <1>1, <2>1, ShutdownInv
  <2>2. CASE ~Shutdown("crashed")
    BY <1>2, <1>5, <2>2 DEF Sigint, timers, drivers, IInv, NothingBeforeSchedule, has
  <2>3. QED
    BY <2>1, <2>2
<1>6. CASE DurationFires
  <2>1. CASE Shutdown("crashed")
    BY <1>1, <2>1, ShutdownInv
  <2>2. CASE ~Shutdown("crashed")
    BY <1>2, <1>6, <2>2 DEF DurationFires, drivers, IInv, NothingBeforeSchedule, has
  <2>3. QED
    BY <2>1, <2>2
<1>7. ASSUME NEW id \in Bots, TimerFires(id) PROVE IInv'
  BY <1>1, <1>7, SpawnInv, ReconnectInv DEF TimerFires
<1>8. ASSUME NEW d \in Drivers, DriverEvent(d) PROVE IInv'
  BY <1>1, <1>8, DriverEventInv
<1>9. CASE UNCHANGED vars
  BY <1>2, <1>9 DEF vars, timers, drivers, IInv, NothingBeforeSchedule, has
<1>10. QED
  BY <1>3, <1>4, <1>5, <1>6, <1>7, <1>8, <1>9 DEF Next

\* The invariant holds in every state the engine reaches.
THEOREM Inductive == Spec => []IInv
  BY InitInv, NextInv, PTL DEF Spec

-----------------------------------------------------------------------------
(* What follows                                                            *)

\* Whatever the server does to its connections, no bot is launched more often
\* than the configuration allows.
THEOREM RetryBudgetHolds == Spec => []RetryBudget
<1>1. IInv => RetryBudget
  BY DEF IInv
<1>2. QED
  BY <1>1, Inductive, PTL

\* disconnect() at shutdown reaches every LightBot that has, or may still get, a
\* socket, however the shutdown interleaves with ends and reconnects.
THEOREM ShutdownReaches == Spec => []ShutdownReachesEveryBot
<1>1. IInv => ShutdownReachesEveryBot
  BY DEF IInv
<1>2. QED
  BY <1>1, Inductive, PTL

\* A bot id never has two connections, open or being opened.
THEOREM OneConnection == Spec => []AtMostOneLive
<1>1. ASSUME IInv, NEW id \in Bots PROVE Cardinality(LiveOf(id)) <= 1
  <2>1. born[id] \in 0 .. MaxDrivers
    BY <1>1 DEF IInv, TypeOK
  <2>2. \A k \in LiveOf(id) : k = born[id]
    <3> SUFFICES ASSUME NEW k \in 1 .. MaxDrivers, st[<<id, k>>] \in Open PROVE k = born[id]
      BY DEF LiveOf
    <3>1. st[<<id, k>>] # "none" /\ st[<<id, k>>] # "ended"
      BY DEF Open, Online
    <3>2. QED
      BY <1>1, <2>1, <3>1, MaxDriversAssumption DEF IInv, DriversInOrder
  <2>3. LiveOf(id) = {} \/ LiveOf(id) = {born[id]}
    BY <2>2
  <2>4. Cardinality({}) = 0 /\ Cardinality({born[id]}) = 1
    BY FS_EmptySet, FS_Singleton
  <2>5. QED
    BY <2>3, <2>4
<1>2. IInv => AtMostOneLive
  BY <1>1 DEF AtMostOneLive
<1>3. QED
  BY <1>2, Inductive, PTL

\* Once shutdown() has begun no timer creates a driver, not even one that run()
\* sets afterwards.
THEOREM NothingLaunchesLate == Spec => NoLaunchAfterShutdown
<1>1. ASSUME [Next]_vars, shuttingDown PROVE UNCHANGED born
  <2>1. CASE Run
    BY <2>1 DEF Run, RunRefused, RunWithoutPreflight, RunPreflight, PreflightSettles,
                Schedule, drivers
  <2>2. CASE Stop \/ Sigint \/ DurationFires
    BY <1>1, <2>2 DEF Stop, Sigint, DurationFires, Shutdown, drivers
  <2>3. ASSUME NEW id \in Bots, TimerFires(id) PROVE UNCHANGED born
    BY <1>1, <2>3 DEF TimerFires, SpawnFires, SpawnLaunches, SpawnSkips, SpawnThrows,
                      SpawnTooLate, ReconnectFires
  <2>4. ASSUME NEW d \in Drivers, DriverEvent(d) PROVE UNCHANGED born
    BY <2>4 DEF DriverEvent, Connected, Login, Position, Kicked, DriverError, TunnelFails,
                End, EventKeeps
  <2>5. CASE UNCHANGED vars
    BY <2>5 DEF vars, drivers
  <2>6. QED
    BY <1>1, <2>1, <2>2, <2>3, <2>4, <2>5 DEF Next
<1>2. QED
  BY <1>1, PTL DEF Spec, NoLaunchAfterShutdown

-----------------------------------------------------------------------------
(* No lost bot is forgotten                                                *)

\* Every lost bot has a reconnect timer.  The rest of LostBotIsAwaited follows
\* from ReconnectsArePaid.
LostHaveTimers ==
  ~shuttingDown => \A id \in Bots : Lost(id) => reconnectTimers[id] > 0

\* A step that leaves the registry, the timers and the ends of drivers alone
\* keeps it.
LEMMA QuietLost ==
  ASSUME IInv, LostHaveTimers, shuttingDown' = shuttingDown,
         UNCHANGED <<config, registry, reconnectTimers>>,
         \A d \in Drivers : st'[d] = "ended" => st[d] = "ended"
  PROVE  LostHaveTimers'
<1> SUFFICES ASSUME NEW id \in Bots, ~shuttingDown, Lost(id)' PROVE reconnectTimers[id] > 0
  BY DEF LostHaveTimers
<1>1. has(registry, id) /\ registry[id].bot \in 1 .. MaxDrivers
  BY MaxDriversAssumption DEF Lost, has, IInv, TypeOK, Entries
<1>2. st[<<id, registry[id].bot>>] = "ended"
  BY <1>1 DEF Lost, Drivers
<1>3. QED
  BY <1>1, <1>2 DEF Lost, LostHaveTimers

\* Launching id gives its entry a driver that is connecting, and leaves the
\* other bots alone.
LEMMA LaunchLost ==
  ASSUME IInv, LostHaveTimers, NEW id \in Bots, NEW fresh \in BOOLEAN, Launch(id, fresh),
         fresh \/ has(registry, id),
         UNCHANGED <<config, shuttingDown>>,
         \A i \in Bots : i # id => reconnectTimers'[i] = reconnectTimers[i]
  PROVE  LostHaveTimers'
<1> DEFINE k == born[id] + 1
<1>1. /\ st \in [Drivers -> DriverStates]
      /\ registry \in [Bots -> Entries]
      /\ born \in [Bots -> 0 .. MaxDrivers]
  BY DEF IInv, TypeOK
<1>2. k \in 1 .. MaxDrivers
  BY <1>1, MaxDriversAssumption DEF Launch
<1>3. /\ st' = [st EXCEPT ![<<id, k>>] = "connecting"]
      /\ registry' = IF fresh THEN add(registry, id, k) ELSE replace(registry, id, k)
  BY DEF Launch
<1> HIDE DEF k
<1>4. registry'[id].bot = k
  BY <1>1, <1>3 DEF add, replace, Entries
<1>5. \A i \in Bots : i # id => registry'[i] = registry[i]
  BY <1>1, <1>3 DEF add, replace
<1>6. st'[<<id, k>>] = "connecting"
  BY <1>1, <1>2, <1>3 DEF Drivers
<1>7. ~Lost(id)'
  BY <1>4, <1>6 DEF Lost
<1> SUFFICES ASSUME NEW i \in Bots, i # id, ~shuttingDown, Lost(i)'
             PROVE  reconnectTimers[i] > 0
  BY <1>7 DEF LostHaveTimers
<1>8. has(registry, i) /\ registry[i].bot \in 1 .. MaxDrivers
  BY <1>1, <1>5, MaxDriversAssumption DEF Lost, has, Entries
<1>9. st'[<<i, registry[i].bot>>] = st[<<i, registry[i].bot>>]
  BY <1>1, <1>3, <1>8 DEF Drivers
<1>10. QED
  BY <1>5, <1>8, <1>9 DEF Lost, LostHaveTimers

\* `end` either sets the timer of its bot or takes the bot out of the registry.
LEMMA EndLost ==
  ASSUME IInv, LostHaveTimers, NEW d \in Drivers, End(d)
  PROVE  LostHaveTimers'
<1>1. PICK id \in Bots, n \in 1 .. MaxDrivers : d = <<id, n>>
  BY DEF Drivers
<1>2. /\ st \in [Drivers -> DriverStates]
      /\ registry \in [Bots -> Entries]
      /\ reconnectTimers \in [Bots -> Nat]
  BY DEF IInv, TypeOK
<1>3. /\ UNCHANGED <<config, shuttingDown>>
      /\ st' = [st EXCEPT ![<<id, n>>] = "ended"]
      /\ ScheduleReconnect(id)
  BY <1>1 DEF End
<1>4. \A i \in Bots : i # id => registry'[i] = registry[i] /\ reconnectTimers'[i] = reconnectTimers[i]
  BY <1>2, <1>3 DEF ScheduleReconnect, incRetry, remove
<1>5. ~shuttingDown /\ config.reconnect => ~has(registry, id)' \/ reconnectTimers'[id] > 0
  <2> SUFFICES ASSUME ~shuttingDown, config.reconnect
               PROVE  ~has(registry, id)' \/ reconnectTimers'[id] > 0
    OBVIOUS
  <2>1. CASE \E r \in [Bots -> Entries] : registry' = remove(r, id)
    BY <2>1 DEF remove, has, Absent
  <2>2. CASE reconnectTimers' = [reconnectTimers EXCEPT ![id] = @ + 1]
    BY <1>2, <2>2
  <2>3. incRetry(registry, id) \in [Bots -> Entries]
    BY <1>2 DEF incRetry, Entries
  <2>4. QED
    BY <1>3, <2>1, <2>2, <2>3 DEF ScheduleReconnect
<1> SUFFICES ASSUME NEW i \in Bots, ~shuttingDown, Lost(i)' PROVE reconnectTimers'[i] > 0
  BY <1>3 DEF LostHaveTimers
<1>6. CASE i = id
  BY <1>3, <1>5, <1>6 DEF Lost
<1>7. CASE i # id
  <2>1. has(registry, i) /\ registry[i].bot \in 1 .. MaxDrivers
    BY <1>2, <1>4, <1>7, MaxDriversAssumption DEF Lost, has, Entries
  <2>2. st'[<<i, registry[i].bot>>] = st[<<i, registry[i].bot>>]
    BY <1>2, <1>3, <1>7, <2>1 DEF Drivers
  <2>3. QED
    BY <1>3, <1>4, <1>7, <2>1, <2>2 DEF Lost, LostHaveTimers
<1>8. QED
  BY <1>6, <1>7

\* Every step keeps it.
LEMMA NextLost == IInv /\ LostHaveTimers /\ [Next]_vars => LostHaveTimers'
<1> SUFFICES ASSUME IInv, LostHaveTimers, [Next]_vars PROVE LostHaveTimers'
  OBVIOUS
<1>1. ASSUME shuttingDown' PROVE LostHaveTimers'
  BY <1>1 DEF LostHaveTimers
<1>2. ASSUME UNCHANGED <<config, registry, reconnectTimers, shuttingDown, st>>
      PROVE  LostHaveTimers'
  BY <1>2, QuietLost
<1>3. CASE Run
  BY <1>2, <1>3 DEF Run, RunRefused, RunWithoutPreflight, RunPreflight, PreflightSettles,
                    Schedule, timers, drivers
<1>4. CASE Stop \/ Sigint \/ DurationFires
  BY <1>1, <1>2, <1>4 DEF Stop, Sigint, DurationFires, Shutdown, timers, drivers
<1>5. ASSUME NEW id \in Bots, SpawnFires(id) PROVE LostHaveTimers'
  <2>1. UNCHANGED <<config, shuttingDown, reconnectTimers>>
    BY <1>5 DEF SpawnFires
  <2>2. CASE SpawnLaunches(id)
    BY <2>1, <2>2, LaunchLost DEF SpawnLaunches
  <2>3. CASE ~SpawnLaunches(id)
    BY <1>2, <1>5, <2>1, <2>3 DEF SpawnFires, SpawnSkips, SpawnThrows, SpawnTooLate
  <2>4. QED
    BY <2>2, <2>3
<1>6. ASSUME NEW id \in Bots, ReconnectFires(id) PROVE LostHaveTimers'
  <2>1. /\ UNCHANGED <<config, shuttingDown>>
        /\ reconnectTimers[id] > 0
        /\ reconnectTimers' = [reconnectTimers EXCEPT ![id] = @ - 1]
        /\ reconnectTimers \in [Bots -> Nat]
    BY <1>6 DEF ReconnectFires, IInv, TypeOK
  <2>2. \A i \in Bots : i # id => reconnectTimers'[i] = reconnectTimers[i]
    BY <2>1
  <2>3. has(registry, id)
    BY <2>1 DEF IInv, ReconnectsArePaid
  <2>4. CASE Launch(id, FALSE)
    BY <2>1, <2>2, <2>3, <2>4, LaunchLost
  <2>5. CASE shuttingDown
    BY <1>1, <2>1, <2>5
  <2>6. QED
    BY <1>6, <2>4, <2>5 DEF ReconnectFires
<1>7. ASSUME NEW d \in Drivers, DriverEvent(d) PROVE LostHaveTimers'
  <2>1. CASE End(d)
    BY <2>1, EndLost
  <2>2. CASE ~End(d)
    <3>1. EventKeeps
      BY <1>7, <2>2 DEF DriverEvent, Connected, Login, Position, Kicked, DriverError, TunnelFails
    <3>2. \/ st' = st
          \/ \E s \in (Online \cup {"dead"}) : st' = [st EXCEPT ![d] = s]
      <4> USE DEF Online
      <4>1. CASE Connected(d) \/ Position(d) \/ TunnelFails(d)
        BY <4>1 DEF Connected, Position, TunnelFails
      <4>2. CASE Login(d)
        BY <4>2 DEF Login
      <4>3. CASE Kicked(d) \/ DriverError(d)
        BY <4>3 DEF Kicked, DriverError
      <4>4. QED
        BY <1>7, <2>2, <4>1, <4>2, <4>3 DEF DriverEvent
    <3>3. st \in [Drivers -> DriverStates]
      BY DEF IInv, TypeOK
    <3>4. \A e \in Drivers : st'[e] = "ended" => st[e] = "ended"
      BY <3>2, <3>3 DEF Online
    <3>5. QED
      BY <3>1, <3>4, QuietLost DEF EventKeeps, timers
  <2>3. QED
    BY <2>1, <2>2
<1>8. CASE UNCHANGED vars
  BY <1>2, <1>8 DEF vars, timers, drivers
<1>9. QED
  BY <1>3, <1>4, <1>5, <1>6, <1>7, <1>8 DEF Next, TimerFires

\* A lost bot is awaited by exactly one timer as long as the run goes on, and no
\* other bot is.
THEOREM LostBotsAreAwaited == Spec => []LostBotIsAwaited
<1>1. Init => LostHaveTimers
  BY DEF Init, LostHaveTimers, Lost, has, NewRegistry, Absent
<1>2. ASSUME IInv, LostHaveTimers PROVE LostBotIsAwaited
  <2> SUFFICES ASSUME NEW id \in Bots, ~shuttingDown
               PROVE  reconnectTimers[id] = IF Lost(id) THEN 1 ELSE 0
    BY DEF LostBotIsAwaited
  <2>1. reconnectTimers[id] \in Nat
    BY <1>2 DEF IInv, TypeOK
  <2>2. reconnectTimers[id] > 0 => reconnectTimers[id] = 1 /\ Lost(id)
    <3>1. reconnectTimers[id] > 0 => has(registry, id) /\ registry[id].bot = born[id]
      BY <1>2 DEF IInv, ReconnectsArePaid, RegistryNamesLast
    <3>2. QED
      BY <1>2, <3>1 DEF IInv, ReconnectsArePaid, Lost
  <2>3. Lost(id) => reconnectTimers[id] > 0
    BY <1>2 DEF LostHaveTimers
  <2>4. QED
    BY <2>1, <2>2, <2>3
<1>3. QED
  BY <1>1, <1>2, Inductive, NextLost, PTL DEF Spec

-----------------------------------------------------------------------------
(* A resolved run is quiet                                                 *)

\* Reports are only written by the one shutdown, and a promise only resolves in
\* a shutdown that takes the timers and the handler away.
SettledOnce ==
  /\ ~shuttingDown => reportsWritten = 0
  /\ reportsWritten <= 1
  /\ run = "resolved" =>
       /\ shuttingDown
       /\ reportsWritten = 1
       /\ spawnTimers = {} /\ ~durationTimer /\ ~sigint
       /\ \A id \in Bots : reconnectTimers[id] = 0

\* shutdown() begins with no report written and leaves no timer behind.
LEMMA ShutdownSettlesOnce ==
  ASSUME TypeOK, SettledOnce, NEW t \in {run, "crashed"}, Shutdown(t),
         run' = "resolved" => ~sigint'
  PROVE  SettledOnce'
<1>1. reportsWritten = 0 /\ run # "resolved" /\ shuttingDown'
  BY DEF Shutdown, SettledOnce
<1>2. spawnTimers' = {} /\ ~durationTimer' /\ \A id \in Bots : reconnectTimers'[id] = 0
  BY DEF Shutdown
<1>3. reportsWritten' \in {0, 1} /\ (run' = "resolved" => reportsWritten' = 1)
  BY <1>1 DEF Shutdown
<1>4. QED
  BY <1>1, <1>2, <1>3 DEF SettledOnce

\* Every step keeps it.
LEMMA NextSettled == TypeOK /\ SettledOnce /\ [Next]_vars => SettledOnce'
<1> SUFFICES ASSUME TypeOK, SettledOnce, [Next]_vars PROVE SettledOnce'
  OBVIOUS
<1>1. CASE Run
  BY <1>1 DEF Run, RunRefused, RunWithoutPreflight, RunPreflight, PreflightSettles,
              Schedule, SettledOnce, timers
<1>2. CASE Stop
  <2>1. PICK t \in {run} : Shutdown(t) /\ (run' = "resolved" => ~sigint')
    BY <1>2 DEF Stop
  <2>2. QED
    BY <2>1, ShutdownSettlesOnce
<1>3. CASE Sigint
  <2>1. CASE Shutdown("crashed")
    BY <1>3, <2>1, ShutdownSettlesOnce DEF Sigint
  <2>2. CASE ~Shutdown("crashed")
    BY <1>3, <2>2 DEF Sigint, SettledOnce, timers
  <2>3. QED
    BY <2>1, <2>2
<1>4. CASE DurationFires
  <2>1. CASE Shutdown("crashed") /\ sigint' = (sigint /\ run' # "resolved")
    BY <2>1, ShutdownSettlesOnce
  <2>2. CASE ~(Shutdown("crashed") /\ sigint' = (sigint /\ run' # "resolved"))
    BY <1>4, <2>2 DEF DurationFires, SettledOnce
  <2>3. QED
    BY <2>1, <2>2
<1>5. ASSUME NEW id \in Bots, TimerFires(id) PROVE SettledOnce'
  <2>1. CASE SpawnFires(id)
    BY <2>1 DEF SpawnFires, SpawnLaunches, SpawnSkips, SpawnThrows, SpawnTooLate, SettledOnce
  <2>2. CASE ReconnectFires(id)
    BY <2>2 DEF ReconnectFires, SettledOnce
  <2>3. QED
    BY <1>5, <2>1, <2>2 DEF TimerFires
<1>6. ASSUME NEW d \in Drivers, DriverEvent(d) PROVE SettledOnce'
  <2>1. UNCHANGED <<run, shuttingDown, spawnTimers, durationTimer, sigint, reportsWritten>>
    BY <1>6 DEF DriverEvent, Connected, Login, Position, Kicked, DriverError, TunnelFails,
                End, EventKeeps, timers
  <2>2. shuttingDown => UNCHANGED reconnectTimers
    BY <1>6 DEF DriverEvent, Connected, Login, Position, Kicked, DriverError, TunnelFails,
                End, EventKeeps, timers, ScheduleReconnect
  <2>3. QED
    BY <2>1, <2>2 DEF SettledOnce
<1>7. CASE UNCHANGED vars
  BY <1>7 DEF vars, timers, SettledOnce
<1>8. QED
  BY <1>1, <1>2, <1>3, <1>4, <1>5, <1>6, <1>7 DEF Next

\* A run whose promise has resolved has written its reports once and is not
\* called back by any timer or signal.
THEOREM ResolvedIsQuiet == Spec => []ResolvedRunIsQuiet
<1>1. Init => SettledOnce
  BY DEF Init, SettledOnce
<1>2. SettledOnce => ResolvedRunIsQuiet
  BY DEF SettledOnce, ResolvedRunIsQuiet
<1>3. QED
  BY <1>1, <1>2, TypeCorrect, NextSettled, PTL DEF Spec

-----------------------------------------------------------------------------
(* Accounts and proxies go to one bot each                                 *)

\* Every spawn timer that is pending has a place in the rotation to come.
RotationHasRoom ==
  /\ run \in {"new", "preflight", "rejected"} => accountIdx = 0
  /\ accountIdx + Cardinality(spawnTimers) <= Cardinality(Bots)

\* With enough accounts the rotation never comes round: those handed out are
\* the first accountIdx of the list, and no two bots hold the same.
AccountsDiffer ==
  config.microsoft /\ config.accounts >= Cardinality(Bots) =>
    /\ \A i \in Bots : born[i] > 0 => spec[i].account < accountIdx
    /\ \A i, j \in Bots :
         born[i] > 0 /\ born[j] > 0 /\ spec[i].account = spec[j].account => i = j

\* What a step that makes no spec has to leave alone.
NoSpecMade ==
  /\ UNCHANGED <<config, specs>>
  /\ \A id \in Bots : born'[id] > 0 => born[id] > 0

\* Every step but that of a spawn timer makes no spec and sets spawn timers only
\* when run() schedules them all.
LEMMA OthersMakeNoSpec ==
  ASSUME IInv, [Next]_vars, \A id \in Bots : ~SpawnFires(id)
  PROVE  /\ NoSpecMade
         /\ \/ spawnTimers' \in {spawnTimers, {}}
            \/ /\ spawnTimers' = Bots
               /\ run \in {"new", "preflight"}
         /\ run' \in {"new", "preflight", "rejected"} => run \in {"new", "preflight", "rejected"}
<1> USE DEF NoSpecMade, specs
<1>1. CASE Run
  BY <1>1 DEF Run, RunRefused, RunWithoutPreflight, RunPreflight, PreflightSettles,
              Schedule, timers, drivers
<1>2. CASE Stop \/ Sigint \/ DurationFires
  <2>1. ASSUME NEW t \in {run, "crashed"}, Shutdown(t)
        PROVE  /\ UNCHANGED <<config, specs, born>>
               /\ spawnTimers' = {}
               /\ run' \in {run, "resolved", "crashed"}
    BY <2>1 DEF Shutdown
  <2>2. \/ \E t \in {run, "crashed"} : Shutdown(t)
        \/ UNCHANGED <<config, specs, born, spawnTimers, run>>
    BY <1>2 DEF Stop, Sigint, DurationFires, timers, drivers
  <2>3. QED
    BY <2>1, <2>2
<1>3. ASSUME NEW id \in Bots, ReconnectFires(id) PROVE NoSpecMade /\ UNCHANGED <<spawnTimers, run>>
  <2>1. born[id] > 0
    BY <1>3 DEF ReconnectFires, IInv, ReconnectsArePaid, NothingBeforeSchedule, TypeOK
  <2>2. \A i \in Bots : born'[i] > 0 => born[i] > 0
    BY <1>3, <2>1 DEF ReconnectFires, Launch, IInv, TypeOK
  <2>3. QED
    BY <1>3, <2>2 DEF ReconnectFires
<1>4. ASSUME NEW d \in Drivers, DriverEvent(d)
      PROVE  UNCHANGED <<config, specs, born, spawnTimers, run>>
  BY <1>4 DEF DriverEvent, Connected, Login, Position, Kicked, DriverError, TunnelFails,
              End, EventKeeps, timers
<1>5. CASE UNCHANGED vars
  BY <1>5 DEF vars, timers, drivers
<1>6. QED
  BY <1>1, <1>2, <1>3, <1>4, <1>5 DEF Next, TimerFires

\* The timers pending are finitely many, and firing one makes them one fewer.
LEMMA SpawnTimersCount ==
  ASSUME TypeOK
  PROVE  /\ IsFiniteSet(spawnTimers)
         /\ Cardinality(spawnTimers) \in Nat
         /\ Cardinality(spawnTimers) <= Cardinality(Bots)
         /\ Cardinality(Bots) \in Nat
         /\ \A id \in spawnTimers : Cardinality(spawnTimers \ {id}) = Cardinality(spawnTimers) - 1
<1>1. IsFiniteSet(Bots) /\ spawnTimers \in SUBSET Bots
  BY BoundAssumption DEF TypeOK
<1>2. IsFiniteSet(spawnTimers) /\ Cardinality(spawnTimers) <= Cardinality(Bots)
  BY <1>1, FS_Subset
<1>3. Cardinality(spawnTimers) \in Nat /\ Cardinality(Bots) \in Nat
  BY <1>1, <1>2, FS_CardinalityType
<1>4. \A id \in spawnTimers : Cardinality(spawnTimers \ {id}) = Cardinality(spawnTimers) - 1
  BY <1>2, FS_RemoveElement
<1>5. QED
  BY <1>2, <1>3, <1>4

\* Every step keeps the rotation within the bots that are still to come.
LEMMA NextRotation == IInv /\ RotationHasRoom /\ [Next]_vars => RotationHasRoom'
<1> SUFFICES ASSUME IInv, RotationHasRoom, [Next]_vars PROVE RotationHasRoom'
  OBVIOUS
<1>1. TypeOK /\ accountIdx \in Nat
  BY DEF IInv, TypeOK
<1>2. CASE \A id \in Bots : ~SpawnFires(id)
  <2>1. accountIdx' = accountIdx
    BY <1>2, OthersMakeNoSpec DEF NoSpecMade, specs
  <2>2. run' \in {"new", "preflight", "rejected"} => accountIdx' = 0
    BY <1>2, <2>1, OthersMakeNoSpec DEF RotationHasRoom
  <2>3. CASE spawnTimers' \in {spawnTimers, {}}
    <3>1. Cardinality({}) = 0
      BY FS_EmptySet
    <3>2. Cardinality(spawnTimers') <= Cardinality(spawnTimers)
      BY <1>1, <2>3, <3>1, SpawnTimersCount
    <3>3. Cardinality(spawnTimers') \in Nat
      BY <1>1, <2>3, <3>1, SpawnTimersCount
    <3>4. QED
      BY <1>1, <2>1, <2>2, <3>2, <3>3, SpawnTimersCount DEF RotationHasRoom
  <2>4. CASE spawnTimers' = Bots /\ run \in {"new", "preflight"}
    <3>1. accountIdx = 0
      BY <2>4 DEF RotationHasRoom
    <3>2. QED
      BY <1>1, <2>1, <2>2, <2>4, <3>1, SpawnTimersCount DEF RotationHasRoom
  <2>5. QED
    BY <1>2, <2>3, <2>4, OthersMakeNoSpec
<1>3. ASSUME NEW id \in Bots, SpawnFires(id) PROVE RotationHasRoom'
  <2>1. id \in spawnTimers /\ spawnTimers' = spawnTimers \ {id}
    BY <1>3 DEF SpawnFires
  <2>2. Cardinality(spawnTimers') = Cardinality(spawnTimers) - 1
    BY <1>1, <2>1, SpawnTimersCount
  <2>3. accountIdx' \in {accountIdx, accountIdx + 1}
    BY <1>3 DEF SpawnFires, SpawnLaunches, SpawnSkips, SpawnThrows, SpawnTooLate, MakeSpec, specs
  <2>4. run \notin {"new", "preflight", "rejected"}
    BY <2>1 DEF IInv, NothingBeforeSchedule, TypeOK
  <2>5. run' \in {run, "crashed"}
    BY <1>3 DEF SpawnFires, SpawnLaunches, SpawnSkips, SpawnThrows, SpawnTooLate
  <2>6. QED
    BY <1>1, <2>2, <2>3, <2>4, <2>5, SpawnTimersCount DEF RotationHasRoom
<1>4. QED
  BY <1>2, <1>3

\* Every step keeps the accounts of launched bots apart.
LEMMA NextAccounts ==
  IInv /\ RotationHasRoom /\ AccountsDiffer /\ [Next]_vars => AccountsDiffer'
<1> SUFFICES ASSUME IInv, RotationHasRoom, AccountsDiffer, [Next]_vars PROVE AccountsDiffer'
  OBVIOUS
<1>1. /\ TypeOK /\ accountIdx \in Nat
      /\ spec \in [Bots -> Specs]
      /\ born \in [Bots -> 0 .. MaxDrivers]
      /\ config \in ConfigType
  BY ConfigAssumption DEF IInv, TypeOK
<1>2. CASE \A id \in Bots : ~SpawnFires(id)
  BY <1>2, OthersMakeNoSpec DEF NoSpecMade, specs, AccountsDiffer
<1>3. ASSUME NEW id \in Bots, SpawnFires(id) PROVE AccountsDiffer'
  <2>1. config' = config
    BY <1>3 DEF SpawnFires
  <2>2. CASE SpawnThrows(id) \/ SpawnTooLate(id)
    BY <2>1, <2>2 DEF SpawnThrows, SpawnTooLate, specs, AccountsDiffer
  <2>3. CASE SpawnLaunches(id) \/ SpawnSkips(id)
    <3> SUFFICES ASSUME config.microsoft, config.accounts >= Cardinality(Bots)
                 PROVE  /\ \A i \in Bots : born'[i] > 0 => spec'[i].account < accountIdx'
                        /\ \A i, j \in Bots :
                             /\ born'[i] > 0 /\ born'[j] > 0
                             /\ spec'[i].account = spec'[j].account
                             => i = j
      BY <2>1 DEF AccountsDiffer
    <3>1. id \in spawnTimers
      BY <1>3 DEF SpawnFires
    <3>2. Cardinality(spawnTimers) >= 1
      <4>1. Cardinality(spawnTimers) # 0
        BY <1>1, <3>1, SpawnTimersCount, FS_EmptySet
      <4>2. QED
        BY <1>1, <4>1, SpawnTimersCount
    <3>3. accountIdx < config.accounts /\ config.accounts \in Nat
      BY <1>1, <3>2, SpawnTimersCount DEF RotationHasRoom, ConfigType
    <3>4. accountIdx % config.accounts = accountIdx
      BY <1>1, <3>3
    <3>5. accountIdx' = accountIdx + 1
      BY <2>3 DEF SpawnLaunches, SpawnSkips, MakeSpec
    <3> DEFINE q == Acquired(pool, config.proxies, config.maxPerProxy)
    <3>5a. MakeSpec(id)
      BY <2>3 DEF SpawnLaunches, SpawnSkips
    <3>5b. spec' = [spec EXCEPT ![id] = [proxy |-> q, account |-> accountIdx]]
      BY <3>4, <3>5a DEF MakeSpec
    <3> HIDE DEF q
    <3>6. spec'[id].account = accountIdx /\ \A i \in Bots : i # id => spec'[i] = spec[i]
      BY <1>1, <3>5b
    <3>7. \A i \in Bots : i # id => born'[i] = born[i]
      BY <1>1, <2>3 DEF SpawnLaunches, SpawnSkips, Launch
    <3>8. \A i \in Bots : spec[i].account \in Nat
      BY <1>1 DEF Specs
    <3>9. \A i \in Bots : i # id /\ born'[i] > 0 => spec'[i].account < accountIdx
      BY <3>6, <3>7 DEF AccountsDiffer
    <3>10. \A i, j \in Bots :
             /\ i # id /\ j # id /\ born'[i] > 0 /\ born'[j] > 0
             /\ spec'[i].account = spec'[j].account
             => i = j
      BY <3>6, <3>7 DEF AccountsDiffer
    <3>11. \A i \in Bots : i # id => spec'[i].account \in Nat
      BY <3>6, <3>8
    <3>12. \A i \in Bots : born'[i] > 0 => spec'[i].account < accountIdx'
      BY <1>1, <3>5, <3>6, <3>9, <3>11
    <3>13. \A i \in Bots : i # id /\ born'[i] > 0 => spec'[i].account # spec'[id].account
      BY <1>1, <3>6, <3>9, <3>11
    <3>14. QED
      BY <3>10, <3>12, <3>13
  <2>4. QED
    BY <1>3, <2>2, <2>3 DEF SpawnFires
<1>4. QED
  BY <1>2, <1>3

\* Two bots share a Microsoft account only when there are more bots than
\* accounts, however their spawn timers and reconnects interleave.
THEOREM AccountsStayApart == Spec => []AccountsApart
<1>1. Init => RotationHasRoom /\ AccountsDiffer
  <2> SUFFICES ASSUME Init PROVE RotationHasRoom /\ AccountsDiffer
    OBVIOUS
  <2>1. Cardinality(spawnTimers) = 0 /\ accountIdx = 0
    BY FS_EmptySet DEF Init
  <2>2. Cardinality(Bots) \in Nat
    BY BoundAssumption, FS_CardinalityType
  <2>3. RotationHasRoom
    BY <2>1, <2>2 DEF RotationHasRoom
  <2>4. AccountsDiffer
    BY DEF Init, AccountsDiffer
  <2>5. QED
    BY <2>3, <2>4
<1>2. AccountsDiffer => AccountsApart
  BY DEF AccountsDiffer, AccountsApart
<1>3. QED
  BY <1>1, <1>2, Inductive, NextRotation, NextAccounts, PTL DEF Spec

\* Once launched, a bot keeps its account and its proxy: a spec is made by its spawn
\* timer only, which is no longer pending then.
THEOREM SpecsStay == Spec => BotKeepsItsSpec
<1>1. ASSUME IInv, [Next]_vars, NEW id \in Bots, born[id] > 0
      PROVE  spec'[id] = spec[id]
  <2>1. CASE \A i \in Bots : ~SpawnFires(i)
    BY <1>1, <2>1, OthersMakeNoSpec DEF NoSpecMade, specs
  <2>2. ASSUME NEW i \in Bots, SpawnFires(i) PROVE spec'[id] = spec[id]
    <3>1. i # id
      BY <1>1, <2>2 DEF SpawnFires, IInv, NothingBeforeSchedule, TypeOK
    <3>2. spec \in [Bots -> Specs]
      BY <1>1 DEF IInv, TypeOK
    <3>3. QED
      BY <2>2, <3>1, <3>2 DEF SpawnFires, SpawnLaunches, SpawnSkips, SpawnThrows,
                              SpawnTooLate, MakeSpec, specs
  <2>3. QED
    BY <2>1, <2>2
<1>2. IInv /\ [Next]_vars => [\A id \in Bots : born[id] > 0 => spec'[id] = spec[id]]_vars
  BY <1>1
<1>3. QED
  BY <1>2, Inductive, PTL DEF Spec, BotKeepsItsSpec

\* Each bot takes one account from the rotation, its own while there are enough, and
\* has it for good: its reconnects log in under the name it had.
THEOREM AccountsAreKept == Spec => AccountsRotate
  BY AccountsStayApart, SpecsStay, PTL DEF AccountsRotate

-----------------------------------------------------------------------------
(* No proxy carries more bots than its cap                                 *)

\* The bots that were given proxy p.
Holders(p) == {id \in Bots : spec[id].proxy = p}

\* The pool has counted every bot that holds a proxy, up to the cap; a bot that
\* is still to be spawned holds none, and a launched one does not go without.
PoolCountsHolders ==
  /\ \A p \in Proxies : Cardinality(Holders(p)) <= pool.active[p]
  /\ \A p \in Proxies : pool.active[p] <= config.maxPerProxy
  /\ run \in {"new", "preflight", "rejected"} => \A id \in Bots : spec[id].proxy = NoProxy
  /\ \A id \in spawnTimers : spec[id].proxy = NoProxy
  /\ enabled(config.proxies) => \A id \in Bots : born[id] > 0 => spec[id].proxy # NoProxy

\* acquire() adds one to a proxy that is under its cap, or takes none.
LEMMA AcquireUnderCap ==
  ASSUME NEW pl \in Pools, NEW list \in Seq(Proxies), NEW cap \in Nat
  PROVE  \/ Acquired(pl, list, cap) = NoProxy /\ AfterAcquire(pl, list, cap) = pl
         \/ /\ Acquired(pl, list, cap) \in Proxies
            /\ pl.active[Acquired(pl, list, cap)] < cap
            /\ AfterAcquire(pl, list, cap).active
                 = [pl.active EXCEPT ![Acquired(pl, list, cap)] = @ + 1]
<1>1. CASE UnderCap(pl, list, cap) = {}
  BY <1>1 DEF AfterAcquire, Acquired
<1>2. CASE UnderCap(pl, list, cap) # {}
  <2> DEFINE i == First(UnderCap(pl, list, cap))
  <2>1. UnderCap(pl, list, cap) \in SUBSET Nat
    BY DEF UnderCap
  <2>2. i \in UnderCap(pl, list, cap)
    BY <1>2, <2>1, FirstIsLeast
  <2>3. pl.active[Nth(pl, list, i)] < cap
    BY <2>2 DEF UnderCap
  <2>4. Acquired(pl, list, cap) = Nth(pl, list, i)
    BY <1>2 DEF Acquired
  <2> HIDE DEF i
  <2>5. Acquired(pl, list, cap) \in Proxies
    <3>1. i \in 0 .. (Len(list) - 1) /\ Len(list) \in Nat /\ Len(list) > 0
      BY <2>2 DEF UnderCap
    <3>2. ((pl.idx + i) % Len(list)) + 1 \in 1 .. Len(list)
      BY <3>1 DEF Pools
    <3>3. QED
      BY <2>4, <3>2 DEF Nth
  <2>6. AfterAcquire(pl, list, cap).active = [pl.active EXCEPT ![Acquired(pl, list, cap)] = @ + 1]
    BY <1>2 DEF AfterAcquire
  <2>7. QED
    BY <2>3, <2>4, <2>5, <2>6
<1>3. QED
  BY <1>1, <1>2

\* A set of bots is finite.
LEMMA HoldersFinite ==
  ASSUME NEW p
  PROVE  IsFiniteSet(Holders(p)) /\ Cardinality(Holders(p)) \in Nat
<1>1. IsFiniteSet(Bots) /\ Holders(p) \in SUBSET Bots
  BY BoundAssumption DEF Holders
<1>2. IsFiniteSet(Holders(p))
  BY <1>1, FS_Subset
<1>3. QED
  BY <1>2, FS_CardinalityType

\* makeSpec() for a bot without a proxy keeps the pool's books in order.
LEMMA MakeSpecCounts ==
  ASSUME IInv, PoolCountsHolders, NEW id \in Bots, ~NoAccount, MakeSpec(id),
         spec[id].proxy = NoProxy, config' = config
  PROVE  /\ \A p \in Proxies : Cardinality(Holders(p)') <= pool'.active[p]
         /\ \A p \in Proxies : pool'.active[p] <= config.maxPerProxy
         /\ \A i \in Bots : i # id => spec'[i] = spec[i]
<1> DEFINE q == Acquired(pool, config.proxies, config.maxPerProxy)
<1>1. /\ config \in ConfigType /\ pool \in Pools /\ spec \in [Bots -> Specs]
      /\ pool.active \in [Proxies -> Nat]
  BY ConfigAssumption DEF IInv, TypeOK, Pools
<1>2. config.proxies \in Seq(Proxies) /\ config.maxPerProxy \in Nat
  BY <1>1 DEF ConfigType
<1>3. pool' = AfterAcquire(pool, config.proxies, config.maxPerProxy)
  BY DEF MakeSpec
<1>4. \/ q = NoProxy /\ pool' = pool
      \/ /\ q \in Proxies
         /\ pool.active[q] < config.maxPerProxy
         /\ pool'.active = [pool.active EXCEPT ![q] = @ + 1]
  <2> DEFINE list == config.proxies
             cap == config.maxPerProxy
             after == AfterAcquire(pool, list, cap)
  <2>1. \/ q = NoProxy /\ after = pool
        \/ /\ q \in Proxies
           /\ pool.active[q] < config.maxPerProxy
           /\ after.active = [pool.active EXCEPT ![q] = @ + 1]
    <3>1. pool \in Pools /\ list \in Seq(Proxies) /\ cap \in Nat
      BY <1>1, <1>2
    <3> HIDE DEF list, cap
    <3>2. \/ Acquired(pool, list, cap) = NoProxy /\ AfterAcquire(pool, list, cap) = pool
          \/ /\ Acquired(pool, list, cap) \in Proxies
             /\ pool.active[Acquired(pool, list, cap)] < cap
             /\ AfterAcquire(pool, list, cap).active
                  = [pool.active EXCEPT ![Acquired(pool, list, cap)] = @ + 1]
      BY <3>1, AcquireUnderCap
    <3> QED BY <3>2 DEF list, cap
  <2> HIDE DEF q, after
  <2>2. pool' = after
    BY <1>3 DEF after
  <2>3. QED
    BY <2>1, <2>2
<1>5. PICK a : spec' = [spec EXCEPT ![id] = [proxy |-> q, account |-> a]]
  BY DEF MakeSpec
<1> HIDE DEF q
<1>6. spec'[id].proxy = q /\ \A i \in Bots : i # id => spec'[i] = spec[i]
  BY <1>1, <1>5
<1>7. \A p \in Proxies : Holders(p)' = IF p = q THEN Holders(p) \cup {id} ELSE Holders(p)
  BY <1>6, NoProxyAssumption DEF Holders
<1>8. ASSUME NEW p \in Proxies
      PROVE  Cardinality(Holders(p)') <= pool'.active[p] /\ pool'.active[p] <= config.maxPerProxy
  <2>1. pool.active[p] \in Nat /\ Cardinality(Holders(p)) \in Nat /\ IsFiniteSet(Holders(p))
    BY <1>1, HoldersFinite
  <2>2. Cardinality(Holders(p)) <= pool.active[p] /\ pool.active[p] <= config.maxPerProxy
    BY DEF PoolCountsHolders
  <2>3. CASE p # q
    <3>1. pool'.active[p] = pool.active[p]
      BY <1>1, <1>4, <2>3
    <3>2. QED
      BY <1>7, <2>2, <2>3, <3>1
  <2>4. CASE p = q
    <3>1. pool'.active[p] = pool.active[p] + 1 /\ pool.active[p] < config.maxPerProxy
      BY <1>1, <1>4, <2>4, NoProxyAssumption
    <3>2. Holders(p)' = Holders(p) \cup {id}
      BY <1>7, <2>4
    <3>3. Cardinality(Holders(p)') <= Cardinality(Holders(p)) + 1 /\ Cardinality(Holders(p)') \in Nat
      <4>1. Cardinality(Holders(p) \cup {id}) \in {Cardinality(Holders(p)), Cardinality(Holders(p)) + 1}
        BY <2>1, FS_AddElement
      <4>2. QED
        BY <2>1, <3>2, <4>1
    <3>4. QED
      BY <1>2, <2>1, <2>2, <3>1, <3>3
  <2>5. QED
    BY <2>3, <2>4
<1>9. QED
  BY <1>6, <1>8

\* Every step keeps the pool's books in order.
LEMMA NextHolders == IInv /\ PoolCountsHolders /\ [Next]_vars => PoolCountsHolders'
<1> SUFFICES ASSUME IInv, PoolCountsHolders, [Next]_vars PROVE PoolCountsHolders'
  OBVIOUS
<1>1. CASE \A id \in Bots : ~SpawnFires(id)
  <2>1. UNCHANGED <<config, pool, spec>> /\ \A id \in Bots : born'[id] > 0 => born[id] > 0
    BY <1>1, OthersMakeNoSpec DEF NoSpecMade, specs
  <2>2. /\ spawnTimers' \subseteq spawnTimers \/ run \in {"new", "preflight", "rejected"}
        /\ run' \in {"new", "preflight", "rejected"} => run \in {"new", "preflight", "rejected"}
        /\ spawnTimers' \subseteq Bots
    BY <1>1, OthersMakeNoSpec DEF IInv, TypeOK
  <2>3. \A p : Holders(p)' = Holders(p)
    BY <2>1 DEF Holders
  <2>4. QED
    BY <2>1, <2>2, <2>3 DEF PoolCountsHolders
<1>2. ASSUME NEW id \in Bots, SpawnFires(id) PROVE PoolCountsHolders'
  <2>1. /\ id \in spawnTimers /\ spawnTimers' = spawnTimers \ {id}
        /\ config' = config /\ spec[id].proxy = NoProxy
    BY <1>2 DEF SpawnFires, PoolCountsHolders
  <2>2. run' \notin {"new", "preflight", "rejected"}
    BY <1>2, <2>1 DEF IInv, NothingBeforeSchedule, TypeOK,
                      SpawnFires, SpawnLaunches, SpawnSkips, SpawnThrows, SpawnTooLate
  <2>3. CASE SpawnThrows(id) \/ SpawnTooLate(id)
    <3>1. UNCHANGED <<pool, spec, born>>
      BY <2>3 DEF SpawnThrows, SpawnTooLate, specs
    <3>2. \A p : Holders(p)' = Holders(p)
      BY <3>1 DEF Holders
    <3>3. QED
      BY <2>1, <2>2, <3>1, <3>2 DEF PoolCountsHolders
  <2>4. CASE SpawnLaunches(id) \/ SpawnSkips(id)
    <3>1. ~NoAccount /\ MakeSpec(id)
      BY <2>4 DEF SpawnLaunches, SpawnSkips
    <3>2. /\ \A p \in Proxies : Cardinality(Holders(p)') <= pool'.active[p]
          /\ \A p \in Proxies : pool'.active[p] <= config.maxPerProxy
          /\ \A i \in Bots : i # id => spec'[i] = spec[i]
      BY <2>1, <3>1, MakeSpecCounts
    <3>3. \A i \in Bots : i # id => born'[i] = born[i]
      BY <2>4 DEF SpawnLaunches, SpawnSkips, Launch, IInv, TypeOK
    <3>4. enabled(config.proxies) => (born'[id] > 0 => spec'[id].proxy # NoProxy)
      <4>1. CASE SpawnLaunches(id)
        BY <4>1 DEF SpawnLaunches, WouldGoDirect
      <4>2. CASE SpawnSkips(id)
        <5>1. born[id] = 0
          BY <2>1 DEF IInv, NothingBeforeSchedule
        <5>2. QED
          BY <4>2, <5>1 DEF SpawnSkips
      <4>3. QED
        BY <2>4, <4>1, <4>2
    <3>5. spawnTimers \subseteq Bots
      BY DEF IInv, TypeOK
    <3>6. \A i \in spawnTimers' : spec'[i].proxy = NoProxy
      BY <2>1, <3>2, <3>5 DEF PoolCountsHolders
    <3>7. enabled(config.proxies) => \A i \in Bots : born'[i] > 0 => spec'[i].proxy # NoProxy
      BY <3>2, <3>3, <3>4 DEF PoolCountsHolders
    <3>8. QED
      BY <2>1, <2>2, <3>2, <3>6, <3>7 DEF PoolCountsHolders
  <2>5. QED
    BY <1>2, <2>3, <2>4 DEF SpawnFires
<1>3. QED
  BY <1>1, <1>2

\* No proxy ever carries more connections than its cap, reconnects included, and
\* no bot connects without a proxy when there is a list of them.
THEOREM ProxiesStayUnderCap == Spec => []ProxyCap
<1>1. Init => PoolCountsHolders
  <2> SUFFICES ASSUME Init PROVE PoolCountsHolders
    OBVIOUS
  <2>1. \A id \in Bots : spec[id].proxy = NoProxy
    BY DEF Init, NoSpec
  <2>2. \A p \in Proxies : Holders(p) = {}
    BY <2>1, NoProxyAssumption DEF Holders
  <2>3. \A p \in Proxies : pool.active[p] = 0 /\ Cardinality(Holders(p)) = 0
    BY <2>2, FS_EmptySet DEF Init, NewPool
  <2>4. config.maxPerProxy \in Nat
    BY ConfigAssumption DEF Init, ConfigType
  <2>5. QED
    BY <2>1, <2>3, <2>4 DEF PoolCountsHolders, Init
<1>2. ASSUME IInv, PoolCountsHolders PROVE ProxyCap
  <2>1. ASSUME NEW p \in Proxies PROVE Cardinality(Riders(p)) <= config.maxPerProxy
    <3>1. IsFiniteSet(Holders(p)) /\ Riders(p) \in SUBSET Holders(p)
      BY HoldersFinite DEF Holders, Riders
    <3>2. IsFiniteSet(Riders(p)) /\ Cardinality(Riders(p)) <= Cardinality(Holders(p))
      BY <3>1, FS_Subset
    <3>3. Cardinality(Riders(p)) \in Nat /\ Cardinality(Holders(p)) \in Nat
      BY <3>2, HoldersFinite, FS_CardinalityType
    <3>4. config.maxPerProxy \in Nat /\ pool.active[p] \in Nat
      BY <1>2, ConfigAssumption DEF IInv, TypeOK, ConfigType, Pools
    <3>5. Cardinality(Holders(p)) <= pool.active[p] /\ pool.active[p] <= config.maxPerProxy
      BY <1>2 DEF PoolCountsHolders
    <3>6. QED
      BY <3>2, <3>3, <3>4, <3>5
  <2>2. QED
    BY <1>2, <2>1 DEF ProxyCap, PoolCountsHolders
<1>3. QED
  BY <1>1, <1>2, Inductive, NextHolders, PTL DEF Spec

-----------------------------------------------------------------------------
(* The counters count drivers                                              *)

\* The drivers whose state is one of S.
In(S) == {d \in Drivers : st[d] \in S}

\* The states in which a driver has emitted `connected` and no `end`.
Connecteds == IF config.driver = "light" THEN Online ELSE {"play", "world"}

Created == DriverStates \ {"none"}

\* The collector's flags are set for the connected drivers, and its counters are
\* the numbers of drivers in the states they stand for.
CountersCount ==
  /\ counted = In(Connecteds)
  /\ metrics.active = Cardinality(In(Connecteds))
  /\ metrics.ended = Cardinality(In({"ended"}))
  /\ metrics.attempted = Cardinality(In(Created)) + noProxySkipped
  /\ metrics.spawned <= Cardinality(In({"world", "ended"}))

\* There are finitely many drivers, so every class of them has a number.
LEMMA InFinite ==
  ASSUME NEW S
  PROVE  IsFiniteSet(In(S)) /\ Cardinality(In(S)) \in Nat
<1>1. IsFiniteSet(Bots) /\ IsFiniteSet(1 .. MaxDrivers)
  BY BoundAssumption, MaxDriversAssumption, FS_Interval
<1>2. IsFiniteSet(Drivers)
  BY <1>1, FS_Product DEF Drivers
<1>3. In(S) \in SUBSET Drivers
  BY DEF In
<1>4. IsFiniteSet(In(S))
  BY <1>2, <1>3, FS_Subset
<1>5. QED
  BY <1>4, FS_CardinalityType

\* A driver that goes from one state to another leaves the classes of the one
\* and joins those of the other.
LEMMA Recount ==
  ASSUME TypeOK, NEW d \in Drivers, NEW v, st' = [st EXCEPT ![d] = v], NEW S
  PROVE  Cardinality(In(S)') =
           IF v \in S
             THEN IF st[d] \in S THEN Cardinality(In(S)) ELSE Cardinality(In(S)) + 1
             ELSE IF st[d] \in S THEN Cardinality(In(S)) - 1 ELSE Cardinality(In(S))
<1>1. st \in [Drivers -> DriverStates]
  BY DEF TypeOK
<1>2. st'[d] = v /\ \A e \in Drivers : e # d => st'[e] = st[e]
  BY <1>1
<1>3. IsFiniteSet(In(S)) /\ (d \in In(S) <=> st[d] \in S)
  BY InFinite DEF In
<1>4. CASE v \in S
  <2>1. In(S)' = In(S) \cup {d}
    BY <1>2, <1>4 DEF In
  <2>2. QED
    BY <1>3, <1>4, <2>1, FS_AddElement
<1>5. CASE v \notin S
  <2>1. In(S)' = In(S) \ {d}
    BY <1>2, <1>5 DEF In
  <2>2. QED
    BY <1>3, <1>5, <2>1, FS_RemoveElement
<1>6. QED
  BY <1>4, <1>5

\* What every listener does to the four counters.
LEMMA ListenerCounts ==
  ASSUME NEW m \in Metrics
  PROVE  /\ track(m).active = m.active /\ track(m).ended = m.ended
         /\ track(m).attempted = m.attempted + 1 /\ track(m).spawned = m.spawned
         /\ onLogin(m).active = m.active /\ onLogin(m).ended = m.ended
         /\ onLogin(m).attempted = m.attempted /\ onLogin(m).spawned = m.spawned
         /\ onSpawned(m).active = m.active /\ onSpawned(m).ended = m.ended
         /\ onSpawned(m).attempted = m.attempted /\ onSpawned(m).spawned = m.spawned + 1
         /\ onKicked(m).active = m.active /\ onKicked(m).ended = m.ended
         /\ onKicked(m).attempted = m.attempted /\ onKicked(m).spawned = m.spawned
         /\ onError(m).active = m.active /\ onError(m).ended = m.ended
         /\ onError(m).attempted = m.attempted /\ onError(m).spawned = m.spawned
  BY DEF Metrics, track, onLogin, onSpawned, onKicked, onError

\* The two that look at the `counted` flag of the driver.
LEMMA ConnectedCounts ==
  ASSUME NEW m \in Metrics, NEW n, NEW d, NEW S
  PROVE  /\ n = onConnected(m, d \in S) =>
              /\ n.active = m.active + 1 - (IF d \in S THEN 1 ELSE 0)
              /\ n.ended = m.ended /\ n.attempted = m.attempted /\ n.spawned = m.spawned
         /\ n = onEnd(m, d \in S) =>
              /\ n.active = m.active - (IF d \in S THEN 1 ELSE 0)
              /\ n.ended = m.ended + 1 /\ n.attempted = m.attempted /\ n.spawned = m.spawned
<1> DEFINE joined == [m EXCEPT !.connected = @ + 1]
           left == [m EXCEPT !.ended = @ + 1]
<1>1. /\ joined \in Metrics /\ joined.active = m.active /\ joined.ended = m.ended
      /\ joined.attempted = m.attempted /\ joined.spawned = m.spawned
  BY DEF Metrics
<1>2. /\ left \in Metrics /\ left.active = m.active /\ left.ended = m.ended + 1
      /\ left.attempted = m.attempted /\ left.spawned = m.spawned
  BY DEF Metrics
<1>3. ASSUME NEW x \in Metrics
      PROVE  /\ activate(x).active = x.active + 1 /\ activate(x).ended = x.ended
             /\ activate(x).attempted = x.attempted /\ activate(x).spawned = x.spawned
             /\ deactivate(x).active = x.active - 1 /\ deactivate(x).ended = x.ended
             /\ deactivate(x).attempted = x.attempted /\ deactivate(x).spawned = x.spawned
  BY DEF Metrics, activate, deactivate
<1>4. n = onConnected(m, d \in S) => n = IF d \in S THEN joined ELSE activate(joined)
  BY DEF onConnected
<1>5. n = onEnd(m, d \in S) => n = IF d \in S THEN deactivate(left) ELSE left
  BY DEF onEnd
<1>6. m.active \in Int
  BY DEF Metrics
<1> HIDE DEF joined, left
<1>7. QED
  BY <1>1, <1>2, <1>3, <1>4, <1>5, <1>6

\* A step of driver d to state v, and what the collector makes of it: whether
\* its flag is set and by how much the other counters grow.
Moves(d, v, on, attempts, spawns) ==
  /\ UNCHANGED config
  /\ st' = [st EXCEPT ![d] = v]
  /\ noProxySkipped' = noProxySkipped
  /\ counted' = IF on = 1 THEN counted \cup {d} ELSE counted \ {d}
  /\ metrics'.active = metrics.active + on - (IF d \in counted THEN 1 ELSE 0)
  /\ metrics'.ended = metrics.ended + (IF v = "ended" THEN 1 ELSE 0)
  /\ metrics'.attempted = metrics.attempted + attempts
  /\ metrics'.spawned = metrics.spawned + spawns

\* The collector keeps count of such a step when the flag says whether the
\* driver is connected now, only a new driver is an attempt, and a spawn enters
\* the world.
LEMMA MovesCount ==
  ASSUME TypeOK, CountersCount, NEW d \in Drivers, NEW v \in Created,
         NEW on \in {0, 1}, NEW attempts \in {0, 1}, NEW spawns \in {0, 1},
         Moves(d, v, on, attempts, spawns),
         st[d] # "ended", st[d] = "world" => v \in {"world", "ended"},
         on = 1 <=> v \in Connecteds,
         attempts = 1 <=> st[d] = "none",
         spawns = 1 => v = "world" /\ st[d] # "world"
  PROVE  CountersCount'
<1>1. metrics \in Metrics /\ noProxySkipped \in Nat
  BY DEF TypeOK
<1>2. /\ metrics.active \in Int /\ metrics.ended \in Nat
      /\ metrics.attempted \in Nat /\ metrics.spawned \in Nat
  BY <1>1 DEF Metrics
<1>3. \A S : Cardinality(In(S)) \in Nat
  BY InFinite
<1>4. \A S : Cardinality(In(S)') =
                IF v \in S
                  THEN IF st[d] \in S THEN Cardinality(In(S)) ELSE Cardinality(In(S)) + 1
                  ELSE IF st[d] \in S THEN Cardinality(In(S)) - 1 ELSE Cardinality(In(S))
  BY Recount DEF Moves
<1>5. Connecteds' = Connecteds
  BY DEF Moves, Connecteds
<1>6. d \in counted <=> st[d] \in Connecteds
  BY DEF CountersCount, In
<1>7. (counted = In(Connecteds))'
  <2>1. st \in [Drivers -> DriverStates] /\ st'[d] = v /\ \A e \in Drivers : e # d => st'[e] = st[e]
    BY DEF TypeOK, Moves
  <2>2. QED
    BY <1>5, <2>1 DEF Moves, CountersCount, In
<1>8. (metrics.active = Cardinality(In(Connecteds)))'
  <2>1. PICK C : C = Connecteds
    OBVIOUS
  <2>2. on = 1 <=> v \in C
    BY <2>1
  <2>3. d \in counted <=> st[d] \in C
    BY <1>6, <2>1
  <2>4. Cardinality(In(C)') =
          IF v \in C
            THEN IF st[d] \in C THEN Cardinality(In(C)) ELSE Cardinality(In(C)) + 1
            ELSE IF st[d] \in C THEN Cardinality(In(C)) - 1 ELSE Cardinality(In(C))
    BY <1>4
  <2>5. metrics.active = Cardinality(In(C))
    BY <2>1 DEF CountersCount
  <2>6. metrics'.active = Cardinality(In(C)')
    BY <1>2, <2>2, <2>3, <2>4, <2>5 DEF Moves
  <2>7. (C = Connecteds)'
    BY <1>5, <2>1
  <2>8. QED
    BY <2>6, <2>7
<1>9. (metrics.ended = Cardinality(In({"ended"})))'
  <2>1. Cardinality(In({"ended"})') = Cardinality(In({"ended"})) + (IF v = "ended" THEN 1 ELSE 0)
    BY <1>3, <1>4
  <2>2. QED
    BY <1>2, <2>1 DEF Moves, CountersCount
<1>10. (metrics.attempted = Cardinality(In(Created)) + noProxySkipped)'
  <2>1. st[d] \in Created <=> st[d] # "none"
    BY DEF TypeOK, Created
  <2>2. Cardinality(In(Created)') = Cardinality(In(Created)) + attempts
    BY <1>3, <1>4, <2>1
  <2>3. QED
    BY <1>1, <1>2, <1>3, <2>2 DEF Moves, CountersCount
<1>11. (metrics.spawned <= Cardinality(In({"world", "ended"})))'
  <2>1. CASE v \in {"world", "ended"} /\ st[d] # "world"
    <3>1. Cardinality(In({"world", "ended"})') = Cardinality(In({"world", "ended"})) + 1
      BY <1>4, <2>1
    <3>2. QED
      BY <1>2, <1>3, <3>1 DEF Moves, CountersCount
  <2>2. CASE ~(v \in {"world", "ended"} /\ st[d] # "world")
    <3>1. Cardinality(In({"world", "ended"})') = Cardinality(In({"world", "ended"})) /\ spawns = 0
      BY <1>4, <2>2
    <3>2. QED
      BY <1>2, <1>3, <3>1 DEF Moves, CountersCount
  <2>3. QED
    BY <2>1, <2>2
<1>12. QED
  BY <1>7, <1>8, <1>9, <1>10, <1>11 DEF CountersCount

\* A step that moves no driver and touches none of the counters.
LEMMA StillCount ==
  ASSUME CountersCount, UNCHANGED <<config, st, noProxySkipped, counted>>,
         metrics'.active = metrics.active, metrics'.ended = metrics.ended,
         metrics'.attempted = metrics.attempted, metrics'.spawned = metrics.spawned
  PROVE  CountersCount'
<1>1. \A S : In(S)' = In(S)
  BY DEF In
<1>2. Connecteds' = Connecteds
  BY DEF Connecteds
<1>3. In(Connecteds)' = In(Connecteds)
  BY <1>2 DEF In
<1>4. QED
  BY <1>1, <1>3 DEF CountersCount

\* launch() makes an attempt of a driver that did not exist.
LEMMA LaunchCounts ==
  ASSUME IInv, CountersCount, NEW id \in Bots, NEW fresh \in BOOLEAN, Launch(id, fresh),
         UNCHANGED <<config, noProxySkipped, counted>>
  PROVE  CountersCount'
<1> DEFINE d == <<id, born[id] + 1>>
<1>1. TypeOK /\ metrics \in Metrics /\ born[id] + 1 \in 1 .. MaxDrivers
  BY MaxDriversAssumption DEF IInv, TypeOK, Launch
<1>2. d \in Drivers /\ st[d] = "none"
  <2>1. PICK k \in 1 .. MaxDrivers : k = born[id] + 1 /\ k > born[id]
    BY <1>1 DEF TypeOK
  <2>2. st[<<id, k>>] = "none"
    BY <2>1 DEF IInv, DriversInOrder
  <2>3. QED
    BY <2>1, <2>2 DEF Drivers
<1>3. st' = [st EXCEPT ![d] = "connecting"] /\ metrics' = track(metrics)
  BY DEF Launch
<1> HIDE DEF d
<1>4. "none" \notin Connecteds /\ "connecting" \notin Connecteds
  BY DEF Connecteds, Online
<1>5. d \notin counted
  BY <1>2, <1>4 DEF CountersCount, In
<1>6. /\ metrics'.active = metrics.active /\ metrics'.ended = metrics.ended
      /\ metrics'.attempted = metrics.attempted + 1 /\ metrics'.spawned = metrics.spawned
      /\ metrics.active \in Int /\ metrics.ended \in Nat /\ metrics.spawned \in Nat
  BY <1>1, <1>3, ListenerCounts DEF Metrics
<1>7. Moves(d, "connecting", 0, 1, 0)
  BY <1>3, <1>5, <1>6 DEF Moves
<1>8. "connecting" \in Created
  BY DEF Created, DriverStates, Open
<1>9. QED
  BY <1>1, <1>2, <1>4, <1>7, <1>8, MovesCount

\* The counters after a driver event, for each event.
LEMMA EventCounts ==
  ASSUME TypeOK, CountersCount, NEW d \in Drivers, DriverEvent(d)
  PROVE  CountersCount'
<1>1. /\ metrics \in Metrics
      /\ metrics.active \in Int /\ metrics.ended \in Nat
      /\ metrics.attempted \in Nat /\ metrics.spawned \in Nat
  BY DEF TypeOK, Metrics
<1>2. d \in counted <=> st[d] \in Connecteds
  BY DEF CountersCount, In
<1>3. config.driver \in {"light", "full"}
  BY ConfigAssumption DEF TypeOK, ConfigType
<1>4. {"connecting", "up", "play", "world", "ended", "dead"} \subseteq Created
  BY DEF Created, DriverStates, Open, Online
<1>5. "up" \in Connecteds <=> config.driver = "light"
  BY DEF Connecteds, Online
<1>6. {"play", "world"} \subseteq Connecteds
  BY DEF Connecteds, Online
<1>7. "connecting" \notin Connecteds /\ "dead" \notin Connecteds /\ "ended" \notin Connecteds
  BY DEF Connecteds, Online
<1>8. CASE Connected(d)
  <2>1. /\ st[d] = "connecting" /\ st' = [st EXCEPT ![d] = "up"]
        /\ UNCHANGED <<config, noProxySkipped>>
    BY <1>8 DEF Connected, EventKeeps
  <2>2. d \notin counted
    BY <1>2, <1>7, <2>1
  <2>3. CASE config.driver = "light"
    <3>1. metrics' = onConnected(metrics, d \in counted) /\ counted' = counted \cup {d}
      BY <1>8, <2>3 DEF Connected
    <3>2. /\ metrics'.active = metrics.active + 1 - (IF d \in counted THEN 1 ELSE 0)
          /\ metrics'.ended = metrics.ended
          /\ metrics'.attempted = metrics.attempted /\ metrics'.spawned = metrics.spawned
      BY <1>1, <3>1, ConnectedCounts
    <3>3. Moves(d, "up", 1, 0, 0)
      BY <1>1, <2>1, <2>2, <3>1, <3>2 DEF Moves
    <3>4. QED
      BY <1>4, <1>5, <2>1, <2>3, <3>3, MovesCount
  <2>4. CASE config.driver # "light"
    <3>1. UNCHANGED <<metrics, counted>>
      BY <1>8, <2>4 DEF Connected
    <3>2. Moves(d, "up", 0, 0, 0)
      BY <1>1, <2>1, <2>2, <3>1 DEF Moves
    <3>3. QED
      BY <1>4, <1>5, <2>1, <2>4, <3>2, MovesCount
  <2>5. QED
    BY <2>3, <2>4
<1>9. CASE Login(d)
  <2> DEFINE v == IF st[d] = "up" THEN "play" ELSE st[d]
  <2>1. /\ st[d] \in {"up", "play", "world"} /\ st' = [st EXCEPT ![d] = v]
        /\ UNCHANGED <<config, noProxySkipped>>
    BY <1>9 DEF Login, EventKeeps, Online
  <2>2. v \in {"play", "world"} /\ (st[d] = "world" => v = "world")
    BY <2>1
  <2> HIDE DEF v
  <2>3. CASE config.driver = "full"
    <3> DEFINE m == onConnected(metrics, d \in counted)
    <3>1. metrics' = onLogin(m) /\ counted' = counted \cup {d}
      BY <1>9, <2>3 DEF Login
    <3>2. m \in Metrics
      BY <1>1, CountedListenerType
    <3>3. /\ m.active = metrics.active + 1 - (IF d \in counted THEN 1 ELSE 0)
          /\ m.ended = metrics.ended /\ m.attempted = metrics.attempted
          /\ m.spawned = metrics.spawned
      BY <1>1, ConnectedCounts
    <3> HIDE DEF m
    <3>4. /\ metrics'.active = m.active /\ metrics'.ended = m.ended
          /\ metrics'.attempted = m.attempted /\ metrics'.spawned = m.spawned
      BY <3>1, <3>2, ListenerCounts
    <3>5. metrics'.active = metrics.active + 1 - (IF d \in counted THEN 1 ELSE 0)
      BY <1>1, <3>3, <3>4
    <3>6. metrics'.ended = metrics.ended + (IF v = "ended" THEN 1 ELSE 0)
      BY <1>1, <2>2, <3>3, <3>4
    <3>7. metrics'.attempted = metrics.attempted + 0 /\ metrics'.spawned = metrics.spawned + 0
      BY <1>1, <3>3, <3>4
    <3>8. Moves(d, v, 1, 0, 0)
      BY <2>1, <3>1, <3>5, <3>6, <3>7 DEF Moves
    <3>9. QED
      BY <1>4, <1>6, <2>1, <2>2, <3>8, MovesCount
  <2>4. CASE config.driver # "full"
    <3>1. metrics' = onLogin(metrics) /\ counted' = counted
      BY <1>9, <2>4 DEF Login
    <3>2. d \in counted
      BY <1>2, <1>3, <1>5, <1>6, <2>1, <2>4
    <3>3. /\ metrics'.active = metrics.active /\ metrics'.ended = metrics.ended
          /\ metrics'.attempted = metrics.attempted /\ metrics'.spawned = metrics.spawned
      BY <1>1, <3>1, ListenerCounts
    <3>4. Moves(d, v, 1, 0, 0)
      BY <1>1, <2>1, <2>2, <3>1, <3>2, <3>3 DEF Moves
    <3>5. QED
      BY <1>4, <1>6, <2>1, <2>2, <3>4, MovesCount
  <2>5. QED
    BY <2>3, <2>4
<1>10. CASE Position(d)
  <2>1. /\ st[d] = "play" /\ st' = [st EXCEPT ![d] = "world"]
        /\ metrics' = onSpawned(metrics)
        /\ UNCHANGED <<config, noProxySkipped, counted>>
    BY <1>10 DEF Position, EventKeeps
  <2>2. d \in counted
    BY <1>2, <1>6, <2>1
  <2>3. /\ metrics'.active = metrics.active /\ metrics'.ended = metrics.ended
        /\ metrics'.attempted = metrics.attempted /\ metrics'.spawned = metrics.spawned + 1
    BY <1>1, <2>1, ListenerCounts
  <2>4. Moves(d, "world", 1, 0, 1)
    BY <1>1, <2>1, <2>2, <2>3 DEF Moves
  <2>5. QED
    BY <1>4, <1>6, <2>1, <2>4, MovesCount
<1>11. CASE Kicked(d) \/ DriverError(d)
  <2>1. UNCHANGED <<config, st, noProxySkipped, counted>>
    BY <1>11 DEF Kicked, DriverError, EventKeeps
  <2>2. metrics' = onKicked(metrics) \/ metrics' = onError(metrics)
    BY <1>11 DEF Kicked, DriverError
  <2>3. /\ metrics'.active = metrics.active /\ metrics'.ended = metrics.ended
        /\ metrics'.attempted = metrics.attempted /\ metrics'.spawned = metrics.spawned
    BY <1>1, <2>2, ListenerCounts
  <2>4. QED
    BY <2>1, <2>3, StillCount
<1>12. CASE TunnelFails(d)
  <2>1. /\ st[d] = "connecting" /\ st' = [st EXCEPT ![d] = "dead"]
        /\ metrics' = onError(metrics)
        /\ UNCHANGED <<config, noProxySkipped, counted>>
    BY <1>12 DEF TunnelFails, EventKeeps
  <2>2. d \notin counted
    BY <1>2, <1>7, <2>1
  <2>3. /\ metrics'.active = metrics.active /\ metrics'.ended = metrics.ended
        /\ metrics'.attempted = metrics.attempted /\ metrics'.spawned = metrics.spawned
    BY <1>1, <2>1, ListenerCounts
  <2>4. Moves(d, "dead", 0, 0, 0)
    BY <1>1, <2>1, <2>2, <2>3 DEF Moves
  <2>5. QED
    BY <1>4, <1>7, <2>1, <2>4, MovesCount
<1>13. CASE End(d)
  <2>1. /\ st[d] \in Open /\ st' = [st EXCEPT ![d] = "ended"]
        /\ metrics' = onEnd(metrics, d \in counted) /\ counted' = counted \ {d}
        /\ UNCHANGED <<config, noProxySkipped>>
    BY <1>13 DEF End
  <2>2. st[d] \notin {"ended", "none"}
    BY <2>1 DEF Open, Online
  <2>3. /\ metrics'.active = metrics.active - (IF d \in counted THEN 1 ELSE 0)
        /\ metrics'.ended = metrics.ended + 1
        /\ metrics'.attempted = metrics.attempted /\ metrics'.spawned = metrics.spawned
    BY <1>1, <2>1, ConnectedCounts
  <2>4. Moves(d, "ended", 0, 0, 0)
    BY <1>1, <2>1, <2>3 DEF Moves
  <2>5. QED
    BY <1>4, <1>7, <2>2, <2>4, MovesCount
<1>14. QED
  BY <1>8, <1>9, <1>10, <1>11, <1>12, <1>13 DEF DriverEvent

\* Every step keeps the counters counting.
LEMMA NextCounts == IInv /\ CountersCount /\ [Next]_vars => CountersCount'
<1> SUFFICES ASSUME IInv, CountersCount, [Next]_vars PROVE CountersCount'
  OBVIOUS
<1>1. ASSUME UNCHANGED <<config, st, noProxySkipped, counted, metrics>> PROVE CountersCount'
  BY <1>1, StillCount
<1>2. CASE Run
  BY <1>1, <1>2 DEF Run, RunRefused, RunWithoutPreflight, RunPreflight, PreflightSettles,
                    Schedule, drivers
<1>3. CASE Stop \/ Sigint \/ DurationFires
  BY <1>1, <1>3 DEF Stop, Sigint, DurationFires, Shutdown, drivers
<1>4. ASSUME NEW id \in Bots, SpawnFires(id) PROVE CountersCount'
  <2>1. UNCHANGED <<config, counted>>
    BY <1>4 DEF SpawnFires
  <2>2. CASE SpawnLaunches(id)
    BY <2>1, <2>2, LaunchCounts DEF SpawnLaunches
  <2>3. CASE SpawnSkips(id)
    <3>1. /\ metrics' = onError(track(metrics)) /\ noProxySkipped' = noProxySkipped + 1
          /\ st' = st
      BY <2>3 DEF SpawnSkips, recordUnavailableProxy
    <3>2. metrics \in Metrics /\ track(metrics) \in Metrics
      BY ListenerType DEF IInv, TypeOK
    <3>3. /\ metrics'.active = track(metrics).active /\ metrics'.ended = track(metrics).ended
          /\ metrics'.attempted = track(metrics).attempted
          /\ metrics'.spawned = track(metrics).spawned
      BY <3>1, <3>2, ListenerCounts
    <3>4. /\ metrics'.active = metrics.active /\ metrics'.ended = metrics.ended
          /\ metrics'.attempted = metrics.attempted + 1
          /\ metrics'.spawned = metrics.spawned
      BY <3>2, <3>3, ListenerCounts
    <3>5. Connecteds' = Connecteds
      BY <2>1 DEF Connecteds
    <3>6. In(Connecteds)' = In(Connecteds) /\ \A S : In(S)' = In(S)
      BY <3>1, <3>5 DEF In
    <3>7. metrics.attempted \in Nat /\ noProxySkipped \in Nat /\ Cardinality(In(Created)) \in Nat
      BY InFinite DEF IInv, TypeOK, Metrics
    <3>8. (metrics.attempted = Cardinality(In(Created)) + noProxySkipped)'
      <4>1. In(Created)' = In(Created)
        BY <3>1 DEF In
      <4>2. QED
        BY <3>1, <3>4, <3>7, <4>1 DEF CountersCount
    <3>9. (metrics.spawned <= Cardinality(In({"world", "ended"})))'
      BY <3>4, <3>6 DEF CountersCount
    <3>10. QED
      BY <2>1, <3>4, <3>6, <3>8, <3>9 DEF CountersCount
  <2>4. CASE SpawnThrows(id) \/ SpawnTooLate(id)
    BY <1>1, <2>1, <2>4 DEF SpawnThrows, SpawnTooLate
  <2>5. QED
    BY <1>4, <2>2, <2>3, <2>4 DEF SpawnFires
<1>5. ASSUME NEW id \in Bots, ReconnectFires(id) PROVE CountersCount'
  <2>1. UNCHANGED <<config, noProxySkipped, counted>>
    BY <1>5 DEF ReconnectFires
  <2>2. CASE Launch(id, FALSE)
    BY <2>1, <2>2, LaunchCounts
  <2>3. CASE ~Launch(id, FALSE)
    BY <1>1, <1>5, <2>1, <2>3 DEF ReconnectFires
  <2>4. QED
    BY <2>2, <2>3
<1>6. ASSUME NEW d \in Drivers, DriverEvent(d) PROVE CountersCount'
  BY <1>6, EventCounts DEF IInv
<1>7. CASE UNCHANGED vars
  BY <1>1, <1>7 DEF vars, drivers
<1>8. QED
  BY <1>2, <1>3, <1>4, <1>5, <1>6, <1>7 DEF Next, TimerFires

\* The counters hold in every state the engine reaches.
LEMMA CountersAlwaysCount == Spec => []CountersCount
<1>1. Init => CountersCount
  <2> SUFFICES ASSUME Init PROVE CountersCount
    OBVIOUS
  <2>1. \A d \in Drivers : st[d] = "none"
    BY DEF Init
  <2>2. \A S : "none" \notin S => In(S) = {}
    BY <2>1 DEF In
  <2>3. "none" \notin Connecteds /\ "none" \notin Created
    BY DEF Connecteds, Created, Online
  <2>4. \A S : "none" \notin S => Cardinality(In(S)) = 0
    BY <2>2, FS_EmptySet
  <2>5. /\ metrics.active = 0 /\ metrics.ended = 0 /\ metrics.attempted = 0
        /\ metrics.spawned = 0 /\ noProxySkipped = 0 /\ counted = {}
    BY DEF Init, NoMetrics
  <2>6. QED
    BY <2>2, <2>3, <2>4, <2>5 DEF CountersCount
<1>2. QED
  BY <1>1, Inductive, NextCounts, PTL DEF Spec

\* `active` is the number of connected drivers, whatever events they have had.
THEOREM ActiveCounts == Spec => []ActiveIsExact
<1>1. CountersCount => ActiveIsExact
  BY DEF CountersCount, ActiveIsExact, In, Connecteds
<1>2. QED
  BY <1>1, CountersAlwaysCount, PTL

\* Every attempt is a driver or a bot without a proxy, no driver counts as
\* spawned or ended twice, and so the success rate never exceeds 1.
THEOREM AttemptsAddUp == Spec => []AttemptsAccounted
<1>1. ASSUME TypeOK, CountersCount PROVE AttemptsAccounted
  <2>1. In(Created) = {d \in Drivers : st[d] # "none"}
    BY <1>1 DEF TypeOK, In, Created
  <2>2. In({"ended"}) = {d \in Drivers : st[d] = "ended"}
    BY DEF In
  <2>3. In({"world", "ended"}) \in SUBSET In(Created)
    BY DEF In, Created, DriverStates, Open, Online
  <2>4. Cardinality(In({"world", "ended"})) <= Cardinality(In(Created))
    BY <2>3, InFinite, FS_Subset
  <2>5. /\ metrics.spawned \in Nat /\ metrics.attempted \in Nat /\ noProxySkipped \in Nat
        /\ Cardinality(In({"world", "ended"})) \in Nat /\ Cardinality(In(Created)) \in Nat
    BY <1>1, InFinite DEF TypeOK, Metrics
  <2>6. metrics.spawned + noProxySkipped <= metrics.attempted
    BY <1>1, <2>4, <2>5 DEF CountersCount
  <2>7. QED
    BY <1>1, <2>1, <2>2, <2>6 DEF CountersCount, AttemptsAccounted
<1>2. QED
  BY <1>1, CountersAlwaysCount, TypeCorrect, PTL

-----------------------------------------------------------------------------
(* The abstract specifications                                             *)

\* No reconnect is pending any more once the shutdown has begun, only a shutdown
\* resolves the promise of run(), and before it the duration timer and the SIGINT
\* handler are there only while that promise is.
ShutdownSettles ==
  /\ shuttingDown => \A id \in Bots : reconnectTimers[id] = 0
  /\ run = "resolved" => shuttingDown
  /\ (durationTimer \/ sigint) /\ ~shuttingDown => run \in {"waiting", "crashed"}

RInv == IInv /\ ShutdownSettles

-----------------------------------------------------------------------------
(* The invariant                                                           *)

\* A constructed engine satisfies it.
LEMMA RInit == Init => RInv
  BY InitInv DEF Init, RInv, ShutdownSettles

\* Every step keeps it: only shutdown() moves the promise to resolved, and `end`
\* sets no timer during a shutdown.
LEMMA RNext == RInv /\ [Next]_vars => RInv'
<1> SUFFICES ASSUME RInv, [Next]_vars PROVE RInv'
  OBVIOUS
<1>1. IInv'
  BY NextInv DEF RInv
<1>2. reconnectTimers \in [Bots -> Nat]
  BY DEF RInv, IInv, TypeOK
<1>3. CASE Run
  BY <1>1, <1>3 DEF Run, RunRefused, RunWithoutPreflight, RunPreflight, PreflightSettles,
                    Schedule, RInv, ShutdownSettles, timers, IInv, TypeOK
<1>4. ASSUME NEW t, Shutdown(t) PROVE ShutdownSettles'
  BY <1>4 DEF Shutdown, ShutdownSettles
<1>5. CASE Stop
  BY <1>1, <1>4, <1>5 DEF Stop, RInv
<1>6. CASE Sigint
  BY <1>1, <1>4, <1>6 DEF Sigint, RInv, ShutdownSettles, timers
<1>7. CASE DurationFires
  BY <1>1, <1>4, <1>7 DEF DurationFires, RInv, ShutdownSettles
<1>8. ASSUME NEW id \in Bots, SpawnFires(id) PROVE RInv'
  BY <1>1, <1>8 DEF SpawnFires, SpawnLaunches, SpawnSkips, SpawnThrows, SpawnTooLate,
                    RInv, ShutdownSettles
<1>9. ASSUME NEW id \in Bots, ReconnectFires(id) PROVE RInv'
  BY <1>1, <1>2, <1>9 DEF ReconnectFires, RInv, ShutdownSettles
<1>10. ASSUME NEW d \in Drivers, DriverEvent(d) PROVE RInv'
  <2>1. CASE End(d)
    BY <1>1, <2>1 DEF End, ScheduleReconnect, RInv, ShutdownSettles
  <2>2. CASE ~End(d)
    BY <1>1, <1>10, <2>2 DEF DriverEvent, Connected, Login, Position, Kicked, DriverError,
                             TunnelFails, EventKeeps, RInv, ShutdownSettles, timers
  <2>3. QED
    BY <2>1, <2>2
<1>11. CASE UNCHANGED vars
  BY <1>1, <1>11 DEF vars, RInv, ShutdownSettles, timers
<1>12. QED
  BY <1>3, <1>5, <1>6, <1>7, <1>8, <1>9, <1>10, <1>11 DEF Next, TimerFires

\* The invariant holds in every state the engine reaches.
LEMMA RInductive == Spec => []RInv
  BY RInit, RNext, PTL DEF Spec

-----------------------------------------------------------------------------
(* The promise of run()                                                    *)

\* Every step of the engine is one of the contract, or does not touch it.
LEMMA PromiseStep == RInv /\ [Next]_vars => [Promise!Next]_(Promise!vars)
<1> SUFFICES ASSUME RInv, [Next]_vars PROVE Promise!Next \/ UNCHANGED <<run, shuttingDown>>
  BY DEF Promise!vars
<1>1. CASE Run
  BY <1>1 DEF Run, RunRefused, RunWithoutPreflight, RunPreflight, PreflightSettles,
              Schedule, Promise!Next, Promise!Start, Promise!Settle
<1>2. CASE Stop
  <2>1. Promise!Finish \/ Promise!FinishThrows
    BY <1>2 DEF Stop, Shutdown, Promise!Finish, Promise!FinishThrows
  <2>2. QED
    BY <1>2, <2>1 DEF Stop, Promise!Next, Promise!Stop
<1>3. ASSUME Shutdown("crashed"), run = "waiting" PROVE Promise!Next
  BY <1>3 DEF Shutdown, Promise!Next, Promise!EndsByItself, Promise!Finish, Promise!Crash
<1>4. CASE run # "crashed" /\ (Sigint \/ DurationFires)
  <2>1. CASE Shutdown("crashed")
    <3>1. run = "waiting"
      BY <1>4, <2>1 DEF RInv, ShutdownSettles, Sigint, DurationFires, Shutdown
    <3>2. QED
      BY <1>3, <2>1, <3>1
  <2>2. CASE ~Shutdown("crashed")
    BY <1>4, <2>2 DEF Sigint, DurationFires
  <2>3. QED
    BY <2>1, <2>2
<1>5. ASSUME NEW id \in Bots, SpawnFires(id), run # "crashed"
      PROVE  Promise!Next \/ UNCHANGED <<run, shuttingDown>>
  <2>1. CASE SpawnThrows(id)
    <3>1. run = "waiting" /\ shuttingDown = FALSE
      BY <1>5, <2>1 DEF SpawnFires, SpawnThrows, RInv, ShutdownSettles, IInv, TypeOK,
                        NothingBeforeSchedule
    <3>2. QED
      BY <1>5, <2>1, <3>1 DEF SpawnFires, SpawnThrows, Promise!Next, Promise!Crash
  <2>2. CASE ~SpawnThrows(id)
    BY <1>5, <2>2 DEF SpawnFires, SpawnLaunches, SpawnSkips, SpawnTooLate
  <2>3. QED
    BY <2>1, <2>2
<1>6. ASSUME NEW id \in Bots, ReconnectFires(id) PROVE UNCHANGED <<run, shuttingDown>>
  BY <1>6 DEF ReconnectFires
<1>7. ASSUME NEW d \in Drivers, DriverEvent(d) PROVE UNCHANGED <<run, shuttingDown>>
  BY <1>7 DEF DriverEvent, Connected, Login, Position, Kicked, DriverError, TunnelFails,
              End, EventKeeps
<1>8. CASE UNCHANGED vars
  BY <1>8 DEF vars
<1>9. QED
  BY <1>1, <1>2, <1>4, <1>5, <1>6, <1>7, <1>8 DEF Next, TimerFires

\* The engine keeps the contract of EngineRun: the promise of run() settles at
\* most once, by one shutdown, and a stop() that comes before the promise exists
\* leaves it pending for good.
THEOREM KeepsItsPromise == Spec => Promised
<1>1. Init => Promise!Init
  BY DEF Init, Promise!Init
<1>2. Spec => []RInv
  BY RInductive
<1>3. QED
  BY <1>1, <1>2, PromiseStep, PTL DEF Spec, Promised, Promise!Spec

-----------------------------------------------------------------------------
(* The supervisor                                                          *)

slots == [id \in Bots |-> SlotOf(id)]

\* A step that leaves alone what SlotOf looks at is a stutter of the supervisor.
LEMMA SameSlots ==
  ASSUME UNCHANGED <<config, born, shuttingDown>>,
         \A id \in Bots : SlotOf(id)' = SlotOf(id)
  PROVE  UNCHANGED Bot!vars
<1>1. slots' = slots
  BY DEF slots
<1>2. QED
  BY <1>1 DEF Bot!vars, slots

\* A step that moves one bot moves that slot only.
LEMMA OneSlot ==
  ASSUME NEW id \in Bots, NEW s, SlotOf(id)' = s,
         \A i \in Bots : i # id => SlotOf(i)' = SlotOf(i)
  PROVE  slots' = [slots EXCEPT ![id] = s]
  BY DEF slots

\* Scheduling the run keeps every bot that has not been started where it is.
LEMMA RunSlots ==
  ASSUME RInv, Run
  PROVE  UNCHANGED Bot!vars
<1>1. /\ UNCHANGED <<config, born, shuttingDown, st, reconnectTimers>>
      /\ run \in {"new", "preflight"}
      /\ \/ run' \in {"rejected", "preflight"} /\ UNCHANGED spawnTimers
         \/ run' = "waiting" /\ spawnTimers' = Bots
  BY DEF Run, RunRefused, RunWithoutPreflight, RunPreflight, PreflightSettles, Schedule,
         timers, drivers
<1>2. \A id \in Bots : born[id] = 0
  BY <1>1 DEF RInv, IInv, NothingBeforeSchedule
<1>3. \A id \in Bots : SlotOf(id)' = SlotOf(id)
  BY <1>1, <1>2 DEF SlotOf
<1>4. QED
  BY <1>1, <1>3, SameSlots

\* shutdown() gives up every bot that is not up.
LEMMA ShutdownSlots ==
  ASSUME RInv, NEW t, Shutdown(t)
  PROVE  Bot!StopRun
<1>1. /\ ~shuttingDown /\ shuttingDown' = TRUE
      /\ UNCHANGED <<config, born, st>>
      /\ \A id \in Bots : reconnectTimers'[id] = 0
  BY DEF Shutdown
<1>2. \A id \in Bots : SlotOf(id)' = IF SlotOf(id) = "up" THEN "up" ELSE "gone"
  BY <1>1 DEF SlotOf
<1>3. slots' = [id \in Bots |-> IF slots[id] = "up" THEN "up" ELSE "gone"]
  BY <1>2 DEF slots
<1>4. QED
  BY <1>1, <1>3 DEF Bot!StopRun, slots

\* launch() in a spawn or reconnect timer: the slot of its id is up.
LEMMA LaunchSlots ==
  ASSUME RInv, NEW id \in Bots, NEW fresh \in BOOLEAN, Launch(id, fresh),
         UNCHANGED <<run, shuttingDown>>,
         \A i \in Bots : i # id => /\ i \in spawnTimers' <=> i \in spawnTimers
                                   /\ reconnectTimers'[i] = reconnectTimers[i]
  PROVE  /\ slots' = [slots EXCEPT ![id] = "up"]
         /\ born' = [born EXCEPT ![id] = @ + 1]
<1> DEFINE k == born[id] + 1
<1>1. /\ born \in [Bots -> 0 .. MaxDrivers]
      /\ st \in [Drivers -> DriverStates]
  BY DEF RInv, IInv, TypeOK
<1>2. /\ k \in 1 .. MaxDrivers
      /\ born' = [born EXCEPT ![id] = k]
      /\ st' = [st EXCEPT ![<<id, k>>] = "connecting"]
  BY <1>1, MaxDriversAssumption DEF Launch
<1>3. SlotOf(id)' = "up"
  <2>1. born'[id] = k /\ st'[<<id, k>>] = "connecting"
    BY <1>1, <1>2 DEF Drivers
  <2>2. k # 0
    BY <1>2
  <2>3. QED
    BY <2>1, <2>2 DEF SlotOf
<1>4. ASSUME NEW i \in Bots, i # id PROVE SlotOf(i)' = SlotOf(i)
  <2>1. born'[i] = born[i] /\ st'[<<i, born[i]>>] = st[<<i, born[i]>>]
    BY <1>1, <1>2, <1>4
  <2>2. QED
    BY <1>4, <2>1 DEF SlotOf
<1>5. QED
  BY <1>2, <1>3, <1>4, OneSlot

\* A spawn timer starts its bot, gives it up, or comes after it was given up.
LEMMA SpawnSlots ==
  ASSUME RInv, NEW id \in Bots, SpawnFires(id), run # "crashed"
  PROVE  Bot!Next \/ UNCHANGED Bot!vars
<1>1. /\ id \in spawnTimers /\ born[id] = 0
      /\ run \notin {"new", "preflight", "rejected"}
      /\ spawnTimers' = spawnTimers \ {id}
      /\ UNCHANGED <<config, shuttingDown, reconnectTimers>>
  BY DEF SpawnFires, RInv, IInv, NothingBeforeSchedule
<1>2. CASE SpawnLaunches(id)
  <2>1. slots' = [slots EXCEPT ![id] = "up"] /\ born' = [born EXCEPT ![id] = @ + 1]
    BY <1>1, <1>2, LaunchSlots DEF SpawnLaunches
  <2>2. slots[id] = "idle" /\ ~shuttingDown
    BY <1>1, <1>2 DEF slots, SlotOf, SpawnLaunches
  <2>3. Bot!Start(id)
    BY <1>1, <2>1, <2>2 DEF Bot!Start, slots
  <2>4. QED
    BY <2>3 DEF Bot!Next
<1>3. CASE ~SpawnLaunches(id)
  <2>1. UNCHANGED <<born, st>> /\ run' \in {run, "crashed"}
    BY <1>3 DEF SpawnFires, SpawnSkips, SpawnThrows, SpawnTooLate
  <2>2. \A i \in Bots : i # id => SlotOf(i)' = SlotOf(i)
    BY <1>1, <2>1 DEF SlotOf
  <2>3. SlotOf(id)' = "gone" /\ SlotOf(id) \in {"idle", "gone"}
    BY <1>1, <2>1 DEF SlotOf
  <2>4. CASE SlotOf(id) = "idle"
    <3>1. slots' = [slots EXCEPT ![id] = "gone"] /\ slots[id] = "idle"
      BY <2>2, <2>3, <2>4, OneSlot DEF slots
    <3>2. Bot!GiveUp(id)
      BY <1>1, <2>1, <3>1 DEF Bot!GiveUp, slots
    <3>3. QED
      BY <3>2 DEF Bot!Next
  <2>5. CASE SlotOf(id) = "gone"
    BY <1>1, <2>1, <2>2, <2>3, <2>5, SameSlots
  <2>6. QED
    BY <2>3, <2>4, <2>5
<1>4. QED
  BY <1>2, <1>3

\* A reconnect timer brings a lost bot back within the limit.
LEMMA ReconnectSlots ==
  ASSUME RInv, NEW id \in Bots, ReconnectFires(id)
  PROVE  Bot!Next
<1>1. reconnectTimers \in [Bots -> Nat]
  BY DEF RInv, IInv, TypeOK
<1>2. ~shuttingDown /\ Launch(id, FALSE)
  <2>1. reconnectTimers[id] > 0
    BY DEF ReconnectFires
  <2>2. ~shuttingDown
    BY <2>1 DEF RInv, ShutdownSettles
  <2>3. QED
    BY <2>2 DEF ReconnectFires
<1>3. /\ UNCHANGED <<config, run, shuttingDown, spawnTimers>>
      /\ \A i \in Bots : i # id => reconnectTimers'[i] = reconnectTimers[i]
  BY <1>1 DEF ReconnectFires
<1>4. slots' = [slots EXCEPT ![id] = "up"] /\ born' = [born EXCEPT ![id] = @ + 1]
  BY <1>2, <1>3, LaunchSlots
<1>5. /\ has(registry, id) /\ st[<<id, born[id]>>] = "ended"
      /\ born[id] <= registry[id].retries /\ registry[id].retries <= config.maxRetries
  BY DEF ReconnectFires, RInv, IInv, ReconnectsArePaid, RetriesBoundLaunches
<1>6. born[id] # 0
  BY DEF ReconnectFires, RInv, IInv, NothingBeforeSchedule
<1>7. slots[id] = "lost"
  <2>1. reconnectTimers[id] > 0
    BY DEF ReconnectFires
  <2>2. SlotOf(id) = "lost"
    BY <1>5, <1>6, <2>1 DEF SlotOf
  <2>3. QED
    BY <2>2 DEF slots
<1>8. born[id] <= config.maxRetries
  <2>1. born[id] \in Nat /\ registry[id].retries \in Nat /\ config.maxRetries \in Nat
    BY ConfigAssumption DEF RInv, IInv, TypeOK, Entries, ConfigType
  <2>2. QED
    BY <1>5, <2>1
<1>9. Bot!Start(id)
  BY <1>2, <1>3, <1>4, <1>7, <1>8 DEF Bot!Start, slots
<1>10. QED
  BY <1>9 DEF Bot!Next

\* A driver that ends loses its bot, and only a run that goes on brings it back.
LEMMA EndSlots ==
  ASSUME RInv, NEW d \in Drivers, End(d)
  PROVE  Bot!Next
<1>1. PICK id \in Bots, n \in 1 .. MaxDrivers : d = <<id, n>>
  BY DEF Drivers
<1>2. d[1] = id /\ d \in Live /\ d \in all(registry)
  BY <1>1, LiveAreRegistered DEF End, Live, RInv
<1>3. has(registry, id) /\ registry[id].bot = n /\ born[id] = n
  BY <1>1, <1>2 DEF all, RInv, IInv, RegistryNamesLast
<1>4. /\ st \in [Drivers -> DriverStates]
      /\ registry \in [Bots -> Entries]
      /\ reconnectTimers \in [Bots -> Nat]
      /\ config.maxRetries \in Nat
      /\ n \in Nat /\ n # 0
  BY <1>1, MaxDriversAssumption, ConfigAssumption DEF RInv, IInv, TypeOK, ConfigType
<1>5. st[<<id, n>>] \in Open
  BY <1>1 DEF End
<1>6. reconnectTimers[id] = 0
  <2>1. ~(reconnectTimers[id] > 0)
    BY <1>3, <1>5 DEF RInv, IInv, ReconnectsArePaid, Open, Online
  <2>2. QED
    BY <1>4, <2>1
<1>7. /\ UNCHANGED <<config, run, shuttingDown, spawnTimers, born>>
      /\ st' = [st EXCEPT ![<<id, n>>] = "ended"]
      /\ ScheduleReconnect(id)
  BY <1>1, <1>2 DEF End
<1>8. slots[id] = "up"
  <2>1. SlotOf(id) = "up"
    BY <1>3, <1>4, <1>5 DEF SlotOf, Open, Online
  <2>2. QED
    BY <2>1 DEF slots
<1>9. ASSUME NEW i \in Bots, i # id PROVE SlotOf(i)' = SlotOf(i)
  <2>1. reconnectTimers'[i] = reconnectTimers[i]
    BY <1>4, <1>7, <1>9 DEF ScheduleReconnect
  <2>2. st'[<<i, born[i]>>] = st[<<i, born[i]>>]
    BY <1>4, <1>7, <1>9
  <2>3. QED
    BY <1>7, <2>1, <2>2 DEF SlotOf
<1>10. SlotOf(id)' = IF reconnectTimers'[id] > 0 THEN "lost" ELSE "gone"
  <2>1. st'[<<id, born'[id]>>] = "ended"
    BY <1>1, <1>3, <1>4, <1>7
  <2>2. QED
    BY <1>3, <1>4, <1>7, <2>1 DEF SlotOf
<1>11. reconnectTimers'[id] > 0 => ~shuttingDown /\ born[id] <= config.maxRetries
  <2> SUFFICES ASSUME reconnectTimers'[id] > 0
               PROVE  ~shuttingDown /\ born[id] <= config.maxRetries
    OBVIOUS
  <2> DEFINE counting == incRetry(registry, id)
  <2>1. reconnectTimers' # reconnectTimers
    BY <1>6
  <2>2. ~shuttingDown /\ ~RetriesExceed(counting, id, config.maxRetries)
    BY <1>7, <2>1 DEF ScheduleReconnect
  <2>3. counting[id].bot = n /\ counting[id].retries = registry[id].retries + 1
    BY <1>3, <1>4 DEF incRetry, Entries
  <2>4. born[id] <= registry[id].retries + 1 /\ registry[id].retries \in Nat
    BY <1>3, <1>4 DEF RInv, IInv, RetriesBoundLaunches, Entries
  <2>5. registry[id].retries + 1 <= config.maxRetries
    BY <1>4, <2>2, <2>3, <2>4 DEF RetriesExceed
  <2>6. QED
    BY <1>3, <1>4, <2>2, <2>4, <2>5
<1>12. \E s \in {"lost", "gone"} :
         /\ slots' = [slots EXCEPT ![id] = s]
         /\ s = "lost" => ~shuttingDown /\ born[id] <= config.maxRetries
  <2>1. CASE reconnectTimers'[id] > 0
    <3>1. slots' = [slots EXCEPT ![id] = "lost"]
      BY <1>9, <1>10, <2>1, OneSlot
    <3>2. QED
      BY <1>11, <2>1, <3>1
  <2>2. CASE ~(reconnectTimers'[id] > 0)
    <3>1. slots' = [slots EXCEPT ![id] = "gone"]
      BY <1>9, <1>10, <2>2, OneSlot
    <3>2. QED
      BY <3>1
  <2>3. QED
    BY <2>1, <2>2
<1>13. Bot!Lose(id)
  BY <1>7, <1>8, <1>12 DEF Bot!Lose, slots
<1>14. QED
  BY <1>13 DEF Bot!Next

\* The other events of a driver end no bot.
LEMMA EventSlots ==
  ASSUME RInv, NEW d \in Drivers, DriverEvent(d), ~End(d)
  PROVE  UNCHANGED Bot!vars
<1>1. EventKeeps
  BY DEF DriverEvent, Connected, Login, Position, Kicked, DriverError, TunnelFails
<1>2. \/ st' = st
      \/ /\ st[d] \in Open
         /\ \E s \in Open \cup {"dead"} : st' = [st EXCEPT ![d] = s]
  <2> USE DEF Open, Online
  <2>1. CASE Connected(d) \/ Position(d) \/ TunnelFails(d)
    BY <2>1 DEF Connected, Position, TunnelFails
  <2>2. CASE Login(d)
    BY <2>2 DEF Login
  <2>3. CASE Kicked(d) \/ DriverError(d)
    BY <2>3 DEF Kicked, DriverError
  <2>4. QED
    BY <2>1, <2>2, <2>3 DEF DriverEvent
<1>3. \A e \in Drivers : st'[e] = "ended" <=> st[e] = "ended"
  BY <1>2 DEF RInv, IInv, TypeOK, Open, Online
<1>4. UNCHANGED <<config, run, shuttingDown, spawnTimers, reconnectTimers, born>>
  BY <1>1 DEF EventKeeps, timers
<1>5. ASSUME NEW i \in Bots PROVE SlotOf(i)' = SlotOf(i)
  <2>1. CASE born[i] = 0
    BY <1>4, <2>1 DEF SlotOf
  <2>2. CASE born[i] # 0
    <3>1. <<i, born[i]>> \in Drivers
      BY <2>2, MaxDriversAssumption DEF RInv, IInv, TypeOK, Drivers
    <3>2. QED
      BY <1>3, <1>4, <3>1 DEF SlotOf
  <2>3. QED
    BY <2>1, <2>2
<1>6. QED
  BY <1>4, <1>5, SameSlots

\* Every step of the engine is one of the supervisor, or does not touch it.
LEMMA SupervisorStep == RInv /\ [Next]_vars => [Bot!Next]_(Bot!vars)
<1> SUFFICES ASSUME RInv, [Next]_vars PROVE Bot!Next \/ UNCHANGED Bot!vars
  OBVIOUS
<1>1. ASSUME UNCHANGED <<config, run, shuttingDown, spawnTimers, reconnectTimers, born, st>>
      PROVE  UNCHANGED Bot!vars
  <2>1. \A i \in Bots : SlotOf(i)' = SlotOf(i)
    BY <1>1 DEF SlotOf
  <2>2. QED
    BY <1>1, <2>1, SameSlots
<1>2. ASSUME NEW t, Shutdown(t) PROVE Bot!Next
  BY <1>2, ShutdownSlots DEF Bot!Next
<1>3. CASE Run
  BY <1>3, RunSlots
<1>4. CASE Stop
  BY <1>2, <1>4 DEF Stop
<1>5. CASE Sigint
  <2>1. CASE Shutdown("crashed")
    BY <1>2, <2>1
  <2>2. CASE ~Shutdown("crashed")
    BY <1>1, <1>5, <2>2 DEF Sigint, timers, drivers
  <2>3. QED
    BY <2>1, <2>2
<1>6. CASE DurationFires
  <2>1. CASE Shutdown("crashed")
    BY <1>2, <2>1
  <2>2. CASE ~Shutdown("crashed")
    BY <1>1, <1>6, <2>2 DEF DurationFires, timers, drivers
  <2>3. QED
    BY <2>1, <2>2
<1>7. ASSUME NEW id \in Bots, SpawnFires(id), run # "crashed"
      PROVE  Bot!Next \/ UNCHANGED Bot!vars
  BY <1>7, SpawnSlots
<1>8. ASSUME NEW id \in Bots, ReconnectFires(id) PROVE Bot!Next
  BY <1>8, ReconnectSlots
<1>9. ASSUME NEW d \in Drivers, DriverEvent(d) PROVE Bot!Next \/ UNCHANGED Bot!vars
  BY <1>9, EndSlots, EventSlots
<1>10. CASE UNCHANGED vars
  BY <1>1, <1>10 DEF vars, timers, drivers
<1>11. QED
  BY <1>3, <1>4, <1>5, <1>6, <1>7, <1>8, <1>9, <1>10 DEF Next, TimerFires

\* The engine implements the supervisor: every bot is started at most once and
\* brought back at most maxRetries times, only after it was lost, and nothing is
\* started any more once shutdown() has begun.
THEOREM SupervisorHolds == Spec => Supervised
<1>1. Init => Bot!Init
  <2> SUFFICES ASSUME Init PROVE Bot!Init
    OBVIOUS
  <2>1. config.maxRetries \in Nat
    BY ConfigAssumption DEF Init, ConfigType
  <2>2. \A id \in Bots : SlotOf(id) = "idle"
    BY DEF Init, SlotOf
  <2>3. QED
    BY <2>1, <2>2 DEF Bot!Init, Init
<1>2. Spec => []RInv
  BY RInductive
<1>3. QED
  BY <1>1, <1>2, SupervisorStep, PTL DEF Spec, Supervised, Bot!Spec
=============================================================================
