\* Engine with and without proxies: reconnects, shutdown, accounts, counters,
\* caps, and what it promises to its callers.
SPECIFICATION FairSpec
CONSTANTS
  b1 = b1
  b2 = b2
  p1 = p1
  p2 = p2
  Bots <- Two
  Proxies = {p1, p2}
  NoProxy = NoProxy
  MaxDrivers = 3
  Configs <- AllConfigs
  MaxLogins = 3
  MaxErrors = 1
  MaxKicks = 1
INVARIANTS
  ProxyCap
  AtMostOneLive
  ShutdownReachesEveryBot
  RetryBudget
  LostBotIsAwaited
  ActiveIsExact
  AttemptsAccounted
  ResolvedRunIsQuiet
PROPERTIES
  Supervised
  Promised
  RunSettles
  NoLaunchAfterShutdown
  AccountsRotate
CHECK_DEADLOCK FALSE
