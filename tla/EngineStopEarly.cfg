\* stop() during the preflight: the run's promise stays pending.
SPECIFICATION FairSpec
CONSTANTS
  b1 = b1
  b2 = b2
  p1 = p1
  p2 = p2
  Bots <- Two
  Proxies = {p1, p2}
  NoProxy = NoProxy
  MaxDrivers = 3
  Configs <- StopConfigs
  MaxLogins = 0
  MaxErrors = 0
  MaxKicks = 0
PROPERTIES
  StopResolvesTheRun
CHECK_DEADLOCK FALSE
