\* A bot that is given up keeps its place on its proxy.
SPECIFICATION Spec
CONSTANTS
  b1 = b1
  b2 = b2
  p1 = p1
  p2 = p2
  Bots <- Two
  Proxies = {p1, p2}
  NoProxy = NoProxy
  MaxDrivers = 3
  Configs <- LeakConfigs
  MaxLogins = 0
  MaxErrors = 0
  MaxKicks = 0
PROPERTIES
  SkippedOnlyWhenSaturated
CHECK_DEADLOCK FALSE
