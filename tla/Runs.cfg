\* Two runs and two streams of one daemon.
SPECIFICATION FairSpec
CONSTANTS
  Runs = {r1, r2}
  Streams = {s1, s2}
INVARIANTS
  StatusIsHonest
  StreamEndsWithFinal
PROPERTIES
  StatusIsFinal
  EnginesKeepTheirContract
  StreamsEnd
  DaemonExits
CHECK_DEADLOCK FALSE
