\* A daemon that is posted a config that asks for free proxies.
SPECIFICATION CommandSpec
CONSTANTS
  SearchOptions <- Searches
  Latencies = {1, 2}
  Times = {12}
  TimePackets <- Packets
  Plugins = {a, b}
  Published = {a}
  MaxLines = 2
  Invocations <- ServesAuto
  MaxTyped = 2
INVARIANTS
  NeverDirect
CHECK_DEADLOCK FALSE
