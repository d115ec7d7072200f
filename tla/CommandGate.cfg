\* A config that asks for free proxies, without authorization.
SPECIFICATION CommandSpec
CONSTANTS
  SearchOptions <- Searches
  Latencies = {1, 2}
  Times = {12}
  TimePackets <- Packets
  Plugins = {a, b}
  Published = {a}
  MaxLines = 2
  Invocations <- Cli
  MaxTyped = 2
INVARIANTS
  AuthorizedFirst
CHECK_DEADLOCK FALSE
