\* Every subcommand, authorized or not.
SPECIFICATION FairCommandSpec
CONSTANTS
  SearchOptions <- Searches
  Latencies = {1, 2}
  Times = {12, 24, 60}
  TimePackets <- Packets
  Plugins = {a, b}
  Published = {a}
  MaxLines = 2
  Invocations <- Cli
  MaxTyped = 2
INVARIANTS
  ProbedExactlyOnce
  NoSocketLeft
  BestOnesKept
  NeverDirect
  ShardsAddUp
  MergeIsExact
  ReportIsGrounded
PROPERTIES
  CommandEnds
CHECK_DEADLOCK FALSE
