--------------------------------- MODULE Scan ---------------------------------
(***************************************************************************)
(* The scan of a server (scan/scanner.ts): a ping and, with --deep, one bot*)
(* that joins and looks for plugins (scan/recon.ts) by the channels they   *)
(* register, by the tab completion of commands and by what the chat says   *)
(* when the server is asked for their versions; what is known of those     *)
(* versions is looked up afterwards.                                       *)
(*                                                                         *)
(* A plugin shows itself by a channel, by commands in its namespace, or by *)
(* a bare command that is known to be its own (scan/plugins.ts).           *)
(***************************************************************************)
EXTENDS Integers, Sequences, FiniteSets, SequencesExt

CONSTANTS
  Plugins,   \* plugins a server may have
  Published, \* those with Maven coordinates, whose versions are looked up
  MaxLines   \* chat lines that are kept: 200 in the code

VARIABLES
  shows,     \* the signs of plugins this server gives: [plugin, by]
  asks,      \* --deep and --probe-versions
  scan,      \* where scan() stands
  bot,       \* the bot's connection
  channels,  \* plugins whose channel the bot has seen
  lines,     \* chat lines that name a plugin with a version
  commands,  \* the completed commands
  unasked,   \* plugins whose version timer is set
  report     \* the plugins of the report, and those with a finding

scanVars == <<shows, asks, scan, bot, channels, lines, commands, unasked, report>>

Signs == [plugin : Plugins, by : {"channel", "namespace", "bare"}]
Rank(confidence) == IF confidence = "high" THEN 3 ELSE 2

-----------------------------------------------------------------------------
(* scan/plugins.ts                                                         *)

\* Only a loaded plugin registers a channel.
InferFromChannels(cs) ==
  [p \in cs |-> [source |-> "channel", confidence |-> "high", version |-> FALSE]]

\* A command in a plugin's namespace is surer than a bare one.
InferFromCommands(cs) ==
  [p \in {c.plugin : c \in cs} |->
     [source |-> "command", version |-> FALSE,
      confidence |-> IF [plugin |-> p, by |-> "namespace"] \in cs THEN "high" ELSE "medium"]]

\* Mutant of MergeDetections: the later list wins.
MergeLater(a, b) ==
  [p \in DOMAIN a \cup DOMAIN b |-> IF p \in DOMAIN b THEN b[p] ELSE a[p]]

\* One detection for a name: the first, unless the later one is surer.
MergeDetections(a, b) ==
  [p \in DOMAIN a \cup DOMAIN b |->
     IF p \notin DOMAIN a THEN b[p]
     ELSE IF p \in DOMAIN b /\ Rank(b[p].confidence) > Rank(a[p].confidence) THEN b[p]
     ELSE a[p]]

\* parsePluginVersions() and applyVersions().
ApplyVersions(found, told) ==
  [p \in DOMAIN found |-> [found[p] EXCEPT !.version = @ \/ p \in ToSet(told)]]

-----------------------------------------------------------------------------
ScanInit(servers, options) ==
  /\ shows \in servers
  /\ asks \in options
  /\ scan = "idle"
  /\ bot = "none"
  /\ channels = {} /\ commands = {} /\ unasked = {}
  /\ lines = <<>>
  /\ report = [plugins |-> <<>>, findings |-> {}]

ScanStarts ==
  /\ scan = "idle"
  /\ scan' = "ping"
  /\ UNCHANGED <<shows, asks, bot, channels, lines, commands, unasked, report>>

\* The ping of the fingerprint: one that fails ends the scan.
PingAnswers ==
  /\ scan = "ping"
  /\ IF asks.deep THEN scan' = "recon" /\ bot' = "connecting"
                  ELSE scan' = "done" /\ UNCHANGED bot
  /\ UNCHANGED <<shows, asks, channels, lines, commands, unasked, report>>

PingFails ==
  /\ scan = "ping"
  /\ scan' = "failed"
  /\ UNCHANGED <<shows, asks, bot, channels, lines, commands, unasked, report>>

\* finish(): the first caller settles the promise, and scan() takes up its result
\* at once.  quit() throws before the client has attached it, which is swallowed:
\* that bot goes on to connect.
Finish(found) ==
  /\ scan' = "lookup"
  /\ report' = [report EXCEPT !.plugins =
                  ApplyVersions(MergeDetections(InferFromChannels(channels),
                                                InferFromCommands(found)), lines)]
  /\ bot' = IF bot = "connecting" THEN bot ELSE "gone"

\* The bot joins, whether or not the scan still waits for it.
ReconSpawn ==
  /\ bot = "connecting"
  /\ bot' = "online"
  /\ UNCHANGED <<shows, asks, scan, channels, lines, commands, unasked, report>>

\* What comes after finish() does not matter any more.
ReconChannel(p) ==
  /\ bot = "online" /\ scan \in {"recon", "asking"}
  /\ [plugin |-> p, by |-> "channel"] \in shows
  /\ channels' = channels \cup {p}
  /\ UNCHANGED <<shows, asks, scan, bot, lines, commands, unasked, report>>

\* A line of chat: the answer to a question, or one of a player's.
ReconLine(p) ==
  /\ bot = "online" /\ scan \in {"recon", "asking"}
  /\ lines' = IF Len(lines) < MaxLines THEN Append(lines, p) ELSE lines
  /\ UNCHANGED <<shows, asks, scan, bot, channels, commands, unasked, report>>

\* tabComplete("/") answers.  With --probe-versions a timer for each plugin asks
\* for its version, and another one ends the wait after the last of them.
ReconCommands ==
  LET found == {s \in shows : s.by # "channel"}
  IN /\ bot = "online" /\ scan = "recon"
     /\ IF asks.versions
          THEN /\ scan' = "asking"
               /\ commands' = found
               /\ unasked' = DOMAIN InferFromCommands(found)
               /\ UNCHANGED <<bot, report>>
          ELSE Finish(found) /\ UNCHANGED <<commands, unasked>>
     /\ UNCHANGED <<shows, asks, channels, lines>>

\* A version timer is not cleared: after the end it asks a bot that has quit.
ReconAsks(p) ==
  /\ p \in unasked
  /\ unasked' = unasked \ {p}
  /\ UNCHANGED <<shows, asks, scan, bot, channels, lines, commands, report>>

ReconWindow ==
  /\ scan = "asking" /\ unasked = {}
  /\ Finish(commands)
  /\ UNCHANGED <<shows, asks, channels, lines, commands, unasked>>

\* The time of the scan is up, the bot has an error or ends, or the completion
\* fails: what settles the promise then has no commands.
ReconCut ==
  /\ scan \in {"recon", "asking"}
  /\ Finish({})
  /\ UNCHANGED <<shows, asks, channels, lines, commands, unasked>>

\* The connection of a bot that nobody waits for any more ends.
ReconGone ==
  /\ scan \in {"lookup", "done"} /\ bot \in {"connecting", "online"}
  /\ bot' = "gone"
  /\ UNCHANGED <<shows, asks, scan, channels, lines, commands, unasked, report>>

\* The plugins that queryOsv() asks for: those with a version and a package.
ToLookUp == {p \in DOMAIN report.plugins : report.plugins[p].version /\ p \in Published}

\* The service has answered for each of them; one that fails finds nothing.
LookupsEnd ==
  /\ scan = "lookup"
  /\ scan' = "done"
  /\ \E found \in SUBSET ToLookUp :
       report' = [report EXCEPT !.findings = found]
  /\ UNCHANGED <<shows, asks, bot, channels, lines, commands, unasked>>

\* What the network and the timers bring; a bot need not join, nor a server say
\* anything, nor osv.dev answer.
ScanSettles == PingAnswers \/ PingFails \/ ReconCut

ScanStep ==
  \/ ScanSettles \/ LookupsEnd
  \/ ReconSpawn \/ ReconCommands \/ ReconWindow \/ ReconGone
  \/ \E p \in Plugins : ReconChannel(p) \/ ReconLine(p) \/ ReconAsks(p)

-----------------------------------------------------------------------------
ScanTypeOK ==
  /\ scan \in {"idle", "ping", "recon", "asking", "lookup", "done", "failed"}
  /\ bot \in {"none", "connecting", "online", "gone"}
  /\ channels \subseteq Plugins /\ unasked \subseteq Plugins
  /\ commands \subseteq shows /\ shows \subseteq Signs

\* deepRecon() and mergeDetections(): whatever ends the reconnaissance, and in
\* whatever order the signs came, every plugin whose channel was seen is in the
\* report as certain, every other one is there for a command that gives it away,
\* as certain only for one in its namespace; and a version or a finding is there
\* only for a plugin whose version the chat has named.
ReportIsGrounded ==
  scan \in {"lookup", "done"} =>
    /\ channels \subseteq DOMAIN report.plugins
    /\ \A p \in DOMAIN report.plugins :
         LET d == report.plugins[p]
         IN /\ \E s \in shows : s.plugin = p
            /\ p \in channels => d.confidence = "high"
            /\ p \notin channels /\ d.confidence = "high" =>
                 [plugin |-> p, by |-> "namespace"] \in shows
            /\ d.version => p \in ToSet(lines)
    /\ \A p \in report.findings : p \in ToSet(lines) /\ report.plugins[p].version
=============================================================================
