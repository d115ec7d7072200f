----------------------------- MODULE Command_proofs -----------------------------
(***************************************************************************)
(* Theorems about a process of the command line, for all options, servers, *)
(* plans and invocations: what its search, its workers and its scan keep,  *)
(* each shown for the part alone and carried over to the whole, what the   *)
(* command itself keeps, and what the figures of the workers are worth     *)
(* when they are merged.                                                   *)
(***************************************************************************)
EXTENDS Command, AutoProxies_proofs

-----------------------------------------------------------------------------
(* The parts                                                               *)

\* A step of the process is a step of its search or leaves it alone.
LEMMA SearchPart ==
  ASSUME [CommandNext]_commandVars
  PROVE  [SearchStarts \/ SearchStep]_searchVars
<1>1. CASE CliStep
  BY <1>1 DEF CliStep, Run, SearchReturns, EngineSettles, ClientEnds, ProcessEnds,
              ShardsReturn, ScanCommand, ScanReturns, DebugCommand, DebugConnects, ScriptEnds, LineTyped, LineAnswered, PromptEnds,
              Serve, ApiStart
<1> QED BY <1>1 DEF CommandNext, commandVars

\* A step of the process is a step of its scan or leaves it alone.
LEMMA ScanPart ==
  ASSUME [CommandNext]_commandVars
  PROVE  [ScanStarts \/ ScanStep]_scanVars
<1>1. CASE CliStep
  BY <1>1 DEF CliStep, Run, SearchReturns, EngineSettles, ClientEnds, ProcessEnds,
              ShardsReturn, ScanCommand, ScanReturns, DebugCommand, DebugConnects, ScriptEnds, LineTyped, LineAnswered, PromptEnds,
              Serve, ApiStart
<1> QED BY <1>1 DEF CommandNext, commandVars

\* A step of the process is a step of its workers or leaves them alone.
LEMMA ShardPart ==
  ASSUME [CommandNext]_commandVars
  PROVE  [RunSharded \/ ShardStep]_shardVars
<1>1. CASE CliStep
  BY <1>1 DEF CliStep, Run, SearchReturns, EngineSettles, ClientEnds, ProcessEnds,
              ShardsReturn, ScanCommand, ScanReturns, DebugCommand, DebugConnects, ScriptEnds, LineTyped, LineAnswered, PromptEnds,
              Serve, ApiStart, Launch
<1> QED BY <1>1 DEF CommandNext, commandVars

-----------------------------------------------------------------------------
(* The search                                                              *)

\* What a search keeps alone it keeps in the process.
LEMMA SearchHolds == CommandSpec => [](SearchInv /\ PickInv)
<1>1. CommandInit => SearchInv /\ PickInv
  BY InitHolds, PickInit DEF CommandInit
<1>2. SearchInv /\ PickInv /\ [CommandNext]_commandVars => (SearchInv /\ PickInv)'
  BY SearchPart, SearchKeeps, PickKeeps
<1> QED BY <1>1, <1>2, PTL DEF CommandSpec

\* When the search of a command is over, every socket it has opened is destroyed.
THEOREM NoSocket == CommandSpec => []NoSocketLeft
BY SearchHolds, InvNoSocket, PTL

\* The workers of the search of a command hand out every candidate once, and end
\* it with fewer proxies than it needs only when they have probed them all.
THEOREM ProbedOnce == CommandSpec => []ProbedExactlyOnce
BY SearchHolds, InvProbedOnce, PTL

\* The proxies a command starts its bots with are those that answered fastest, and
\* none of them comes twice.
THEOREM BestKept == CommandSpec => []BestOnesKept
BY SearchHolds, InvBest, PTL

-----------------------------------------------------------------------------
(* The command                                                             *)

\* No launch of a run whose config asks for free proxies was direct.
Proxied ==
  /\ cmd \in Invocations
  /\ stage = "serve" => cmd.sub = "serve"
  /\ cmd.auto /\ launch.how # "none" => ~launch.direct

\* A run that asks for free proxies is never launched without one; for a daemon
\* that takes no such config, since the API launches it without a search.
THEOREM ProxiedOnly ==
  ASSUME \A c \in Invocations : c.sub = "serve" /\ c.authorized => ~c.auto
  PROVE  CommandSpec => []NeverDirect
<1>1. CommandInit => Proxied
  BY DEF CommandInit, Proxied
<1>2. ASSUME Proxied, [CommandNext]_commandVars PROVE Proxied'
  <2>1. CASE Run
    BY <1>2, <2>1 DEF Run, Launch, Proxied, Exit
  <2>2. CASE SearchReturns
    <3>1. cmd' = cmd
      BY <2>2 DEF SearchReturns
    <3>2. CASE UNCHANGED <<stage, launch>>
      BY <1>2, <3>1, <3>2 DEF Proxied
    <3>3. CASE ~UNCHANGED <<stage, launch>>
      <4>1. picked # <<>> /\ Launch(picked = <<>>)
        BY <2>2, <3>3 DEF SearchReturns
      <4>2. launch' = [how |-> IF plan.shards > 1 THEN "shards" ELSE "engine", direct |-> picked = <<>>]
            /\ stage' = "run"
        BY <3>3, <4>1 DEF Launch
      <4>3. (picked = <<>>) = FALSE
        BY <4>1
      <4>4. launch'.direct = FALSE
        BY <4>2, <4>3
      <4> QED BY <1>2, <3>1, <4>2, <4>4 DEF Proxied
    <3> QED BY <3>2, <3>3
  <2>3. CASE EngineSettles \/ ClientEnds \/ ProcessEnds \/ ShardsReturn \/ ScanReturns
             \/ ScriptEnds \/ PromptEnds
    BY <1>2, <2>3 DEF EngineSettles, ClientEnds, ProcessEnds, ShardsReturn, ScanReturns, ScriptEnds, PromptEnds, Proxied, cliVars
  <2>4. CASE ScanCommand \/ DebugCommand \/ DebugConnects \/ LineTyped \/ LineAnswered
    BY <1>2, <2>4 DEF ScanCommand, DebugCommand, DebugConnects, LineTyped, LineAnswered, Proxied
  <2>5. CASE Serve
    BY <1>2, <2>5 DEF Serve, Proxied
  <2>6. CASE ApiStart
    BY <1>2, <2>6 DEF ApiStart, Proxied
  <2>7. CASE UNCHANGED cliVars
    BY <1>2, <2>7 DEF cliVars, Proxied
  <2> QED BY <1>2, <2>1, <2>2, <2>3, <2>4, <2>5, <2>6, <2>7 DEF CommandNext, CliStep, commandVars
<1>3. Proxied => NeverDirect
  BY DEF Proxied, NeverDirect
<1>4. Proxied /\ [CommandNext]_commandVars => Proxied'
  BY <1>2
<1> QED BY <1>1, <1>3, <1>4, PTL DEF CommandSpec

\* Without the authorization nothing is launched or scanned; only a search may
\* have started (AuthorizedFirst).
NothingUnauthorized ==
  ~cmd.authorized => scan = "idle" /\ launch.how = "none" /\ worker = <<>>

\* The gate of the command line keeps bots and scans back, whatever the subcommand.
THEOREM Gated == CommandSpec => []NothingUnauthorized
<1>1. CommandInit => NothingUnauthorized
  BY DEF CommandInit, NothingUnauthorized, ScanInit, ShardInit
<1>2. ASSUME NothingUnauthorized, [CommandNext]_commandVars PROVE NothingUnauthorized'
  <2>1. CASE Run
    BY <1>2, <2>1 DEF Run, Launch, NothingUnauthorized, scanVars, shardVars
  <2>2. CASE SearchReturns
    BY <1>2, <2>2 DEF SearchReturns, Launch, NothingUnauthorized, scanVars, shardVars
  <2>3. CASE EngineSettles \/ ClientEnds \/ ProcessEnds \/ ShardsReturn \/ ScanReturns
             \/ ScriptEnds \/ PromptEnds
    BY <1>2, <2>3 DEF EngineSettles, ClientEnds, ProcessEnds, ShardsReturn, ScanReturns, ScriptEnds, PromptEnds,
                      NothingUnauthorized, cliVars, scanVars, shardVars
  <2>4. CASE ScanCommand
    BY <1>2, <2>4 DEF ScanCommand, NothingUnauthorized, scanVars, shardVars
  <2>5. CASE DebugCommand \/ DebugConnects \/ LineTyped \/ LineAnswered \/ Serve
    BY <1>2, <2>5 DEF DebugCommand, DebugConnects, LineTyped, LineAnswered, Serve,
                      NothingUnauthorized, scanVars, shardVars
  <2>6. CASE ApiStart
    BY <1>2, <2>6 DEF ApiStart, NothingUnauthorized, scanVars, shardVars
  <2>7. CASE SearchStep /\ UNCHANGED <<shardVars, scanVars, cliVars, code>>
    BY <1>2, <2>7 DEF NothingUnauthorized, cliVars, scanVars, shardVars
  <2>8. CASE ShardStep /\ UNCHANGED <<searchVars, scanVars, cliVars, code>>
    <3>1. worker = <<>> => worker' = <<>>
      BY <2>8 DEF ShardStep, ShardInterrupt
    <3> QED BY <1>2, <2>8, <3>1 DEF NothingUnauthorized, cliVars, scanVars
  <2>9. CASE ScanStep /\ UNCHANGED <<searchVars, shardVars, cliVars, code>>
    <3>1. scan = "idle" => scan' = "idle"
      BY <2>9 DEF ScanStep, ScanSettles, PingAnswers, PingFails, ReconCut, LookupsEnd, ReconSpawn,
                  ReconCommands, ReconWindow, ReconGone, ReconChannel, ReconLine, ReconAsks
    <3> QED BY <1>2, <2>9, <3>1 DEF NothingUnauthorized, cliVars, shardVars
  <2>10. CASE UNCHANGED commandVars
    BY <1>2, <2>10 DEF commandVars, cliVars, scanVars, shardVars, NothingUnauthorized
  <2> QED
    BY <1>2, <2>1, <2>2, <2>3, <2>4, <2>5, <2>6, <2>7, <2>8, <2>9, <2>10 DEF CommandNext, CliStep
<1>3. NothingUnauthorized /\ [CommandNext]_commandVars => NothingUnauthorized'
  BY <1>2
<1> QED BY <1>1, <1>3, PTL DEF CommandSpec

-----------------------------------------------------------------------------
(* The scan                                                                *)

\* What the chat has told adds a version to a detection without one.
LEMMA Versioned ==
  ASSUME NEW s, NEW c, NEW d, NEW T, NEW p, NEW e,
         d = [source |-> s, confidence |-> c, version |-> FALSE],
         e = [d EXCEPT !.version = @ \/ p \in T]
  PROVE  e.confidence = c /\ (e.version => p \in T)
<1>1. e.confidence = c
  OBVIOUS
<1>2. e.version = (FALSE \/ p \in T)
  OBVIOUS
<1>3. CASE p \in T
  BY <1>1, <1>3
<1>4. CASE p \notin T
  <2>1. (FALSE \/ p \in T) = FALSE
    BY <1>4
  <2>2. e.version = FALSE
    BY <1>2, <2>1
  <2> QED BY <1>1, <2>2
<1> QED BY <1>3, <1>4

\* A report of what channels cs, commands found and chat lines told have shown:
\* a channel makes certain, a namespace may, and the chat alone gives a version.
LEMMA MergedDetections ==
  ASSUME NEW cs, NEW found, NEW told
  PROVE  LET r == ApplyVersions(MergeDetections(InferFromChannels(cs), InferFromCommands(found)), told)
         IN /\ DOMAIN r = cs \cup {c.plugin : c \in found}
            /\ \A p \in cs : r[p].confidence = "high"
            /\ \A p \in DOMAIN r \ cs :
                 r[p].confidence = "high" => [plugin |-> p, by |-> "namespace"] \in found
            /\ \A p \in DOMAIN r : r[p].version => p \in ToSet(told)
<1> DEFINE a == InferFromChannels(cs)
           b == InferFromCommands(found)
           m == MergeDetections(a, b)
           r == ApplyVersions(m, told)
<1>1. DOMAIN a = cs /\ \A p \in cs : a[p] = [source |-> "channel", confidence |-> "high", version |-> FALSE]
  BY DEF InferFromChannels
<1>2. /\ DOMAIN b = {c.plugin : c \in found}
      /\ \A p \in DOMAIN b :
           b[p] = [source |-> "command", version |-> FALSE,
                   confidence |-> IF [plugin |-> p, by |-> "namespace"] \in found THEN "high" ELSE "medium"]
  BY DEF InferFromCommands
<1> HIDE DEF a, b
<1>3. DOMAIN m = DOMAIN a \cup DOMAIN b
  BY DEF MergeDetections
<1>4. \A p \in cs : m[p] = a[p]
  <2> SUFFICES ASSUME NEW p \in cs PROVE m[p] = a[p]
    OBVIOUS
  <2>1. p \in DOMAIN a /\ Rank(a[p].confidence) = 3
    BY <1>1 DEF Rank
  <2>2. p \in DOMAIN b => ~(Rank(b[p].confidence) > 3)
    BY DEF Rank
  <2> QED BY <2>1, <2>2 DEF MergeDetections
<1>5. \A p \in DOMAIN b \ cs : m[p] = b[p]
  BY <1>1 DEF MergeDetections
<1> HIDE DEF m
<1>6. DOMAIN r = DOMAIN m /\ \A p \in DOMAIN m : r[p] = [m[p] EXCEPT !.version = @ \/ p \in ToSet(told)]
  BY DEF ApplyVersions
<1> HIDE DEF r
<1>7. \A p \in cs : r[p].confidence = "high" /\ (r[p].version => p \in ToSet(told))
  <2> SUFFICES ASSUME NEW p \in cs
               PROVE  r[p].confidence = "high" /\ (r[p].version => p \in ToSet(told))
    OBVIOUS
  <2>1. m[p] = [source |-> "channel", confidence |-> "high", version |-> FALSE]
        /\ r[p] = [m[p] EXCEPT !.version = @ \/ p \in ToSet(told)]
    BY <1>1, <1>3, <1>4, <1>6
  <2> QED BY <2>1, Versioned
<1>8. \A p \in DOMAIN b \ cs :
        /\ r[p].confidence = "high" => [plugin |-> p, by |-> "namespace"] \in found
        /\ r[p].version => p \in ToSet(told)
  <2> SUFFICES ASSUME NEW p \in DOMAIN b \ cs
               PROVE  /\ r[p].confidence = "high" => [plugin |-> p, by |-> "namespace"] \in found
                      /\ r[p].version => p \in ToSet(told)
    OBVIOUS
  <2> DEFINE c == IF [plugin |-> p, by |-> "namespace"] \in found THEN "high" ELSE "medium"
  <2>1. m[p] = [source |-> "command", confidence |-> c, version |-> FALSE]
        /\ r[p] = [m[p] EXCEPT !.version = @ \/ p \in ToSet(told)]
    BY <1>2, <1>3, <1>5, <1>6
  <2>2. r[p].confidence = c /\ (r[p].version => p \in ToSet(told))
    <3> HIDE DEF c
    <3> QED BY <2>1, Versioned
  <2> QED BY <2>2
<1> QED BY <1>1, <1>2, <1>3, <1>6, <1>7, <1>8 DEF r, m, a, b

\* What the bot has seen are signs that the server gives.
Witnessed ==
  /\ \A p \in channels : [plugin |-> p, by |-> "channel"] \in shows
  /\ commands \subseteq shows

\* Nothing is seen before a bot looks, and nothing has a finding before the
\* lookups.
Unfound ==
  /\ report = [plugins |-> report.plugins, findings |-> report.findings]
  /\ scan # "done" => report.findings = {}
  /\ scan \in {"idle", "ping", "failed"} => channels = {} /\ DOMAIN report.plugins = {}

ScanInv == Witnessed /\ Unfound /\ ReportIsGrounded

\* Whoever settles the reconnaissance makes a report of what was seen till then.
LEMMA FinishKeeps ==
  ASSUME ScanInv, scan # "done", NEW found, found \subseteq shows, Finish(found),
         UNCHANGED <<shows, channels, lines, commands>>
  PROVE  ScanInv'
<1> DEFINE r == ApplyVersions(MergeDetections(InferFromChannels(channels),
                                              InferFromCommands(found)), lines)
<1>1. report' = [report EXCEPT !.plugins = r] /\ scan' = "lookup"
  BY DEF Finish
<1>2. /\ DOMAIN r = channels \cup {c.plugin : c \in found}
      /\ \A p \in channels : r[p].confidence = "high"
      /\ \A p \in DOMAIN r \ channels :
           r[p].confidence = "high" => [plugin |-> p, by |-> "namespace"] \in found
      /\ \A p \in DOMAIN r : r[p].version => p \in ToSet(lines)
  BY MergedDetections
<1> HIDE DEF r
<1>3. report'.plugins = r /\ report'.findings = {}
      /\ report' = [plugins |-> report'.plugins, findings |-> report'.findings]
  BY <1>1 DEF ScanInv, Unfound
<1>4. \A p \in DOMAIN r : \E s \in shows : s.plugin = p
  <2> SUFFICES ASSUME NEW p \in DOMAIN r PROVE \E s \in shows : s.plugin = p
    OBVIOUS
  <2>1. CASE p \in channels
    BY <2>1 DEF ScanInv, Witnessed
  <2>2. CASE p \in {c.plugin : c \in found}
    BY <2>2
  <2> QED BY <1>2, <2>1, <2>2
<1>5. Witnessed'
  BY DEF ScanInv, Witnessed
<1>6. Unfound'
  BY <1>1, <1>3 DEF Unfound
<1>7. ReportIsGrounded'
  BY <1>2, <1>3, <1>4 DEF ReportIsGrounded
<1> QED BY <1>5, <1>6, <1>7 DEF ScanInv

\* Every step of a scan keeps its report grounded.
LEMMA ScanKeeps ==
  ASSUME ScanInv, [ScanStarts \/ ScanStep]_scanVars
  PROVE  ScanInv'
<1>1. CASE ScanStarts \/ PingAnswers \/ PingFails
  <2>1. UNCHANGED <<shows, channels, lines, commands, report>>
    BY <1>1 DEF ScanStarts, PingAnswers, PingFails
  <2>2. Witnessed'
    BY <2>1 DEF ScanInv, Witnessed
  <2>3. /\ scan \in {"idle", "ping"} /\ report.findings = {}
        /\ channels = {} /\ DOMAIN report.plugins = {}
    BY <1>1 DEF ScanStarts, PingAnswers, PingFails, ScanInv, Unfound
  <2>4. Unfound'
    BY <2>1, <2>3 DEF ScanInv, Unfound
  <2>5. ReportIsGrounded'
    BY <2>1, <2>3 DEF ReportIsGrounded
  <2> QED BY <2>2, <2>4, <2>5 DEF ScanInv
<1>2. CASE ReconSpawn \/ ReconGone \/ \E p \in Plugins : ReconAsks(p)
  BY <1>2 DEF ReconSpawn, ReconGone, ReconAsks, ScanInv, Witnessed, Unfound, ReportIsGrounded
<1>3. ASSUME NEW p \in Plugins, ReconChannel(p) PROVE ScanInv'
  BY <1>3 DEF ReconChannel, ScanInv, Witnessed, Unfound, ReportIsGrounded
<1>4. ASSUME NEW p \in Plugins, ReconLine(p) PROVE ScanInv'
  BY <1>4 DEF ReconLine, ScanInv, Witnessed, Unfound, ReportIsGrounded
<1>5. CASE ReconCommands
  <2> DEFINE found == {s \in shows : s.by # "channel"}
  <2>1. CASE asks.versions
    <3>1. scan' = "asking" /\ commands' = found /\ UNCHANGED <<shows, channels, lines, report>>
          /\ scan = "recon"
      BY <1>5, <2>1 DEF ReconCommands
    <3> QED BY <3>1 DEF ScanInv, Witnessed, Unfound, ReportIsGrounded
  <2>2. CASE ~asks.versions
    <3>1. Finish(found) /\ UNCHANGED <<shows, channels, lines, commands>> /\ scan = "recon"
      BY <1>5, <2>2 DEF ReconCommands
    <3>2. found \subseteq shows
      OBVIOUS
    <3> HIDE DEF found
    <3> QED BY <3>1, <3>2, FinishKeeps
  <2> QED BY <2>1, <2>2
<1>6. CASE ReconWindow
  <2>1. scan = "asking" /\ Finish(commands) /\ UNCHANGED <<shows, channels, lines, commands>>
    BY <1>6 DEF ReconWindow
  <2>2. commands \subseteq shows
    BY DEF ScanInv, Witnessed
  <2> QED BY <2>1, <2>2, FinishKeeps
<1>7. CASE ReconCut
  <2>1. scan # "done" /\ Finish({}) /\ UNCHANGED <<shows, channels, lines, commands>>
    BY <1>7 DEF ReconCut
  <2> QED BY <2>1, FinishKeeps
<1>8. CASE LookupsEnd
  <2>1. PICK found \in SUBSET ToLookUp :
          report' = [report EXCEPT !.findings = found]
    BY <1>8 DEF LookupsEnd
  <2>2. scan = "lookup" /\ scan' = "done" /\ UNCHANGED <<shows, channels, lines, commands>>
    BY <1>8 DEF LookupsEnd
  <2>3. report'.plugins = report.plugins /\ report'.findings = found
        /\ report' = [plugins |-> report'.plugins, findings |-> report'.findings]
    BY <2>1 DEF ScanInv, Unfound
  <2>4. Witnessed' /\ Unfound'
    BY <2>2, <2>3 DEF ScanInv, Witnessed, Unfound
  <2>5. \A p \in found : p \in ToSet(lines) /\ report.plugins[p].version
    BY <2>1, <2>2 DEF ScanInv, ReportIsGrounded, ToLookUp
  <2>6. ReportIsGrounded'
    BY <2>2, <2>3, <2>5 DEF ScanInv, ReportIsGrounded
  <2> QED BY <2>4, <2>6 DEF ScanInv
<1>9. CASE UNCHANGED scanVars
  BY <1>9 DEF scanVars, ScanInv, Witnessed, Unfound, ReportIsGrounded
<1> QED
  BY <1>1, <1>2, <1>3, <1>4, <1>5, <1>6, <1>7, <1>8, <1>9 DEF ScanStep, ScanSettles

\* Whatever ends the reconnaissance and in whatever order signs and answers come,
\* the report says of a plugin only what the server has shown.
THEOREM Grounded == CommandSpec => []ReportIsGrounded
<1>1. CommandInit => ScanInv
  BY DEF CommandInit, ScanInit, ScanInv, Witnessed, Unfound, ReportIsGrounded
<1>2. ScanInv /\ [CommandNext]_commandVars => ScanInv'
  BY ScanPart, ScanKeeps
<1>3. ScanInv => ReportIsGrounded
  BY DEF ScanInv
<1> QED BY <1>1, <1>2, <1>3, PTL DEF CommandSpec

-----------------------------------------------------------------------------
(* The workers                                                             *)

\* The workers and what the parent knows of each.
WorkersTyped ==
  /\ parent \in {"idle", "waiting", "merged", "failed", "killed"}
  /\ dir \in BOOLEAN
  /\ worker \in [DOMAIN worker -> Workers]
  /\ verdict \in [DOMAIN worker -> {"pending", "resolved", "rejected"}]
  /\ inbox \subseteq DOMAIN worker /\ got \subseteq DOMAIN worker

\* A message is under way or taken only from a worker that has sent it; while the
\* parent waits, that of no worker is lost; what has resolved was handed in.
Accounted ==
  /\ parent = "idle" => worker = <<>>
  /\ \A i \in inbox \cup got : worker[i] \in {"lingering", "sent", "done"}
  /\ \A i \in DOMAIN worker :
       /\ parent = "waiting" /\ worker[i] \in {"lingering", "sent"} => i \in inbox \cup got
       /\ verdict[i] = "resolved" => i \in got /\ worker[i] = "done"
  /\ parent = "failed" => \E j \in DOMAIN worker : worker[j] = "crashed"

ShardInv == WorkersTyped /\ Accounted /\ ShardsHandIn

\* A step of one worker, or of its parent, keeps them accounted for.
LEMMA WorkerKeeps ==
  ASSUME ShardInv, NEW i \in DOMAIN worker,
         WorkerStep(i) \/ WorkerLetsGo(i) \/ WorkerCrashes(i)
  PROVE  ShardInv'
<1>1. CASE WorkerStarts(i)
  <2> DEFINE w == IF dir THEN "running" ELSE "stranded"
  <2>1. worker[i] = "forked" /\ worker' = [worker EXCEPT ![i] = w]
        /\ UNCHANGED <<parent, dir, inbox, got, verdict>>
    BY <1>1 DEF WorkerStarts
  <2>2. DOMAIN worker' = DOMAIN worker /\ worker'[i] = w
        /\ \A j \in DOMAIN worker : j # i => worker'[j] = worker[j]
    BY <2>1 DEF ShardInv, WorkersTyped
  <2>3. WorkersTyped'
    BY <2>1, <2>2 DEF ShardInv, WorkersTyped, Workers
  <2>4. Accounted'
    BY <2>1, <2>2 DEF ShardInv, WorkersTyped, Accounted
  <2>5. parent # "merged"
    BY <2>1 DEF ShardInv, ShardsHandIn
  <2>6. w = "stranded" => \E j \in DOMAIN worker : worker[j] = "crashed"
    BY <2>1, <2>5 DEF ShardInv, ShardsHandIn, WorkersTyped, Accounted
  <2>7. ShardsHandIn'
    BY <2>1, <2>2, <2>5, <2>6 DEF ShardInv, ShardsHandIn
  <2> QED BY <2>3, <2>4, <2>7 DEF ShardInv
<1>2. CASE WorkerSends(i)
  <2> PICK left \in {"sent", "lingering"} : worker' = [worker EXCEPT ![i] = left]
    BY <1>2 DEF WorkerSends
  <2>1. worker[i] = "running"
        /\ inbox' = (IF parent = "waiting" THEN inbox \cup {i} ELSE inbox)
        /\ UNCHANGED <<parent, dir, got, verdict>>
    BY <1>2 DEF WorkerSends
  <2>2. DOMAIN worker' = DOMAIN worker /\ worker'[i] = left
        /\ \A j \in DOMAIN worker : j # i => worker'[j] = worker[j]
    BY <2>1 DEF ShardInv, WorkersTyped
  <2>3. WorkersTyped'
    BY <2>1, <2>2 DEF ShardInv, WorkersTyped, Workers
  <2>4. Accounted'
    BY <2>1, <2>2 DEF ShardInv, WorkersTyped, Accounted
  <2>5. ShardsHandIn'
    BY <2>1, <2>2 DEF ShardInv, ShardsHandIn
  <2> QED BY <2>3, <2>4, <2>5 DEF ShardInv
<1>3. CASE WorkerMessage(i)
  BY <1>3 DEF WorkerMessage, ShardInv, WorkersTyped, Accounted, ShardsHandIn
<1>4. CASE WorkerExits(i)
  <2> DEFINE w == IF worker[i] = "sent" THEN "done" ELSE worker[i]
             v == IF i \in got THEN "resolved" ELSE "rejected"
  <2>1. /\ parent = "waiting" /\ worker[i] \in {"sent", "crashed", "stranded"} /\ i \notin inbox
        /\ worker' = [worker EXCEPT ![i] = w] /\ verdict' = [verdict EXCEPT ![i] = v]
        /\ UNCHANGED <<inbox, got>>
    BY <1>4 DEF WorkerExits, ExitAfterMessage
  <2>2. /\ DOMAIN worker' = DOMAIN worker /\ worker'[i] = w /\ DOMAIN verdict' = DOMAIN worker
        /\ verdict'[i] = v
        /\ \A j \in DOMAIN worker : j # i => worker'[j] = worker[j] /\ verdict'[j] = verdict[j]
    BY <2>1 DEF ShardInv, WorkersTyped
  <2>3. \/ v = "rejected" /\ parent' = "failed" /\ dir' = FALSE
        \/ /\ \A j \in DOMAIN worker : verdict'[j] = "resolved"
           /\ parent' = "merged" /\ dir' = FALSE
        \/ v = "resolved" /\ UNCHANGED <<parent, dir>>
    BY <1>4, <2>2 DEF WorkerExits, ShardInv, WorkersTyped
  <2>4. worker[i] = "sent" <=> i \in got
    BY <2>1 DEF ShardInv, Accounted
  <2>5. WorkersTyped'
    BY <2>1, <2>2, <2>3 DEF ShardInv, WorkersTyped, Workers
  <2>6. v = "rejected" => \E j \in DOMAIN worker : worker[j] = "crashed"
    BY <2>1, <2>4 DEF ShardInv, ShardsHandIn
  <2>7. \A j \in DOMAIN worker : worker[j] = "crashed" => worker'[j] = "crashed"
    BY <2>2
  <2>8. \A j \in DOMAIN worker : verdict'[j] = "resolved" => j \in got /\ worker'[j] = "done"
    BY <2>2, <2>4 DEF ShardInv, Accounted
  <2>9. Accounted'
    BY <2>1, <2>2, <2>3, <2>4, <2>6, <2>7, <2>8 DEF ShardInv, Accounted
  <2>10. ShardsHandIn'
    <3>1. (\E j \in DOMAIN worker : worker'[j] = "stranded") => \E j \in DOMAIN worker : worker'[j] = "crashed"
      <4>1. \A j \in DOMAIN worker : worker'[j] = "stranded" => worker[j] = "stranded"
        BY <2>2
      <4> QED BY <2>7, <4>1 DEF ShardInv, ShardsHandIn
    <3>2. parent' = "merged" => got' = DOMAIN worker /\ \A j \in got' : worker'[j] = "done"
      <4>1. parent' = "merged" => \A j \in DOMAIN worker : verdict'[j] = "resolved"
        BY <2>1, <2>3
      <4>2. got' = got /\ got \subseteq DOMAIN worker
        BY <2>1 DEF ShardInv, WorkersTyped
      <4> QED BY <2>8, <4>1, <4>2
    <3>3. dir' <=> parent' \in {"waiting", "killed"}
      BY <2>1, <2>3 DEF ShardInv, ShardsHandIn
    <3> QED BY <2>2, <3>1, <3>2, <3>3 DEF ShardsHandIn
  <2> QED BY <2>5, <2>9, <2>10 DEF ShardInv
<1>5. CASE WorkerCrashes(i)
  <2>1. worker[i] \in {"forked", "running"} /\ worker' = [worker EXCEPT ![i] = "crashed"]
        /\ UNCHANGED <<parent, dir, inbox, got, verdict>>
    BY <1>5 DEF WorkerCrashes
  <2>2. DOMAIN worker' = DOMAIN worker /\ worker'[i] = "crashed"
        /\ \A j \in DOMAIN worker : j # i => worker'[j] = worker[j]
    BY <2>1 DEF ShardInv, WorkersTyped
  <2>3. WorkersTyped'
    BY <2>1, <2>2 DEF ShardInv, WorkersTyped, Workers
  <2>4. Accounted'
    BY <2>1, <2>2 DEF ShardInv, WorkersTyped, Accounted
  <2>5. ShardsHandIn'
    BY <2>1, <2>2 DEF ShardInv, ShardsHandIn
  <2> QED BY <2>3, <2>4, <2>5 DEF ShardInv
<1>6. CASE WorkerLetsGo(i)
  <2>1. worker[i] = "lingering" /\ worker' = [worker EXCEPT ![i] = "sent"]
        /\ UNCHANGED <<parent, dir, inbox, got, verdict>>
    BY <1>6 DEF WorkerLetsGo
  <2>2. DOMAIN worker' = DOMAIN worker /\ worker'[i] = "sent"
        /\ \A j \in DOMAIN worker : j # i => worker'[j] = worker[j]
    BY <2>1 DEF ShardInv, WorkersTyped
  <2>3. WorkersTyped'
    BY <2>1, <2>2 DEF ShardInv, WorkersTyped, Workers
  <2>4. Accounted'
    BY <2>1, <2>2 DEF ShardInv, WorkersTyped, Accounted
  <2>5. ShardsHandIn'
    BY <2>1, <2>2 DEF ShardInv, ShardsHandIn
  <2> QED BY <2>3, <2>4, <2>5 DEF ShardInv
<1> QED BY <1>1, <1>2, <1>3, <1>4, <1>5, <1>6 DEF WorkerStep

\* Every step of a split run keeps its workers accounted for.
LEMMA ShardKeeps ==
  ASSUME ShardInv, [RunSharded \/ ShardStep]_shardVars
  PROVE  ShardInv'
<1>1. CASE RunSharded
  <2> DEFINE D == DOMAIN SplitBudget(plan.count, plan.shards)
  <2>1. /\ parent = "idle" /\ parent' = "waiting" /\ dir' = TRUE
        /\ worker' = [i \in D |-> "forked"] /\ verdict' = [i \in D |-> "pending"]
        /\ UNCHANGED <<inbox, got>>
    BY <1>1 DEF RunSharded
  <2> HIDE DEF D
  <2>2. inbox = {} /\ got = {}
    BY <2>1 DEF ShardInv, WorkersTyped, Accounted
  <2>3. WorkersTyped'
    BY <2>1, <2>2 DEF WorkersTyped, Workers
  <2>4. Accounted'
    BY <2>1, <2>2 DEF Accounted
  <2>5. ShardsHandIn'
    BY <2>1 DEF ShardsHandIn
  <2> QED BY <2>3, <2>4, <2>5 DEF ShardInv
<1>2. CASE ShardInterrupt
  BY <1>2 DEF ShardInterrupt, ShardInv, WorkersTyped, Accounted, ShardsHandIn
<1>3. CASE UNCHANGED shardVars
  BY <1>3 DEF shardVars, ShardInv, WorkersTyped, Accounted, ShardsHandIn
<1> QED BY <1>1, <1>2, <1>3, WorkerKeeps DEF ShardStep

\* However exits, messages, crashes and Ctrl+C fall together, the figures of a
\* split run are made from those of every worker, and a worker lacks its config
\* only after another one had failed.
THEOREM HandedIn == CommandSpec => []ShardsHandIn
<1>1. CommandInit => ShardInv
  <2> SUFFICES ASSUME CommandInit PROVE ShardInv
    OBVIOUS
  <2>1. parent = "idle" /\ dir = FALSE /\ worker = <<>> /\ verdict = <<>> /\ inbox = {} /\ got = {}
    BY DEF CommandInit, ShardInit
  <2>2. WorkersTyped
    <3>1. DOMAIN worker = {} /\ worker = [i \in {} |-> "forked"] /\ verdict = [i \in {} |-> "pending"]
      BY <2>1
    <3> QED BY <2>1, <3>1 DEF WorkersTyped, Workers
  <2>3. Accounted /\ ShardsHandIn
    BY <2>1 DEF Accounted, ShardsHandIn
  <2> QED BY <2>2, <2>3 DEF ShardInv
<1>2. ShardInv /\ [CommandNext]_commandVars => ShardInv'
  BY ShardPart, ShardKeeps
<1>3. ShardInv => ShardsHandIn
  BY DEF ShardInv
<1> QED BY <1>1, <1>2, <1>3, PTL DEF CommandSpec

-----------------------------------------------------------------------------
(* What the workers measure: sums, shares and figures                      *)

\* The operators of the sums and loops of engine/shard.ts and metrics/ (FoldTheory).
Adding == INSTANCE FoldTheory WITH Op <- LAMBDA none, a, b : a + b
SummingOf == INSTANCE FoldTheory WITH Op <- LAMBDA field, a, r : a + r[field]
Weighing == INSTANCE FoldTheory WITH Op <- LAMBDA field, a, s : a + s[field] * s.count
Filtering == INSTANCE FoldTheory WITH
  Op <- LAMBDA none, out, s : IF s.count > 0 THEN Append(out, s) ELSE out
Pooling == INSTANCE FoldTheory WITH Op <- LAMBDA none, sofar, m : sofar \o m.samples
Estimating == INSTANCE FoldTheory WITH Op <- LAMBDA none, e, packet : TpsRecord(e, packet)

Weight(field, sums) == FoldLeft(LAMBDA a, s : a + s[field] * s.count, 0, sums)
Pooled(ms) == FoldLeft(LAMBDA sofar, m : sofar \o m.samples, <<>>, ms)

\* The sums and loops of the merge are folds.
LEMMA MergesAreFolds ==
  /\ \A s : Total(s) = Adding!Fold(0, 0, s)
  /\ \A rows, field : SumOf(rows, field) = SummingOf!Fold(field, 0, rows)
  /\ \A sums, field : Weight(field, sums) = Weighing!Fold(field, 0, sums)
  /\ \A sums : Present(sums) = Filtering!Fold(0, <<>>, sums)
  /\ \A ms : Pooled(ms) = Pooling!Fold(0, <<>>, ms)
<1>1. \A s : Total(s) = Adding!Fold(0, 0, s)
  BY Zenon DEF Total, Adding!Fold, FoldLeft, Adding!FoldLeft,
               MapThenFoldSet, Adding!MapThenFoldSet, Max, Adding!Max
<1>2. \A rows, field : SumOf(rows, field) = SummingOf!Fold(field, 0, rows)
  BY Zenon DEF SumOf, SummingOf!Fold, FoldLeft, SummingOf!FoldLeft,
               MapThenFoldSet, SummingOf!MapThenFoldSet, Max, SummingOf!Max
<1>3. \A sums, field : Weight(field, sums) = Weighing!Fold(field, 0, sums)
  BY Zenon DEF Weight, Weighing!Fold, FoldLeft, Weighing!FoldLeft,
               MapThenFoldSet, Weighing!MapThenFoldSet, Max, Weighing!Max
<1>4. \A sums : Present(sums) = Filtering!Fold(0, <<>>, sums)
  BY Zenon DEF Present, Filtering!Fold, FoldLeft, Filtering!FoldLeft,
               MapThenFoldSet, Filtering!MapThenFoldSet, Max, Filtering!Max
<1>5. \A ms : Pooled(ms) = Pooling!Fold(0, <<>>, ms)
  BY Zenon DEF Pooled, Pooling!Fold, FoldLeft, Pooling!FoldLeft,
               MapThenFoldSet, Pooling!MapThenFoldSet, Max, Pooling!Max
<1> QED BY <1>1, <1>2, <1>3, <1>4, <1>5

\* The sum of nothing is 0, and one more number adds that number.
LEMMA TotalAdds ==
  /\ Total(<<>>) = 0
  /\ \A s \in Seq(Int), x \in Int : Total(Append(s, x)) = Total(s) + x
  /\ \A s \in Seq(Nat) : Total(s) \in Nat
  /\ \A s \in Seq(Int) : Total(s) \in Int
<1>1. Total(<<>>) = 0
  BY MergesAreFolds, Adding!FoldEmpty
<1>2. \A s \in Seq(Int), x \in Int : Total(Append(s, x)) = Total(s) + x
  BY MergesAreFolds, Adding!FoldAppend
<1>3. \A s \in Seq(Nat) : Adding!Fold(0, 0, s) \in Nat
  <2>1. \A v \in Nat, x \in Nat : v + x \in Nat
    OBVIOUS
  <2> QED BY <2>1, Adding!FoldStays
<1>4. \A s \in Seq(Int) : Adding!Fold(0, 0, s) \in Int
  <2>1. \A v \in Int, x \in Int : v + x \in Int
    OBVIOUS
  <2> QED BY <2>1, Adding!FoldStays
<1> QED BY <1>1, <1>2, <1>3, <1>4, MergesAreFolds

\* splitBudget(): no bot is lost, no worker is idle, and none has more than one
\* bot more than another.
LEMMA BudgetsAddUp ==
  ASSUME NEW total \in Nat \ {0}, NEW shards \in Nat \ {0},
         NEW b, b = SplitBudget(total, shards)
  PROVE  /\ b \in Seq(Nat) /\ DOMAIN b = 1..Len(b) /\ Len(b) \in Nat \ {0}
         /\ Len(b) <= MostOf(1, shards)
         /\ Total(b) = total
         /\ \A i, j \in DOMAIN b : b[i] >= 1 /\ b[i] <= b[j] + 1
         /\ \A i \in DOMAIN b : b[i] <= total
<1> DEFINE n == MostOf(1, LeastOf(shards, total))
           base == total \div n
           rem == total % n
<1>1. n \in Nat /\ n >= 1 /\ n <= total /\ n <= shards /\ MostOf(1, shards) = shards
  BY DEF MostOf, LeastOf
<1>2. b = [i \in 1..n |-> base + IF i <= rem THEN 1 ELSE 0]
  BY DEF SplitBudget
<1> HIDE DEF n
<1>3. base \in Nat /\ base >= 1 /\ rem \in Nat /\ rem < n /\ total = n * base + rem
  BY <1>1
<1> HIDE DEF base, rem
<1> DEFINE share == [i \in 1..n |-> base + IF i <= rem THEN 1 ELSE 0]
           first(k) == [i \in 1..k |-> share[i]]
           upto(k) == IF k <= rem THEN k ELSE rem
           T == {k \in Nat : k <= n => Total(first(k)) = k * base + upto(k)}
<1>4. \A i \in 1..n : share[i] \in Nat /\ share[i] = base + IF i <= rem THEN 1 ELSE 0
  BY <1>3
<1> HIDE DEF share
<1>5. 0 \in T
  <2>1. first(0) = <<>>
    OBVIOUS
  <2>2. upto(0) = 0 /\ 0 * base = 0
    BY <1>3
  <2> HIDE DEF first, upto
  <2> QED BY <2>1, <2>2, TotalAdds
<1>6. ASSUME NEW k \in Nat, k \in T PROVE k + 1 \in T
  <2> SUFFICES ASSUME k + 1 <= n PROVE Total(first(k + 1)) = (k + 1) * base + upto(k + 1)
    OBVIOUS
  <2>1. \A i \in 1..(k + 1) : share[i] \in Nat
    BY <1>1, <1>4
  <2>2. first(k) \in Seq(Nat) /\ first(k + 1) = Append(first(k), share[k + 1])
    BY <2>1, Adding!PrefixGrows
  <2>3. k + 1 \in 1..n /\ k <= n
    BY <1>1
  <2>4. share[k + 1] = base + (IF k + 1 <= rem THEN 1 ELSE 0) /\ share[k + 1] \in Int
    BY <1>4, <2>3
  <2>5. Total(first(k)) = k * base + upto(k)
    BY <1>6, <2>3
  <2>6. first(k) \in Seq(Int)
    BY <2>1
  <2> HIDE DEF first
  <2>7. Total(first(k + 1)) = Total(first(k)) + share[k + 1]
    BY <2>2, <2>4, <2>6, TotalAdds
  <2>8. (k + 1) * base = k * base + base /\ k * base \in Nat
    BY <1>3
  <2>9. upto(k + 1) = upto(k) + (IF k + 1 <= rem THEN 1 ELSE 0)
    BY <1>3
  <2>10. upto(k) \in Nat
    BY <1>3
  <2> DEFINE kb == k * base
             u == upto(k)
             d == IF k + 1 <= rem THEN 1 ELSE 0
  <2>11. d \in Nat
    OBVIOUS
  <2>12. Total(first(k)) = kb + u /\ Total(first(k + 1)) = Total(first(k)) + (base + d)
         /\ (k + 1) * base = kb + base /\ upto(k + 1) = u + d
    BY <2>4, <2>5, <2>7, <2>8, <2>9
  <2> HIDE DEF kb, u, d, upto
  <2> QED BY <1>3, <2>8, <2>10, <2>11, <2>12 DEF kb, u
<1>7. \A k \in Nat : k \in T
  <2> HIDE DEF T
  <2> QED BY <1>5, <1>6, Adding!SetInduction
<1>8. Total(first(n)) = total
  <2>1. Total(first(n)) = n * base + upto(n)
    BY <1>1, <1>7
  <2>2. upto(n) = rem
    BY <1>1, <1>3
  <2> HIDE DEF first, upto
  <2> QED BY <1>3, <2>1, <2>2
<1>9. first(n) = b
  <2>1. first(n) = [i \in 1..n |-> base + IF i <= rem THEN 1 ELSE 0]
    BY <1>4
  <2> HIDE DEF first
  <2> QED BY <1>2, <2>1
<1>10. b \in [1..n -> Nat] /\ \A i \in 1..n : b[i] = base + IF i <= rem THEN 1 ELSE 0
  BY <1>2, <1>3
<1>11. b \in Seq(Nat) /\ Len(b) = n /\ DOMAIN b = 1..n
  <2>1. b \in Seq(Nat)
    BY <1>1, <1>10, SeqDef
  <2> QED BY <1>1, <1>10, <2>1, LenProperties
<1>12. \A i, j \in 1..n : b[i] >= 1 /\ b[i] <= b[j] + 1
  BY <1>3, <1>10
<1>13. \A i \in 1..n : b[i] <= total
  <2> SUFFICES ASSUME NEW i \in 1..n PROVE b[i] <= total
    OBVIOUS
  <2>1. n * base >= base
    <3>1. n * base = (n - 1) * base + base /\ (n - 1) * base \in Nat
      BY <1>1, <1>3
    <3> QED BY <1>3, <3>1
  <2>2. n * base \in Nat
    BY <1>1, <1>3
  <2> DEFINE nb == n * base
  <2>3. total = nb + rem /\ nb >= base /\ nb \in Nat
    BY <1>3, <2>1, <2>2
  <2>4. b[i] = base \/ (b[i] = base + 1 /\ rem >= 1)
    BY <1>3, <1>10
  <2> HIDE DEF nb
  <2> QED BY <1>3, <2>3, <2>4
<1>14. Total(b) = total
  BY <1>8, <1>9
<1>15. Len(b) \in Nat \ {0} /\ Len(b) <= MostOf(1, shards)
  BY <1>1, <1>11
<1> HIDE DEF first
<1> QED BY <1>11, <1>12, <1>13, <1>14, <1>15

\* The elements of a sequence that another one is appended to.
LEMMA AppendSet ==
  ASSUME NEW S, NEW s \in Seq(S), NEW x \in S
  PROVE  Append(s, x) \in Seq(S) /\ ToSet(Append(s, x)) = ToSet(s) \cup {x}
<1> DEFINE a == Append(s, x)
<1>1. /\ a \in Seq(S) /\ Len(s) \in Nat /\ a[Len(s) + 1] = x /\ \A i \in 1..Len(s) : a[i] = s[i]
      /\ DOMAIN s = 1..Len(s) /\ DOMAIN a = 1..(Len(s) + 1)
  BY AppendProperties, LenProperties
<1> HIDE DEF a
<1>2. \A i \in 1..(Len(s) + 1) : i = Len(s) + 1 \/ i \in 1..Len(s)
  BY <1>1
<1>3. Len(s) + 1 \in 1..(Len(s) + 1) /\ \A i \in 1..Len(s) : i \in 1..(Len(s) + 1)
  BY <1>1
<1>4. ToSet(a) = ToSet(s) \cup {x}
  BY <1>1, <1>2, <1>3 DEF ToSet
<1> QED BY <1>1, <1>4 DEF a

\* A set of natural numbers has a least one.
LEMMA LeastExists ==
  ASSUME NEW S, S \subseteq Nat, S # {}
  PROVE  Min(S) \in S /\ \A y \in S : Min(S) <= y
<1> DEFINE least == \E m \in S : \A y \in S : m <= y
           T == {n \in Nat : (\E x \in S : x <= n) => least}
<1>1. 0 \in T
  <2> SUFFICES ASSUME NEW x \in S, x <= 0 PROVE least
    OBVIOUS
  <2>1. x = 0 /\ \A y \in S : x <= y
    OBVIOUS
  <2> QED BY <2>1
<1>2. ASSUME NEW n \in Nat, n \in T PROVE n + 1 \in T
  <2> SUFFICES ASSUME NEW x \in S, x <= n + 1 PROVE least
    OBVIOUS
  <2>1. CASE \E y \in S : y <= n
    BY <1>2, <2>1
  <2>2. CASE \A y \in S : ~(y <= n)
    <3>1. \A y \in S : x <= y
      BY <2>2
    <3> QED BY <3>1
  <2> QED BY <2>1, <2>2
<1>3. \A n \in Nat : n \in T
  <2> HIDE DEF T
  <2> QED BY <1>1, <1>2, Adding!SetInduction
<1>4. least
  <2>1. PICK x \in S : TRUE
    OBVIOUS
  <2>2. x \in Nat /\ x <= x
    OBVIOUS
  <2> QED BY <1>3, <2>1, <2>2
<1> QED BY <1>4, Zenon DEF Min

\* The elements of a sequence that is not empty have a greatest.
LEMMA GreatestExists ==
  ASSUME NEW s \in Seq(Nat), s # <<>>
  PROVE  Max(ToSet(s)) \in ToSet(s) /\ \A y \in ToSet(s) : Max(ToSet(s)) >= y
<1> DEFINE top(u) == \E m \in ToSet(u) : \A y \in ToSet(u) : m >= y
           T == {u \in Seq(Nat) : u = <<>> \/ top(u)}
<1>1. <<>> \in T
  BY EmptySeq
<1>2. ASSUME NEW u \in Seq(Nat), NEW x \in Nat, u \in T PROVE Append(u, x) \in T
  <2>1. Append(u, x) \in Seq(Nat) /\ ToSet(Append(u, x)) = ToSet(u) \cup {x}
    BY AppendSet
  <2>2. ToSet(u) \subseteq Nat
    BY ElementOfSeq, LenProperties DEF ToSet
  <2>3. top(Append(u, x))
    <3>1. CASE u = <<>>
      <4>1. ToSet(u) = {}
        BY <3>1 DEF ToSet
      <4> QED BY <2>1, <4>1
    <3>2. CASE u # <<>>
      <4>1. PICK m \in ToSet(u) : \A y \in ToSet(u) : m >= y
        BY <1>2, <3>2
      <4>2. CASE m >= x
        BY <2>1, <4>1, <4>2
      <4>3. CASE ~(m >= x)
        <5>1. \A y \in ToSet(u) \cup {x} : x >= y
          BY <2>2, <4>1, <4>3
        <5> QED BY <2>1, <5>1
      <4> QED BY <4>2, <4>3
    <3> QED BY <3>1, <3>2
  <2> QED BY <2>1, <2>3
<1>3. \A u \in Seq(Nat) : u \in T
  <2> HIDE DEF T
  <2> QED BY <1>1, <1>2, Adding!SeqInduction
<1> QED BY <1>3, Zenon DEF Max

\* What the figures of a worker and of all workers are made of.
Rows == [count : Nat, min : Nat, max : Nat, mean : Nat, p50 : Nat, p95 : Nat]
GoodRows == {r \in Rows : r.count >= 1 /\ r.min <= r.p50 /\ r.p50 <= r.p95 /\ r.p95 <= r.max}

\* A multiple leaves no rest.
LEMMA MultipleDivides ==
  ASSUME NEW n \in Nat \ {0}, NEW k \in Nat
  PROVE  (n * k) % n = 0
<1> DEFINE q == (n * k) \div n
           r == (n * k) % n
<1>1. n * k \in Nat
  OBVIOUS
<1>2. q \in Int /\ r \in 0..(n - 1) /\ n * k = n * q + r
  <2> DEFINE t == n * k
  <2>1. t \in Nat
    OBVIOUS
  <2> HIDE DEF t
  <2>2. t \div n \in Int /\ t % n \in 0..(n - 1) /\ t = n * (t \div n) + (t % n)
    BY <2>1
  <2> QED BY <2>2 DEF t
<1> HIDE DEF q, r
<1> DEFINE d == k - q
<1>3. d \in Int /\ n * d = r
  <2>1. n * (k - q) = n * k - n * q
    BY <1>2
  <2> DEFINE a == n * k
             b == n * q
  <2>2. a \in Int /\ b \in Int /\ a = b + r /\ n * (k - q) = a - b
    BY <1>2, <2>1
  <2> HIDE DEF a, b
  <2> QED BY <1>2, <2>2
<1> HIDE DEF d
<1>4. d <= 0
  <2> SUFFICES ASSUME d >= 1 PROVE FALSE
    BY <1>3
  <2>1. n * d >= n
    BY <1>3
  <2> QED BY <1>2, <1>3, <2>1
<1>5. d >= 0
  <2> SUFFICES ASSUME d <= -1 PROVE FALSE
    BY <1>3
  <2>1. n * d <= -n
    BY <1>3
  <2> QED BY <1>2, <1>3, <2>1
<1>6. d = 0
  BY <1>3, <1>4, <1>5
<1>7. r = 0
  BY <1>3, <1>6
<1> QED BY <1>7 DEF r

\* A sum of multiples is one.
LEMMA TotalDivides ==
  ASSUME NEW n \in Nat \ {0}, NEW s \in Seq(Nat), \A i \in DOMAIN s : s[i] % n = 0
  PROVE  Total(s) \in Nat /\ (Total(s) \div n) \in Nat /\ (Total(s) \div n) * n = Total(s)
<1> DEFINE D == {t \in Nat : \E k \in Nat : t = n * k}
<1>1. \A v \in D, x \in D : v + x \in D
  <2> SUFFICES ASSUME NEW v \in D, NEW x \in D PROVE v + x \in D
    OBVIOUS
  <2>1. PICK a \in Nat : v = n * a
    OBVIOUS
  <2>2. PICK b \in Nat : x = n * b
    OBVIOUS
  <2>3. n * a + n * b = n * (a + b) /\ a + b \in Nat /\ n * a \in Nat /\ n * b \in Nat
    OBVIOUS
  <2>4. v + x = n * (a + b) /\ v + x \in Nat
    BY <2>1, <2>2, <2>3
  <2> QED BY <2>3, <2>4
<1>2. 0 \in D
  <2>1. n * 0 = 0
    OBVIOUS
  <2> QED BY <2>1
<1>3. s \in Seq(D)
  <2>1. \A i \in 1..Len(s) : s[i] \in D
    <3> SUFFICES ASSUME NEW i \in 1..Len(s) PROVE s[i] \in D
      OBVIOUS
    <3> DEFINE t == s[i]
    <3>1. t \in Nat /\ t % n = 0
      BY ElementOfSeq, LenProperties
    <3> HIDE DEF t
    <3>2. t = n * (t \div n) /\ t \div n \in Nat
      BY <3>1
    <3> QED BY <3>1, <3>2 DEF t
  <2>2. s \in [1..Len(s) -> D]
    <3> HIDE DEF D
    <3> QED BY <2>1, LenProperties
  <2> HIDE DEF D
  <2> QED BY <2>2, SeqDef, LenProperties
<1>4. Total(s) \in D
  <2> HIDE DEF D
  <2>1. \A u \in Seq(D) : Adding!Fold(0, 0, u) \in D
    BY <1>1, <1>2, Adding!FoldStays
  <2> QED BY <1>3, <2>1, MergesAreFolds
<1> DEFINE t == Total(s)
<1>5. PICK k \in Nat : t \in Nat /\ t = n * k
  BY <1>4
<1>6. t % n = 0
  BY <1>5, MultipleDivides
<1> HIDE DEF t, D
<1>7. t = n * (t \div n) /\ t \div n \in Nat
  BY <1>5, <1>6
<1>8. n * (t \div n) = (t \div n) * n
  BY <1>7
<1> QED BY <1>5, <1>7, <1>8 DEF t

\* quantile(): a nearest-rank percentile is one of the samples, and a higher one is
\* not less.
LEMMA QuantilesOrdered ==
  ASSUME NEW s \in Seq(Nat), s # <<>>
  PROVE  /\ Quantile(s, 50) \in ToSet(s) /\ Quantile(s, 95) \in ToSet(s)
         /\ Quantile(s, 50) <= Quantile(s, 95)
<1> DEFINE n == Len(s)
           rank(p) == MostOf(1, (p * n + 99) \div 100)
           upto(v) == Cardinality({i \in DOMAIN s : s[i] <= v})
           Q(p) == {v \in ToSet(s) : upto(v) >= rank(p)}
           m == Max(ToSet(s))
<1>1. n \in Nat /\ n >= 1 /\ DOMAIN s = 1..n
  BY EmptySeq, LenProperties
<1>2. m \in ToSet(s) /\ \A y \in ToSet(s) : m >= y
  BY GreatestExists
<1>3. ToSet(s) \subseteq Nat
  BY ElementOfSeq, LenProperties DEF ToSet
<1>4. Quantile(s, 50) = Min(Q(50)) /\ Quantile(s, 95) = Min(Q(95))
  BY DEF Quantile
<1> HIDE DEF n, m
<1>5. rank(50) \in Nat /\ rank(95) \in Nat /\ rank(50) <= rank(95) /\ rank(95) <= n
  BY <1>1 DEF MostOf
<1>6. upto(m) = n
  <2>1. \A i \in 1..n : s[i] \in Nat /\ s[i] <= m
    BY <1>1, <1>2, <1>3 DEF ToSet
  <2>2. {i \in DOMAIN s : s[i] <= m} = 1..n
    BY <1>1, <2>1
  <2>3. Cardinality(1..n) = n
    <3>1. 1 \in Int /\ n \in Int
      BY <1>1
    <3>2. Cardinality(1..n) = IF 1 > n THEN 0 ELSE n - 1 + 1
      BY <3>1, FS_Interval
    <3> QED BY <1>1, <3>2
  <2> QED BY <2>2, <2>3
<1>7. \A v : upto(v) \in Nat
  <2> SUFFICES ASSUME NEW v PROVE upto(v) \in Nat
    OBVIOUS
  <2>1. IsFiniteSet(1..n) /\ {i \in DOMAIN s : s[i] <= v} \in SUBSET (1..n)
    BY <1>1, FS_Interval
  <2> QED BY <2>1, FS_Subset, FS_CardinalityType
<1> HIDE DEF rank, upto
<1>8. m \in Q(95) /\ Q(95) \subseteq Q(50) /\ Q(50) \subseteq ToSet(s)
  BY <1>1, <1>2, <1>5, <1>6, <1>7
<1> HIDE DEF Q
<1>9. Min(Q(95)) \in Q(95) /\ Min(Q(50)) \in Q(50) /\ \A y \in Q(50) : Min(Q(50)) <= y
  BY <1>3, <1>8, LeastExists
<1> QED BY <1>4, <1>8, <1>9

\* summary(): the figures of samples are in their order; and with whole means the
\* mean times the number is the sum.
LEMMA SummaryIs ==
  ASSUME NEW s \in Seq(Nat), \A i \in DOMAIN s : s[i] % Len(s) = 0,
         NEW r, r = Summary(s)
  PROVE  /\ r \in Rows /\ r.count = Len(s) /\ r.mean * r.count = Total(s)
         /\ s # <<>> => /\ r \in GoodRows
                        /\ r.min \in ToSet(s) /\ r.max \in ToSet(s)
                        /\ \A x \in ToSet(s) : r.min <= x /\ x <= r.max
<1>1. CASE s = <<>>
  <2>1. r = NoSummary /\ Len(s) = 0
    BY <1>1 DEF Summary
  <2>2. Total(s) = 0
    BY <1>1, TotalAdds
  <2> QED BY <1>1, <2>1, <2>2 DEF NoSummary, Rows
<1>2. CASE s # <<>>
  <2> DEFINE n == Len(s)
             S == ToSet(s)
             mean == Total(s) \div n
             p == Quantile(s, 50)
             q == Quantile(s, 95)
             lo == Min(S)
             hi == Max(S)
  <2>1. r = [count |-> n, min |-> lo, max |-> hi, mean |-> mean, p50 |-> p, p95 |-> q]
    BY <1>2 DEF Summary
  <2>2. n \in Nat \ {0}
    BY <1>2, EmptySeq
  <2>3. Total(s) \in Nat /\ Total(s) \div n \in Nat /\ (Total(s) \div n) * n = Total(s)
    <3>1. \A i \in DOMAIN s : s[i] % n = 0
      OBVIOUS
    <3> HIDE DEF n
    <3> QED BY <2>2, <3>1, TotalDivides
  <2>4. mean \in Nat /\ mean * n = Total(s)
    BY <2>3
  <2>5. p \in S /\ q \in S /\ p <= q
    BY <1>2, QuantilesOrdered
  <2>6. S \subseteq Nat /\ S # {}
    BY <2>5, ElementOfSeq, LenProperties DEF ToSet
  <2>7. hi \in S /\ \A y \in S : hi >= y
    BY <1>2, GreatestExists
  <2> HIDE DEF n, mean, p, q, S
  <2>8. lo \in S /\ \A y \in S : lo <= y
    BY <2>6, LeastExists
  <2> HIDE DEF lo, hi
  <2>9. r \in Rows
    BY <2>1, <2>2, <2>4, <2>5, <2>6, <2>7, <2>8 DEF Rows
  <2>10. lo <= p /\ q <= hi
    BY <2>5, <2>6, <2>7, <2>8
  <2>11. \A x \in S : lo <= x /\ x <= hi
    BY <2>6, <2>7, <2>8
  <2>12. r \in GoodRows
    BY <2>1, <2>2, <2>5, <2>9, <2>10 DEF GoodRows
  <2>13. r.count = n /\ r.mean = mean /\ r.min = lo /\ r.max = hi
    BY <2>1
  <2>14. r.mean * r.count = Total(s)
    BY <2>4, <2>13
  <2> QED BY <2>7, <2>8, <2>9, <2>11, <2>12, <2>13, <2>14 DEF n, S
<1> QED BY <1>1, <1>2
\* The sums and the list of a merge, one element at a time.
LEMMA SumsAdd ==
  ASSUME NEW R, NEW rows \in Seq(R), NEW r \in R, NEW field
  PROVE  /\ SumOf(<<>>, field) = 0 /\ Weight(field, <<>>) = 0 /\ Present(<<>>) = <<>>
         /\ SumOf(Append(rows, r), field) = SumOf(rows, field) + r[field]
         /\ Weight(field, Append(rows, r)) = Weight(field, rows) + r[field] * r.count
         /\ Present(Append(rows, r)) =
              IF r.count > 0 THEN Append(Present(rows), r) ELSE Present(rows)
<1>1. SumOf(<<>>, field) = 0 /\ Weight(field, <<>>) = 0 /\ Present(<<>>) = <<>>
  BY MergesAreFolds, SummingOf!FoldEmpty, Weighing!FoldEmpty, Filtering!FoldEmpty
<1>2. SumOf(Append(rows, r), field) = SumOf(rows, field) + r[field]
  BY MergesAreFolds, SummingOf!FoldAppend
<1>3. Weight(field, Append(rows, r)) = Weight(field, rows) + r[field] * r.count
  BY MergesAreFolds, Weighing!FoldAppend
<1>4. Present(Append(rows, r)) =
        IF r.count > 0 THEN Append(Present(rows), r) ELSE Present(rows)
  BY MergesAreFolds, Filtering!FoldAppend
<1> QED BY <1>1, <1>2, <1>3, <1>4


\* Appending to the second of two lists, and what two lists hold.
LEMMA ConcatGrows ==
  ASSUME NEW S, NEW s \in Seq(S), NEW u \in Seq(S), NEW x \in S
  PROVE  s \o Append(u, x) = Append(s \o u, x)
<1>1. <<x>> \in Seq(S) /\ s \o u \in Seq(S)
  BY ConcatProperties
<1>2. Append(u, x) = u \o <<x>> /\ Append(s \o u, x) = (s \o u) \o <<x>>
  BY <1>1, AppendIsConcat
<1>3. (s \o u) \o <<x>> = s \o (u \o <<x>>)
  BY <1>1, ConcatAssociative
<1> QED BY <1>2, <1>3

\* The sum of what two lists hold is the sum of their sums.
LEMMA TotalConcat ==
  ASSUME NEW s \in Seq(Nat), NEW t \in Seq(Nat)
  PROVE  Total(s \o t) = Total(s) + Total(t)
<1> DEFINE T == {u \in Seq(Nat) : Total(s \o u) = Total(s) + Total(u)}
<1>1. <<>> \in T
  <2>1. s \o <<>> = s /\ <<>> \in Seq(Nat) /\ Total(<<>>) = 0 /\ Total(s) \in Nat
    BY ConcatEmptySeq, EmptySeq, TotalAdds
  <2> QED BY <2>1
<1>2. ASSUME NEW u \in Seq(Nat), NEW x \in Nat, u \in T PROVE Append(u, x) \in T
  <2>1. s \o Append(u, x) = Append(s \o u, x)
    BY ConcatGrows
  <2>2. s \o u \in Seq(Nat) /\ Append(u, x) \in Seq(Nat)
    BY ConcatProperties, AppendProperties
  <2>3. \A v \in Seq(Nat) : v \in Seq(Int)
    OBVIOUS
  <2> DEFINE v == s \o u
             w == Append(u, x)
  <2>4. Total(Append(v, x)) = Total(v) + x /\ Total(w) = Total(u) + x
    <3>1. v \in Seq(Int) /\ u \in Seq(Int) /\ x \in Int
      BY <2>2, <2>3
    <3> HIDE DEF v
    <3> QED BY <3>1, TotalAdds
  <2>5. Total(s) \in Nat /\ Total(u) \in Nat
    BY TotalAdds
  <2>6. Total(v) = Total(s) + Total(u)
    BY <1>2
  <2>7. s \o w = Append(v, x) /\ w \in Seq(Nat)
    BY <2>1, <2>2
  <2> HIDE DEF v, w
  <2>8. Total(s \o w) = Total(s) + Total(w)
    BY <2>4, <2>5, <2>6, <2>7
  <2> QED BY <2>7, <2>8 DEF w
<1>3. \A u \in Seq(Nat) : u \in T
  <2> HIDE DEF T
  <2> QED BY <1>1, <1>2, Adding!SeqInduction
<1> QED BY <1>3

\* The elements of two lists.
LEMMA ConcatSet ==
  ASSUME NEW S, NEW s \in Seq(S), NEW t \in Seq(S)
  PROVE  ToSet(s \o t) = ToSet(s) \cup ToSet(t)
<1> DEFINE T == {u \in Seq(S) : ToSet(s \o u) = ToSet(s) \cup ToSet(u)}
<1>1. <<>> \in T
  <2>1. s \o <<>> = s /\ <<>> \in Seq(S) /\ ToSet(<<>>) = {}
    BY ConcatEmptySeq, EmptySeq DEF ToSet
  <2> QED BY <2>1
<1>2. ASSUME NEW u \in Seq(S), NEW x \in S, u \in T PROVE Append(u, x) \in T
  <2>1. s \o Append(u, x) = Append(s \o u, x)
    BY ConcatGrows
  <2>2. s \o u \in Seq(S)
    BY ConcatProperties
  <2> DEFINE v == s \o u
  <2>3. ToSet(Append(v, x)) = ToSet(v) \cup {x}
    <3>1. v \in Seq(S)
      BY <2>2
    <3> HIDE DEF v
    <3> QED BY <3>1, AppendSet
  <2>4. Append(u, x) \in Seq(S) /\ ToSet(Append(u, x)) = ToSet(u) \cup {x}
    BY AppendSet
  <2> QED BY <1>2, <2>1, <2>3, <2>4
<1>3. \A u \in Seq(S) : u \in T
  <2> HIDE DEF T
  <2> QED BY <1>1, <1>2, Adding!SeqInduction
<1> QED BY <1>3

\* A list whose elements are replaced one by one.
Mapped(f, s) == [i \in DOMAIN s |-> f[s[i]]]

\* It is as long as the other one.
LEMMA MapIs ==
  ASSUME NEW S, NEW R, NEW f \in [S -> R], NEW v \in Seq(S)
  PROVE  Mapped(f, v) \in Seq(R) /\ Len(Mapped(f, v)) = Len(v)
<1>1. Mapped(f, v) \in [1..Len(v) -> R] /\ Len(v) \in Nat /\ DOMAIN v = 1..Len(v)
  BY ElementOfSeq, LenProperties DEF Mapped
<1>2. Mapped(f, v) \in Seq(R)
  BY <1>1, SeqDef
<1> QED BY <1>1, <1>2, LenProperties

\* One more element is one more of those.
LEMMA MapGrows ==
  ASSUME NEW S, NEW R, NEW f \in [S -> R], NEW u \in Seq(S), NEW x \in S
  PROVE  Mapped(f, Append(u, x)) = Append(Mapped(f, u), f[x])
<1>1. \A v \in Seq(S) : /\ Mapped(f, v) \in [1..Len(v) -> R] /\ Len(v) \in Nat
                        /\ DOMAIN v = 1..Len(v)
  BY ElementOfSeq, LenProperties DEF Mapped
<1>2. ASSUME NEW v \in Seq(S) PROVE Mapped(f, v) \in Seq(R) /\ Len(Mapped(f, v)) = Len(v)
  <2>1. Mapped(f, v) \in Seq(R)
    BY <1>1, SeqDef
  <2> QED BY <1>1, <2>1, LenProperties
<1>4. Mapped(f, Append(u, x)) = Append(Mapped(f, u), f[x])
  <2> DEFINE a == Append(u, x)
             b == Mapped(f, a)
             c == Append(Mapped(f, u), f[x])
             n == Len(u)
  <2>1. a \in Seq(S) /\ Len(a) = n + 1 /\ a[n + 1] = x /\ \A i \in 1..n : a[i] = u[i]
    BY AppendProperties
  <2>2. n \in Nat /\ Mapped(f, u) \in Seq(R) /\ Len(Mapped(f, u)) = n /\ f[x] \in R
    BY <1>1, <1>2
  <2>3. c \in Seq(R) /\ Len(c) = n + 1 /\ c[n + 1] = f[x]
        /\ \A i \in 1..n : c[i] = Mapped(f, u)[i]
    BY <2>2, AppendProperties
  <2>4. \A i \in 1..n : Mapped(f, u)[i] = f[u[i]]
    BY <1>1 DEF Mapped
  <2> HIDE DEF a
  <2>5. b \in Seq(R) /\ Len(b) = n + 1
    BY <1>2, <2>1
  <2>6. \A i \in 1..(n + 1) : b[i] = f[a[i]]
    BY <1>1, <2>1 DEF Mapped
  <2> HIDE DEF b, c, n
  <2>7. \A i \in 1..(n + 1) : i = n + 1 \/ i \in 1..n
    BY <2>2
  <2>8. n + 1 \in 1..(n + 1) /\ \A i \in 1..n : i \in 1..(n + 1)
    BY <2>2
  <2>9. \A i \in 1..(n + 1) : b[i] = c[i]
    BY <2>1, <2>3, <2>4, <2>6, <2>7, <2>8
  <2>10. b = c
    BY <2>3, <2>5, <2>9, SeqEqual
  <2> QED BY <2>10 DEF a, b, c
<1> QED BY <1>4

\* A sum over a field is the sum of the list of its values.
LEMMA SumIsTotal ==
  ASSUME NEW R, NEW field, NEW rows \in Seq(R), \A r \in R : r[field] \in Nat
  PROVE  SumOf(rows, field) = Total([i \in DOMAIN rows |-> rows[i][field]])
<1> DEFINE f == [r \in R |-> r[field]]
           T == {s \in Seq(R) : SumOf(s, field) = Total(Mapped(f, s))}
<1>1. f \in [R -> Nat] /\ \A r \in R : f[r] = r[field]
  OBVIOUS
<1> HIDE DEF f
<1>2. <<>> \in T
  <2>1. Mapped(f, <<>>) = <<>> /\ Total(<<>>) = 0
    BY TotalAdds DEF Mapped
  <2>2. SumOf(<<>>, field) = 0
    BY MergesAreFolds, SummingOf!FoldEmpty
  <2> QED BY <2>1, <2>2, EmptySeq
<1>3. ASSUME NEW s \in Seq(R), NEW r \in R, s \in T PROVE Append(s, r) \in T
  <2> DEFINE m == Mapped(f, s)
             a == Append(s, r)
  <2>1. Mapped(f, a) = Append(m, f[r]) /\ m \in Seq(Nat)
    <3>1. Mapped(f, Append(s, r)) = Append(Mapped(f, s), f[r])
      BY <1>1, MapGrows
    <3>2. Mapped(f, s) \in Seq(Nat)
      BY <1>1, MapIs
    <3> QED BY <3>1, <3>2
  <2>2. SumOf(a, field) = SumOf(s, field) + r[field]
    BY SumsAdd
  <2>3. f[r] \in Int /\ f[r] = r[field] /\ \A v \in Seq(Nat) : v \in Seq(Int)
    BY <1>1
  <2>4. m \in Seq(Int)
    BY <2>1, <2>3
  <2>5. SumOf(s, field) = Total(m)
    BY <1>3
  <2>6. a \in Seq(R)
    BY AppendProperties
  <2> HIDE DEF m, a
  <2>7. Total(Append(m, f[r])) = Total(m) + f[r]
    BY <2>3, <2>4, TotalAdds
  <2>8. SumOf(a, field) = Total(Mapped(f, a))
    BY <2>1, <2>2, <2>3, <2>5, <2>7
  <2> QED BY <2>6, <2>8 DEF a
<1>4. \A s \in Seq(R) : s \in T
  <2> HIDE DEF T
  <2> QED BY <1>2, <1>3, Adding!SeqInduction
<1>5. SumOf(rows, field) = Total(Mapped(f, rows))
  BY <1>4
<1>6. Mapped(f, rows) = [i \in DOMAIN rows |-> rows[i][field]]
  <2>1. \A i \in DOMAIN rows : rows[i] \in R
    BY ElementOfSeq, LenProperties
  <2> QED BY <1>1, <2>1 DEF Mapped
<1> QED BY <1>5, <1>6

\* A sum of parts is within as many times the sum of what each part is within.
LEMMA SumWithin ==
  ASSUME NEW R, NEW few, NEW many, NEW k \in Nat, NEW rows \in Seq(R),
         \A r \in R : r[few] \in Nat /\ r[many] \in Nat /\ r[few] <= k * r[many]
  PROVE  /\ SumOf(rows, few) \in Nat /\ SumOf(rows, many) \in Nat
         /\ SumOf(rows, few) <= k * SumOf(rows, many)
<1> DEFINE B(s) == /\ SumOf(s, few) \in Nat /\ SumOf(s, many) \in Nat
                   /\ SumOf(s, few) <= k * SumOf(s, many)
           T == {s \in Seq(R) : B(s)}
<1>1. <<>> \in T
  <2>1. SumOf(<<>>, few) = 0 /\ SumOf(<<>>, many) = 0 /\ k * 0 = 0
    BY MergesAreFolds, SummingOf!FoldEmpty
  <2> QED BY <2>1, EmptySeq
<1>2. ASSUME NEW s \in Seq(R), NEW r \in R, s \in T PROVE Append(s, r) \in T
  <2> DEFINE a == Append(s, r)
             f == SumOf(s, few)
             m == SumOf(s, many)
             x == r[few]
             y == r[many]
  <2>1. SumOf(a, few) = f + x
    BY SumsAdd
  <2>2. SumOf(a, many) = m + y
    BY SumsAdd
  <2>3. f \in Nat /\ m \in Nat /\ f <= k * m /\ x \in Nat /\ y \in Nat /\ x <= k * y
    BY <1>2
  <2>4. a \in Seq(R)
    BY AppendProperties
  <2> HIDE DEF a, f, m, x, y
  <2>5. k * (m + y) = k * m + k * y /\ k * m \in Nat /\ k * y \in Nat
    BY <2>3
  <2>6. f + x \in Nat /\ m + y \in Nat /\ f + x <= k * (m + y)
    BY <2>3, <2>5
  <2>7. B(a)
    BY <2>1, <2>2, <2>6
  <2> HIDE DEF B
  <2> QED BY <2>4, <2>7 DEF a
<1>3. \A s \in Seq(R) : s \in T
  <2> HIDE DEF T
  <2> QED BY <1>1, <1>2, Adding!SeqInduction
<1> QED BY <1>3

\* Factors and divisors keep an order.
LEMMA OrderKept ==
  /\ \A a, b, c \in Nat : a <= b => a * c <= b * c /\ a * c \in Nat /\ b * c \in Nat
  /\ \A x, y \in Nat, n \in Nat \ {0} : x <= y => x \div n <= y \div n
  /\ \A x \in Nat, n \in Nat \ {0} : (n * x) \div n = x /\ x \div n \in Nat
<1>1. ASSUME NEW a \in Nat, NEW b \in Nat, NEW c \in Nat, a <= b
      PROVE  a * c <= b * c /\ a * c \in Nat /\ b * c \in Nat
  <2> DEFINE d == b - a
  <2>1. d \in Nat /\ b = a + d
    BY <1>1
  <2> HIDE DEF d
  <2>2. b * c = a * c + d * c /\ d * c \in Nat /\ a * c \in Nat /\ b * c \in Nat
    BY <2>1
  <2> DEFINE e == d * c
             f == a * c
             g == b * c
  <2>3. g = f + e /\ e \in Nat /\ f \in Nat /\ g \in Nat
    BY <2>2
  <2> HIDE DEF e, f, g
  <2>4. f <= g
    BY <2>3
  <2> QED BY <2>2, <2>4 DEF f, g
<1>2. ASSUME NEW x \in Nat, NEW y \in Nat, NEW n \in Nat \ {0}, x <= y
      PROVE  x \div n <= y \div n
  <2> DEFINE q == x \div n
             p == y \div n
             r == x % n
             s == y % n
  <2>1. q \in Int /\ p \in Int /\ r \in 0..(n - 1) /\ s \in 0..(n - 1)
        /\ x = n * q + r /\ y = n * p + s
    OBVIOUS
  <2> HIDE DEF q, p, r, s
  <2>2. SUFFICES ASSUME q >= p + 1 PROVE FALSE
    BY <2>1 DEF q, p
  <2> DEFINE d == q - p
  <2>3. d \in Nat /\ d >= 1 /\ q = p + d
    BY <2>1, <2>2
  <2> HIDE DEF d
  <2>4. n * q = n * p + n * d /\ n * d >= n
    BY <2>1, <2>3
  <2> DEFINE a == n * q
             b == n * p
             c == n * d
  <2>5. a = b + c /\ c >= n /\ a \in Int /\ b \in Int /\ c \in Int /\ x = a + r /\ y = b + s
    BY <2>1, <2>3, <2>4
  <2> HIDE DEF a, b, c
  <2> QED BY <1>2, <2>1, <2>5
<1>3. ASSUME NEW x \in Nat, NEW n \in Nat \ {0}
      PROVE  (n * x) \div n = x /\ x \div n \in Nat
  <2> DEFINE t == n * x
             q == t \div n
  <2>1. t \in Nat /\ t % n = 0
    BY MultipleDivides
  <2>2. q \in Int /\ t = n * q
    <3> HIDE DEF t
    <3> QED BY <2>1
  <2>3. n * x = n * q
    BY <2>2
  <2> HIDE DEF q
  <2>4. x = q
    <3> DEFINE d == x - q
    <3>1. n * d = n * x - n * q /\ d \in Int
      BY <2>2
    <3>2. n * d = 0
      BY <2>2, <2>3, <3>1
    <3> HIDE DEF d
    <3>3. d = 0
      BY <3>1, <3>2
    <3> QED BY <2>2, <3>3 DEF d
  <2> QED BY <2>4 DEF q
<1> QED BY <1>1, <1>2, <1>3

\* TpsEstimator: the estimate is not negative, whatever the packets say.
LEMMA TpsIs ==
  ASSUME NEW packets \in Seq([age : Int, at : Int])
  PROVE  Tps(packets) \in Nat
<1> DEFINE P == [age : Int, at : Int]
           E == [seen : BOOLEAN, last : P, primed : BOOLEAN, ewma : Nat]
           start == [seen |-> FALSE, last |-> [age |-> 0, at |-> 0], primed |-> FALSE,
                     ewma |-> 2000]
<1>1. Tps(packets) = Estimating!Fold(0, start, packets).ewma
  BY Zenon DEF Tps, Estimating!Fold, FoldLeft, Estimating!FoldLeft,
               MapThenFoldSet, Estimating!MapThenFoldSet, Max, Estimating!Max
<1>2. start \in E
  OBVIOUS
<1>3. ASSUME NEW e \in E, NEW p \in P PROVE TpsRecord(e, p) \in E
  <2> DEFINE ticks == p.age - e.last.age
             ms == p.at - e.last.at
             rate == (ticks * 100000) \div ms
             instant == LeastOf(2000, rate)
             counts == e.seen /\ ticks > 0 /\ ms >= 100
             ewma == IF ~counts THEN e.ewma
                     ELSE IF e.primed THEN (3 * instant + 7 * e.ewma) \div 10 ELSE instant
  <2>1. ticks \in Int /\ ms \in Int /\ e.ewma \in Nat /\ e.seen \in BOOLEAN /\ e.primed \in BOOLEAN
    OBVIOUS
  <2>2. ticks > 0 /\ ms >= 100 => instant \in Nat
    <3> HIDE DEF ticks, ms
    <3>1. SUFFICES ASSUME ticks > 0, ms >= 100 PROVE instant \in Nat
      OBVIOUS
    <3> DEFINE t == ticks * 100000
    <3>2. t \in Nat /\ ms \in Nat \ {0}
      BY <2>1, <3>1
    <3> HIDE DEF t
    <3>3. t \div ms \in Nat
      BY <3>2, OrderKept
    <3> QED BY <3>3 DEF LeastOf, t
  <2>4. TpsRecord(e, p) = [seen |-> TRUE, last |-> p, primed |-> e.primed \/ counts, ewma |-> ewma]
    BY DEF TpsRecord
  <2> HIDE DEF ticks, ms, instant
  <2>3. ewma \in Nat
    BY <2>1, <2>2
  <2>5. (e.primed \/ counts) \in BOOLEAN
    BY Zenon
  <2> DEFINE primed == e.primed \/ counts
  <2> HIDE DEF ewma, primed
  <2> QED BY <2>3, <2>4, <2>5 DEF primed
<1> HIDE DEF E, P, start
<1>4. \A s \in Seq(P) : Estimating!Fold(0, start, s) \in E
  BY <1>2, <1>3, Estimating!FoldStays
<1>5. packets \in Seq(P)
  BY DEF P
<1>6. Estimating!Fold(0, start, packets) \in E
  BY <1>4, <1>5
<1> QED BY <1>1, <1>6 DEF E

\* The sum of numbers is between so many times the least and the greatest.
LEMMA TotalBetween ==
  ASSUME NEW lo \in Nat, NEW hi \in Nat, NEW s \in Seq(lo..hi)
  PROVE  Total(s) \in Nat /\ Len(s) * lo <= Total(s) /\ Total(s) <= Len(s) * hi
<1> DEFINE B(u) == Total(u) \in Nat /\ Len(u) * lo <= Total(u) /\ Total(u) <= Len(u) * hi
           T == {u \in Seq(lo..hi) : B(u)}
<1>1. <<>> \in T
  <2>1. Len(<<>>) = 0 /\ Total(<<>>) = 0 /\ 0 * lo = 0 /\ 0 * hi = 0
    BY TotalAdds
  <2> QED BY <2>1, EmptySeq
<1>2. ASSUME NEW u \in Seq(lo..hi), NEW x \in lo..hi, u \in T PROVE Append(u, x) \in T
  <2> DEFINE a == Append(u, x)
             n == Len(u)
             t == Total(u)
  <2>1. a \in Seq(lo..hi) /\ Len(a) = n + 1 /\ n \in Nat
    BY AppendProperties, LenProperties
  <2>2. Total(a) = t + x
    <3>1. u \in Seq(Int) /\ x \in Int
      OBVIOUS
    <3> HIDE DEF T
    <3> QED BY <3>1, TotalAdds
  <2>3. t \in Nat /\ n * lo <= t /\ t <= n * hi
    BY <1>2
  <2> HIDE DEF a, n, t
  <2>4. /\ (n + 1) * lo = n * lo + lo /\ (n + 1) * hi = n * hi + hi
        /\ n * lo \in Nat /\ n * hi \in Nat
    BY <2>1
  <2> DEFINE k == n * lo
             m == n * hi
  <2>5. /\ (n + 1) * lo = k + lo /\ (n + 1) * hi = m + hi /\ k \in Nat /\ m \in Nat
        /\ k <= t /\ t <= m
    BY <2>3, <2>4
  <2> HIDE DEF k, m
  <2>6. t + x \in Nat /\ k + lo <= t + x /\ t + x <= m + hi
    BY <2>3, <2>5
  <2>7. B(a)
    BY <2>1, <2>2, <2>5, <2>6
  <2> HIDE DEF B
  <2> QED BY <2>1, <2>7 DEF a
<1>3. \A u \in Seq(lo..hi) : u \in T
  <2> HIDE DEF T
  <2> QED BY <1>1, <1>2, Adding!SeqInduction
<1> QED BY <1>3

\* An average is between some of what it is made of.
LEMMA AverageBetween ==
  ASSUME NEW s \in Seq(Nat), s # <<>>
  PROVE  \E i, j \in DOMAIN s : s[i] <= Total(s) \div Len(s) /\ Total(s) \div Len(s) <= s[j]
<1> DEFINE S == ToSet(s)
           n == Len(s)
           t == Total(s)
           lo == Min(S)
           hi == Max(S)
<1>1. n \in Nat \ {0} /\ DOMAIN s = 1..n /\ \A i \in 1..n : s[i] \in Nat
  BY EmptySeq, LenProperties, ElementOfSeq
<1>2. S \subseteq Nat /\ S # {}
  BY <1>1 DEF ToSet
<1>3. hi \in S /\ \A y \in S : hi >= y
  BY GreatestExists
<1>4. lo \in S /\ \A y \in S : lo <= y
  <2> HIDE DEF S
  <2> QED BY <1>2, LeastExists
<1>5. PICK i \in DOMAIN s : s[i] = lo
  BY <1>4 DEF ToSet
<1>6. PICK j \in DOMAIN s : s[j] = hi
  BY <1>3 DEF ToSet
<1>7. \A k \in DOMAIN s : s[k] \in S
  BY DEF ToSet
<1> HIDE DEF S, lo, hi, n
<1>8. lo \in Nat /\ hi \in Nat
  BY <1>2, <1>3, <1>4
<1>9. s \in Seq(lo..hi)
  <2> DEFINE X == lo..hi
  <2>1. \A k \in 1..n : s[k] \in Nat /\ lo <= s[k] /\ s[k] <= hi
    BY <1>1, <1>3, <1>4, <1>7
  <2>2. \A k \in 1..n : s[k] \in X
    BY <1>8, <2>1
  <2> HIDE DEF X
  <2>3. s \in [1..n -> X]
    BY <1>1, <2>2, LenProperties DEF n
  <2>4. s \in Seq(X)
    BY <1>1, <2>3, SeqDef
  <2> QED BY <2>4 DEF X
<1>10. t \in Nat /\ n * lo <= t /\ t <= n * hi
  BY <1>8, <1>9, TotalBetween DEF n
<1> HIDE DEF t
<1>11. lo <= t \div n /\ t \div n <= hi
  <2> DEFINE a == n * lo
             b == n * hi
  <2>1. a \in Nat /\ b \in Nat /\ a \div n = lo /\ b \div n = hi
    <3>1. \A x \in Nat : (n * x) \div n = x /\ n * x \in Nat
      BY <1>1, OrderKept
    <3> QED BY <1>8, <3>1
  <2>2. a <= t /\ t <= b
    BY <1>10
  <2> HIDE DEF a, b
  <2>3. a \div n <= t \div n /\ t \div n <= b \div n
    BY <1>1, <1>10, <2>1, <2>2, OrderKept
  <2> QED BY <2>1, <2>3
<1> QED BY <1>5, <1>6, <1>11 DEF n, t

\* Of figures that lie within bounds so do the weighted percentiles.
LEMMA WeightBetween ==
  ASSUME NEW lo \in Nat, NEW hi \in Nat,
         NEW rows \in Seq({r \in GoodRows : lo <= r.min /\ r.max <= hi}),
         NEW c, c = SumOf(rows, "count"), NEW p, p = Weight("p50", rows), NEW q, q = Weight("p95", rows)
  PROVE  c \in Nat /\ p \in Nat /\ q \in Nat /\ c * lo <= p /\ p <= q /\ q <= c * hi
<1> DEFINE R == {r \in GoodRows : lo <= r.min /\ r.max <= hi}
           B(k, a, b) == k \in Nat /\ a \in Nat /\ b \in Nat /\ k * lo <= a /\ a <= b /\ b <= k * hi
           T == {u \in Seq(R) : B(SumOf(u, "count"), Weight("p50", u), Weight("p95", u))}
<1>1. <<>> \in T
  <2>1. SumOf(<<>>, "count") = 0 /\ Weight("p50", <<>>) = 0 /\ Weight("p95", <<>>) = 0
    BY MergesAreFolds, SummingOf!FoldEmpty, Weighing!FoldEmpty
  <2>2. B(0, 0, 0)
    OBVIOUS
  <2> HIDE DEF B
  <2> QED BY <2>1, <2>2, EmptySeq
<1>2. ASSUME NEW u \in Seq(R), NEW r \in R, u \in T PROVE Append(u, r) \in T
  <2> DEFINE k == SumOf(u, "count")
             a == Weight("p50", u)
             b == Weight("p95", u)
             v == Append(u, r)
             n == r.count
  <2>1. v \in Seq(R)
    BY AppendProperties
  <2>2. SumOf(v, "count") = k + n /\ Weight("p50", v) = a + r.p50 * n
        /\ Weight("p95", v) = b + r.p95 * n
    <3> HIDE DEF R, T
    <3> QED BY SumsAdd
  <2>3. B(k, a, b)
    BY <1>2
  <2> HIDE DEF T, k, a, b, v
  <2>4. n \in Nat /\ r.p50 \in Nat /\ r.p95 \in Nat /\ lo <= r.p50 /\ r.p50 <= r.p95 /\ r.p95 <= hi
    BY DEF GoodRows, Rows
  <2> HIDE DEF n
  <2> DEFINE w == lo * n
             x == r.p50 * n
             y == r.p95 * n
             z == hi * n
  <2>5. /\ w \in Nat /\ x \in Nat /\ y \in Nat /\ z \in Nat
        /\ w <= x /\ x <= y /\ y <= z
    BY <2>4, OrderKept
  <2> DEFINE d == k * lo
             e == k * hi
  <2>6. (k + n) * lo = d + w /\ (k + n) * hi = e + z /\ d \in Nat /\ e \in Nat
    BY <2>3, <2>4
  <2>7. d <= a /\ a <= b /\ b <= e /\ a \in Nat /\ b \in Nat /\ k + n \in Nat
    BY <2>3, <2>4
  <2>8. SumOf(v, "count") = k + n /\ Weight("p50", v) = a + x /\ Weight("p95", v) = b + y
    BY <2>2
  <2> HIDE DEF d, e, w, x, y, z
  <2>9. d + w <= a + x /\ a + x <= b + y /\ b + y <= e + z /\ a + x \in Nat /\ b + y \in Nat
    BY <2>5, <2>6, <2>7
  <2>10. B(k + n, a + x, b + y)
    BY <2>6, <2>7, <2>9
  <2> HIDE DEF B
  <2>11. B(SumOf(v, "count"), Weight("p50", v), Weight("p95", v))
    BY <2>8, <2>10
  <2> HIDE DEF R
  <2> QED BY <2>1, <2>11 DEF T, v
<1>3. \A u \in Seq(R) : u \in T
  <2> HIDE DEF T, R
  <2> QED BY <1>1, <1>2, Adding!SeqInduction
<1> QED BY <1>3

-----------------------------------------------------------------------------
(* What the parent makes of it                                             *)

\* What a worker may have measured, when means are whole.
Samples == {s \in Seq(Nat) : \A i \in DOMAIN s : s[i] % Len(s) = 0}
Measures ==
  {m \in [attempts : Nat, samples : Samples, packets : Seq([age : Int, at : Int])] :
     Len(m.samples) <= m.attempts}
RowOf == [m \in Measures |-> Summary(m.samples)]
LengthOf == [m \in Measures |-> Len(m.samples)]

\* The figures that are merged stand for the samples of all workers.
Stands(all, rows, lengths) ==
  /\ all \in Seq(Nat) /\ rows \in Seq(GoodRows)
  /\ SumOf(rows, "count") = Len(all) /\ Weight("mean", rows) = Total(all)
  /\ Total(lengths) = Len(all)
  /\ \A r \in ToSet(rows) : r.min \in ToSet(all) /\ r.max \in ToSet(all)
  /\ \A x \in ToSet(all) : \E r \in ToSet(rows) : r.min <= x /\ x <= r.max

\* One more worker, with or without a sample.
LEMMA OneMore ==
  ASSUME NEW all, NEW rows, NEW lengths \in Seq(Nat), Stands(all, rows, lengths),
         NEW s \in Samples, NEW r, r = Summary(s)
  PROVE  Stands(all \o s, IF r.count > 0 THEN Append(rows, r) ELSE rows,
                Append(lengths, Len(s)))
<1> DEFINE a == all \o s
           l == Append(lengths, Len(s))
<1>1. s \in Seq(Nat) /\ \A i \in DOMAIN s : s[i] % Len(s) = 0
  BY DEF Samples
<1>2. r \in Rows /\ r.count = Len(s) /\ r.mean * r.count = Total(s)
  BY <1>1, SummaryIs
<1>3. s # <<>> => /\ r \in GoodRows
                  /\ r.min \in ToSet(s) /\ r.max \in ToSet(s)
                  /\ \A x \in ToSet(s) : r.min <= x /\ x <= r.max
  BY <1>1, SummaryIs
<1>4. all \in Seq(Nat) /\ rows \in Seq(GoodRows) /\ Len(all) \in Nat /\ Len(s) \in Nat
  BY <1>1, LenProperties DEF Stands
<1>5. a \in Seq(Nat) /\ Len(a) = Len(all) + Len(s)
  BY <1>1, <1>4, ConcatProperties
<1>6. ToSet(a) = ToSet(all) \cup ToSet(s)
  BY <1>1, <1>4, ConcatSet
<1>7. Total(a) = Total(all) + Total(s)
  BY <1>1, <1>4, TotalConcat
<1>8. Total(l) = Len(a)
  <2>1. lengths \in Seq(Int) /\ Len(s) \in Int
    BY <1>4
  <2>2. Total(l) = Total(lengths) + Len(s)
    BY <2>1, TotalAdds
  <2> QED BY <1>5, <2>2 DEF Stands
<1>9. CASE s = <<>>
  <2>1. Len(s) = 0 /\ ToSet(s) = {} /\ Total(s) = 0
    BY <1>9, TotalAdds DEF ToSet
  <2>2. Total(all) \in Nat
    BY <1>4, TotalAdds
  <2>3. ~(r.count > 0) /\ ToSet(a) = ToSet(all) /\ Total(a) = Total(all) /\ Len(a) = Len(all)
    BY <1>2, <1>4, <1>5, <1>6, <1>7, <2>1, <2>2
  <2> HIDE DEF a, l
  <2>4. Stands(a, rows, l)
    BY <1>5, <1>8, <2>3 DEF Stands
  <2> QED BY <2>3, <2>4 DEF a, l
<1>10. CASE s # <<>>
  <2> DEFINE v == Append(rows, r)
  <2>1. r.count > 0 /\ r \in GoodRows
    BY <1>3, <1>10 DEF GoodRows, Rows
  <2>2. v \in Seq(GoodRows) /\ ToSet(v) = ToSet(rows) \cup {r}
    BY <1>4, <2>1, AppendSet
  <2>3. SumOf(v, "count") = SumOf(rows, "count") + r.count
        /\ Weight("mean", v) = Weight("mean", rows) + r.mean * r.count
    <3>1. rows \in Seq(GoodRows) /\ r \in GoodRows
      BY <1>4, <2>1
    <3> QED BY <3>1, SumsAdd
  <2> HIDE DEF a, l, v
  <2>4. SumOf(v, "count") = Len(a)
    BY <1>2, <1>5, <2>3 DEF Stands
  <2>5. Weight("mean", v) = Total(a)
    BY <1>2, <1>7, <2>3 DEF Stands
  <2>6. \A x \in ToSet(v) : x.min \in ToSet(a) /\ x.max \in ToSet(a)
    BY <1>3, <1>6, <1>10, <2>2 DEF Stands
  <2>7. \A x \in ToSet(a) : \E y \in ToSet(v) : y.min <= x /\ x <= y.max
    BY <1>3, <1>6, <1>10, <2>2 DEF Stands
  <2>8. Stands(a, v, l)
    BY <1>5, <1>8, <2>2, <2>4, <2>5, <2>6, <2>7 DEF Stands
  <2> QED BY <2>1, <2>8 DEF a, v, l
<1> QED BY <1>9, <1>10

\* What the figures and the number of samples of a worker are.
LEMMA MeasuresMap ==
  /\ \A m \in Measures : m.samples \in Samples /\ Summary(m.samples) \in Rows
  /\ RowOf \in [Measures -> Rows] /\ LengthOf \in [Measures -> Nat]
<1>1. \A m \in Measures : m.samples \in Samples /\ Len(m.samples) \in Nat
                          /\ Summary(m.samples) \in Rows
  <2> SUFFICES ASSUME NEW m \in Measures
               PROVE  m.samples \in Samples /\ Len(m.samples) \in Nat /\ Summary(m.samples) \in Rows
    OBVIOUS
  <2>1. m.samples \in Samples
    BY DEF Measures
  <2> DEFINE s == m.samples
  <2>2. s \in Seq(Nat) /\ \A i \in DOMAIN s : s[i] % Len(s) = 0
    BY <2>1 DEF Samples
  <2> HIDE DEF s
  <2>3. Len(s) \in Nat /\ Summary(s) \in Rows
    BY <2>2, SummaryIs, LenProperties
  <2> QED BY <2>1, <2>3 DEF s
<1>2. RowOf \in [Measures -> Rows] /\ LengthOf \in [Measures -> Nat]
  BY <1>1 DEF RowOf, LengthOf
<1> QED BY <1>1, <1>2

\* The samples of one more worker come last.
LEMMA PoolGrows ==
  ASSUME NEW S, NEW ms \in Seq(S), NEW m \in S
  PROVE  Pooled(Append(ms, m)) = Pooled(ms) \o m.samples
<1>1. \A p, base, R : \A s \in Seq(R), x \in R :
        Pooling!Fold(p, base, Append(s, x)) = Pooling!Fold(p, base, s) \o x.samples
  BY Pooling!FoldAppend, Zenon
<1>2. Pooling!Fold(0, <<>>, Append(ms, m)) = Pooling!Fold(0, <<>>, ms) \o m.samples
  BY <1>1
<1> QED BY <1>2, MergesAreFolds, Zenon

\* mergeSummary() drops the workers without a sample; the others stand for all.
LEMMA MergedStand ==
  \A ms \in Seq(Measures) :
    Stands(Pooled(ms), Present(Mapped(RowOf, ms)), Mapped(LengthOf, ms))
<1> DEFINE B(ms) == Stands(Pooled(ms), Present(Mapped(RowOf, ms)), Mapped(LengthOf, ms))
           T == {ms \in Seq(Measures) : B(ms)}
<1>1. \A m \in Measures : m.samples \in Samples /\ Summary(m.samples) \in Rows
  BY MeasuresMap
<1>2. RowOf \in [Measures -> Rows] /\ LengthOf \in [Measures -> Nat]
  BY MeasuresMap
<1>3. <<>> \in T
  <2>1. Pooled(<<>>) = <<>> /\ Present(<<>>) = <<>>
    BY MergesAreFolds, Pooling!FoldEmpty, Filtering!FoldEmpty
  <2>2. Mapped(RowOf, <<>>) = <<>> /\ Mapped(LengthOf, <<>>) = <<>>
    BY DEF Mapped
  <2>3. SumOf(<<>>, "count") = 0 /\ Weight("mean", <<>>) = 0 /\ Total(<<>>) = 0
    BY MergesAreFolds, SummingOf!FoldEmpty, Weighing!FoldEmpty, TotalAdds
  <2>4. ToSet(<<>>) = {} /\ Len(<<>>) = 0
    BY DEF ToSet
  <2>5. Stands(<<>>, <<>>, <<>>)
    BY <2>3, <2>4, EmptySeq DEF Stands
  <2> QED BY <2>1, <2>2, <2>5, EmptySeq
<1>4. ASSUME NEW u \in Seq(Measures), NEW m \in Measures, u \in T PROVE Append(u, m) \in T
  <2> DEFINE a == Append(u, m)
             r == Summary(m.samples)
             rows == Mapped(RowOf, u)
             lengths == Mapped(LengthOf, u)
  <2>1. Pooled(a) = Pooled(u) \o m.samples
    BY PoolGrows
  <2>2. rows \in Seq(Rows) /\ lengths \in Seq(Nat)
    BY <1>2, MapIs
  <2>3. Mapped(RowOf, a) = Append(rows, RowOf[m])
    BY <1>2, MapGrows, Zenon
  <2>4. Mapped(LengthOf, a) = Append(lengths, LengthOf[m])
    BY <1>2, MapGrows, Zenon
  <2>5. RowOf[m] = r /\ LengthOf[m] = Len(m.samples)
    BY DEF RowOf, LengthOf
  <2>6. m.samples \in Samples /\ r \in Rows
    BY <1>1
  <2>7. Stands(Pooled(u), Present(rows), lengths)
    BY <1>4
  <2> HIDE DEF rows, lengths
  <2>8. Present(Append(rows, r)) = IF r.count > 0 THEN Append(Present(rows), r) ELSE Present(rows)
    <3> HIDE DEF r
    <3> QED BY <2>2, <2>6, SumsAdd
  <2>9. Stands(Pooled(u) \o m.samples,
               IF r.count > 0 THEN Append(Present(rows), r) ELSE Present(rows),
               Append(lengths, Len(m.samples)))
    BY <2>2, <2>6, <2>7, OneMore
  <2>10. B(a)
    BY <2>1, <2>3, <2>4, <2>5, <2>8, <2>9
  <2> HIDE DEF B
  <2> QED BY <2>10, AppendProperties
<1>5. \A ms \in Seq(Measures) : ms \in T
  <2> HIDE DEF T
  <2> QED BY <1>3, <1>4, Adding!SeqInduction
<1> QED BY <1>5

\* mergeSummary(): count, extremes and mean are those of all samples; the
\* percentiles are ordered and within the extremes.
LEMMA SummaryMerged ==
  ASSUME NEW all, NEW rows, NEW lengths, Stands(all, Present(rows), lengths),
         NEW m, m = MergeSummary(rows), NEW w, w = Summary(all)
  PROVE  /\ m.count = w.count /\ m.min = w.min /\ m.max = w.max /\ m.mean = w.mean
         /\ m.min <= m.p50 /\ m.p50 <= m.p95 /\ m.p95 <= m.max
         /\ w.count = Len(all) /\ Total(lengths) = Len(all)
<1> DEFINE pr == Present(rows)
           n == Len(all)
<1>1. /\ all \in Seq(Nat) /\ pr \in Seq(GoodRows) /\ n \in Nat
      /\ SumOf(pr, "count") = n /\ Weight("mean", pr) = Total(all) /\ Total(lengths) = n
      /\ \A r \in ToSet(pr) : r.min \in ToSet(all) /\ r.max \in ToSet(all)
      /\ \A x \in ToSet(all) : \E r \in ToSet(pr) : r.min <= x /\ x <= r.max
  BY LenProperties DEF Stands
<1>2. m = IF pr = <<>> THEN NoSummary
          ELSE [count |-> SumOf(pr, "count"),
                min   |-> Min({pr[i].min : i \in DOMAIN pr}),
                max   |-> Max({pr[i].max : i \in DOMAIN pr}),
                mean  |-> Weighted(pr, "mean"),
                p50   |-> Weighted(pr, "p50"),
                p95   |-> Weighted(pr, "p95")]
  BY Zenon DEF MergeSummary
<1> HIDE DEF pr
<1>3. CASE pr = <<>>
  <2>1. n = 0
    BY <1>1, <1>3, MergesAreFolds, SummingOf!FoldEmpty
  <2>2. all = <<>>
    BY <1>1, <2>1, EmptySeq
  <2>3. w = NoSummary /\ m = NoSummary
    BY <1>2, <1>3, <2>2 DEF Summary
  <2> QED BY <1>1, <2>1, <2>3 DEF NoSummary
<1>4. CASE pr # <<>>
  <2> DEFINE S == ToSet(all)
             A == {pr[i].min : i \in DOMAIN pr}
             B == {pr[i].max : i \in DOMAIN pr}
             lo == Min(S)
             hi == Max(S)
  <2>1. DOMAIN pr = 1..Len(pr) /\ 1 \in DOMAIN pr /\ \A i \in DOMAIN pr : pr[i] \in GoodRows
    BY <1>1, <1>4, EmptySeq, LenProperties, ElementOfSeq
  <2>2. A = {r.min : r \in ToSet(pr)} /\ B = {r.max : r \in ToSet(pr)} /\ pr[1] \in ToSet(pr)
    BY <2>1 DEF ToSet
  <2>3. A \subseteq S /\ B \subseteq S /\ A # {} /\ S \subseteq Nat /\ S # {}
    <3>1. S \subseteq Nat
      BY <1>1, LenProperties, ElementOfSeq DEF ToSet
    <3>2. A \subseteq S /\ B \subseteq S /\ pr[1].min \in A
      BY <1>1, <2>2
    <3> HIDE DEF S, A, B
    <3> QED BY <3>1, <3>2
  <2>4. all # <<>> /\ n # 0
    <3>1. all # <<>>
      BY <2>3 DEF ToSet
    <3> QED BY <1>1, <3>1, EmptySeq
  <2>5. hi \in S /\ \A y \in S : hi >= y
    BY <1>1, <2>4, GreatestExists
  <2>6. (\A x \in S : \E y \in A : y <= x) /\ (\A x \in S : \E y \in B : x <= y)
    BY <1>1, <2>2
  <2>7. \A i \in DOMAIN pr : pr[i].min \in A /\ pr[i].max \in B
    OBVIOUS
  <2> HIDE DEF S, A, B
  <2>8. lo \in S /\ \A y \in S : lo <= y
    BY <2>3, LeastExists
  <2>9. Min(A) \in A /\ \A y \in A : Min(A) <= y
    BY <2>3, LeastExists
  <2>10. Min(A) = lo
    <3>1. PICK y \in A : y <= lo
      BY <2>6, <2>8
    <3>2. Min(A) \in Nat /\ lo \in Nat /\ y \in Nat /\ Min(A) <= y /\ lo <= Min(A)
      BY <2>3, <2>8, <2>9
    <3> QED BY <3>1, <3>2
  <2>11. Max(B) = hi
    <3>1. PICK y \in B : hi <= y
      BY <2>5, <2>6
    <3>2. y = hi
      <4> HIDE DEF hi
      <4>1. y \in Nat /\ hi \in Nat /\ hi >= y
        BY <2>3, <2>5
      <4> QED BY <3>1, <4>1
    <3>3. \A x \in B : hi >= x
      BY <2>3, <2>5
    <3>4. Max(B) \in B /\ \A x \in B : Max(B) >= x
      BY <3>2, <3>3, Zenon DEF Max
    <3>5. Max(B) \in Nat /\ hi \in Nat /\ Max(B) >= hi /\ hi >= Max(B)
      BY <2>3, <2>5, <3>2, <3>3, <3>4
    <3> QED BY <3>5
  <2>12. lo \in Nat /\ hi \in Nat /\ n \in Nat \ {0}
    BY <1>1, <2>3, <2>4, <2>5, <2>8
  <2>13. pr \in Seq({r \in GoodRows : lo <= r.min /\ r.max <= hi})
    <3> DEFINE R == {r \in GoodRows : lo <= r.min /\ r.max <= hi}
    <3>1. \A i \in 1..Len(pr) : pr[i] \in R
      BY <2>1, <2>3, <2>5, <2>7, <2>8
    <3> HIDE DEF R
    <3>2. pr \in [1..Len(pr) -> R] /\ Len(pr) \in Nat
      BY <1>1, <3>1, LenProperties
    <3>3. pr \in Seq(R)
      BY <3>2, SeqDef
    <3> QED BY <3>3 DEF R
  <2> DEFINE p == Weight("p50", pr)
             q == Weight("p95", pr)
  <2>14. p \in Nat /\ q \in Nat /\ n * lo <= p /\ p <= q /\ q <= n * hi
    <3> HIDE DEF lo, hi, p, q
    <3>1. SumOf(pr, "count") * lo <= p /\ q <= SumOf(pr, "count") * hi
          /\ p \in Nat /\ q \in Nat /\ p <= q
      BY <2>12, <2>13, WeightBetween DEF p, q
    <3> QED BY <1>1, <3>1
  <2>15. /\ Weighted(pr, "p50") = p \div n /\ Weighted(pr, "p95") = q \div n
         /\ Weighted(pr, "mean") = Total(all) \div n
    BY <1>1, <2>4 DEF Weighted, Weight
  <2>16. w = [count |-> n, min |-> lo, max |-> hi, mean |-> Total(all) \div n,
              p50 |-> Quantile(all, 50), p95 |-> Quantile(all, 95)]
    BY <2>4 DEF Summary, S
  <2>17. m = [count |-> n, min |-> lo, max |-> hi, mean |-> Total(all) \div n,
              p50 |-> p \div n, p95 |-> q \div n]
    BY <1>1, <1>2, <1>4, <2>10, <2>11, <2>15 DEF A, B
  <2>18. lo <= p \div n /\ p \div n <= q \div n /\ q \div n <= hi
    <3> HIDE DEF lo, hi, p, q, n
    <3> DEFINE a == n * lo
               b == n * hi
    <3>1. a \in Nat /\ b \in Nat /\ a \div n = lo /\ b \div n = hi
      <4>1. \A x \in Nat : (n * x) \div n = x /\ n * x \in Nat
        BY <2>12, OrderKept
      <4> QED BY <2>12, <4>1
    <3>2. a <= p /\ p <= q /\ q <= b
      BY <2>14
    <3> HIDE DEF a, b
    <3> QED BY <2>12, <2>14, <3>1, <3>2, OrderKept
  <2> HIDE DEF lo, hi, p, q, n
  <2>19. m.count = n /\ m.min = lo /\ m.max = hi /\ m.mean = Total(all) \div n
         /\ m.p50 = p \div n /\ m.p95 = q \div n
    BY <2>17
  <2>20. w.count = n /\ w.min = lo /\ w.max = hi /\ w.mean = Total(all) \div n
    BY <2>16
  <2> QED BY <1>1, <2>18, <2>19, <2>20 DEF n
<1> QED BY <1>3, <1>4

\* What the run was asked for is split, and every worker measures what it may.
SplitUp ==
  /\ plan \in Plans /\ WholeMeans(plan)
  /\ budgets = IF parent = "idle" THEN <<>> ELSE SplitBudget(plan.count, plan.shards)
  /\ DOMAIN worker = DOMAIN budgets
  /\ measured \in [DOMAIN budgets -> Measures]
  /\ \A i \in DOMAIN budgets : measured[i].attempts <= PerBot(plan) * budgets[i]

\* What a worker sends is what it may have measured.
LEMMA SentMeasures ==
  ASSUME SplitUp, parent # "idle", NEW i \in DOMAIN budgets,
         NEW attempts \in 0..(PerBot(plan) * budgets[i]), NEW n \in 0..attempts,
         NEW packets \in TimePackets, NEW samples \in [1..n -> Times]
  PROVE  [attempts |-> attempts, samples |-> samples, packets |-> packets] \in Measures
<1> DEFINE k == PerBot(plan)
<1>1. budgets[i] \in Nat /\ budgets[i] <= plan.count /\ plan.count \in Nat /\ k \in Nat
  <2>1. plan.count \in Nat \ {0} /\ plan.shards \in Nat \ {0} /\ k \in Nat
        /\ budgets = SplitBudget(plan.count, plan.shards)
    BY DEF SplitUp, Plans, PerBot
  <2> HIDE DEF k
  <2>2. budgets[i] \in Nat /\ budgets[i] <= plan.count
    BY <2>1, BudgetsAddUp, ElementOfSeq
  <2> QED BY <2>1, <2>2
<1>2. attempts \in Nat /\ n \in Nat /\ n <= attempts /\ n <= k * plan.count
  <2> DEFINE a == k * budgets[i]
             b == k * plan.count
  <2>1. a \in Nat /\ b \in Nat /\ a <= b
    <3> HIDE DEF k
    <3>1. \A x, y, z \in Nat : x <= y => z * x <= z * y /\ z * x \in Nat /\ z * y \in Nat
      BY OrderKept
    <3> QED BY <1>1, <3>1
  <2>2. attempts \in 0..a
    OBVIOUS
  <2> HIDE DEF a
  <2> QED BY <2>1, <2>2
<1>3. \A x \in 1..n : samples[x] \in Nat
  BY MeasuresAssumption
<1>4. samples \in [1..n -> Nat]
  BY <1>3
<1>5. samples \in Seq(Nat) /\ Len(samples) = n /\ DOMAIN samples = 1..n
  <2>1. samples \in Seq(Nat)
    BY <1>2, <1>4, SeqDef
  <2> QED BY <1>2, <1>4, <2>1, LenProperties
<1>6. \A x \in 1..n : samples[x] % n = 0
  <2>1. \A x \in 1..n : n \in 1..(PerBot(plan) * plan.count)
    BY <1>2
  <2> QED BY <2>1 DEF SplitUp, WholeMeans
<1>7. samples \in Samples
  BY <1>5, <1>6 DEF Samples
<1>8. packets \in Seq([age : Int, at : Int])
  BY MeasuresAssumption
<1> QED BY <1>2, <1>5, <1>7, <1>8 DEF Measures

\* Every step of a split run keeps it split up.
LEMMA SplitKeeps ==
  ASSUME SplitUp, [RunSharded \/ ShardStep]_shardVars
  PROVE  SplitUp'
<1>1. CASE RunSharded
  <2> DEFINE split == SplitBudget(plan.count, plan.shards)
             none == [attempts |-> 0, samples |-> <<>>, packets |-> <<>>]
  <2>1. /\ plan' = plan /\ parent' = "waiting" /\ budgets' = split
        /\ worker' = [i \in DOMAIN split |-> "forked"]
        /\ measured' = [i \in DOMAIN split |-> none]
    BY <1>1 DEF RunSharded
  <2>2. none \in Measures /\ none.attempts = 0
    <3>1. <<>> \in Samples /\ <<>> \in Seq([age : Int, at : Int]) /\ Len(<<>>) = 0
      BY EmptySeq DEF Samples
    <3> QED BY <3>1 DEF Measures
  <2>3. \A i \in DOMAIN split : 0 <= PerBot(plan) * split[i]
    <3>1. plan.count \in Nat \ {0} /\ plan.shards \in Nat \ {0} /\ PerBot(plan) \in Nat
      BY DEF SplitUp, Plans, PerBot
    <3>2. \A i \in DOMAIN split : split[i] \in Nat
      BY <3>1, BudgetsAddUp, ElementOfSeq
    <3>3. \A x, y \in Nat : 0 <= x * y
      OBVIOUS
    <3> HIDE DEF split
    <3> QED BY <3>1, <3>2, <3>3
  <2> HIDE DEF none
  <2>4. PerBot(plan)' = PerBot(plan)
    BY <2>1 DEF PerBot
  <2>5. \A i \in DOMAIN budgets' : measured'[i].attempts <= PerBot(plan)' * budgets'[i]
    BY <2>1, <2>2, <2>3, <2>4
  <2> QED BY <2>1, <2>2, <2>5 DEF SplitUp, WholeMeans, PerBot
<1>2. ASSUME NEW i \in DOMAIN worker, WorkerStep(i) \/ WorkerLetsGo(i) \/ WorkerCrashes(i)
      PROVE  SplitUp'
  <2>1. CASE WorkerSends(i)
    <3> PICK attempts \in 0..(PerBot(plan) * budgets[i]), packets \in TimePackets :
          \E n \in 0..attempts : \E samples \in [1..n -> Times] :
            measured' = [measured EXCEPT ![i] = [attempts |-> attempts, samples |-> samples,
                                                 packets |-> packets]]
      BY <2>1 DEF WorkerSends
    <3> PICK n \in 0..attempts :
          \E samples \in [1..n -> Times] :
            measured' = [measured EXCEPT ![i] = [attempts |-> attempts, samples |-> samples,
                                                 packets |-> packets]]
      OBVIOUS
    <3>1. PICK samples \in [1..n -> Times] :
            measured' = [measured EXCEPT ![i] = [attempts |-> attempts, samples |-> samples,
                                                 packets |-> packets]]
      OBVIOUS
    <3> DEFINE x == [attempts |-> attempts, samples |-> samples, packets |-> packets]
    <3>2. i \in DOMAIN budgets /\ parent # "idle"
      BY DEF SplitUp
    <3>3. x \in Measures
      BY <3>2, SentMeasures
    <3>4. x.attempts <= PerBot(plan) * budgets[i]
      OBVIOUS
    <3> HIDE DEF x
    <3>5. measured' = [measured EXCEPT ![i] = x]
      BY <3>1 DEF x
    <3>6. UNCHANGED <<plan, parent, budgets>> /\ DOMAIN worker' = DOMAIN worker
      BY <2>1 DEF WorkerSends
    <3>7. measured' \in [DOMAIN budgets -> Measures]
      BY <3>3, <3>5 DEF SplitUp
    <3>8. \A j \in DOMAIN budgets : measured'[j].attempts <= PerBot(plan) * budgets[j]
      BY <3>4, <3>5 DEF SplitUp
    <3> QED BY <3>6, <3>7, <3>8 DEF SplitUp, WholeMeans, PerBot
  <2>2. CASE ~WorkerSends(i)
    <3>1. /\ UNCHANGED <<plan, budgets, measured>> /\ DOMAIN worker' = DOMAIN worker
          /\ parent' = parent \/ (parent = "waiting" /\ parent' \in {"merged", "failed"})
      BY <1>2, <2>2
         DEF WorkerStep, WorkerStarts, WorkerLetsGo, WorkerCrashes, WorkerMessage, WorkerExits
    <3> QED BY <3>1 DEF SplitUp, WholeMeans, PerBot
  <2> QED BY <2>1, <2>2
<1>3. CASE ShardInterrupt
  BY <1>3 DEF ShardInterrupt, SplitUp, WholeMeans, PerBot
<1>4. CASE UNCHANGED shardVars
  BY <1>4 DEF shardVars, SplitUp, WholeMeans, PerBot
<1> QED BY <1>1, <1>2, <1>3, <1>4 DEF ShardStep

\* The bots of all workers are those the run was asked for.
LEMMA SplitIsWhole ==
  ASSUME SplitUp, parent # "idle"
  PROVE  /\ Total(budgets) = plan.count /\ Len(budgets) <= MostOf(1, plan.shards)
         /\ \A i, j \in DOMAIN budgets : budgets[i] >= 1 /\ budgets[i] <= budgets[j] + 1
         /\ budgets \in Seq(Nat) /\ DOMAIN budgets = 1..Len(budgets) /\ Len(budgets) \in Nat \ {0}
<1> DEFINE total == plan.count
           shards == plan.shards
<1>1. total \in Nat \ {0} /\ shards \in Nat \ {0} /\ budgets = SplitBudget(total, shards)
  BY DEF SplitUp, Plans
<1> HIDE DEF total, shards
<1>2. /\ budgets \in Seq(Nat) /\ DOMAIN budgets = 1..Len(budgets) /\ Len(budgets) \in Nat \ {0}
      /\ Len(budgets) <= MostOf(1, shards) /\ Total(budgets) = total
      /\ \A i, j \in DOMAIN budgets : budgets[i] >= 1 /\ budgets[i] <= budgets[j] + 1
  BY <1>1, BudgetsAddUp
<1> QED BY <1>2 DEF total, shards

\* The figures of the run are those of all samples of all workers.
LEMMA MergeExact ==
  ASSUME SplitUp
  PROVE  MergeIsExact
<1> SUFFICES ASSUME parent = "merged" PROVE MergeIsExact
  BY DEF MergeIsExact
<1> DEFINE n == Len(budgets)
           D == 1..n
           Snaps == {x \in [attempted : Nat, spawned : Nat, tps : Nat, spawnMs : Rows] :
                       x.spawned <= x.attempted}
           snaps == [i \in DOMAIN worker |-> WorkerSnapshot(i)]
           all == Pooled(measured)
           rows == Mapped(RowOf, measured)
           lengths == Mapped(LengthOf, measured)
<1>1. /\ Total(budgets) = plan.count /\ budgets \in Seq(Nat) /\ DOMAIN budgets = D
      /\ n \in Nat \ {0} /\ DOMAIN worker = D /\ \A i \in D : budgets[i] \in Nat
  BY SplitIsWhole, ElementOfSeq DEF SplitUp
<1>2. measured \in [D -> Measures] /\ measured \in Seq(Measures) /\ Len(measured) = n
      /\ DOMAIN measured = D
  <2>1. measured \in [D -> Measures]
    BY <1>1 DEF SplitUp
  <2>2. measured \in Seq(Measures)
    BY <1>1, <2>1, SeqDef
  <2> QED BY <1>1, <2>1, <2>2, LenProperties
<1>3. Stands(all, Present(rows), lengths)
  BY <1>2, MergedStand
<1>4. \A m \in Measures : /\ RowOf[m] = Summary(m.samples) /\ LengthOf[m] = Len(m.samples)
                          /\ RowOf[m] \in Rows /\ LengthOf[m] \in Nat /\ Tps(m.packets) \in Nat
  <2> SUFFICES ASSUME NEW m \in Measures
               PROVE  /\ RowOf[m] = Summary(m.samples) /\ LengthOf[m] = Len(m.samples)
                      /\ RowOf[m] \in Rows /\ LengthOf[m] \in Nat /\ Tps(m.packets) \in Nat
    OBVIOUS
  <2>1. RowOf[m] = Summary(m.samples) /\ LengthOf[m] = Len(m.samples)
    BY DEF RowOf, LengthOf
  <2>2. RowOf[m] \in Rows /\ LengthOf[m] \in Nat
    BY MeasuresMap
  <2>3. Tps(m.packets) \in Nat
    BY TpsIs DEF Measures
  <2> QED BY <2>1, <2>2, <2>3
<1>5. \A i \in D : /\ snaps[i].attempted = measured[i].attempts
                   /\ snaps[i].spawned = lengths[i]
                   /\ snaps[i].tps = Tps(measured[i].packets)
                   /\ snaps[i].spawnMs = rows[i]
                   /\ snaps[i] \in Snaps
  <2> SUFFICES ASSUME NEW i \in D
               PROVE  /\ snaps[i].attempted = measured[i].attempts
                      /\ snaps[i].spawned = lengths[i]
                      /\ snaps[i].tps = Tps(measured[i].packets)
                      /\ snaps[i].spawnMs = rows[i]
                      /\ snaps[i] \in Snaps
    OBVIOUS
  <2>1. measured[i] \in Measures /\ rows[i] = RowOf[measured[i]] /\ lengths[i] = LengthOf[measured[i]]
    BY <1>2 DEF Mapped
  <2>2. snaps[i] = [attempted |-> measured[i].attempts, spawned |-> lengths[i],
                    tps |-> Tps(measured[i].packets), spawnMs |-> rows[i]]
    BY <1>1, <1>4, <2>1 DEF WorkerSnapshot
  <2>3. rows[i] \in Rows /\ lengths[i] \in Nat /\ Tps(measured[i].packets) \in Nat
        /\ measured[i].attempts \in Nat /\ lengths[i] <= measured[i].attempts
    BY <1>1, <1>4, <2>1 DEF Measures
  <2> HIDE DEF snaps, rows, lengths
  <2> QED BY <2>2, <2>3
<1>6. DOMAIN snaps = D /\ DOMAIN rows = D /\ DOMAIN lengths = D /\ rows = [i \in D |-> rows[i]]
      /\ lengths = [i \in D |-> lengths[i]]
  BY <1>1, <1>2 DEF Mapped
<1>7. merged = MergeSnapshots(snaps)
  BY DEF merged
<1> HIDE DEF n, D, Snaps, snaps, all, rows, lengths
<1>8. snaps \in Seq(Snaps) /\ Len(snaps) = n
  <2>1. snaps \in [1..n -> Snaps]
    <3>1. snaps = [i \in D |-> snaps[i]]
      BY <1>6 DEF snaps
    <3> QED BY <1>5, <3>1 DEF D
  <2>2. snaps \in Seq(Snaps)
    BY <1>1, <2>1, SeqDef
  <2> QED BY <1>1, <2>1, <2>2, LenProperties
<1> DEFINE ts == [i \in DOMAIN snaps |-> snaps[i].tps]
<1> DEFINE at == SumOf(snaps, "attempted")
           sp == SumOf(snaps, "spawned")
           k == PerBot(plan)
<1>9. at \in Nat /\ sp \in Nat /\ sp <= at /\ at <= k * plan.count
  <2>1. sp \in Nat /\ at \in Nat /\ sp <= 1 * at
    <3>1. \A x \in Snaps : x["spawned"] \in Nat /\ x["attempted"] \in Nat
                           /\ x["spawned"] <= 1 * x["attempted"]
      BY DEF Snaps
    <3>2. 1 \in Nat
      OBVIOUS
    <3> QED BY <1>8, <3>1, <3>2, SumWithin
  <2> DEFINE Shares == {x \in [attempted : Nat, share : Nat] : x.attempted <= k * x.share}
             shares == [i \in D |-> [attempted |-> measured[i].attempts, share |-> budgets[i]]]
  <2>2. k \in Nat
    BY DEF SplitUp, Plans, PerBot
  <2>3. \A i \in D : shares[i] \in Shares
    <3> HIDE DEF k
    <3> SUFFICES ASSUME NEW i \in D PROVE shares[i] \in Shares
      OBVIOUS
    <3>1. measured[i].attempts \in Nat
      BY <1>2 DEF Measures
    <3>2. measured[i].attempts <= k * budgets[i]
      BY <1>1 DEF SplitUp, k
    <3> QED BY <1>1, <3>1, <3>2
  <2>4. DOMAIN shares = D
    OBVIOUS
  <2>5. \A i \in D : shares[i].attempted = snaps[i].attempted /\ shares[i].share = budgets[i]
    BY <1>5
  <2> HIDE DEF shares, Shares, k
  <2>6. shares \in Seq(Shares)
    <3>1. shares \in [1..n -> Shares]
      <4>1. shares = [i \in D |-> shares[i]]
        BY <2>4 DEF shares
      <4> QED BY <2>3, <4>1 DEF D
    <3> QED BY <1>1, <3>1, SeqDef
  <2>7. SumOf(shares, "attempted") <= k * SumOf(shares, "share")
    <3>1. \A x \in Shares : x["attempted"] \in Nat /\ x["share"] \in Nat
                            /\ x["attempted"] <= k * x["share"]
      BY DEF Shares
    <3> QED BY <2>2, <2>6, <3>1, SumWithin
  <2>8. SumOf(shares, "attempted") = Total([i \in DOMAIN shares |-> shares[i].attempted])
    <3>1. \A x \in Shares : x["attempted"] \in Nat
      BY DEF Shares
    <3> QED BY <2>6, <3>1, SumIsTotal
  <2>9. SumOf(shares, "share") = Total([i \in DOMAIN shares |-> shares[i].share])
    <3>1. \A x \in Shares : x["share"] \in Nat
      BY DEF Shares
    <3> QED BY <2>6, <3>1, SumIsTotal
  <2>10. at = Total([i \in DOMAIN snaps |-> snaps[i].attempted])
    <3>1. \A x \in Snaps : x["attempted"] \in Nat
      BY DEF Snaps
    <3> QED BY <1>8, <3>1, SumIsTotal
  <2>11. [i \in DOMAIN shares |-> shares[i].attempted] = [i \in DOMAIN snaps |-> snaps[i].attempted]
    BY <1>6, <2>4, <2>5
  <2>12. [i \in DOMAIN shares |-> shares[i].share] = budgets
    <3>1. budgets = [i \in D |-> budgets[i]]
      BY <1>1
    <3> QED BY <2>4, <2>5, <3>1
  <2>13. at <= k * plan.count
    BY <1>1, <2>7, <2>8, <2>9, <2>10, <2>11, <2>12
  <2> HIDE DEF at, sp
  <2> QED BY <2>1, <2>13
<1>10. SumOf(snaps, "spawned") = Total(lengths)
  <2>1. SumOf(snaps, "spawned") = Total([i \in DOMAIN snaps |-> snaps[i].spawned])
    <3>1. \A s \in Snaps : s["spawned"] \in Nat
      BY DEF Snaps
    <3> QED BY <1>8, <3>1, SumIsTotal
  <2>2. [i \in DOMAIN snaps |-> snaps[i].spawned] = lengths
    BY <1>5, <1>6
  <2> QED BY <2>1, <2>2
<1>11. SumOf(snaps, "tps") = Total(ts)
  <2>1. \A s \in Snaps : s["tps"] \in Nat
    BY DEF Snaps
  <2> QED BY <1>8, <2>1, SumIsTotal
<1>12. ts \in Seq(Nat) /\ Len(ts) = n /\ ts # <<>> /\ DOMAIN ts = D
       /\ \A i \in D : ts[i] = Tps(measured[i].packets)
  <2>1. \A i \in D : ts[i] \in Nat /\ ts[i] = Tps(measured[i].packets)
    BY <1>5, <1>6 DEF Snaps
  <2>2. ts \in [1..n -> Nat] /\ DOMAIN ts = D
    BY <1>6, <2>1 DEF D
  <2> HIDE DEF ts
  <2>3. ts \in Seq(Nat)
    BY <1>1, <2>2, SeqDef
  <2>4. Len(ts) = n
    BY <1>1, <2>2, <2>3, LenProperties
  <2>5. ts # <<>>
    BY <1>1, <2>3, <2>4, EmptySeq
  <2> QED BY <2>1, <2>2, <2>3, <2>4, <2>5
<1> HIDE DEF ts
<1>13. PICK i \in D, j \in D : ts[i] <= Total(ts) \div n /\ Total(ts) \div n <= ts[j]
  BY <1>12, AverageBetween
<1> DEFINE m == MergeSummary([z \in DOMAIN snaps |-> snaps[z].spawnMs])
           w == Summary(all)
<1>14. merged.attempted = SumOf(snaps, "attempted") /\ merged.spawned = SumOf(snaps, "spawned")
       /\ merged.tps = SumOf(snaps, "tps") \div Len(snaps) /\ merged.spawnMs = m
  BY <1>7 DEF MergeSnapshots
<1>15. [z \in DOMAIN snaps |-> snaps[z].spawnMs] = rows
  BY <1>5, <1>6
<1>16. m = MergeSummary(rows)
  BY <1>15
<1> HIDE DEF m, w
<1>17. /\ m.count = w.count /\ m.min = w.min /\ m.max = w.max /\ m.mean = w.mean
       /\ m.min <= m.p50 /\ m.p50 <= m.p95 /\ m.p95 <= m.max
       /\ w.count = Len(all) /\ Total(lengths) = Len(all)
  <2>1. w = Summary(all)
    BY DEF w
  <2> QED BY <1>3, <1>16, <2>1, SummaryMerged
<1>18. merged.tps = Total(ts) \div n
  BY <1>8, <1>11, <1>14
<1>19. merged.spawned = w.count /\ merged.spawnMs = m
  BY <1>10, <1>14, <1>17
<1>23. /\ merged.spawned <= merged.attempted /\ merged.attempted <= PerBot(plan) * plan.count
       /\ merged.rate <= 100
  <2>1. merged.attempted = at /\ merged.spawned = sp
        /\ merged.rate = IF at = 0 THEN 0 ELSE (100 * sp) \div at
    BY <1>7 DEF MergeSnapshots
  <2>2. at # 0 => (100 * sp) \div at <= 100
    <3> HIDE DEF at, sp
    <3> SUFFICES ASSUME at # 0 PROVE (100 * sp) \div at <= 100
      OBVIOUS
    <3>1. 100 * sp \in Nat /\ at * 100 \in Nat /\ 100 * sp <= at * 100 /\ at \in Nat \ {0}
      BY <1>9
    <3>2. (at * 100) \div at = 100
      BY <3>1, OrderKept
    <3> DEFINE y == 100 * sp
               z == at * 100
    <3> HIDE DEF y, z
    <3>3. y \in Nat /\ z \in Nat /\ y <= z /\ z \div at = 100
      BY <3>1, <3>2 DEF y, z
    <3>4. y \div at <= z \div at
      BY <3>1, <3>3, OrderKept
    <3> QED BY <3>3, <3>4 DEF y
  <2> HIDE DEF at, sp, k
  <2> QED BY <1>9, <2>1, <2>2 DEF k
<1>20. Tps(measured[i].packets) <= merged.tps /\ merged.tps <= Tps(measured[j].packets)
       /\ i \in DOMAIN measured /\ j \in DOMAIN measured
  BY <1>2, <1>12, <1>13, <1>18
<1>21. w = Summary(FoldLeft(LAMBDA sofar, x : sofar \o x.samples, <<>>, measured))
  BY Zenon DEF w, all, Pooled
<1>22. \A field \in {"count", "min", "max", "mean"} : merged.spawnMs[field] = w[field]
  BY <1>17, <1>19
<1> QED BY <1>17, <1>19, <1>20, <1>21, <1>22, <1>23, Zenon DEF MergeIsExact

\* A run is split up as it was asked for, and stays so.
LEMMA SplitHolds == CommandSpec => []SplitUp
<1>1. CommandInit => SplitUp
  <2> SUFFICES ASSUME CommandInit PROVE SplitUp
    OBVIOUS
  <2>1. plan \in cmd.plans /\ parent = "idle" /\ budgets = <<>> /\ worker = <<>> /\ measured = <<>>
    BY DEF CommandInit, ShardInit
  <2>2. plan \in Plans /\ WholeMeans(plan)
    BY <2>1, PlansAssumption DEF CommandInit
  <2>3. measured \in [DOMAIN budgets -> Measures]
    <3>1. DOMAIN budgets = {} /\ measured = [i \in {} |-> <<>>]
      BY <2>1
    <3> QED BY <3>1
  <2> QED BY <2>1, <2>2, <2>3 DEF SplitUp
<1>2. SplitUp /\ [CommandNext]_commandVars => SplitUp'
  BY ShardPart, SplitKeeps
<1> QED BY <1>1, <1>2, PTL DEF CommandSpec

\* For every number of bots and of workers the shares of a split run add up, none
\* is empty and none is larger by two than another; and the workers hand in.
THEOREM AddedUp == CommandSpec => []ShardsAddUp
<1>1. SplitUp /\ ShardsHandIn => ShardsAddUp
  BY SplitIsWhole DEF ShardsAddUp
<1> QED BY <1>1, SplitHolds, HandedIn, PTL

\* Whatever its workers measure and however often their bots reconnect, the times of
\* a split run are those of all its samples, its rate of ticks is between those of
\* its workers, and no more has spawned than was launched, nor more was launched than
\* bots and retries allow.
THEOREM MergedExactly == CommandSpec => []MergeIsExact
BY SplitHolds, MergeExact, PTL
=============================================================================
