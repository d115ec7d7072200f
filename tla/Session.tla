-------------------------------- MODULE Session -------------------------------
(***************************************************************************)
(* server/wsServer.ts with server/wsRouter.ts: one WebSocket connection of *)
(* the control plane, which attaches a bot (bot/botApi.ts), drives it from *)
(* a console (bot/repl.ts) and runs scripts against it in an isolate       *)
(* (script/sandbox/host.ts, worker.ts).                                    *)
(*                                                                         *)
(* Bots and scripts are numbered in the order the connection creates them. *)
(* An action is one message of the client, one event of a bot, one step of *)
(* the isolate, or one message that the host takes from it.  The part of   *)
(* attach() after its await is a microtask, so it belongs to the event     *)
(* that settles the promise of connect().  What acts on a bot without      *)
(* changing anything here (chat, look, queries) is left out.               *)
(***************************************************************************)
EXTENDS Naturals, Sequences, FiniteSets

CONSTANTS MaxBots,      \* bound: attach messages of one connection
          MaxScripts,   \* bound: script.start messages of one connection
          MaxInbox      \* bound: calls of an isolate the host has not taken yet

ASSUME SessionAssumption == {MaxBots, MaxScripts, MaxInbox} \subseteq Nat

VARIABLES
  up,          \* the daemon process is running
  open,        \* the socket is open
  bot,         \* the session's variable `bot`, 0 for null
  bots,        \* how many times BotApi.connect was called
  attaching,   \* bots whose connect() promise is awaited
  client,      \* the state of each bot's connection
  told,        \* live bots on which disconnect() was called
  goal,        \* who is awaiting the pathfinder of each bot
  script,      \* the session's variable `script`, 0 for null
  target,      \* the bot that each script was started against, 0 before
  host,        \* whether the host has finished with each script
  worker,      \* the isolate of each script
  inbox,       \* messages of each isolate that the host has not taken
  raced        \* history: the client went on while attach() was awaited, or a
               \* bot was given up before its connection ended

botVars == <<bot, bots, attaching, client, told>>
scriptVars == <<script, target, host, worker, inbox>>
vars == <<up, open, botVars, goal, scriptVars, raced>>

Bots == 1 .. MaxBots
Scripts == 1 .. MaxScripts

Live(n) == client[n] \in {"joining", "world"}

Running(s) == host[s] = "running"

Init ==
  /\ up = TRUE
  /\ open = TRUE
  /\ bot = 0
  /\ bots = 0
  /\ attaching = {}
  /\ client = [n \in Bots |-> "none"]
  /\ told = {}
  /\ goal = [n \in Bots |-> "none"]
  /\ script = 0
  /\ target = [s \in Scripts |-> 0]
  /\ host = [s \in Scripts |-> "none"]
  /\ worker = [s \in Scripts |-> "none"]
  /\ inbox = [s \in Scripts |-> <<>>]
  /\ raced = FALSE

\* The client sends a message.
Message == up /\ open

-----------------------------------------------------------------------------
(* Attaching                                                               *)

\* bot?.disconnect(); of a connection that has ended it changes nothing.
Released == told \cup {n \in Bots : n = bot /\ Live(n)}

\* Mutant of Attach: the bot that is replaced is kept.
AttachKeepsOld ==
  /\ Message
  /\ bots < MaxBots
  /\ bots' = bots + 1
  /\ client' = [client EXCEPT ![bots + 1] = "joining"]
  /\ attaching' = attaching \cup {bots + 1}
  /\ raced' = (raced \/ attaching # {})
  /\ UNCHANGED <<up, open, bot, told, goal, scriptVars>>

\* attach, authorized and with a valid target, up to the await of connect().  The
\* old bot stays in `bot` until the new one has spawned.
Attach ==
  /\ Message
  /\ bots < MaxBots
  /\ bots' = bots + 1
  /\ client' = [client EXCEPT ![bots + 1] = "joining"]
  /\ attaching' = attaching \cup {bots + 1}
  /\ told' = Released
  /\ raced' = (raced \/ attaching # {})
  /\ UNCHANGED <<up, open, bot, goal, scriptVars>>

\* A bot spawns: attach() goes on, whatever the session has done meanwhile.
Spawn(n) ==
  /\ up
  /\ client[n] = "joining"
  /\ client' = [client EXCEPT ![n] = "world"]
  /\ bot' = IF n \in attaching THEN n ELSE bot
  /\ attaching' = attaching \ {n}
  /\ UNCHANGED <<up, open, bots, told, goal, scriptVars, raced>>

\* An error before the spawn rejects connect(); the connection may outlive it.
JoinError(n) ==
  /\ up
  /\ n \in attaching
  /\ attaching' = attaching \ {n}
  /\ raced' = TRUE
  /\ UNCHANGED <<up, open, bot, bots, client, told, goal, scriptVars>>

\* The connection ends: by disconnect(), by the server, or before the spawn.
BotEnds(n) ==
  /\ up
  /\ Live(n)
  /\ client' = [client EXCEPT ![n] = "ended"]
  /\ attaching' = attaching \ {n}
  /\ told' = told \ {n}
  /\ UNCHANGED <<up, open, bot, bots, goal, scriptVars, raced>>

\* BotApi passes an error of its connection on as an `error` event.  Only a script
\* that runs listens for that; otherwise the emitter throws and the process ends.
BotError(n) ==
  /\ up
  /\ client[n] = "world" /\ n \notin attaching
  /\ ~\E s \in Scripts : Running(s) /\ target[s] = n
  /\ up' = FALSE
  /\ UNCHANGED <<open, botVars, goal, scriptVars, raced>>

-----------------------------------------------------------------------------
(* The pathfinder of a bot                                                 *)

\* A new goal, or none, rejects the goto that is awaited.  A script's is answered
\* with an error; nobody catches the console's, so the process ends.
SetGoal(n, who) ==
  IF goal[n] = "console"
    THEN up' = FALSE /\ UNCHANGED goal
    ELSE goal' = [goal EXCEPT ![n] = who] /\ UNCHANGED up

GoalReached(n) ==
  /\ up
  /\ client[n] = "world"
  /\ goal[n] # "none"
  /\ goal' = [goal EXCEPT ![n] = "none"]
  /\ UNCHANGED <<up, open, botVars, scriptVars, raced>>

\* There is no path.
GoalFails(n) ==
  /\ up
  /\ client[n] = "world"
  /\ goal[n] # "none"
  /\ SetGoal(n, "none")
  /\ UNCHANGED <<open, botVars, scriptVars, raced>>

-----------------------------------------------------------------------------
(* The console                                                             *)

\* debug `goto` and `stop`
Debug(who) ==
  /\ Message
  /\ bot # 0
  /\ SetGoal(bot, who)
  /\ UNCHANGED <<open, botVars, scriptVars, raced>>

\* debug `quit`: the bot goes, the session keeps its reference.
DebugQuit ==
  /\ Message
  /\ bot # 0
  /\ told' = Released
  /\ UNCHANGED <<up, open, bot, bots, attaching, client, goal, scriptVars, raced>>

-----------------------------------------------------------------------------
(* Scripts                                                                 *)

\* finish() of a script, once: listeners off, timer cleared, the isolate is told to
\* terminate, and script.done is sent.
Finished(s) == IF s # 0 /\ Running(s) THEN [host EXCEPT ![s] = "settled"] ELSE host

\* Mutant of StartScript: the script before it is not stopped.
StartScriptBeside ==
  LET s == Cardinality({x \in Scripts : target[x] # 0}) + 1 IN
  /\ Message
  /\ bot # 0
  /\ s \in Scripts
  /\ script' = s
  /\ target' = [target EXCEPT ![s] = bot]
  /\ host' = [host EXCEPT ![s] = "running"]
  /\ worker' = [worker EXCEPT ![s] = "running"]
  /\ UNCHANGED <<up, open, botVars, goal, inbox, raced>>

\* script.start: stops the script before it, whatever bot that one drives.
StartScript ==
  LET s == Cardinality({x \in Scripts : target[x] # 0}) + 1 IN
  /\ Message
  /\ bot # 0
  /\ s \in Scripts
  /\ script' = s
  /\ target' = [target EXCEPT ![s] = bot]
  /\ host' = [Finished(script) EXCEPT ![s] = "running"]
  /\ worker' = [worker EXCEPT ![s] = "running"]
  /\ UNCHANGED <<up, open, botVars, goal, inbox, raced>>

StopScript ==
  /\ Message
  /\ host' = Finished(script)
  /\ UNCHANGED <<up, open, botVars, goal, script, target, worker, inbox, raced>>

\* Mutant of Timeout: the timer fires and the script goes on.
TimeoutIgnored(s) ==
  /\ up
  /\ Running(s)
  /\ UNCHANGED vars

Timeout(s) ==
  /\ up
  /\ Running(s)
  /\ host' = Finished(s)
  /\ UNCHANGED <<up, open, botVars, goal, script, target, worker, inbox, raced>>

\* The isolate posts a call; whether it awaits the answer is up to the script, and
\* what it has not awaited goes on after it has returned.
WorkerCalls(s, method) ==
  /\ up
  /\ worker[s] \in {"running", "returned"}
  /\ Len(inbox[s]) < MaxInbox
  /\ inbox' = [inbox EXCEPT ![s] = Append(@, method)]
  /\ UNCHANGED <<up, open, botVars, goal, script, target, host, worker, raced>>

\* The script returns or throws, with calls still open or not.
WorkerReturns(s) ==
  /\ up
  /\ worker[s] = "running"
  /\ worker' = [worker EXCEPT ![s] = "returned"]
  /\ inbox' = [inbox EXCEPT ![s] = Append(@, "done")]
  /\ UNCHANGED <<up, open, botVars, goal, script, target, host, raced>>

\* The isolate is gone: it was terminated, which takes a while after finish(), or
\* it ran out of memory.  What it has posted is still delivered.
WorkerGone(s) ==
  /\ up
  /\ worker[s] \in {"running", "returned"}
  /\ worker' = [worker EXCEPT ![s] = "gone"]
  /\ host' = Finished(s)
  /\ UNCHANGED <<up, open, botVars, goal, script, target, inbox, raced>>

\* The host takes a message of an isolate.  It does not look at whether it has
\* finished with the script: a call that comes late still drives the bot.
HostTakes(s) ==
  /\ up
  /\ inbox[s] # <<>>
  /\ inbox' = [inbox EXCEPT ![s] = Tail(@)]
  /\ \/ /\ Head(inbox[s]) = "goto"
        /\ SetGoal(target[s], "script")
        /\ UNCHANGED host
     \/ /\ Head(inbox[s]) = "stop"
        /\ SetGoal(target[s], "none")
        /\ UNCHANGED host
     \/ /\ Head(inbox[s]) = "done"
        /\ host' = Finished(s)
        /\ UNCHANGED <<up, goal>>
  /\ UNCHANGED <<open, botVars, script, target, worker, raced>>

-----------------------------------------------------------------------------
(* The end of the session                                                  *)

\* The socket closes: script?.stop() and bot?.disconnect().
Hangup ==
  /\ up
  /\ open
  /\ open' = FALSE
  /\ host' = Finished(script)
  /\ told' = Released
  /\ raced' = (raced \/ attaching # {})
  /\ UNCHANGED <<up, bot, bots, attaching, client, goal, script, target, worker, inbox>>

-----------------------------------------------------------------------------
(* The specification                                                       *)

BotStep(n) == Spawn(n) \/ JoinError(n) \/ BotEnds(n) \/ BotError(n) \/ GoalReached(n) \/ GoalFails(n)

ScriptStep(s) ==
  \/ Timeout(s)
  \/ \E method \in {"goto", "stop"} : WorkerCalls(s, method)
  \/ WorkerReturns(s)
  \/ WorkerGone(s)
  \/ HostTakes(s)

Next ==
  \/ Attach
  \/ Debug("console")
  \/ Debug("none")
  \/ DebugQuit
  \/ StartScript
  \/ StopScript
  \/ Hangup
  \/ \E n \in Bots : BotStep(n)
  \/ \E s \in Scripts : ScriptStep(s)

Spec == Init /\ [][Next]_vars

\* Timers that are due run, messages of an isolate are taken, and an isolate that
\* was told to terminate does.  Clients and servers may be silent for good.
Fairness ==
  \A s \in Scripts :
    /\ WF_vars(Timeout(s))
    /\ WF_vars(HostTakes(s))
    /\ WF_vars(~Running(s) /\ WorkerGone(s))

FairSpec == Spec /\ Fairness

-----------------------------------------------------------------------------
(* Properties                                                              *)

\* Every variable keeps its type; `bot` only ever names a bot that has spawned, so
\* that the console and scripts never drive one that is still joining.
TypeOK ==
  /\ up \in BOOLEAN
  /\ open \in BOOLEAN
  /\ bots \in 0 .. MaxBots
  /\ client \in [Bots -> {"none", "joining", "world", "ended"}]
  /\ bot = 0 \/ (bot \in Bots /\ client[bot] \in {"world", "ended"})
  /\ attaching \subseteq {n \in Bots : client[n] = "joining"}
  /\ told \subseteq {n \in Bots : Live(n)}
  /\ goal \in [Bots -> {"none", "console", "script"}]
  /\ script \in 0 .. MaxScripts
  /\ target \in [Scripts -> 0 .. MaxBots]
  /\ host \in [Scripts -> {"none", "running", "settled"}]
  /\ worker \in [Scripts -> {"none", "running", "returned", "gone"}]
  /\ inbox \in [Scripts -> Seq({"goto", "stop", "done"})]
  /\ raced \in BOOLEAN

\* The bots of this connection that nobody has told to go.
Unreleased == {n \in Bots : Live(n)} \ told

\* "per-connection it attaches one bot" (wsServer.ts:19): a connection has at most
\* one bot on the server that it has not told to go.
OneBot == Cardinality(Unreleased) <= 1

\* That holds for a client that waits for the answer to attach: the one bot is the
\* one it may drive or waits for, and when the socket closes there is none.
PatientClientHasOneBot ==
  ~raced =>
    /\ OneBot
    /\ Unreleased \subseteq {bot} \cup attaching
    /\ ~open => Unreleased = {}

\* A connection runs one script at a time, and none when it is closed, however
\* timeouts, stops, returns and restarts meet.
OneScriptAtATime ==
  /\ Cardinality({s \in Scripts : Running(s)}) <= 1
  /\ \A s \in Scripts : Running(s) => s = script /\ open

\* A script ends for good: the host finishes with it, its isolate goes, and the
\* calls it left behind are used up, so that it no longer drives its bot.
Over(s) == host[s] = "settled" /\ worker[s] = "gone" /\ inbox[s] = <<>>

ScriptsEnd == \A s \in Scripts : Running(s) ~> [](Over(s)) \/ ~up
=============================================================================
