----------------------------- MODULE Session_proofs -----------------------------
(***************************************************************************)
(* Theorems about a WebSocket session, for any number of bots, scripts and *)
(* calls: the types, that one script runs at a time, and that a client who *)
(* waits for the answer to attach has one bot.                             *)
(***************************************************************************)
EXTENDS Session, FiniteSetTheorems, TLAPS

\* Bots are numbered in the order of their attach messages.
Numbered == \A n \in Bots : client[n] = "none" <=> n > bots

\* The running script is the session's, and the socket is open.
ScriptOK == \A s \in Scripts : Running(s) => s = script /\ open

\* For a patient client: it waits for at most one bot, and while it does every
\* other one has been told to go; it hung up only when it waited for none.
PatientOK ==
  ~raced =>
    /\ \A m, n \in attaching : m = n
    /\ Unreleased \subseteq {bot} \cup attaching
    /\ attaching # {} => Unreleased \subseteq attaching
    /\ ~open => attaching = {} /\ Unreleased = {}

SessionInv == TypeOK /\ Numbered /\ ScriptOK /\ PatientOK

Calls == {"goto", "stop", "done"}

-----------------------------------------------------------------------------
(* Helpers                                                                 *)

\* disconnect() is called on live bots only.
LEMMA ReleasedTyped ==
  ASSUME TypeOK
  PROVE  Released \subseteq {n \in Bots : Live(n)}
BY DEF TypeOK, Released

\* finish() settles a script that runs and touches no other.
LEMMA FinishedTyped ==
  ASSUME TypeOK, NEW s \in 0 .. MaxScripts
  PROVE  /\ Finished(s) \in [Scripts -> {"none", "running", "settled"}]
         /\ \A x \in Scripts : Finished(s)[x] = "running" => Running(x) /\ x # s
BY DEF TypeOK, Finished, Running, Scripts

\* The pathfinder of a bot has at most one goto that is awaited.
LEMMA GoalTyped ==
  ASSUME TypeOK, NEW n, NEW who \in {"none", "console", "script"}, SetGoal(n, who)
  PROVE  /\ goal' \in [Bots -> {"none", "console", "script"}]
         /\ up' \in BOOLEAN
BY DEF TypeOK, SetGoal

\* A subset of a set with one element has at most one element.
LEMMA AtMostOne ==
  ASSUME NEW S, NEW x, S \subseteq {x}
  PROVE  Cardinality(S) <= 1
<1>1. CASE S = {}
  BY <1>1, FS_EmptySet
<1>2. CASE S # {}
  <2>1. S = {x}
    BY <1>2
  <2> QED BY <2>1, FS_Singleton
<1> QED BY <1>1, <1>2

-----------------------------------------------------------------------------
(* Types and numbers                                                       *)

\* A socket that has just opened satisfies the invariant.
LEMMA InitHolds == Init => SessionInv
<1> SUFFICES ASSUME Init PROVE SessionInv
  OBVIOUS
<1>1. \A n \in Bots : n > 0 /\ ~Live(n)
  BY SessionAssumption DEF Init, Bots, Live
<1>2. <<>> \in Seq(Calls)
  OBVIOUS
<1>3. TypeOK
  <2>1. 0 \in 0 .. MaxBots /\ 0 \in 0 .. MaxScripts
    BY SessionAssumption
  <2>2. inbox \in [Scripts -> Seq({"goto", "stop", "done"})]
    BY <1>2 DEF Init, Calls
  <2> QED BY <2>1, <2>2 DEF Init, TypeOK
<1>4. Numbered
  BY <1>1 DEF Init, Numbered
<1>5. ScriptOK
  BY DEF Init, ScriptOK, Running
<1>6. PatientOK
  BY <1>1 DEF Init, PatientOK, Unreleased
<1> QED BY <1>3, <1>4, <1>5, <1>6 DEF SessionInv

\* Attaching numbers a new bot, which is not the one the session has.
LEMMA AttachTyped ==
  ASSUME TypeOK, Numbered, Attach
  PROVE  TypeOK' /\ Numbered'
<1> DEFINE n == bots + 1
<1>1. bots \in Nat /\ n \in Bots /\ n > bots /\ bots' = n
  BY SessionAssumption DEF TypeOK, Attach, Bots
<1>2. client[n] = "none"
  BY <1>1 DEF Numbered
<1>3. client' = [client EXCEPT ![n] = "joining"] /\ client \in [Bots -> {"none", "joining", "world", "ended"}]
  BY DEF Attach, TypeOK
<1>4. client'[n] = "joining" /\ \A m \in Bots : m # n => client'[m] = client[m]
  BY <1>1, <1>3
<1>5. ~Live(n) /\ n # bot /\ n \notin attaching
  BY <1>1, <1>2 DEF TypeOK, Live, Bots
<1>6. told' \subseteq {m \in Bots : Live(m)'}
  BY <1>3, <1>4, <1>5, ReleasedTyped DEF Attach, Live
<1>7. attaching' \subseteq {m \in Bots : client'[m] = "joining"}
  BY <1>1, <1>4, <1>5 DEF Attach, TypeOK
<1>8. bot' = 0 \/ (bot' \in Bots /\ client'[bot'] \in {"world", "ended"})
  BY <1>4, <1>5 DEF Attach, TypeOK
<1>9. bots' \in 0 .. MaxBots
  BY <1>1 DEF Bots
<1>10. client' \in [Bots -> {"none", "joining", "world", "ended"}]
  BY <1>3
<1>11. raced' \in BOOLEAN
  BY DEF Attach, TypeOK
<1>12. TypeOK'
  BY <1>6, <1>7, <1>8, <1>9, <1>10, <1>11 DEF Attach, TypeOK, scriptVars
<1>13. Numbered'
  <2> SUFFICES ASSUME NEW m \in Bots PROVE client'[m] = "none" <=> m > n
    BY <1>1 DEF Numbered
  <2>1. CASE m = n
    BY <1>1, <1>4, <2>1
  <2>2. CASE m # n
    <3>1. m \in Nat /\ (m > bots <=> m > n)
      BY <1>1, <2>2 DEF Bots
    <3> QED BY <1>4, <2>2, <3>1 DEF Numbered
  <2> QED BY <2>1, <2>2
<1> QED BY <1>12, <1>13

\* What a bot does keeps the types.
LEMMA BotStepTyped ==
  ASSUME TypeOK, Numbered, NEW n \in Bots, BotStep(n)
  PROVE  TypeOK' /\ Numbered'
<1>1. CASE Spawn(n)
  <2>1. client[n] = "joining" /\ client' = [client EXCEPT ![n] = "world"]
        /\ client \in [Bots -> {"none", "joining", "world", "ended"}]
    BY <1>1 DEF Spawn, TypeOK
  <2>2. client'[n] = "world" /\ \A m \in Bots : m # n => client'[m] = client[m]
    BY <2>1
  <2>3. attaching' \subseteq {m \in Bots : client'[m] = "joining"}
    BY <1>1, <2>2 DEF Spawn, TypeOK
  <2>4. told' \subseteq {m \in Bots : Live(m)'}
    BY <1>1, <2>2 DEF Spawn, TypeOK, Live
  <2>5. bot' = 0 \/ (bot' \in Bots /\ client'[bot'] \in {"world", "ended"})
    BY <1>1, <2>2 DEF Spawn, TypeOK
  <2>6. client' \in [Bots -> {"none", "joining", "world", "ended"}]
    BY <2>1
  <2>7. TypeOK'
    BY <1>1, <2>3, <2>4, <2>5, <2>6 DEF Spawn, TypeOK, scriptVars
  <2>8. Numbered'
    BY <1>1, <2>1, <2>2 DEF Spawn, Numbered
  <2> QED BY <2>7, <2>8
<1>2. CASE JoinError(n)
  BY <1>2 DEF JoinError, TypeOK, Numbered, Live, scriptVars
<1>3. CASE BotEnds(n)
  <2>1. Live(n) /\ client' = [client EXCEPT ![n] = "ended"]
        /\ client \in [Bots -> {"none", "joining", "world", "ended"}]
    BY <1>3 DEF BotEnds, TypeOK
  <2>2. client'[n] = "ended" /\ \A m \in Bots : m # n => client'[m] = client[m]
    BY <2>1
  <2>3. attaching' \subseteq {m \in Bots : client'[m] = "joining"}
    BY <1>3, <2>2 DEF BotEnds, TypeOK
  <2>4. told' \subseteq {m \in Bots : Live(m)'}
    BY <1>3, <2>2 DEF BotEnds, TypeOK, Live
  <2>5. bot' = 0 \/ (bot' \in Bots /\ client'[bot'] \in {"world", "ended"})
    BY <1>3, <2>2 DEF BotEnds, TypeOK
  <2>6. client' \in [Bots -> {"none", "joining", "world", "ended"}]
    BY <2>1
  <2>7. TypeOK'
    BY <1>3, <2>3, <2>4, <2>5, <2>6 DEF BotEnds, TypeOK, scriptVars
  <2>8. Numbered'
    BY <1>3, <2>1, <2>2 DEF BotEnds, Numbered, Live
  <2> QED BY <2>7, <2>8
<1>4. CASE BotError(n)
  BY <1>4 DEF BotError, TypeOK, Numbered, Live, scriptVars, botVars
<1>5. CASE GoalReached(n)
  BY <1>5 DEF GoalReached, TypeOK, Numbered, Live, scriptVars, botVars
<1>6. CASE GoalFails(n)
  BY <1>6, GoalTyped DEF GoalFails, TypeOK, Numbered, Live, scriptVars, botVars
<1> QED BY <1>1, <1>2, <1>3, <1>4, <1>5, <1>6 DEF BotStep

\* What an isolate and its host do keeps the types.
LEMMA ScriptStepTyped ==
  ASSUME TypeOK, Numbered, NEW s \in Scripts, ScriptStep(s)
  PROVE  TypeOK' /\ Numbered'
<1>1. s \in 0 .. MaxScripts
  BY SessionAssumption DEF Scripts
<1>2. CASE Timeout(s)
  BY <1>1, <1>2, FinishedTyped DEF Timeout, TypeOK, Numbered, Live, botVars
<1>3. ASSUME NEW method \in {"goto", "stop"}, WorkerCalls(s, method) PROVE TypeOK' /\ Numbered'
  <2>1. inbox' \in [Scripts -> Seq(Calls)]
    BY <1>3 DEF WorkerCalls, TypeOK, Calls
  <2> QED BY <1>3, <2>1 DEF WorkerCalls, TypeOK, Numbered, Live, botVars, Calls
<1>4. CASE WorkerReturns(s)
  <2>1. inbox' \in [Scripts -> Seq(Calls)]
    BY <1>4 DEF WorkerReturns, TypeOK, Calls
  <2>2. worker' \in [Scripts -> {"none", "running", "returned", "gone"}]
    BY <1>4 DEF WorkerReturns, TypeOK
  <2> QED BY <1>4, <2>1, <2>2 DEF WorkerReturns, TypeOK, Numbered, Live, botVars, Calls
<1>5. CASE WorkerGone(s)
  <2>1. worker' \in [Scripts -> {"none", "running", "returned", "gone"}]
    BY <1>5 DEF WorkerGone, TypeOK
  <2> QED BY <1>1, <1>5, <2>1, FinishedTyped DEF WorkerGone, TypeOK, Numbered, Live, botVars
<1>6. CASE HostTakes(s)
  <2>1. inbox[s] \in Seq(Calls) /\ inbox[s] # <<>> /\ inbox \in [Scripts -> Seq(Calls)]
    BY <1>6 DEF HostTakes, TypeOK, Calls
  <2>2. inbox' \in [Scripts -> Seq(Calls)]
    BY <1>6, <2>1 DEF HostTakes
  <2>3. /\ host' \in [Scripts -> {"none", "running", "settled"}]
        /\ goal' \in [Bots -> {"none", "console", "script"}]
        /\ up' \in BOOLEAN
    <3>1. CASE SetGoal(target[s], "script") /\ UNCHANGED host
      BY <3>1, GoalTyped DEF TypeOK
    <3>2. CASE SetGoal(target[s], "none") /\ UNCHANGED host
      BY <3>2, GoalTyped DEF TypeOK
    <3>3. CASE host' = Finished(s) /\ UNCHANGED <<up, goal>>
      BY <1>1, <3>3, FinishedTyped DEF TypeOK
    <3> QED BY <1>6, <3>1, <3>2, <3>3 DEF HostTakes
  <2> QED BY <1>6, <2>2, <2>3 DEF HostTakes, TypeOK, Numbered, Live, botVars, Calls
<1> QED BY <1>2, <1>3, <1>4, <1>5, <1>6 DEF ScriptStep

\* Every step of a session keeps the types and the numbers.
LEMMA TypedStep ==
  ASSUME TypeOK, Numbered, [Next]_vars
  PROVE  TypeOK' /\ Numbered'
<1>1. CASE Attach
  BY <1>1, AttachTyped
<1>2. ASSUME NEW who \in {"console", "none"}, Debug(who) PROVE TypeOK' /\ Numbered'
  BY <1>2, GoalTyped DEF Debug, TypeOK, Numbered, Live, scriptVars, botVars
<1>3. CASE DebugQuit
  BY <1>3, ReleasedTyped DEF DebugQuit, TypeOK, Numbered, Live, scriptVars
<1>4. CASE StartScript
  <2> DEFINE s == Cardinality({x \in Scripts : target[x] # 0}) + 1
  <2>1. s \in Scripts /\ s \in 0 .. MaxScripts /\ script' = s
    BY <1>4, SessionAssumption DEF StartScript, Scripts
  <2>2. bot \in 0 .. MaxBots
    BY SessionAssumption DEF TypeOK, Bots
  <2>3. target' = [target EXCEPT ![s] = bot] /\ worker' = [worker EXCEPT ![s] = "running"]
        /\ host' = [Finished(script) EXCEPT ![s] = "running"]
    BY <1>4 DEF StartScript
  <2>4. target' \in [Scripts -> 0 .. MaxBots]
    BY <2>2, <2>3 DEF TypeOK
  <2>5. worker' \in [Scripts -> {"none", "running", "returned", "gone"}]
    BY <2>3 DEF TypeOK
  <2>6. Finished(script) \in [Scripts -> {"none", "running", "settled"}]
    BY FinishedTyped DEF TypeOK
  <2>7. host' \in [Scripts -> {"none", "running", "settled"}]
    BY <2>3, <2>6
  <2> QED BY <1>4, <2>1, <2>4, <2>5, <2>7 DEF StartScript, TypeOK, Numbered, Live, botVars
<1>5. CASE StopScript
  BY <1>5, FinishedTyped DEF StopScript, TypeOK, Numbered, Live, botVars
<1>6. CASE Hangup
  BY <1>6, FinishedTyped, ReleasedTyped DEF Hangup, TypeOK, Numbered, Live
<1>7. CASE UNCHANGED vars
  BY <1>7 DEF vars, botVars, scriptVars, TypeOK, Numbered, Live
<1> QED
  BY <1>1, <1>2, <1>3, <1>4, <1>5, <1>6, <1>7, BotStepTyped, ScriptStepTyped DEF Next

\* Every variable of a session keeps its type, and `bot` never names a bot that
\* is still joining.
THEOREM TypeCorrect == Spec => []TypeOK
<1>1. Init => TypeOK /\ Numbered
  BY InitHolds DEF SessionInv
<1>2. (TypeOK /\ Numbered) /\ [Next]_vars => (TypeOK /\ Numbered)'
  BY TypedStep
<1> QED BY <1>1, <1>2, PTL DEF Spec

-----------------------------------------------------------------------------
(* Scripts                                                                 *)

\* A step that leaves scripts and the socket alone, or finishes a script.
LEMMA ScriptKept ==
  ASSUME TypeOK, ScriptOK, script' = script, open' = open,
         host' = host \/ \E s \in 0 .. MaxScripts : host' = Finished(s)
  PROVE  ScriptOK'
<1>1. CASE host' = host
  BY <1>1 DEF ScriptOK, Running
<1>2. CASE \E s \in 0 .. MaxScripts : host' = Finished(s)
  BY <1>2, FinishedTyped DEF ScriptOK, Running
<1> QED BY <1>1, <1>2

\* Every step keeps the running script the session's.
LEMMA ScriptsStep ==
  ASSUME TypeOK, ScriptOK, [Next]_vars
  PROVE  ScriptOK'
<1>0. script \in 0 .. MaxScripts /\ \A s \in Scripts : s \in 0 .. MaxScripts
  BY SessionAssumption DEF TypeOK, Scripts
<1>1. CASE Attach \/ DebugQuit \/ \E who \in {"console", "none"} : Debug(who)
  BY <1>1, ScriptKept DEF Attach, Debug, DebugQuit, scriptVars
<1>2. ASSUME NEW n \in Bots, BotStep(n) PROVE ScriptOK'
  BY <1>2, ScriptKept
     DEF BotStep, Spawn, JoinError, BotEnds, BotError, GoalReached, GoalFails, scriptVars
<1>3. ASSUME NEW s \in Scripts, ScriptStep(s) PROVE ScriptOK'
  <2>1. script' = script /\ open' = open
    BY <1>3 DEF ScriptStep, Timeout, WorkerCalls, WorkerReturns, WorkerGone, HostTakes
  <2>2. host' = host \/ host' = Finished(s)
    BY <1>3 DEF ScriptStep, Timeout, WorkerCalls, WorkerReturns, WorkerGone, HostTakes
  <2> QED BY <1>0, <2>1, <2>2, ScriptKept
<1>4. CASE StopScript
  BY <1>0, <1>4, ScriptKept DEF StopScript
<1>5. CASE StartScript
  <2> DEFINE s == Cardinality({x \in Scripts : target[x] # 0}) + 1
  <2>1. s \in Scripts /\ script' = s /\ host' = [Finished(script) EXCEPT ![s] = "running"]
        /\ open /\ open' = open
    BY <1>5 DEF StartScript, Message
  <2>2. \A x \in Scripts : Finished(script)[x] # "running"
    BY <1>0, FinishedTyped DEF ScriptOK
  <2>3. Finished(script) \in [Scripts -> {"none", "running", "settled"}]
    BY <1>0, FinishedTyped
  <2> HIDE DEF s
  <2>4. \A x \in Scripts : host'[x] = "running" => x = s
    BY <2>1, <2>2, <2>3
  <2> QED BY <2>1, <2>4 DEF ScriptOK, Running
<1>6. CASE Hangup
  <2>1. \A x \in Scripts : host'[x] # "running"
    BY <1>0, <1>6, FinishedTyped DEF Hangup, ScriptOK
  <2> QED BY <2>1 DEF ScriptOK, Running
<1>7. CASE UNCHANGED vars
  BY <1>7, ScriptKept DEF vars, scriptVars
<1> QED BY <1>1, <1>2, <1>3, <1>4, <1>5, <1>6, <1>7 DEF Next

\* However starts, stops, timeouts and the end of a socket meet, one script at
\* most drives a bot of the session, and none once the socket is closed.
THEOREM OneScript == Spec => []OneScriptAtATime
<1>1. Init => ScriptOK
  BY InitHolds DEF SessionInv
<1>2. TypeOK /\ ScriptOK /\ [Next]_vars => ScriptOK'
  BY ScriptsStep
<1>3. ScriptOK => OneScriptAtATime
  <2> SUFFICES ASSUME ScriptOK PROVE OneScriptAtATime
    OBVIOUS
  <2>1. {s \in Scripts : Running(s)} \subseteq {script}
    BY DEF ScriptOK
  <2>2. Cardinality({s \in Scripts : Running(s)}) <= 1
    BY <2>1, AtMostOne
  <2> QED BY <2>2 DEF ScriptOK, OneScriptAtATime
<1> QED BY <1>1, <1>2, <1>3, TypeCorrect, PTL DEF Spec

-----------------------------------------------------------------------------
(* Bots                                                                    *)

\* A step that changes none of the variables PatientOK is about.
LEMMA PatientKept ==
  ASSUME PatientOK, UNCHANGED <<open, botVars, raced>>
  PROVE  PatientOK'
BY DEF PatientOK, Unreleased, Live, botVars

\* Every step of a session keeps what is said of a patient client.
LEMMA PatientStep ==
  ASSUME TypeOK, Numbered, PatientOK, [Next]_vars
  PROVE  PatientOK'
<1>1. CASE Attach
  <2> DEFINE n == bots + 1
  <2> SUFFICES ASSUME ~raced' PROVE PatientOK'
    BY DEF PatientOK
  <2>1. ~raced /\ attaching = {} /\ open /\ open' = open
    BY <1>1 DEF Attach, TypeOK, Message
  <2>2. n \in Bots /\ attaching' = {n}
    BY <1>1, <2>1, SessionAssumption DEF TypeOK, Attach, Bots
  <2>3. client' = [client EXCEPT ![n] = "joining"] /\ told' = Released
    BY <1>1 DEF Attach
  <2>4. \A m \in Bots : m # n => client'[m] = client[m]
    BY <2>2, <2>3 DEF TypeOK
  <2>5. Unreleased \subseteq {bot}
    BY <2>1 DEF PatientOK
  <2>6. Unreleased' \subseteq {n}
    BY <2>2, <2>3, <2>4, <2>5 DEF Unreleased, Live, Released
  <2> HIDE DEF n
  <2> QED BY <2>1, <2>2, <2>6 DEF PatientOK
<1>2. ASSUME NEW n \in Bots, Spawn(n) PROVE PatientOK'
  <2> SUFFICES ASSUME ~raced PROVE PatientOK'
    BY <1>2 DEF PatientOK, Spawn
  <2>1. client[n] = "joining" /\ attaching' = attaching \ {n} /\ told' = told /\ open' = open
        /\ bot' = (IF n \in attaching THEN n ELSE bot)
    BY <1>2 DEF Spawn
  <2>2. Unreleased' = Unreleased
    BY <1>2, <2>1 DEF Spawn, Unreleased, Live, TypeOK
  <2>3. CASE n \in attaching
    BY <2>1, <2>2, <2>3 DEF PatientOK
  <2>4. CASE n \notin attaching
    BY <2>1, <2>2, <2>4 DEF PatientOK
  <2> QED BY <2>3, <2>4
<1>3. ASSUME NEW n \in Bots, JoinError(n) PROVE PatientOK'
  BY <1>3 DEF JoinError, PatientOK
<1>4. ASSUME NEW n \in Bots, BotEnds(n) PROVE PatientOK'
  <2> SUFFICES ASSUME ~raced PROVE PatientOK'
    BY <1>4 DEF PatientOK, BotEnds
  <2>1. attaching' = attaching \ {n} /\ bot' = bot /\ open' = open
    BY <1>4 DEF BotEnds
  <2>2. Unreleased' \subseteq Unreleased \ {n}
    BY <1>4 DEF BotEnds, Unreleased, Live, TypeOK
  <2>3. CASE attaching = {}
    BY <2>1, <2>2, <2>3 DEF PatientOK
  <2>4. CASE attaching # {}
    BY <2>1, <2>2, <2>4 DEF PatientOK
  <2> QED BY <2>3, <2>4
<1>5. ASSUME NEW n \in Bots, BotError(n) \/ GoalReached(n) \/ GoalFails(n) PROVE PatientOK'
  BY <1>5, PatientKept DEF BotError, GoalReached, GoalFails
<1>6. ASSUME NEW s \in Scripts, ScriptStep(s) PROVE PatientOK'
  BY <1>6, PatientKept DEF ScriptStep, Timeout, WorkerCalls, WorkerReturns, WorkerGone, HostTakes
<1>7. CASE StartScript \/ StopScript \/ \E who \in {"console", "none"} : Debug(who)
  BY <1>7, PatientKept DEF StartScript, StopScript, Debug
<1>8. CASE DebugQuit
  <2>1. Unreleased' \subseteq Unreleased
    BY <1>8 DEF DebugQuit, Unreleased, Released, Live
  <2> QED BY <1>8, <2>1 DEF DebugQuit, PatientOK
<1>9. CASE Hangup
  <2> SUFFICES ASSUME ~raced' PROVE PatientOK'
    BY DEF PatientOK
  <2>1. ~raced /\ attaching = {} /\ attaching' = {}
    BY <1>9 DEF Hangup, TypeOK
  <2>2. Unreleased \subseteq {bot}
    BY <2>1 DEF PatientOK
  <2>3. Unreleased' = {}
    BY <1>9, <2>2 DEF Hangup, Unreleased, Released, Live
  <2> QED BY <2>1, <2>3 DEF PatientOK
<1>10. CASE UNCHANGED vars
  BY <1>10, PatientKept DEF vars
<1> QED
  BY <1>1, <1>2, <1>3, <1>4, <1>5, <1>6, <1>7, <1>8, <1>9, <1>10 DEF Next, BotStep

\* A client that waits for the answer to attach has one bot that was not told to
\* go, the one it drives or waits for, and none after it has hung up.
THEOREM PatientHasOneBot == Spec => []PatientClientHasOneBot
<1>1. Init => TypeOK /\ Numbered /\ PatientOK
  BY InitHolds DEF SessionInv
<1>2. (TypeOK /\ Numbered /\ PatientOK) /\ [Next]_vars => (TypeOK /\ Numbered /\ PatientOK)'
  BY TypedStep, PatientStep
<1>3. PatientOK => PatientClientHasOneBot
  <2> SUFFICES ASSUME PatientOK, ~raced
               PROVE  OneBot /\ Unreleased \subseteq {bot} \cup attaching /\ (~open => Unreleased = {})
    BY DEF PatientClientHasOneBot
  <2>1. CASE attaching = {}
    <3>1. Unreleased \subseteq {bot}
      BY <2>1 DEF PatientOK
    <3> QED BY <3>1, AtMostOne DEF PatientOK, OneBot
  <2>2. CASE attaching # {}
    <3>1. PICK n : n \in attaching
      BY <2>2
    <3>2. Unreleased \subseteq {n}
      BY <2>2, <3>1 DEF PatientOK
    <3> QED BY <3>2, AtMostOne DEF PatientOK, OneBot
  <2> QED BY <2>1, <2>2
<1> QED BY <1>1, <1>2, <1>3, PTL DEF Spec
=============================================================================
