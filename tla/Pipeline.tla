------------------------------- MODULE Pipeline -------------------------------
(***************************************************************************)
(* pipeline/runner.ts with the stages of pipeline/stdlib.ts: what one bot  *)
(* does in the world.  The runner starts a stage, awaits its result or its *)
(* timeout, and goes on to the next stage, retries or gives up; it tears   *)
(* everything down when the bot is kicked or ends.  A stage started is a   *)
(* handle; handles are numbered in the order they are created.             *)
(*                                                                         *)
(* A callback (a timer, an event of the bot, a call) is one action.  The   *)
(* runner's continuation after its await is a microtask: once the result   *)
(* is there it runs before any other callback (Resume, Settled).           *)
(***************************************************************************)
EXTENDS Integers, Sequences, FiniteSets

CONSTANTS Pipelines,    \* the pipelines a bot may be given
          MaxHandles,   \* handles of one bot that the model can tell apart
          MaxLogins     \* bound: join-game packets of one bot

\* daemon: chatSpam, antiAfk, movement.  inert: a daemon the driver has no
\* methods for, or an empty list of commands.  `timed`: timeoutMs is set.
Kinds == {"auth", "commands", "daemon", "inert", "blueprint"}
Stages == [kind : Kinds, onFailure : {"stop", "continue", "retry"},
           retries : Nat, timed : BOOLEAN]

\* How often the runner may start a stage.
Attempts(stage) == 1 + (IF stage.onFailure = "retry" THEN stage.retries ELSE 0)

ASSUME PipelineAssumption ==
  /\ Pipelines \subseteq Seq(Stages)
  /\ MaxHandles \in Nat /\ MaxLogins \in Nat
  /\ \A p \in Pipelines : \A i \in DOMAIN p : Len(p) * Attempts(p[i]) <= MaxHandles

VARIABLES
  stages,     \* the resolved pipeline
  bot,        \* where the bot stands
  logins,     \* join-game packets so far
  spawned,    \* the runner's flag, ctx.spawned() of the stages
  stopped,    \* the runner's flag of that name
  runner,     \* new, await, finished
  attempt,    \* retries of the current stage so far
  made,       \* handles created; the last one is the one awaited
  handle,     \* each handle: its stage and what it still has going
  handles,    \* the runner's set of handles to tear down
  result,     \* what withTimeout() makes of each handle's done
  timeouts    \* handles whose timeout is pending

world == <<bot, logins, spawned>>
vars == <<stages, world, stopped, runner, attempt, made, handle, handles, result, timeouts>>

Ids == 1 .. MaxHandles

\* listening: subscribed to the event it waits for.  timers: delays or an
\* interval pending.  acting: a blueprint's actions are under way.
Handles == [stage : Nat, listening : BOOLEAN, timers : Nat, acting : BOOLEAN]
NoHandle == [stage |-> 0, listening |-> FALSE, timers |-> 0, acting |-> FALSE]

Results == {"pending", "passed", "failed"}

Init ==
  /\ stages \in Pipelines
  /\ bot = "joining"
  /\ logins = 0
  /\ spawned = FALSE
  /\ stopped = FALSE
  /\ runner = "new"
  /\ attempt = 0
  /\ made = 0
  /\ handle = [h \in Ids |-> NoHandle]
  /\ handles = {}
  /\ result = [h \in Ids |-> "pending"]
  /\ timeouts = {}

-----------------------------------------------------------------------------
(* Stages                                                                  *)

\* onSpawn(): a stage created after the spawn starts at once, otherwise it
\* listens.  auth listens for every login; a daemon's interval is one timer.
NewHandle(i) ==
  LET kind == stages[i].kind IN
  [stage     |-> i,
   listening |-> kind = "auth" \/ (kind # "inert" /\ ~spawned),
   timers    |-> IF kind \in {"commands", "daemon"} /\ spawned THEN 1 ELSE 0,
   acting    |-> kind = "blueprint" /\ spawned]

\* A daemon and a stage with nothing to do are done when they are created.
FirstResult(i) == IF stages[i].kind \in {"daemon", "inert"} THEN "passed" ELSE "pending"

\* stop() of the handles in S: listeners off, timers cleared.  A blueprint's
\* actions are not interrupted.
TornDownHandles(S) ==
  [h \in Ids |-> IF h \in S THEN [handle[h] EXCEPT !.listening = FALSE, !.timers = 0]
                 ELSE handle[h]]

\* A late result is ignored: the promise of withTimeout() settles once.
SettledWith(h, r) ==
  IF result[h] = "pending" THEN [result EXCEPT ![h] = r] ELSE result

-----------------------------------------------------------------------------
(* The runner                                                              *)

\* Starts an attempt at stage i, with the handles in S stopped and dropped.
StartStage(i, S) ==
  LET h == made + 1 IN
  /\ h \in Ids
  /\ made' = h
  /\ runner' = "await"
  /\ handle' = [TornDownHandles(S) EXCEPT ![h] = NewHandle(i)]
  /\ handles' = (handles \ S) \cup {h}
  /\ result' = [result EXCEPT ![h] = FirstResult(i)]
  /\ timeouts' = IF stages[i].timed /\ FirstResult(i) = "pending"
                   THEN timeouts \cup {h} ELSE timeouts

\* Stops and drops the handles in S and leaves the loop.
Finish(S) ==
  /\ runner' = "finished"
  /\ handle' = TornDownHandles(S)
  /\ handles' = handles \ S
  /\ UNCHANGED <<attempt, made, result, timeouts>>

\* Mutant of NextStage: a pipeline that was stopped goes on.
NextStageAnyway(i, S) ==
  IF i > Len(stages)
    THEN Finish(S)
    ELSE StartStage(i, S) /\ attempt' = 0

\* The head of the loop: the next stage, unless the pipeline was stopped.
NextStage(i, S) ==
  IF i > Len(stages) \/ stopped
    THEN Finish(S)
    ELSE StartStage(i, S) /\ attempt' = 0

Begin ==
  /\ runner = "new"
  /\ NextStage(1, {})
  /\ UNCHANGED <<stages, world, stopped>>

Settled == runner = "await" /\ result[made] # "pending"

Current == stages[handle[made].stage]

Advance == NextStage(handle[made].stage + 1, {})

\* Mutant of Retry: the attempt that failed is left running.
RetryOver ==
  /\ StartStage(handle[made].stage, {})
  /\ attempt' = attempt + 1

\* A retry stops the failed attempt and starts another, whether or not the
\* pipeline was stopped meanwhile.
Retry ==
  /\ StartStage(handle[made].stage, {made})
  /\ attempt' = attempt + 1

MayRetry == Current.onFailure = "retry" /\ attempt < Current.retries

\* Mutant of GiveUp: policy `stop` is taken for `continue`.
GiveUpNever == NextStage(handle[made].stage + 1, {made})

\* No retry left: policy `stop` leaves the loop with the failed stage in place,
\* every other policy drops it and goes on.
GiveUp ==
  IF Current.onFailure = "stop"
    THEN Finish({})
    ELSE NextStage(handle[made].stage + 1, {made})

Resume ==
  /\ Settled
  /\ \/ result[made] = "passed" /\ Advance
     \/ result[made] = "failed" /\ (IF MayRetry THEN Retry ELSE GiveUp)
  /\ UNCHANGED <<stages, world, stopped>>

\* Any other callback waits for the microtask.
Callback == runner # "new" /\ ~Settled

-----------------------------------------------------------------------------
(* Timers                                                                  *)

\* A delay of auth or the last one of commands fires: the stage has passed.
Work(h) ==
  /\ Callback
  /\ handle[h].timers > 0
  /\ stages[handle[h].stage].kind \in {"auth", "commands"}
  /\ handle' = [handle EXCEPT ![h].timers = @ - 1]
  /\ result' = SettledWith(h, "passed")
  /\ timeouts' = timeouts \ {h}
  /\ UNCHANGED <<stages, world, stopped, runner, attempt, made, handles>>

\* The last action of a blueprint: done or succeeded, or its fail action.
BlueprintEnds(h) ==
  /\ Callback
  /\ handle[h].acting
  /\ handle' = [handle EXCEPT ![h].acting = FALSE]
  /\ \E r \in {"passed", "failed"} : result' = SettledWith(h, r)
  /\ timeouts' = timeouts \ {h}
  /\ UNCHANGED <<stages, world, stopped, runner, attempt, made, handles>>

\* Mutant of Timeout: it fires, and nobody is told.
TimeoutLost(h) ==
  /\ Callback
  /\ h \in timeouts
  /\ timeouts' = timeouts \ {h}
  /\ UNCHANGED <<stages, world, stopped, runner, attempt, made, handle, handles, result>>

\* timeoutMs is over; a result that came first has cleared the timer.  It is not
\* one of the stage's timers: stopping the pipeline leaves it running.
Timeout(h) ==
  /\ Callback
  /\ h \in timeouts
  /\ timeouts' = timeouts \ {h}
  /\ result' = SettledWith(h, "failed")
  /\ UNCHANGED <<stages, world, stopped, runner, attempt, made, handle, handles>>

-----------------------------------------------------------------------------
(* The bot                                                                 *)

\* Every auth stage in place sets a delay for each join.
Login ==
  /\ Callback
  /\ bot # "ended"
  /\ logins < MaxLogins
  /\ logins' = logins + 1
  /\ bot' = IF bot = "joining" THEN "play" ELSE bot
  /\ handle' = [h \in Ids |->
       IF handle[h].listening /\ stages[handle[h].stage].kind = "auth"
         THEN [handle[h] EXCEPT !.timers = @ + 1] ELSE handle[h]]
  /\ UNCHANGED <<stages, spawned, stopped, runner, attempt, made, handles, result, timeouts>>

\* What a stage that waits for the spawn does then.
Spawn(h) ==
  LET kind == stages[h.stage].kind IN
  IF ~h.listening \/ kind = "auth" THEN h
  ELSE IF kind = "blueprint" THEN [h EXCEPT !.listening = FALSE, !.acting = TRUE]
  ELSE [h EXCEPT !.listening = FALSE, !.timers = 1]

\* The driver emits `spawned` once; a stopped runner does not hear it.
Spawned ==
  /\ Callback
  /\ bot = "play"
  /\ bot' = "world"
  /\ spawned' = ~stopped
  /\ handle' = [h \in Ids |-> Spawn(handle[h])]
  /\ UNCHANGED <<stages, logins, stopped, runner, attempt, made, handles, result, timeouts>>

\* stop(), once: every handle of the set is torn down.
StopAll ==
  /\ stopped' = TRUE
  /\ handle' = IF stopped THEN handle ELSE TornDownHandles(handles)
  /\ UNCHANGED <<stages, logins, spawned, runner, attempt, made, handles, result, timeouts>>

Kicked ==
  /\ Callback
  /\ bot # "ended"
  /\ StopAll
  /\ UNCHANGED bot

End ==
  /\ Callback
  /\ bot # "ended"
  /\ bot' = "ended"
  /\ StopAll

-----------------------------------------------------------------------------
(* The specification                                                       *)

Timer(h) == Work(h) \/ BlueprintEnds(h) \/ Timeout(h)

Next ==
  \/ Begin
  \/ Resume
  \/ Login
  \/ Spawned
  \/ Kicked
  \/ End
  \/ \E h \in Ids : Timer(h)

Spec == Init /\ [][Next]_vars

\* The event loop runs microtasks and timers that are due; a blueprint's actions
\* are finite.  Nothing is assumed of the server.
Fairness ==
  /\ WF_vars(Begin)
  /\ WF_vars(Resume)
  /\ \A h \in Ids : WF_vars(Work(h)) /\ WF_vars(BlueprintEnds(h)) /\ WF_vars(Timeout(h))

FairSpec == Spec /\ Fairness

-----------------------------------------------------------------------------
(* Properties                                                              *)

\* Every variable keeps its type.
TypeOK ==
  /\ stages \in Pipelines
  /\ bot \in {"joining", "play", "world", "ended"}
  /\ logins \in Nat
  /\ spawned \in BOOLEAN
  /\ stopped \in BOOLEAN
  /\ runner \in {"new", "await", "finished"}
  /\ attempt \in Nat
  /\ made \in 0 .. MaxHandles
  /\ handle \in [Ids -> Handles]
  /\ handles \subseteq 1 .. made
  /\ result \in [Ids -> Results]
  /\ timeouts \subseteq 1 .. made

\* Stages run in order, and each gates the next: an attempt follows a failed one
\* of the same stage, or the end of the stage before, which did not fail under
\* policy `stop`.  A result that comes after its timeout changes nothing here.
GatedInOrder ==
  \A h \in 1 .. made :
    LET i == handle[h].stage IN
    IF h = 1
      THEN i = 1
      ELSE LET j == handle[h - 1].stage IN
           \/ i = j /\ result[h - 1] = "failed" /\ stages[i].onFailure = "retry"
           \/ /\ i = j + 1
              /\ result[h - 1] # "pending"
              /\ result[h - 1] = "failed" => stages[j].onFailure # "stop"

\* Nothing left that would touch the bot.
Quiet(h) == ~h.listening /\ h.timers = 0 /\ ~h.acting

\* An attempt that failed and was given up for another attempt or stage no
\* longer acts on the bot: stop() tears the stage down (stage.ts:22).  Not so a
\* blueprint, whose actions go on next to the attempt that replaces it.
DroppedIsQuiet ==
  \A h \in 1 .. made - 1 :
    result[h] = "failed" /\ stages[handle[h].stage].kind # "blueprint" => Quiet(handle[h])

\* When the bot was kicked or has ended everything is torn down, for good
\* (runner.ts:39-40): no stage acts on it any more.
TornDown == stopped => \A h \in Ids : Quiet(handle[h])

\* That holds when no stage is a blueprint, and none is retried on a timeout.
TornDownWhenPatient ==
  (\A i \in DOMAIN stages :
     stages[i].kind # "blueprint" /\ ~(stages[i].timed /\ stages[i].onFailure = "retry"))
    => TornDown

\* A pipeline whose gating stages all have a timeout is worked off, whatever the
\* server does to the bot.  Without a timeout it is not: a bot that is kicked
\* while a stage waits for its spawn leaves `finished` pending for good.
PipelineEnds ==
  (\A i \in DOMAIN stages : stages[i].timed \/ stages[i].kind \in {"daemon", "inert"})
    /\ runner # "new" ~> runner = "finished"
=============================================================================
