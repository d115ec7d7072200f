------------------------------ MODULE RunManager ------------------------------
(***************************************************************************)
(* server/runManager.ts, the requests of server/router.ts that reach it and*)
(* the metrics stream of server/httpServer.ts: the runs a control-plane    *)
(* daemon (cli.ts, serve) has started, each an Engine in the same process. *)
(*                                                                         *)
(* Of an engine only its run promise is kept, with the steps of EngineRun. *)
(* An action is one callback or request.  The handlers that start() puts on*)
(* the promise are microtasks: once it has settled they run before any     *)
(* other callback (Settled, Fulfilled, Rejected).                          *)
(***************************************************************************)
EXTENDS Integers

CONSTANTS Runs,      \* ids of the runs that may be started
          Streams    \* the metrics streams that clients may open

VARIABLES
  up,         \* the daemon process is running
  closing,    \* SIGINT came: the daemon takes no request any more
  held,       \* a WebSocket is open (Session) or a POST /api/script/run is under way
  armed,      \* runs whose engine has its SIGINT handler installed
  phase,      \* where each engine's run promise stands
  stopping,   \* whether each engine's shutdown has begun
  status,     \* RunRecord.status, none before start()
  final,      \* runs whose final snapshot has been kept
  stream      \* each stream: its run, whether it is open, what it sent last

daemon == <<up, closing, held>>
engines == <<phase, stopping, armed>>
vars == <<daemon, engines, status, final, stream>>

Statuses == {"none", "running", "completed", "failed", "stopped"}

NoStream == [run |-> "none", state |-> "closed", last |-> "none"]
StreamType == [run : Runs \cup {"none"}, state : {"open", "closed", "ended"},
               last : {"none", "live", "final"}]

Init ==
  /\ up = TRUE
  /\ closing = FALSE
  /\ held = FALSE
  /\ armed = {}
  /\ phase = [r \in Runs |-> "new"]
  /\ stopping = [r \in Runs |-> FALSE]
  /\ status = [r \in Runs |-> "none"]
  /\ final = {}
  /\ stream = [s \in Streams |-> NoStream]

-----------------------------------------------------------------------------
(* The promise of a run                                                    *)

\* The promise has settled and its handler has not run yet.
Settled(r) ==
  \/ phase[r] = "resolved" /\ r \notin final
  \/ phase[r] = "rejected" /\ status[r] # "failed"

Callback == up /\ \A r \in Runs : ~Settled(r)

Request == Callback /\ ~closing

\* then(): keeps the snapshot; a run that was stopped stays stopped.
Fulfilled(r) ==
  /\ phase[r] = "resolved" /\ r \notin final
  /\ final' = final \cup {r}
  /\ status' = [status EXCEPT ![r] = IF @ = "running" THEN "completed" ELSE @]
  /\ UNCHANGED <<daemon, engines, stream>>

\* catch(): a run that could not start.
Rejected(r) ==
  /\ phase[r] = "rejected" /\ status[r] # "failed"
  /\ status' = [status EXCEPT ![r] = "failed"]
  /\ UNCHANGED <<daemon, engines, final, stream>>

-----------------------------------------------------------------------------
(* Requests                                                                *)

\* POST /api/runs: start() makes the engine and calls its run().  The router
\* refuses a config without authorization; start() itself leaves that to run().
Start(r) ==
  /\ Request
  /\ status[r] = "none"
  /\ status' = [status EXCEPT ![r] = "running"]
  /\ \E p \in {"rejected", "preflight", "waiting"} :
       /\ phase' = [phase EXCEPT ![r] = p]
       /\ armed' = IF p = "waiting" THEN armed \cup {r} ELSE armed
  /\ UNCHANGED <<daemon, stopping, final, stream>>

\* The engines of the runs in R shut down and write their reports: a promise
\* that exists resolves, which removes the engine's SIGINT handler.
Shutdown(R) ==
  /\ stopping' = [r \in Runs |-> stopping[r] \/ r \in R]
  /\ phase' = [r \in Runs |->
       IF r \in R /\ phase[r] = "waiting" THEN "resolved" ELSE phase[r]]
  /\ armed' = armed \ {r \in R : phase[r] = "waiting"}

\* Mutant of Stop: a run that is over can be stopped as well.
StopAgain(r) ==
  /\ Request
  /\ status[r] # "none"
  /\ status' = [status EXCEPT ![r] = "stopped"]
  /\ Shutdown({r})
  /\ UNCHANGED <<daemon, final, stream>>

\* Mutant of Stop: the run is marked and its engine is not told.
StopMarks(r) ==
  /\ Request
  /\ status[r] = "running"
  /\ status' = [status EXCEPT ![r] = "stopped"]
  /\ UNCHANGED <<daemon, engines, final, stream>>

\* POST /api/runs/:id/stop of a run that is running.  When the reports cannot be
\* written stop() throws, and nobody catches that: the process ends.
Stop(r) ==
  /\ Request
  /\ status[r] = "running"
  /\ status' = [status EXCEPT ![r] = "stopped"]
  /\ \/ /\ Shutdown({r})
        /\ UNCHANGED up
     \/ /\ up' = FALSE
        /\ stopping' = [stopping EXCEPT ![r] = TRUE]
        /\ UNCHANGED <<phase, armed>>
  /\ UNCHANGED <<closing, held, final, stream>>

\* What snapshot() of run r returns: live, final, or none.
Snapshot(r) ==
  IF status[r] = "running" THEN "live" ELSE IF r \in final THEN "final" ELSE "none"

\* Mutant of Push: the stream of a run that is over sends nothing more.
PushOnlyLive(x) ==
  [x EXCEPT !.last  = IF status[x.run] = "running" THEN "live" ELSE @,
            !.state = IF status[x.run] = "running" THEN "open" ELSE "ended"]

\* Mutant of Push: only a run that completed ends its streams.
PushUntilCompleted(x) ==
  [x EXCEPT !.last  = IF Snapshot(x.run) = "none" THEN @ ELSE Snapshot(x.run),
            !.state = IF status[x.run] = "completed" THEN "ended" ELSE "open"]

\* push(): send what there is, and end the stream when the run is not running.
Push(x) ==
  [x EXCEPT !.last  = IF Snapshot(x.run) = "none" THEN @ ELSE Snapshot(x.run),
            !.state = IF status[x.run] = "running" THEN "open" ELSE "ended"]

\* GET /api/runs/:id/stream: the first push is at once.
Open(s, r) ==
  /\ Request
  /\ status[r] # "none"
  /\ stream[s] = NoStream
  /\ stream' = [stream EXCEPT ![s] = Push([run |-> r, state |-> "open", last |-> "none"])]
  /\ UNCHANGED <<daemon, engines, status, final>>

\* The interval of a stream.
Tick(s) ==
  /\ Callback
  /\ stream[s].state = "open"
  /\ stream' = [stream EXCEPT ![s] = Push(@)]
  /\ UNCHANGED <<daemon, engines, status, final>>

\* The client goes away.
Close(s) ==
  /\ Callback
  /\ stream[s].state = "open"
  /\ stream' = [stream EXCEPT ![s] = NoStream]
  /\ UNCHANGED <<daemon, engines, status, final>>

-----------------------------------------------------------------------------
(* The engines                                                             *)

\* The ping of the preflight answers or fails.
Settle(r) ==
  /\ Callback
  /\ phase[r] = "preflight"
  /\ phase' = [phase EXCEPT ![r] = "waiting"]
  /\ armed' = armed \cup {r}
  /\ UNCHANGED <<daemon, stopping, status, final, stream>>

\* Mutant of EndsByItself: stop() has not kept the duration timer from firing.
EndsTwice(r) ==
  /\ Callback
  /\ phase[r] = "waiting"
  /\ Shutdown({r})
  /\ UNCHANGED <<daemon, status, final, stream>>

\* The duration timer of a run.
EndsByItself(r) ==
  /\ Callback
  /\ phase[r] = "waiting"
  /\ ~stopping[r]
  /\ Shutdown({r})
  /\ UNCHANGED <<daemon, status, final, stream>>

\* A timer callback or the SIGINT handler of one run throws: the process, with
\* every run, is gone.
Crash(r) ==
  /\ Callback
  /\ phase[r] = "waiting"
  /\ ~stopping[r]
  /\ phase' = [phase EXCEPT ![r] = "crashed"]
  /\ up' = FALSE
  /\ UNCHANGED <<closing, held, armed, stopping, status, final, stream>>

-----------------------------------------------------------------------------
(* The end of the daemon                                                   *)

\* SIGINT runs every handler there is, each once: the daemon's closes the server,
\* an engine's shuts its run down.  A run that was stopped in its preflight has
\* installed its handler since; it swallows a SIGINT and does nothing.  Without a
\* handler SIGINT ends the process.
Sigint ==
  /\ Callback
  /\ closing' = TRUE
  /\ armed' = {}
  /\ LET R == {r \in armed : ~stopping[r]} IN
       /\ stopping' = [r \in Runs |-> stopping[r] \/ r \in R]
       /\ phase' = [r \in Runs |-> IF r \in R THEN "resolved" ELSE phase[r]]
  /\ up' = (~closing \/ armed # {})
  /\ UNCHANGED <<held, status, final, stream>>

\* server.close() calls back when the last connection is gone, a WebSocket and the
\* one that waits for its script included; then the process exits, whatever its
\* runs are doing.
Exit ==
  /\ Callback
  /\ closing
  /\ ~held
  /\ \A s \in Streams : stream[s].state # "open"
  /\ up' = FALSE
  /\ UNCHANGED <<closing, held, engines, status, final, stream>>

\* A client opens a WebSocket or has a script run; or the last that did is done,
\* the script answered once its bot has not connected or it is over.
Holds ==
  /\ Callback
  /\ closing => held
  /\ held' = ~held
  /\ UNCHANGED <<up, closing, engines, status, final, stream>>

\* An exception leaves a bot that a WebSocket has attached (Session: BotError,
\* SetGoal), which may outlive its socket, or the bot of POST /api/script/run.
SessionThrows ==
  /\ Callback
  /\ up' = FALSE
  /\ UNCHANGED <<closing, held, engines, status, final, stream>>

-----------------------------------------------------------------------------
(* The specification                                                       *)

Next ==
  \/ \E r \in Runs :
       \/ Fulfilled(r)
       \/ Rejected(r)
       \/ Start(r)
       \/ Stop(r)
       \/ Settle(r)
       \/ EndsByItself(r)
       \/ Crash(r)
  \/ \E s \in Streams :
       \/ \E r \in Runs : Open(s, r)
       \/ Tick(s)
       \/ Close(s)
  \/ Sigint
  \/ Exit
  \/ Holds
  \/ SessionThrows

Spec == Init /\ [][Next]_vars

\* The event loop runs microtasks and timers that are due, and the ping of a
\* preflight has a timeout.  Neither clients nor the operator need do anything.
Fairness ==
  /\ \A r \in Runs : /\ WF_vars(Fulfilled(r)) /\ WF_vars(Rejected(r))
                     /\ WF_vars(Settle(r)) /\ WF_vars(EndsByItself(r))
  /\ \A s \in Streams : WF_vars(Tick(s))
  /\ WF_vars(Exit)

FairSpec == Spec /\ Fairness

-----------------------------------------------------------------------------
(* Properties                                                              *)

\* Every variable keeps its type.
TypeOK ==
  /\ up \in BOOLEAN
  /\ closing \in BOOLEAN
  /\ held \in BOOLEAN
  /\ armed \subseteq Runs
  /\ phase \in [Runs -> {"new", "preflight", "waiting", "resolved", "rejected", "crashed"}]
  /\ stopping \in [Runs -> BOOLEAN]
  /\ status \in [Runs -> Statuses]
  /\ final \subseteq Runs
  /\ stream \in [Streams -> StreamType]

\* What a request reads of a run is what its engine is doing: running means that
\* the engine has not shut down, completed that it did so by itself, stopped that
\* it was told to, failed that it never ran.
StatusIsHonest ==
  Callback =>
    \A r \in Runs :
      /\ status[r] = "running" => ~stopping[r] /\ phase[r] \in {"preflight", "waiting"}
      /\ status[r] = "completed" => stopping[r] /\ phase[r] = "resolved"
      /\ status[r] = "stopped" => stopping[r]
      /\ status[r] = "failed" => ~stopping[r] /\ phase[r] = "rejected"

\* A run that is over keeps its status: completing does not overwrite stopped,
\* nor does a stop that comes after the end (runManager.ts:63, 95).
StatusIsFinal ==
  [][\A r \in Runs : status[r] \in {"completed", "failed", "stopped"} => status'[r] = status[r]]_vars

\* A client that stayed to the end of a stream has got the final snapshot, if
\* there is one, as the last thing; and a stream is not ended before its run.
StreamEndsWithFinal ==
  \A s \in Streams :
    stream[s].state = "ended" =>
      /\ status[stream[s].run] \in {"completed", "failed", "stopped"}
      /\ stream[s].run \in final => stream[s].last = "final"

\* A stream that a client leaves open is ended by the server.
StreamsEnd == \A s \in Streams : stream[s].state = "open" ~> stream[s].state # "open" \/ ~up

\* "Ctrl+C to stop" (cli.ts:279): after SIGINT the daemon does exit, although an
\* open stream keeps its server from closing, and a run that was in its preflight
\* then keeps its stream open until it is over.  A WebSocket that its client leaves
\* open keeps the daemon running, and so does a script that waits for its bot.
DaemonExits == closing /\ ~held ~> ~up

\* Every engine behaves as EngineRun says; a request or a stream never makes one
\* do what a caller of Engine cannot.
Engine(r) == INSTANCE EngineRun WITH phase <- phase[r], stopping <- stopping[r]

EnginesKeepTheirContract ==
  /\ \A r \in Runs : Engine(r)!Init
  /\ [][\A r \in Runs : [Engine(r)!Next]_(Engine(r)!vars)]_vars
=============================================================================
