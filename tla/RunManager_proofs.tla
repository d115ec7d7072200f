--------------------------- MODULE RunManager_proofs ---------------------------
(***************************************************************************)
(* Theorems about the run manager, for any number of runs and streams.     *)
(*                                                                         *)
(* A request reads the status of a run between the settling of its promise *)
(* and what start() has put on it at the earliest, so the invariant says   *)
(* for each status what the engine may be doing, those moments included.   *)
(***************************************************************************)
EXTENDS RunManager, TLAPS

\* What the status of a run tells of its engine, at any moment.
RunOK(r) ==
  /\ status[r] = "none" => phase[r] = "new" /\ ~stopping[r]
  /\ status[r] = "running" =>
       \/ ~stopping[r] /\ phase[r] \in {"preflight", "waiting", "rejected", "crashed"}
       \/ stopping[r] /\ phase[r] = "resolved" /\ r \notin final
  /\ status[r] = "completed" => stopping[r] /\ phase[r] = "resolved" /\ r \in final
  /\ status[r] = "stopped" => stopping[r] /\ phase[r] \in {"preflight", "waiting", "resolved"}
  /\ status[r] = "failed" => ~stopping[r] /\ phase[r] = "rejected"
  /\ phase[r] = "crashed" => ~up
  /\ r \in final => phase[r] = "resolved"
  /\ r \in armed => phase[r] \in {"waiting", "crashed"}

Over == {"completed", "failed", "stopped"}

\* A run that has ended without a final snapshot and will not get one.
NeverFinal(r) == r \notin final /\ phase[r] \in {"preflight", "waiting", "rejected"}

\* A stream is of a run; when it has ended it has got the final snapshot, or its
\* run will never have one: it was stopped in its preflight, or failed.
StreamOK(s) ==
  /\ stream[s].state # "closed" => stream[s].run \in Runs /\ status[stream[s].run] # "none"
  /\ stream[s].state = "ended" =>
       /\ status[stream[s].run] \in Over
       /\ \/ stream[s].run \in final /\ stream[s].last = "final"
          \/ NeverFinal(stream[s].run)

RunInv == /\ \A r \in Runs : RunOK(r)
          /\ \A s \in Streams : StreamOK(s)

-----------------------------------------------------------------------------
(* Types                                                                   *)

\* push() sends one of the snapshots there are and ends a stream or leaves it open.
LEMMA PushTyped ==
  ASSUME NEW x \in StreamType
  PROVE  /\ Push(x) \in StreamType
         /\ Push(x).run = x.run
BY DEF StreamType, Push, Snapshot

\* A stream that nobody has opened is one of the type.
LEMMA NoStreamTyped == NoStream \in StreamType
BY DEF NoStream, StreamType

\* shutdown() keeps the types of what the engines are doing.
LEMMA ShutdownTyped ==
  ASSUME TypeOK, NEW R \in SUBSET Runs, Shutdown(R)
  PROVE  /\ stopping' \in [Runs -> BOOLEAN]
         /\ phase' \in [Runs -> {"new", "preflight", "waiting", "resolved", "rejected", "crashed"}]
         /\ armed' \subseteq Runs
BY DEF TypeOK, Shutdown

\* A daemon that has just started is well-typed.
LEMMA TypesHold == Init => TypeOK
BY NoStreamTyped DEF Init, TypeOK, Statuses

\* Every step of the daemon, its engines and its clients keeps the types.
LEMMA TypesStep == TypeOK /\ [Next]_vars => TypeOK'
<1> SUFFICES ASSUME TypeOK, [Next]_vars PROVE TypeOK'
  OBVIOUS
<1>1. ASSUME NEW r \in Runs, Fulfilled(r) PROVE TypeOK'
  BY <1>1 DEF TypeOK, Fulfilled, daemon, engines, Statuses
<1>2. ASSUME NEW r \in Runs, Rejected(r) PROVE TypeOK'
  BY <1>2 DEF TypeOK, Rejected, daemon, engines, Statuses
<1>3. ASSUME NEW r \in Runs, Start(r) PROVE TypeOK'
  BY <1>3 DEF TypeOK, Start, daemon, Statuses
<1>4. ASSUME NEW r \in Runs, Stop(r) PROVE TypeOK'
  <2>1. CASE Shutdown({r}) /\ UNCHANGED up
    BY <1>4, <2>1, ShutdownTyped DEF TypeOK, Stop, Statuses
  <2>2. CASE up' = FALSE /\ stopping' = [stopping EXCEPT ![r] = TRUE] /\ UNCHANGED <<phase, armed>>
    BY <1>4, <2>2 DEF TypeOK, Stop, Statuses
  <2> QED BY <1>4, <2>1, <2>2 DEF Stop
<1>5. ASSUME NEW r \in Runs, Settle(r) PROVE TypeOK'
  BY <1>5 DEF TypeOK, Settle, daemon
<1>6. ASSUME NEW r \in Runs, EndsByItself(r) PROVE TypeOK'
  BY <1>6, ShutdownTyped DEF TypeOK, EndsByItself, daemon
<1>7. ASSUME NEW r \in Runs, Crash(r) PROVE TypeOK'
  BY <1>7 DEF TypeOK, Crash
<1>8. ASSUME NEW s \in Streams, NEW r \in Runs, Open(s, r) PROVE TypeOK'
  <2>1. [run |-> r, state |-> "open", last |-> "none"] \in StreamType
    BY DEF StreamType
  <2> QED BY <1>8, <2>1, PushTyped DEF TypeOK, Open, daemon, engines
<1>9. ASSUME NEW s \in Streams, Tick(s) PROVE TypeOK'
  BY <1>9, PushTyped DEF TypeOK, Tick, daemon, engines
<1>10. ASSUME NEW s \in Streams, Close(s) PROVE TypeOK'
  BY <1>10, NoStreamTyped DEF TypeOK, Close, daemon, engines
<1>11. CASE Sigint
  BY <1>11 DEF TypeOK, Sigint
<1>12. CASE Exit \/ Holds \/ SessionThrows \/ UNCHANGED vars
  BY <1>12 DEF TypeOK, Exit, Holds, SessionThrows, vars, daemon, engines
<1> QED
  BY <1>1, <1>2, <1>3, <1>4, <1>5, <1>6, <1>7, <1>8, <1>9, <1>10, <1>11, <1>12 DEF Next

\* Every variable of the run manager keeps its type.
THEOREM TypeCorrect == Spec => []TypeOK
BY TypesHold, TypesStep, PTL DEF Spec

-----------------------------------------------------------------------------
(* The invariant of a run                                                  *)

\* A daemon that has just started satisfies the invariant.
LEMMA InvInit == Init => RunInv
BY DEF Init, RunInv, RunOK, StreamOK, NoStream

\* A step that changes nothing of a run keeps what is said of it.
LEMMA RunSame ==
  ASSUME NEW x \in Runs, RunOK(x), UNCHANGED engines, UNCHANGED <<up, status, final>>
  PROVE  RunOK(x)'
BY DEF RunOK, engines

\* The handler of a rejected promise finds the run running.
LEMMA RejectedIsRunning ==
  ASSUME TypeOK, NEW r \in Runs, RunOK(r), Rejected(r)
  PROVE  status[r] = "running" /\ ~stopping[r] /\ phase[r] = "rejected"
<1>1. phase[r] = "rejected" /\ status[r] # "failed"
  BY DEF Rejected
<1>2. status[r] \in {"none", "running", "completed", "failed", "stopped"}
  BY DEF TypeOK, Statuses
<1>3. status[r] # "none" /\ status[r] # "completed" /\ status[r] # "stopped"
  BY <1>1 DEF RunOK
<1> QED BY <1>1, <1>2, <1>3 DEF RunOK

\* A callback that finds a run running finds its engine at work.
LEMMA RunningIsAtWork ==
  ASSUME NEW r \in Runs, RunOK(r), Callback, status[r] = "running"
  PROVE  ~stopping[r] /\ phase[r] \in {"preflight", "waiting"}
<1>1. ~Settled(r) /\ up
  BY DEF Callback
<1>2. phase[r] # "rejected" /\ phase[r] # "crashed"
  BY <1>1 DEF Settled, RunOK
<1> QED BY <1>1, <1>2 DEF Settled, RunOK

\* A step keeps what the status of a run tells of its engine.
LEMMA RunStep ==
  ASSUME TypeOK, RunInv, [Next]_vars, NEW x \in Runs
  PROVE  RunOK(x)'
<1>a. RunOK(x)
  BY DEF RunInv
<1>1. ASSUME NEW r \in Runs, Fulfilled(r) PROVE RunOK(x)'
  BY <1>1, <1>a DEF TypeOK, Fulfilled, RunOK, daemon, engines
<1>2. ASSUME NEW r \in Runs, Rejected(r) PROVE RunOK(x)'
  <2>1. RunOK(r)
    BY DEF RunInv
  <2>2. status[r] = "running" /\ ~stopping[r] /\ phase[r] = "rejected"
    BY <1>2, <2>1, RejectedIsRunning
  <2>3. UNCHANGED <<up, phase, stopping, armed, final>>
    BY <1>2 DEF Rejected, daemon, engines
  <2>4. status' = [status EXCEPT ![r] = "failed"] /\ status \in [Runs -> Statuses]
    BY <1>2 DEF Rejected, TypeOK
  <2>5. CASE x = r
    BY <1>a, <2>2, <2>3, <2>4, <2>5 DEF RunOK
  <2>6. CASE x # r
    BY <1>a, <2>3, <2>4, <2>6 DEF RunOK
  <2> QED BY <2>5, <2>6
<1>3. ASSUME NEW r \in Runs, Start(r) PROVE RunOK(x)'
  BY <1>3, <1>a DEF TypeOK, Start, RunOK, daemon
<1>4. ASSUME NEW r \in Runs, Stop(r) PROVE RunOK(x)'
  <2>1. ~stopping[r] /\ phase[r] \in {"preflight", "waiting"}
    BY <1>4, RunningIsAtWork DEF RunInv, Stop, Request
  <2>2. status' = [status EXCEPT ![r] = "stopped"] /\ status \in [Runs -> Statuses]
    BY <1>4 DEF Stop, TypeOK
  <2>3. final' = final /\ up
    BY <1>4 DEF Stop, Request, Callback
  <2>4. CASE Shutdown({r}) /\ UNCHANGED up
    <3>1. CASE x = r
      BY <1>a, <2>1, <2>2, <2>3, <2>4, <3>1 DEF Shutdown, RunOK, TypeOK
    <3>2. CASE x # r
      BY <1>a, <2>2, <2>3, <2>4, <3>2 DEF Shutdown, RunOK, TypeOK
    <3> QED BY <3>1, <3>2
  <2>5. CASE up' = FALSE /\ stopping' = [stopping EXCEPT ![r] = TRUE] /\ UNCHANGED <<phase, armed>>
    <3>1. CASE x = r
      BY <1>a, <2>1, <2>2, <2>3, <2>5, <3>1 DEF RunOK, TypeOK
    <3>2. CASE x # r
      BY <1>a, <2>2, <2>3, <2>5, <3>2 DEF RunOK, TypeOK
    <3> QED BY <3>1, <3>2
  <2> QED BY <1>4, <2>4, <2>5 DEF Stop
<1>5. ASSUME NEW r \in Runs, Settle(r) PROVE RunOK(x)'
  BY <1>5, <1>a DEF TypeOK, Settle, RunOK, daemon
<1>6. ASSUME NEW r \in Runs, EndsByItself(r) PROVE RunOK(x)'
  BY <1>6, <1>a DEF TypeOK, EndsByItself, Shutdown, RunOK, daemon
<1>7. ASSUME NEW r \in Runs, Crash(r) PROVE RunOK(x)'
  BY <1>7, <1>a DEF TypeOK, Crash, RunOK
<1>8. ASSUME NEW s \in Streams, NEW r \in Runs, Open(s, r) PROVE RunOK(x)'
  BY <1>8, <1>a, RunSame DEF Open, daemon
<1>9. ASSUME NEW s \in Streams, Tick(s) \/ Close(s) PROVE RunOK(x)'
  BY <1>9, <1>a, RunSame DEF Tick, Close, daemon
<1>10. CASE Sigint
  BY <1>10, <1>a DEF TypeOK, Sigint, Callback, RunOK
<1>11. CASE Exit \/ Holds \/ SessionThrows
  BY <1>11, <1>a DEF TypeOK, Exit, Holds, SessionThrows, RunOK, engines
<1>12. CASE UNCHANGED vars
  BY <1>12, <1>a, RunSame DEF vars, daemon
<1> QED
  BY <1>1, <1>2, <1>3, <1>4, <1>5, <1>6, <1>7, <1>8, <1>9, <1>10, <1>11, <1>12 DEF Next

-----------------------------------------------------------------------------
(* What is over stays over                                                 *)

\* The status of a run changes only while it is none or running, never to none.
LEMMA StatusStep ==
  ASSUME TypeOK, RunInv, [Next]_vars, NEW q \in Runs
  PROVE  /\ status[q] \in Over => status'[q] = status[q]
         /\ status[q] # "none" => status'[q] # "none"
<1>1. ASSUME NEW r \in Runs, Fulfilled(r)
      PROVE  status' = [status EXCEPT ![r] = IF @ = "running" THEN "completed" ELSE @]
  BY <1>1 DEF Fulfilled
<1>2. ASSUME NEW r \in Runs, Rejected(r)
      PROVE  status[r] = "running" /\ status' = [status EXCEPT ![r] = "failed"]
  BY <1>2, RejectedIsRunning DEF RunInv, Rejected
<1>3. ASSUME NEW r \in Runs, Start(r)
      PROVE  status[r] = "none" /\ status' = [status EXCEPT ![r] = "running"]
  BY <1>3 DEF Start
<1>4. ASSUME NEW r \in Runs, Stop(r)
      PROVE  status[r] = "running" /\ status' = [status EXCEPT ![r] = "stopped"]
  BY <1>4 DEF Stop
<1>5. ASSUME NEW r \in Runs, Settle(r) \/ EndsByItself(r) \/ Crash(r) PROVE status' = status
  BY <1>5 DEF Settle, EndsByItself, Crash
<1>6. ASSUME NEW s \in Streams, (\E r \in Runs : Open(s, r)) \/ Tick(s) \/ Close(s)
      PROVE  status' = status
  BY <1>6 DEF Open, Tick, Close
<1>7. CASE Sigint \/ Exit \/ Holds \/ SessionThrows \/ UNCHANGED vars
  BY <1>7 DEF Sigint, Exit, Holds, SessionThrows, vars
<1>8. status \in [Runs -> Statuses]
  BY DEF TypeOK
<1>9. ASSUME NEW r \in Runs, Fulfilled(r) \/ Rejected(r) \/ Start(r) \/ Stop(r)
      PROVE  /\ status[q] \in Over => status'[q] = status[q]
             /\ status[q] # "none" => status'[q] # "none"
  BY <1>1, <1>2, <1>3, <1>4, <1>8, <1>9 DEF Over
<1> QED
  BY <1>5, <1>6, <1>7, <1>9 DEF Next

\* No snapshot that has been kept is lost.
LEMMA FinalStep ==
  ASSUME [Next]_vars, NEW q \in Runs, q \in final
  PROVE  q \in final'
<1>1. ASSUME NEW r \in Runs,
             Fulfilled(r) \/ Rejected(r) \/ Start(r) \/ Stop(r) \/ Settle(r)
               \/ EndsByItself(r) \/ Crash(r)
      PROVE  q \in final'
  BY <1>1 DEF Fulfilled, Rejected, Start, Stop, Settle, EndsByItself, Crash
<1>2. ASSUME NEW s \in Streams, (\E r \in Runs : Open(s, r)) \/ Tick(s) \/ Close(s)
      PROVE  q \in final'
  BY <1>2 DEF Open, Tick, Close
<1>3. CASE Sigint \/ Exit \/ Holds \/ SessionThrows \/ UNCHANGED vars
  BY <1>3 DEF Sigint, Exit, Holds, SessionThrows, vars
<1> QED
  BY <1>1, <1>2, <1>3 DEF Next

\* A run that was stopped in its preflight, or failed, gets no final snapshot
\* whatever comes: a later timer or SIGINT finds its shutdown begun.
LEMMA NeverFinalStep ==
  ASSUME TypeOK, RunInv, [Next]_vars, NEW q \in Runs, status[q] \in Over, NeverFinal(q)
  PROVE  NeverFinal(q)'
<1>1. stopping[q] \/ phase[q] = "rejected"
  BY DEF RunInv, RunOK, Over, NeverFinal
<1>2. q \notin final /\ phase[q] \in {"preflight", "waiting", "rejected"}
  BY DEF NeverFinal
<1>3. ASSUME NEW r \in Runs, Fulfilled(r) PROVE NeverFinal(q)'
  BY <1>2, <1>3 DEF NeverFinal, Fulfilled, engines
<1>4. ASSUME NEW r \in Runs, Rejected(r) PROVE NeverFinal(q)'
  BY <1>2, <1>4 DEF NeverFinal, Rejected, engines
<1>5. ASSUME NEW r \in Runs, Start(r) PROVE NeverFinal(q)'
  BY <1>2, <1>5 DEF NeverFinal, Start, TypeOK, Over
<1>6. ASSUME NEW r \in Runs, Stop(r) PROVE NeverFinal(q)'
  BY <1>2, <1>6 DEF NeverFinal, Stop, Shutdown, Over
<1>7. ASSUME NEW r \in Runs, Settle(r) PROVE NeverFinal(q)'
  BY <1>2, <1>7 DEF NeverFinal, Settle, TypeOK
<1>8. ASSUME NEW r \in Runs, EndsByItself(r) PROVE NeverFinal(q)'
  BY <1>1, <1>2, <1>8 DEF NeverFinal, EndsByItself, Shutdown
<1>9. ASSUME NEW r \in Runs, Crash(r) PROVE NeverFinal(q)'
  BY <1>1, <1>2, <1>9 DEF NeverFinal, Crash, TypeOK
<1>10. ASSUME NEW s \in Streams, (\E r \in Runs : Open(s, r)) \/ Tick(s) \/ Close(s)
       PROVE  NeverFinal(q)'
  BY <1>2, <1>10 DEF NeverFinal, Open, Tick, Close, engines
<1>11. CASE Sigint
  <2>1. final' = final
    BY <1>11 DEF Sigint
  <2>2. q \notin {r \in armed : ~stopping[r]} \/ phase[q] = "rejected"
    BY <1>1
  <2>3. q \in armed => phase[q] # "rejected"
    BY DEF RunInv, RunOK
  <2>4. phase'[q] = phase[q]
    BY <1>11, <2>2, <2>3 DEF Sigint
  <2> QED BY <1>2, <2>1, <2>4 DEF NeverFinal
<1>12. CASE Exit \/ Holds \/ SessionThrows \/ UNCHANGED vars
  BY <1>2, <1>12 DEF NeverFinal, Exit, Holds, SessionThrows, vars, engines
<1> QED
  BY <1>3, <1>4, <1>5, <1>6, <1>7, <1>8, <1>9, <1>10, <1>11, <1>12 DEF Next

-----------------------------------------------------------------------------
(* The invariant of a stream                                               *)

\* What a push sends to a stream whose run has ended is the last there will be.
LEMMA PushOK ==
  ASSUME TypeOK, RunInv, Callback, NEW x \in StreamType,
         x.run \in Runs, status[x.run] # "none", Push(x).state = "ended"
  PROVE  /\ status[x.run] \in Over
         /\ \/ x.run \in final /\ Push(x).last = "final"
            \/ NeverFinal(x.run)
<1> DEFINE q == x.run
<1>1. status[q] # "running"
  BY DEF Push, StreamType
<1>2. status[q] \in Over
  BY <1>1 DEF TypeOK, Statuses, Over
<1>3. CASE q \in final
  BY <1>1, <1>2, <1>3 DEF Push, Snapshot, StreamType
<1>4. CASE q \notin final
  <2>1. ~Settled(q) /\ RunOK(q)
    BY DEF Callback, RunInv
  <2>2. phase[q] \in {"preflight", "waiting", "rejected"}
    BY <1>2, <1>4, <2>1 DEF Settled, RunOK, Over
  <2> QED BY <1>2, <1>4, <2>2 DEF NeverFinal
<1> QED BY <1>3, <1>4

\* An ended stream has sent the last there will be, after every step.
LEMMA StreamStep ==
  ASSUME TypeOK, RunInv, [Next]_vars, NEW y \in Streams
  PROVE  StreamOK(y)'
<1>a. StreamOK(y)
  BY DEF RunInv
<1>1. ASSUME stream'[y] = stream[y] PROVE StreamOK(y)'
  <2>1. CASE stream[y].state = "closed"
    BY <1>1, <2>1 DEF StreamOK
  <2>2. CASE stream[y].state # "closed"
    <3> DEFINE q == stream[y].run
    <3>1. q \in Runs /\ status[q] # "none"
      BY <1>a, <2>2 DEF StreamOK
    <3>2. status'[q] # "none" /\ (status[q] \in Over => status'[q] = status[q])
      BY <3>1, StatusStep
    <3>3. CASE stream[y].state # "ended"
      BY <1>1, <3>1, <3>2, <3>3 DEF StreamOK
    <3>4. CASE stream[y].state = "ended"
      <4>1. status[q] \in Over /\ status'[q] \in Over
        BY <1>a, <3>2, <3>4 DEF StreamOK
      <4>2. \/ q \in final /\ stream[y].last = "final"
            \/ NeverFinal(q)
        BY <1>a, <3>4 DEF StreamOK
      <4>3. q \in final => q \in final'
        BY <3>1, FinalStep
      <4>4. NeverFinal(q) => q \notin final' /\ phase'[q] \in {"preflight", "waiting", "rejected"}
        BY <3>1, <4>1, NeverFinalStep DEF NeverFinal
      <4> QED BY <1>1, <3>1, <3>2, <4>1, <4>2, <4>3, <4>4 DEF StreamOK, NeverFinal
    <3> QED BY <3>3, <3>4
  <2> QED BY <2>1, <2>2
<1>2. ASSUME NEW x \in StreamType, Callback, x.run \in Runs, status[x.run] # "none",
             stream'[y] = Push(x), UNCHANGED <<status, final, phase>>
      PROVE  StreamOK(y)'
  <2>1. Push(x).run = x.run
    BY PushTyped
  <2>2. CASE Push(x).state # "ended"
    BY <1>2, <2>1, <2>2 DEF StreamOK
  <2>3. CASE Push(x).state = "ended"
    BY <1>2, <2>1, <2>3, PushOK DEF StreamOK, NeverFinal
  <2> QED BY <2>2, <2>3
<1>3. ASSUME NEW s \in Streams, NEW r \in Runs, Open(s, r) PROVE StreamOK(y)'
  <2> DEFINE x == [run |-> r, state |-> "open", last |-> "none"]
  <2>1. x \in StreamType /\ x.run = r
    BY DEF StreamType
  <2>2. UNCHANGED <<status, final, phase>> /\ Callback /\ status[r] # "none"
    BY <1>3 DEF Open, Request, engines
  <2>3. stream' = [stream EXCEPT ![s] = Push(x)] /\ stream \in [Streams -> StreamType]
    BY <1>3 DEF Open, TypeOK
  <2>4. CASE y = s
    <3>1. stream'[y] = Push(x)
      BY <2>3, <2>4
    <3> HIDE DEF x
    <3> QED BY <1>2, <2>1, <2>2, <3>1
  <2>5. CASE y # s
    BY <1>1, <2>3, <2>5
  <2> QED BY <2>4, <2>5
<1>4. ASSUME NEW s \in Streams, Tick(s) PROVE StreamOK(y)'
  <2>1. UNCHANGED <<status, final, phase>> /\ Callback /\ stream[s].state = "open"
    BY <1>4 DEF Tick, engines
  <2>2. stream' = [stream EXCEPT ![s] = Push(@)] /\ stream \in [Streams -> StreamType]
    BY <1>4 DEF Tick, TypeOK
  <2>3. CASE y = s
    <3>1. stream'[y] = Push(stream[y])
      BY <2>2, <2>3
    <3>2. stream[y] \in StreamType /\ stream[y].run \in Runs /\ status[stream[y].run] # "none"
      BY <1>a, <2>1, <2>2, <2>3 DEF StreamOK
    <3> QED BY <1>2, <2>1, <3>1, <3>2
  <2>4. CASE y # s
    BY <1>1, <2>2, <2>4
  <2> QED BY <2>3, <2>4
<1>5. ASSUME NEW s \in Streams, Close(s) PROVE StreamOK(y)'
  <2>1. stream' = [stream EXCEPT ![s] = NoStream] /\ stream \in [Streams -> StreamType]
    BY <1>5 DEF Close, TypeOK
  <2>2. CASE y = s
    BY <2>1, <2>2 DEF StreamOK, NoStream
  <2>3. CASE y # s
    BY <1>1, <2>1, <2>3
  <2> QED BY <2>2, <2>3
<1>6. ASSUME NEW r \in Runs,
             Fulfilled(r) \/ Rejected(r) \/ Start(r) \/ Stop(r) \/ Settle(r)
               \/ EndsByItself(r) \/ Crash(r)
      PROVE  stream'[y] = stream[y]
  BY <1>6 DEF Fulfilled, Rejected, Start, Stop, Settle, EndsByItself, Crash
<1>7. CASE Sigint \/ Exit \/ Holds \/ SessionThrows \/ UNCHANGED vars
  BY <1>1, <1>7 DEF Sigint, Exit, Holds, SessionThrows, vars
<1> QED
  BY <1>1, <1>3, <1>4, <1>5, <1>6, <1>7 DEF Next

-----------------------------------------------------------------------------
(* The theorems                                                            *)

\* The inductive invariant: what the status of a run tells of its engine at any
\* moment, and what a stream that has ended has sent.
THEOREM Inductive == Spec => []RunInv
<1>1. RunInv /\ TypeOK /\ [Next]_vars => RunInv'
  BY RunStep, StreamStep DEF RunInv
<1> QED BY InvInit, <1>1, TypeCorrect, PTL DEF Spec

\* The invariant says of a run that a request can read what the engine is doing.
LEMMA HonestByInv == RunInv => StatusIsHonest
<1> SUFFICES ASSUME RunInv, Callback, NEW r \in Runs
             PROVE  /\ status[r] = "running" => ~stopping[r] /\ phase[r] \in {"preflight", "waiting"}
                    /\ status[r] = "completed" => stopping[r] /\ phase[r] = "resolved"
                    /\ status[r] = "stopped" => stopping[r]
                    /\ status[r] = "failed" => ~stopping[r] /\ phase[r] = "rejected"
  BY DEF StatusIsHonest
<1>1. RunOK(r)
  BY DEF RunInv
<1>2. status[r] = "running" => ~stopping[r] /\ phase[r] \in {"preflight", "waiting"}
  BY <1>1, RunningIsAtWork
<1> QED BY <1>1, <1>2 DEF RunOK

\* Whenever a request can read it, the status of a run is what its engine is
\* doing, however many runs share the process and its SIGINT.
THEOREM StatusHonest == Spec => []StatusIsHonest
BY HonestByInv, Inductive, PTL

\* No step changes the status of a run that is over: the promise of a stopped run
\* settles later and leaves it stopped.
THEOREM StatusFinal == Spec => StatusIsFinal
<1>1. TypeOK /\ RunInv /\ [Next]_vars =>
        [\A r \in Runs : status[r] \in {"completed", "failed", "stopped"} => status'[r] = status[r]]_vars
  BY StatusStep DEF Over
<1> QED BY <1>1, TypeCorrect, Inductive, PTL DEF Spec, StatusIsFinal

\* A stream ends after its run, with the final snapshot if there is one.
THEOREM StreamsEndFinal == Spec => []StreamEndsWithFinal
<1>1. RunInv => StreamEndsWithFinal
  BY DEF RunInv, StreamOK, StreamEndsWithFinal, Over, NeverFinal
<1> QED BY <1>1, Inductive, PTL

-----------------------------------------------------------------------------
(* The engines                                                             *)

\* Of a step of the run manager an engine sees one of its own, or nothing.
LEMMA EngineStep ==
  ASSUME TypeOK, RunInv, [Next]_vars, NEW q \in Runs
  PROVE  [Engine(q)!Next]_(Engine(q)!vars)
<1> DEFINE Same == phase'[q] = phase[q] /\ stopping'[q] = stopping[q]
<1>a. RunOK(q) /\ stopping \in [Runs -> BOOLEAN] /\ stopping[q] \in BOOLEAN
      /\ phase \in [Runs -> {"new", "preflight", "waiting", "resolved", "rejected", "crashed"}]
  BY DEF RunInv, TypeOK
<1>b. ASSUME Same PROVE [Engine(q)!Next]_(Engine(q)!vars)
  BY <1>b DEF Engine!vars
<1>1. ASSUME NEW r \in Runs, Fulfilled(r) \/ Rejected(r) PROVE Same
  BY <1>1 DEF Fulfilled, Rejected, engines
<1>2. ASSUME NEW r \in Runs, Start(r) PROVE [Engine(q)!Next]_(Engine(q)!vars)
  <2>1. CASE r = q
    <3>1. phase[q] = "new" /\ stopping' = stopping
      BY <1>a, <1>2, <2>1 DEF Start, RunOK
    <3>2. phase'[q] \in {"rejected", "preflight", "waiting"}
      BY <1>a, <1>2, <2>1 DEF Start
    <3> QED BY <3>1, <3>2 DEF Engine!Next, Engine!Start
  <2>2. CASE r # q
    BY <1>a, <1>b, <1>2, <2>2 DEF Start
  <2> QED BY <2>1, <2>2
<1>3. ASSUME NEW r \in Runs, Stop(r) PROVE [Engine(q)!Next]_(Engine(q)!vars)
  <2>1. CASE r = q
    <3>1. ~stopping[q] /\ phase[q] \in {"preflight", "waiting"}
      BY <1>a, <1>3, <2>1, RunningIsAtWork DEF Stop, Request
    <3>2. CASE Shutdown({r})
      <4>1. stopping'[q] = TRUE /\ phase'[q] = IF phase[q] = "waiting" THEN "resolved" ELSE phase[q]
        BY <2>1, <3>2 DEF Shutdown
      <4> QED BY <3>1, <4>1 DEF Engine!Next, Engine!Stop, Engine!Finish
    <3>3. CASE stopping' = [stopping EXCEPT ![r] = TRUE] /\ UNCHANGED <<phase, armed>>
      <4>1. stopping'[q] = TRUE /\ phase'[q] = phase[q]
        BY <1>a, <2>1, <3>3
      <4> QED BY <3>1, <4>1 DEF Engine!Next, Engine!Stop, Engine!FinishThrows
    <3> QED BY <1>3, <3>2, <3>3 DEF Stop
  <2>2. CASE r # q
    <3>1. CASE Shutdown({r})
      <4>1. stopping'[q] = (stopping[q] \/ q \in {r})
        BY <3>1 DEF Shutdown
      <4>2. phase'[q] = phase[q]
        BY <2>2, <3>1 DEF Shutdown
      <4> QED BY <1>a, <1>b, <2>2, <4>1, <4>2
    <3>2. CASE stopping' = [stopping EXCEPT ![r] = TRUE] /\ UNCHANGED <<phase, armed>>
      BY <1>a, <1>b, <2>2, <3>2
    <3> QED BY <1>3, <3>1, <3>2 DEF Stop
  <2> QED BY <2>1, <2>2
<1>4. ASSUME NEW r \in Runs, Settle(r) PROVE [Engine(q)!Next]_(Engine(q)!vars)
  <2>1. CASE r = q
    <3>1. phase[q] = "preflight" /\ phase'[q] = "waiting" /\ stopping' = stopping
      BY <1>a, <1>4, <2>1 DEF Settle
    <3> QED BY <3>1 DEF Engine!Next, Engine!Settle
  <2>2. CASE r # q
    BY <1>a, <1>b, <1>4, <2>2 DEF Settle
  <2> QED BY <2>1, <2>2
<1>5. ASSUME NEW r \in Runs, EndsByItself(r) PROVE [Engine(q)!Next]_(Engine(q)!vars)
  <2>1. CASE r = q
    <3>1. ~stopping[q] /\ phase[q] = "waiting"
      BY <1>5, <2>1 DEF EndsByItself
    <3>2. stopping'[q] = TRUE /\ phase'[q] = "resolved"
      BY <1>5, <2>1, <3>1 DEF EndsByItself, Shutdown
    <3> QED BY <3>1, <3>2 DEF Engine!Next, Engine!EndsByItself, Engine!Finish
  <2>2. CASE r # q
    <3>1. stopping'[q] = (stopping[q] \/ q \in {r})
      BY <1>5 DEF EndsByItself, Shutdown
    <3>2. phase'[q] = phase[q]
      BY <1>5, <2>2 DEF EndsByItself, Shutdown
    <3> QED BY <1>a, <1>b, <2>2, <3>1, <3>2
  <2> QED BY <2>1, <2>2
<1>6. ASSUME NEW r \in Runs, Crash(r) PROVE [Engine(q)!Next]_(Engine(q)!vars)
  <2>1. CASE r = q
    <3>1. phase[q] = "waiting" /\ ~stopping[q] /\ phase'[q] = "crashed" /\ stopping'[q] \in BOOLEAN
      BY <1>a, <1>6, <2>1 DEF Crash
    <3> QED BY <3>1 DEF Engine!Next, Engine!Crash
  <2>2. CASE r # q
    BY <1>a, <1>b, <1>6, <2>2 DEF Crash
  <2> QED BY <2>1, <2>2
<1>7. ASSUME NEW s \in Streams, (\E r \in Runs : Open(s, r)) \/ Tick(s) \/ Close(s) PROVE Same
  BY <1>7 DEF Open, Tick, Close, engines
<1>8. CASE Sigint
  <2> DEFINE R == {r \in armed : ~stopping[r]}
  <2>1. stopping'[q] = (stopping[q] \/ q \in R)
    BY <1>8 DEF Sigint
  <2>2. phase'[q] = IF q \in R THEN "resolved" ELSE phase[q]
    BY <1>8 DEF Sigint
  <2>3. CASE q \in R
    <3>1. phase[q] = "waiting" /\ ~stopping[q]
      BY <1>a, <1>8, <2>3 DEF RunOK, Sigint, Callback
    <3>2. stopping'[q] = TRUE /\ phase'[q] = "resolved"
      BY <2>1, <2>2, <2>3
    <3> QED BY <3>1, <3>2 DEF Engine!Next, Engine!EndsByItself, Engine!Finish
  <2>4. CASE q \notin R
    BY <1>a, <1>b, <2>1, <2>2, <2>4
  <2> QED BY <2>3, <2>4
<1>9. CASE Exit \/ Holds \/ SessionThrows \/ UNCHANGED vars
  BY <1>b, <1>9 DEF Exit, Holds, SessionThrows, vars, engines
<1> QED
  BY <1>b, <1>1, <1>2, <1>3, <1>4, <1>5, <1>6, <1>7, <1>8, <1>9 DEF Next

\* However requests, streams and the SIGINT that they all share fall together,
\* each engine is driven as the contract of EngineRun allows, which Engine keeps.
THEOREM EnginesKeep == Spec => EnginesKeepTheirContract
<1>1. Init => \A r \in Runs : Engine(r)!Init
  BY DEF Init, Engine!Init
<1>2. TypeOK /\ RunInv /\ [Next]_vars =>
        [\A r \in Runs : [Engine(r)!Next]_(Engine(r)!vars)]_vars
  BY EngineStep
<1> QED BY <1>1, <1>2, TypeCorrect, Inductive, PTL DEF Spec, EnginesKeepTheirContract
=============================================================================
