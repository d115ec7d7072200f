---------------------------- MODULE Pipeline_proofs ----------------------------
(***************************************************************************)
(* Proofs about Pipeline, for every set of pipelines and however many      *)
(* handles: stages gate in order, an attempt that was dropped is quiet, and*)
(* a patient pipeline is torn down for good.                               *)
(*                                                                         *)
(* A callback only quietens handles and settles results that were pending  *)
(* (CallbackKeeps); the runner's continuation starts a stage (StartKeeps)  *)
(* or leaves the loop (FinishKeeps).                                       *)
(***************************************************************************)
EXTENDS Pipeline, TLAPS

\* The stage of a handle.
StageOf(h) == stages[handle[h].stage]

\* A handle to come is empty; one that was made belongs to a stage, acts only for
\* a blueprint, has a timeout only if its stage has, fails only by that or as a
\* blueprint, and is quiet once the runner has dropped it.
Bound ==
  /\ runner = "new" => made = 0 /\ ~stopped
  /\ runner = "await" => made # 0
  /\ \A h \in Ids : h > made => handle[h] = NoHandle
  /\ \A h \in 1 .. made :
       /\ handle[h].stage \in 1 .. Len(stages)
       /\ handle[h].acting => StageOf(h).kind = "blueprint"
       /\ h \in timeouts => StageOf(h).timed
       /\ result[h] = "failed" => StageOf(h).timed \/ StageOf(h).kind = "blueprint"
       /\ h \notin handles /\ StageOf(h).kind # "blueprint" => Quiet(handle[h])

PipeInv == TypeOK /\ Bound /\ GatedInOrder /\ DroppedIsQuiet /\ TornDownWhenPatient

\* The stages of a pipeline are stages.
LEMMA StagesTyped ==
  ASSUME stages \in Pipelines
  PROVE  Len(stages) \in Nat /\ \A i \in 1 .. Len(stages) : stages[i] \in Stages
BY PipelineAssumption

\* A torn down handle neither listens nor waits for a timer.
LEMMA Torn ==
  ASSUME NEW r \in Handles, NEW t, t = [r EXCEPT !.listening = FALSE, !.timers = 0]
  PROVE  /\ t \in Handles /\ t.stage = r.stage /\ t.acting = r.acting
         /\ ~t.listening /\ t.timers = 0
<1>1. t = [stage |-> r.stage, listening |-> FALSE, timers |-> 0, acting |-> r.acting]
  BY DEF Handles
<1>2. r.stage \in Nat /\ r.acting \in BOOLEAN
  BY DEF Handles
<1>3. t.stage = r.stage /\ t.timers = 0
  BY <1>1
<1>4. t.listening = FALSE
  BY <1>1
<1>5. t.acting = r.acting
  BY <1>1
<1>6. t \in Handles
  <2>1. \A n \in Nat, a \in BOOLEAN :
          [stage |-> n, listening |-> FALSE, timers |-> 0, acting |-> a] \in Handles
    BY DEF Handles
  <2> QED BY <1>1, <1>2, <2>1
<1> QED BY <1>3, <1>4, <1>5, <1>6

\* Tearing down the handles in S leaves the others as they are.
LEMMA TornDownTyped ==
  ASSUME TypeOK, NEW S, NEW d, d = TornDownHandles(S)
  PROVE  /\ d \in [Ids -> Handles]
         /\ \A h \in Ids : /\ d[h].stage = handle[h].stage /\ d[h].acting = handle[h].acting
                           /\ h \in S => ~d[h].listening /\ d[h].timers = 0
                           /\ h \notin S => d[h] = handle[h]
<1>1. \A h \in Ids : handle[h] \in Handles
  BY DEF TypeOK
<1>2. \A h \in Ids : d[h] = IF h \in S THEN [handle[h] EXCEPT !.listening = FALSE, !.timers = 0]
                            ELSE handle[h]
  BY DEF TornDownHandles
<1>3. \A h \in Ids : h \in S =>
        /\ d[h] \in Handles /\ d[h].stage = handle[h].stage /\ d[h].acting = handle[h].acting
        /\ ~d[h].listening /\ d[h].timers = 0
  BY <1>1, <1>2, Torn
<1>4. \A h \in Ids : d[h] \in Handles
  BY <1>1, <1>2, <1>3
<1>5. d = [h \in Ids |-> d[h]]
  BY DEF TornDownHandles
<1>6. d \in [Ids -> Handles]
  BY <1>4, <1>5
<1> QED BY <1>2, <1>3, <1>6

\* A new handle belongs to its stage.
LEMMA NewTyped ==
  ASSUME TypeOK, NEW i \in 1 .. Len(stages), NEW n, n = NewHandle(i)
  PROVE  n \in Handles /\ n.stage = i /\ (n.acting => stages[i].kind = "blueprint")
<1>1. spawned \in BOOLEAN /\ i \in Nat
  BY StagesTyped DEF TypeOK
<1> DEFINE k == stages[i].kind
           l == k = "auth" \/ (k # "inert" /\ ~spawned)
           t == IF k \in {"commands", "daemon"} /\ spawned THEN 1 ELSE 0
           a == k = "blueprint" /\ spawned
<1>2. n = [stage |-> i, listening |-> l, timers |-> t, acting |-> a]
  BY DEF NewHandle
<1>3. l \in BOOLEAN /\ t \in Nat /\ a \in BOOLEAN /\ (a => k = "blueprint")
  OBVIOUS
<1> HIDE DEF l, t, a
<1> QED BY <1>1, <1>2, <1>3 DEF Handles

-----------------------------------------------------------------------------
(* Callbacks                                                               *)

\* What a callback may do to the handles and the results: handles keep their stage
\* and do not begin to do anything when they were quiet, only pending results
\* settle, and timeouts only go.
Calms ==
  /\ UNCHANGED <<stages, made, handles, runner>>
  /\ handle' \in [Ids -> Handles] /\ result' \in [Ids -> Results]
  /\ timeouts' \subseteq timeouts
  /\ \A h \in Ids :
       /\ handle'[h].stage = handle[h].stage
       /\ handle'[h].acting => handle[h].acting \/ (h <= made /\ StageOf(h).kind = "blueprint")
       /\ Quiet(handle[h]) => Quiet(handle'[h])
       /\ h > made => handle'[h] = handle[h]
       /\ result[h] # "pending" => result'[h] = result[h]
       /\ result'[h] = "failed" /\ result[h] # "failed" =>
            h <= made /\ (StageOf(h).timed \/ StageOf(h).kind = "blueprint")

\* A pending result is that of the last handle.
LEMMA EarlierSettled ==
  ASSUME PipeInv, NEW h \in 1 .. made, h # made
  PROVE  result[h] # "pending"
<1>1. made \in Nat /\ h + 1 \in 1 .. made /\ h + 1 # 1 /\ (h + 1) - 1 = h
  BY DEF PipeInv, TypeOK
<1> QED BY <1>1 DEF PipeInv, GatedInOrder

\* Every such callback keeps the invariant, if a stop leaves nothing going.
LEMMA CallbackKeeps ==
  ASSUME PipeInv, Calms, PipelineAssumption,
         bot' \in {"joining", "play", "world", "ended"}, logins' \in Nat, spawned' \in BOOLEAN,
         stopped' \in BOOLEAN, attempt' = attempt, runner # "new",
         stopped' => TornDownWhenPatient'
  PROVE  PipeInv'
<1>1. made \in Nat /\ made <= MaxHandles /\ MaxHandles \in Nat /\ handles \subseteq 1 .. made
      /\ Ids = 1 .. MaxHandles
  BY PipelineAssumption DEF PipeInv, TypeOK, Ids
<1>2. TypeOK'
  BY <1>1 DEF PipeInv, TypeOK, Calms
<1>3. \A h \in 1 .. made : h \in Ids /\ StageOf(h)' = StageOf(h)
  BY <1>1 DEF Calms, StageOf
<1>4. Bound'
  <2>1. \A h \in Ids : h > made' => handle'[h] = NoHandle
    BY DEF PipeInv, Bound, Calms
  <2>2. ASSUME NEW h \in 1 .. made
        PROVE  /\ handle'[h].stage \in 1 .. Len(stages')
               /\ handle'[h].acting => StageOf(h)'.kind = "blueprint"
               /\ h \in timeouts' => StageOf(h)'.timed
               /\ result'[h] = "failed" => StageOf(h)'.timed \/ StageOf(h)'.kind = "blueprint"
               /\ h \notin handles' /\ StageOf(h)'.kind # "blueprint" => Quiet(handle'[h])
    BY <1>3, <2>2 DEF PipeInv, Bound, Calms
  <2> QED BY <1>1, <2>1, <2>2 DEF PipeInv, Bound, Calms
<1>5. GatedInOrder'
  <2> SUFFICES ASSUME NEW h \in 1 .. made, h # 1
               PROVE  \/ /\ handle'[h].stage = handle'[h - 1].stage
                         /\ result'[h - 1] = "failed"
                         /\ stages'[handle'[h].stage].onFailure = "retry"
                      \/ /\ handle'[h].stage = handle'[h - 1].stage + 1
                         /\ result'[h - 1] # "pending"
                         /\ result'[h - 1] = "failed" =>
                              stages'[handle'[h - 1].stage].onFailure # "stop"
    BY <1>1, <1>3 DEF PipeInv, GatedInOrder, Calms
  <2>1. h - 1 \in 1 .. made /\ h - 1 # made
    BY <1>1
  <2>2. result'[h - 1] = result[h - 1]
    BY <1>3, <2>1, EarlierSettled DEF Calms
  <2> QED BY <1>3, <2>1, <2>2 DEF PipeInv, GatedInOrder, Calms
<1>6. DroppedIsQuiet'
  <2> SUFFICES ASSUME NEW h \in 1 .. made - 1, result'[h] = "failed",
                      stages'[handle'[h].stage].kind # "blueprint"
               PROVE  Quiet(handle'[h])
    BY DEF DroppedIsQuiet, Calms, Quiet
  <2>1. h \in 1 .. made /\ h # made
    BY <1>1
  <2>2. result'[h] = result[h]
    BY <1>3, <2>1, EarlierSettled DEF Calms
  <2> QED BY <1>3, <2>1, <2>2 DEF PipeInv, DroppedIsQuiet, Calms
<1>7. TornDownWhenPatient'
  BY DEF TornDownWhenPatient, TornDown
<1> QED BY <1>2, <1>4, <1>5, <1>6, <1>7 DEF PipeInv

\* Where nothing stops, what was quiet stays so.
LEMMA TornStaysTorn ==
  ASSUME PipeInv, Calms, stopped' = stopped
  PROVE  TornDownWhenPatient'
BY DEF PipeInv, Calms, TornDownWhenPatient, TornDown

\* A timer, the end of a blueprint and a timeout are callbacks.
LEMMA TimerKeeps ==
  ASSUME PipeInv, NEW h \in Ids, Timer(h), PipelineAssumption
  PROVE  PipeInv'
<1>1. /\ made \in 0 .. MaxHandles /\ MaxHandles \in Nat /\ Ids = 1 .. MaxHandles
      /\ handle[h] \in Handles /\ handle \in [Ids -> Handles] /\ result \in [Ids -> Results]
      /\ timeouts \subseteq 1 .. made
  BY PipelineAssumption DEF PipeInv, TypeOK, Ids
<1>2. /\ runner # "new" /\ attempt' = attempt
      /\ UNCHANGED <<stages, made, handles, runner, bot, logins, spawned, stopped>>
  BY DEF Timer, Work, BlueprintEnds, Timeout, Callback, world
<1>3. Calms
  <2>1. CASE Work(h)
    <3>1. /\ handle[h].timers > 0 /\ handle' = [handle EXCEPT ![h].timers = @ - 1]
          /\ result' = SettledWith(h, "passed") /\ timeouts' = timeouts \ {h}
      BY <2>1 DEF Work
    <3>2. /\ handle[h].timers - 1 \in Nat /\ handle'[h] = [handle[h] EXCEPT !.timers = @ - 1]
          /\ \A g \in Ids : g # h => handle'[g] = handle[g]
      BY <1>1, <3>1 DEF Handles
    <3>3. /\ handle'[h].stage = handle[h].stage /\ handle'[h].acting = handle[h].acting
          /\ handle'[h] \in Handles
      BY <1>1, <3>2 DEF Handles
    <3>4. handle' \in [Ids -> Handles]
      BY <1>1, <3>1, <3>2, <3>3
    <3>5. h <= made
      <4>1. handle[h] # NoHandle
        BY <1>1, <3>1 DEF NoHandle
      <4> QED BY <1>1, <4>1 DEF PipeInv, Bound
    <3>6. result' \in [Ids -> Results]
          /\ \A g \in Ids : result'[g] = result[g] \/ (result[g] = "pending" /\ result'[g] = "passed")
      BY <1>1, <3>1 DEF SettledWith, Results
    <3>7. ~Quiet(handle[h])
      BY <3>1 DEF Quiet
    <3> QED BY <1>1, <1>2, <3>1, <3>2, <3>3, <3>4, <3>5, <3>6, <3>7 DEF Calms
  <2>2. CASE BlueprintEnds(h)
    <3>1. /\ handle[h].acting /\ handle' = [handle EXCEPT ![h].acting = FALSE]
          /\ timeouts' = timeouts \ {h}
      BY <2>2 DEF BlueprintEnds
    <3>2. PICK r \in {"passed", "failed"} : result' = SettledWith(h, r)
      BY <2>2 DEF BlueprintEnds
    <3>3. /\ handle'[h] = [handle[h] EXCEPT !.acting = FALSE]
          /\ \A g \in Ids : g # h => handle'[g] = handle[g]
      BY <1>1, <3>1
    <3>4. handle'[h] \in Handles /\ handle'[h].stage = handle[h].stage
      BY <1>1, <3>3 DEF Handles
    <3>5. ~handle'[h].acting
      BY <1>1, <3>3 DEF Handles
    <3>6. handle' \in [Ids -> Handles]
      BY <1>1, <3>1, <3>3, <3>4
    <3>7. h <= made /\ StageOf(h).kind = "blueprint"
      BY <1>1, <3>1 DEF PipeInv, Bound, NoHandle
    <3>8. result' \in [Ids -> Results]
          /\ \A g \in Ids : g # h \/ result[g] # "pending" => result'[g] = result[g]
      BY <1>1, <3>2 DEF SettledWith, Results
    <3>9. ~Quiet(handle[h])
      BY <3>1 DEF Quiet
    <3> QED BY <1>1, <1>2, <3>1, <3>3, <3>4, <3>5, <3>6, <3>7, <3>8, <3>9 DEF Calms
  <2>3. CASE Timeout(h)
    <3>1. h \in timeouts /\ timeouts' = timeouts \ {h} /\ result' = SettledWith(h, "failed")
          /\ UNCHANGED handle
      BY <2>3 DEF Timeout
    <3>2. h <= made /\ StageOf(h).timed
      BY <1>1, <3>1 DEF PipeInv, Bound
    <3>3. result' \in [Ids -> Results]
          /\ \A g \in Ids : g # h \/ result[g] # "pending" => result'[g] = result[g]
      BY <1>1, <3>1 DEF SettledWith, Results
    <3> QED BY <1>1, <1>2, <3>1, <3>2, <3>3 DEF Calms
  <2> QED BY <2>1, <2>2, <2>3 DEF Timer
<1>4. TornDownWhenPatient'
  BY <1>2, <1>3, TornStaysTorn
<1> QED BY <1>2, <1>3, <1>4, CallbackKeeps DEF PipeInv, TypeOK

\* A join and the spawn begin something only where a handle listens.
LEMMA ArrivalKeeps ==
  ASSUME PipeInv, Login \/ Spawned, PipelineAssumption
  PROVE  PipeInv'
<1>1. /\ made \in 0 .. MaxHandles /\ MaxHandles \in Nat /\ Ids = 1 .. MaxHandles
      /\ handle \in [Ids -> Handles] /\ result \in [Ids -> Results]
  BY PipelineAssumption DEF PipeInv, TypeOK, Ids
<1>2. /\ runner # "new" /\ attempt' = attempt
      /\ UNCHANGED <<stages, made, handles, runner, stopped, result, timeouts>>
  BY DEF Login, Spawned, Callback, world
<1>3. /\ bot' \in {"joining", "play", "world", "ended"} /\ logins' \in Nat
      /\ spawned' \in BOOLEAN /\ stopped \in BOOLEAN
  <2>1. bot \in {"joining", "play", "world", "ended"} /\ logins \in Nat
        /\ spawned \in BOOLEAN /\ stopped \in BOOLEAN
    BY DEF PipeInv, TypeOK
  <2>2. CASE Login
    BY <2>1, <2>2 DEF Login
  <2>3. CASE Spawned
    <3>1. bot' = "world" /\ logins' = logins /\ spawned' = ~stopped
      BY <2>3 DEF Spawned
    <3>2. spawned' \in BOOLEAN
      BY <3>1
    <3> QED BY <2>1, <3>1, <3>2
  <2> QED BY <2>2, <2>3
<1>4. \A h \in Ids : h > made => ~handle[h].listening
  BY DEF PipeInv, Bound, NoHandle
<1>5. Calms
  <2>1. CASE Login
    <3>1. handle' = [h \in Ids |->
            IF handle[h].listening /\ stages[handle[h].stage].kind = "auth"
              THEN [handle[h] EXCEPT !.timers = @ + 1] ELSE handle[h]]
      BY <2>1 DEF Login
    <3>2. ASSUME NEW h \in Ids, handle[h].listening, handle'[h] = [handle[h] EXCEPT !.timers = @ + 1]
          PROVE  /\ handle'[h].stage = handle[h].stage /\ handle'[h].acting = handle[h].acting
                 /\ handle'[h] \in Handles
      BY <1>1, <3>2 DEF Handles
    <3>3. \A h \in Ids :
            \/ handle'[h] = handle[h]
            \/ /\ handle[h].listening /\ handle'[h].stage = handle[h].stage
               /\ handle'[h].acting = handle[h].acting /\ handle'[h] \in Handles
      BY <3>1, <3>2
    <3>4. handle' \in [Ids -> Handles]
      BY <1>1, <3>1, <3>3
    <3> HIDE <3>1
    <3> QED BY <1>1, <1>2, <1>4, <3>3, <3>4 DEF Calms, Quiet
  <2>2. CASE Spawned
    <3>1. handle' = [h \in Ids |-> Spawn(handle[h])]
      BY <2>2 DEF Spawned
    <3>2. ASSUME NEW h \in Ids, handle[h].listening,
                 handle'[h] = [handle[h] EXCEPT !.listening = FALSE, !.timers = 1]
          PROVE  /\ handle'[h].stage = handle[h].stage /\ handle'[h].acting = handle[h].acting
                 /\ handle'[h] \in Handles
      <4>1. handle[h] \in Handles
        BY <1>1
      <4> HIDE <1>1
      <4> DEFINE r == handle[h]
      <4>2. handle'[h] = [stage |-> r.stage, listening |-> FALSE, timers |-> 1, acting |-> r.acting]
        BY <3>2, <4>1 DEF Handles
      <4>3. r.stage \in Nat /\ r.acting \in BOOLEAN
        BY <4>1 DEF Handles
      <4>4. \A n \in Nat, a \in BOOLEAN :
              [stage |-> n, listening |-> FALSE, timers |-> 1, acting |-> a] \in Handles
        BY DEF Handles
      <4>5. handle'[h].stage = r.stage
        BY <4>2
      <4>6. handle'[h].acting = r.acting
        BY <4>2
      <4>7. handle'[h] \in Handles
        BY <4>2, <4>3, <4>4
      <4> QED BY <4>5, <4>6, <4>7
    <3>3. ASSUME NEW h \in Ids, handle[h].listening,
                 handle'[h] = [handle[h] EXCEPT !.listening = FALSE, !.acting = TRUE]
          PROVE  handle'[h].stage = handle[h].stage /\ handle'[h] \in Handles
      <4>1. handle[h] \in Handles
        BY <1>1
      <4> DEFINE r == handle[h]
      <4>2. handle'[h] = [stage |-> r.stage, listening |-> FALSE, timers |-> r.timers, acting |-> TRUE]
        BY <3>3, <4>1 DEF Handles
      <4>3. r.stage \in Nat /\ r.timers \in Nat
        BY <4>1 DEF Handles
      <4>4. handle'[h].stage = r.stage
        BY <4>2
      <4>5. handle'[h] \in Handles
        BY <4>2, <4>3 DEF Handles
      <4> QED BY <4>4, <4>5
    <3>4. \A h \in Ids :
            \/ handle'[h] = handle[h]
            \/ /\ handle[h].listening /\ StageOf(h).kind = "blueprint"
               /\ handle'[h] = [handle[h] EXCEPT !.listening = FALSE, !.acting = TRUE]
            \/ /\ handle[h].listening
               /\ handle'[h] = [handle[h] EXCEPT !.listening = FALSE, !.timers = 1]
      <4> SUFFICES ASSUME NEW h \in Ids
                   PROVE  \/ handle'[h] = handle[h]
                          \/ /\ handle[h].listening /\ StageOf(h).kind = "blueprint"
                             /\ handle'[h] = [handle[h] EXCEPT !.listening = FALSE, !.acting = TRUE]
                          \/ /\ handle[h].listening
                             /\ handle'[h] = [handle[h] EXCEPT !.listening = FALSE, !.timers = 1]
        OBVIOUS
      <4>1. handle'[h] = Spawn(handle[h])
        BY <3>1
      <4> DEFINE kind == StageOf(h).kind
      <4>2. CASE ~handle[h].listening \/ kind = "auth"
        BY <4>1, <4>2 DEF Spawn, StageOf
      <4>3. CASE handle[h].listening /\ kind = "blueprint"
        BY <4>1, <4>3 DEF Spawn, StageOf
      <4>4. CASE handle[h].listening /\ kind # "auth" /\ kind # "blueprint"
        BY <4>1, <4>4 DEF Spawn, StageOf
      <4> QED BY <4>2, <4>3, <4>4
    <3>5. \A h \in Ids :
            \/ handle'[h] = handle[h]
            \/ /\ handle[h].listening /\ handle'[h].stage = handle[h].stage
               /\ handle'[h].acting = handle[h].acting \/ StageOf(h).kind = "blueprint"
               /\ handle'[h] \in Handles
      BY <3>2, <3>3, <3>4
    <3>6. handle' \in [Ids -> Handles]
      BY <1>1, <3>1, <3>5
    <3>7. \A h \in Ids : h > made => handle'[h] = handle[h]
      BY <1>4, <3>5
    <3>8. \A h \in Ids : handle[h].listening => h <= made
      BY <1>1, <1>4
    <3> QED BY <1>1, <1>2, <3>5, <3>6, <3>7, <3>8 DEF Calms, Quiet
  <2> QED BY <2>1, <2>2
<1>6. TornDownWhenPatient'
  BY <1>2, <1>5, TornStaysTorn
<1> QED BY <1>2, <1>3, <1>5, <1>6, CallbackKeeps

\* A kick or the end stops the pipeline: what the runner still has is torn down.
LEMMA StopKeeps ==
  ASSUME PipeInv, Kicked \/ End, PipelineAssumption
  PROVE  PipeInv'
<1>1. /\ made \in 0 .. MaxHandles /\ MaxHandles \in Nat /\ Ids = 1 .. MaxHandles
      /\ handle \in [Ids -> Handles] /\ result \in [Ids -> Results]
  BY PipelineAssumption DEF PipeInv, TypeOK, Ids
<1>2. /\ runner # "new" /\ attempt' = attempt /\ stopped' = TRUE
      /\ UNCHANGED <<stages, made, handles, runner, result, timeouts, logins, spawned>>
      /\ handle' = IF stopped THEN handle ELSE TornDownHandles(handles)
  BY DEF Kicked, End, StopAll, Callback
<1>3. bot' \in {"joining", "play", "world", "ended"} /\ logins \in Nat /\ spawned \in BOOLEAN
  BY DEF PipeInv, TypeOK, Kicked, End
<1> DEFINE d == TornDownHandles(handles)
<1>4. /\ d \in [Ids -> Handles]
      /\ \A h \in Ids : /\ d[h].stage = handle[h].stage /\ d[h].acting = handle[h].acting
                        /\ h \in handles => ~d[h].listening /\ d[h].timers = 0
                        /\ h \notin handles => d[h] = handle[h]
  BY TornDownTyped DEF PipeInv
<1> HIDE DEF d
<1>5. \A h \in Ids : h > made => h \notin handles
  BY <1>1 DEF PipeInv, TypeOK
<1>6. Calms
  <2>1. CASE stopped
    BY <1>1, <1>2, <2>1 DEF Calms
  <2>2. CASE ~stopped
    <3>1. handle' = d
      BY <1>2, <2>2 DEF d
    <3>2. \A h \in Ids : Quiet(handle[h]) => Quiet(d[h])
      BY <1>4 DEF Quiet
    <3> QED BY <1>1, <1>2, <1>4, <1>5, <3>1, <3>2 DEF Calms
  <2> QED BY <2>1, <2>2
<1>7. TornDownWhenPatient'
  <2>1. CASE stopped
    BY <1>2, <1>6, <2>1, TornStaysTorn
  <2>2. CASE ~stopped
    <3> SUFFICES ASSUME \A i \in DOMAIN stages : stages[i].kind # "blueprint", NEW h \in Ids
                 PROVE  Quiet(handle'[h])
      BY <1>2 DEF TornDownWhenPatient, TornDown, Quiet
    <3>1. handle' = d
      BY <1>2, <2>2 DEF d
    <3>2. CASE h > made
      BY <1>4, <1>5, <3>1, <3>2 DEF PipeInv, Bound, Quiet, NoHandle
    <3>3. CASE h \in 1 .. made
      <4>1. StageOf(h).kind # "blueprint"
        BY <3>3, StagesTyped DEF PipeInv, TypeOK, Bound, StageOf
      <4>2. CASE h \in handles
        BY <1>4, <3>1, <3>3, <4>1, <4>2 DEF PipeInv, Bound, Quiet
      <4>3. CASE h \notin handles
        BY <1>4, <3>1, <3>3, <4>1, <4>3 DEF PipeInv, Bound
      <4> QED BY <4>2, <4>3
    <3> QED BY <1>1, <3>2, <3>3
  <2> QED BY <2>1, <2>2
<1> QED BY <1>2, <1>3, <1>6, <1>7, CallbackKeeps

-----------------------------------------------------------------------------
(* The runner                                                              *)

\* Why a stage is started: it is the first, the next one after a result that lets
\* it start, or the one that has failed and is retried.
Due(i) ==
  IF made = 0 THEN i = 1
  ELSE \/ /\ i = handle[made].stage /\ result[made] = "failed"
          /\ stages[i].onFailure = "retry"
       \/ /\ i = handle[made].stage + 1 /\ result[made] # "pending"
          /\ result[made] = "failed" => StageOf(made).onFailure # "stop"

Patient ==
  \A i \in DOMAIN stages :
     stages[i].kind # "blueprint" /\ ~(stages[i].timed /\ stages[i].onFailure = "retry")

\* A stage that is due starts, and the attempt that failed goes.
LEMMA StartKeeps ==
  ASSUME PipeInv, NEW i \in 1 .. Len(stages), NEW S, StartStage(i, S), Due(i),
         S \subseteq 1 .. made, made # 0 /\ result[made] = "failed" => made \in S,
         stopped => ~Patient, attempt' \in Nat, UNCHANGED <<stages, world, stopped>>,
         PipelineAssumption
  PROVE  PipeInv'
<1> DEFINE h == made + 1
           n == NewHandle(i)
           d == TornDownHandles(S)
<1>1. /\ made \in 0 .. MaxHandles /\ MaxHandles \in Nat /\ Ids = 1 .. MaxHandles
      /\ handle \in [Ids -> Handles] /\ result \in [Ids -> Results]
      /\ handles \subseteq 1 .. made /\ timeouts \subseteq 1 .. made /\ stages \in Pipelines
  BY PipelineAssumption DEF PipeInv, TypeOK, Ids
<1>2. /\ h \in Ids /\ made' = h /\ runner' = "await"
      /\ handle' = [d EXCEPT ![h] = n] /\ handles' = (handles \ S) \cup {h}
      /\ result' = [result EXCEPT ![h] = FirstResult(i)]
      /\ timeouts' \in {timeouts, timeouts \cup {h}}
      /\ timeouts' # timeouts => stages[i].timed
  BY DEF StartStage
<1>3. n \in Handles /\ n.stage = i /\ (n.acting => stages[i].kind = "blueprint")
  BY NewTyped DEF PipeInv
<1>4. /\ d \in [Ids -> Handles]
      /\ \A g \in Ids : /\ d[g].stage = handle[g].stage /\ d[g].acting = handle[g].acting
                        /\ g \in S => ~d[g].listening /\ d[g].timers = 0
                        /\ g \notin S => d[g] = handle[g]
  BY TornDownTyped DEF PipeInv
<1>5. FirstResult(i) \in {"passed", "pending"}
  BY DEF FirstResult
<1> HIDE DEF n, d
<1>6. handle' \in [Ids -> Handles] /\ result' \in [Ids -> Results]
  BY <1>1, <1>2, <1>3, <1>4, <1>5 DEF Results
<1>7. /\ handle'[h] = n /\ result'[h] # "failed"
      /\ \A g \in Ids : g # h => handle'[g] = d[g] /\ result'[g] = result[g]
  BY <1>1, <1>2, <1>4, <1>5
<1>8. \A g \in 1 .. made : g \in Ids /\ g # h /\ StageOf(g)' = StageOf(g)
  BY <1>1, <1>4, <1>7 DEF StageOf
<1>9. TypeOK'
  <2>1. handles' \subseteq 1 .. h /\ timeouts' \subseteq 1 .. h /\ h \in 0 .. MaxHandles
    BY <1>1, <1>2
  <2>2. /\ bot' \in {"joining", "play", "world", "ended"} /\ logins' \in Nat /\ spawned' \in BOOLEAN
        /\ stopped' \in BOOLEAN /\ stages' \in Pipelines
    BY DEF PipeInv, TypeOK, world
  <2> HIDE DEF h
  <2> QED BY <1>2, <1>6, <2>1, <2>2 DEF TypeOK
<1>10. Bound'
  <2>1. \A g \in Ids : g > h => handle'[g] = NoHandle
    <3> SUFFICES ASSUME NEW g \in Ids, g > h PROVE handle'[g] = NoHandle
      OBVIOUS
    <3>1. g > made /\ g # h /\ g \notin S
      BY <1>1
    <3> QED BY <1>4, <1>7, <3>1 DEF PipeInv, Bound
  <2>2. ASSUME NEW g \in 1 .. made
        PROVE  /\ handle'[g].stage \in 1 .. Len(stages')
               /\ handle'[g].acting => StageOf(g)'.kind = "blueprint"
               /\ g \in timeouts' => StageOf(g)'.timed
               /\ result'[g] = "failed" => StageOf(g)'.timed \/ StageOf(g)'.kind = "blueprint"
               /\ g \notin handles' /\ StageOf(g)'.kind # "blueprint" => Quiet(handle'[g])
    <3>1. g \in Ids /\ g # h /\ StageOf(g)' = StageOf(g) /\ handle'[g] = d[g] /\ result'[g] = result[g]
      BY <1>7, <1>8, <2>2
    <3>2. g \in timeouts' => g \in timeouts
      BY <1>2, <3>1
    <3>3. g \notin handles' /\ StageOf(g)'.kind # "blueprint" => Quiet(handle'[g])
      <4>1. CASE g \in S
        BY <1>4, <3>1, <4>1 DEF PipeInv, Bound, Quiet
      <4>2. CASE g \notin S
        BY <1>2, <1>4, <3>1, <4>2 DEF PipeInv, Bound, Quiet
      <4> QED BY <4>1, <4>2
    <3> QED BY <1>4, <3>1, <3>2, <3>3 DEF PipeInv, Bound
  <2>3. stages'[handle'[h].stage] = stages[i]
    BY <1>3, <1>7
  <2>4. h \in timeouts' => stages[i].timed
    BY <1>1, <1>2
  <2>5. h \in handles'
    BY <1>2
  <2>6. /\ handle'[h].stage \in 1 .. Len(stages')
        /\ handle'[h].acting => stages'[handle'[h].stage].kind = "blueprint"
        /\ h \in timeouts' => stages'[handle'[h].stage].timed
        /\ result'[h] # "failed" /\ h \in handles'
    BY <1>3, <1>7, <2>3, <2>4, <2>5
  <2>7. \A g \in 1 .. made' : g = h \/ g \in 1 .. made
    BY <1>1, <1>2
  <2>8. \A g \in 1 .. made' :
               /\ handle'[g].stage \in 1 .. Len(stages')
               /\ handle'[g].acting => StageOf(g)'.kind = "blueprint"
               /\ g \in timeouts' => StageOf(g)'.timed
               /\ result'[g] = "failed" => StageOf(g)'.timed \/ StageOf(g)'.kind = "blueprint"
               /\ g \notin handles' /\ StageOf(g)'.kind # "blueprint" => Quiet(handle'[g])
    <3> SUFFICES ASSUME NEW g \in 1 .. made'
                 PROVE  /\ handle'[g].stage \in 1 .. Len(stages')
                        /\ handle'[g].acting => StageOf(g)'.kind = "blueprint"
                        /\ g \in timeouts' => StageOf(g)'.timed
                        /\ result'[g] = "failed" => StageOf(g)'.timed \/ StageOf(g)'.kind = "blueprint"
                        /\ g \notin handles' /\ StageOf(g)'.kind # "blueprint" => Quiet(handle'[g])
      OBVIOUS
    <3>1. CASE g = h
      BY <2>6, <3>1 DEF StageOf
    <3>2. CASE g \in 1 .. made
      BY <2>2, <3>2
    <3> QED BY <2>7, <3>1, <3>2
  <2>9. runner' # "new" /\ made' # 0
    BY <1>1, <1>2
  <2> HIDE DEF h
  <2> QED BY <1>2, <2>1, <2>8, <2>9 DEF Bound
<1>11. GatedInOrder'
  <2> SUFFICES ASSUME NEW g \in 1 .. h
               PROVE  IF g = 1 THEN handle'[g].stage = 1
                      ELSE \/ /\ handle'[g].stage = handle'[g - 1].stage
                              /\ result'[g - 1] = "failed"
                              /\ stages[handle'[g].stage].onFailure = "retry"
                           \/ /\ handle'[g].stage = handle'[g - 1].stage + 1
                              /\ result'[g - 1] # "pending"
                              /\ result'[g - 1] = "failed" =>
                                   stages[handle'[g - 1].stage].onFailure # "stop"
    BY <1>2 DEF GatedInOrder
  <2>1. CASE g \in 1 .. made
    <3>1. handle'[g].stage = handle[g].stage /\ result'[g] = result[g]
      BY <1>4, <1>7, <1>8, <2>1
    <3>2. g # 1 => g - 1 \in 1 .. made
      BY <1>1, <2>1
    <3>3. g # 1 => handle'[g - 1].stage = handle[g - 1].stage /\ result'[g - 1] = result[g - 1]
      BY <1>4, <1>7, <1>8, <3>2
    <3> QED BY <2>1, <3>1, <3>3 DEF PipeInv, GatedInOrder
  <2>2. CASE g = h
    <3>1. handle'[g].stage = i
      BY <1>3, <1>7, <2>2
    <3>2. CASE made = 0
      BY <2>2, <3>1, <3>2 DEF Due
    <3>3. CASE made # 0
      <4>1. g - 1 = made /\ g # 1 /\ made \in 1 .. made
        BY <1>1, <2>2, <3>3
      <4>2. handle'[made].stage = handle[made].stage /\ result'[made] = result[made]
        BY <1>4, <1>7, <1>8, <4>1
      <4> QED BY <3>1, <3>3, <4>1, <4>2 DEF Due, StageOf
    <3> QED BY <3>2, <3>3
  <2> QED BY <1>1, <2>1, <2>2
<1>12. DroppedIsQuiet'
  <2> SUFFICES ASSUME NEW g \in 1 .. made, result'[g] = "failed",
                      stages[handle'[g].stage].kind # "blueprint"
               PROVE  Quiet(handle'[g])
    <3>1. made' - 1 = made
      BY <1>1, <1>2
    <3> QED BY <3>1 DEF DroppedIsQuiet, Quiet
  <2>1. g \in Ids /\ handle'[g] = d[g] /\ result[g] = "failed" /\ StageOf(g).kind # "blueprint"
    BY <1>4, <1>7, <1>8 DEF StageOf
  <2>2. CASE g \in S
    BY <1>4, <2>1, <2>2 DEF PipeInv, Bound, Quiet
  <2>3. CASE g \notin S
    <3>1. g \in 1 .. made - 1
      BY <1>1, <2>1, <2>3
    <3> QED BY <1>4, <2>1, <2>3, <3>1 DEF PipeInv, DroppedIsQuiet, StageOf
  <2> QED BY <2>2, <2>3
<1>13. TornDownWhenPatient'
  BY DEF TornDownWhenPatient, TornDown, Patient
<1> QED BY <1>9, <1>10, <1>11, <1>12, <1>13 DEF PipeInv

\* The runner leaves its loop, with a failed stage dropped or in place.
LEMMA FinishKeeps ==
  ASSUME PipeInv, NEW S, Finish(S), S \subseteq 1 .. made,
         UNCHANGED <<stages, world, stopped>>, PipelineAssumption
  PROVE  PipeInv'
<1> DEFINE d == TornDownHandles(S)
<1>1. /\ made \in 0 .. MaxHandles /\ MaxHandles \in Nat /\ Ids = 1 .. MaxHandles
  BY PipelineAssumption DEF PipeInv, TypeOK, Ids
<1>2. /\ runner' = "finished" /\ handle' = d /\ handles' = handles \ S
      /\ UNCHANGED <<attempt, made, result, timeouts>>
  BY DEF Finish
<1>3. /\ d \in [Ids -> Handles]
      /\ \A g \in Ids : /\ d[g].stage = handle[g].stage /\ d[g].acting = handle[g].acting
                        /\ g \in S => ~d[g].listening /\ d[g].timers = 0
                        /\ g \notin S => d[g] = handle[g]
  BY TornDownTyped DEF PipeInv
<1> HIDE DEF d
<1>4. TypeOK'
  BY <1>2, <1>3 DEF PipeInv, TypeOK, world
<1>5. \A g \in 1 .. made : g \in Ids /\ d[g].stage = handle[g].stage
  BY <1>1, <1>3
<1>6. \A g \in Ids : Quiet(handle[g]) => Quiet(d[g])
  BY <1>3 DEF Quiet
<1>7. Bound'
  <2>1. \A g \in Ids : g > made' => handle'[g] = NoHandle
    <3> SUFFICES ASSUME NEW g \in Ids, g > made PROVE d[g] = NoHandle
      BY <1>2
    <3>1. g \notin S
      BY <1>1
    <3> QED BY <1>3, <3>1 DEF PipeInv, Bound
  <2>2. ASSUME NEW g \in 1 .. made
        PROVE  /\ handle'[g].stage \in 1 .. Len(stages')
               /\ handle'[g].acting => StageOf(g)'.kind = "blueprint"
               /\ g \in timeouts' => StageOf(g)'.timed
               /\ result'[g] = "failed" => StageOf(g)'.timed \/ StageOf(g)'.kind = "blueprint"
               /\ g \notin handles' /\ StageOf(g)'.kind # "blueprint" => Quiet(handle'[g])
    <3>1. g \in Ids /\ StageOf(g)' = StageOf(g) /\ handle'[g].stage = handle[g].stage
          /\ handle'[g].acting = handle[g].acting
      BY <1>2, <1>3, <1>5 DEF StageOf
    <3>2. CASE g \in S
      BY <1>2, <1>3, <3>1, <3>2 DEF PipeInv, Bound, Quiet
    <3>3. CASE g \notin S
      BY <1>2, <1>6, <3>1, <3>3 DEF PipeInv, Bound
    <3> QED BY <3>2, <3>3
  <2> QED BY <1>2, <2>1, <2>2 DEF Bound
<1>8. GatedInOrder'
  <2> SUFFICES ASSUME NEW g \in 1 .. made
               PROVE  IF g = 1 THEN d[g].stage = 1
                      ELSE \/ /\ d[g].stage = d[g - 1].stage
                              /\ result[g - 1] = "failed"
                              /\ stages[d[g].stage].onFailure = "retry"
                           \/ /\ d[g].stage = d[g - 1].stage + 1
                              /\ result[g - 1] # "pending"
                              /\ result[g - 1] = "failed" =>
                                   stages[d[g - 1].stage].onFailure # "stop"
    BY <1>2 DEF GatedInOrder
  <2>1. g # 1 => g - 1 \in 1 .. made
    BY <1>1
  <2> QED BY <1>5, <2>1 DEF PipeInv, GatedInOrder
<1>9. DroppedIsQuiet'
  BY <1>1, <1>2, <1>5, <1>6 DEF PipeInv, DroppedIsQuiet
<1>10. TornDownWhenPatient'
  BY <1>2, <1>6 DEF PipeInv, TornDownWhenPatient, TornDown
<1> QED BY <1>4, <1>7, <1>8, <1>9, <1>10 DEF PipeInv

\* The head of the loop takes the stage that is due, if there is one.
LEMMA NextStageKeeps ==
  ASSUME PipeInv, NEW i \in Nat \ {0}, NEW S, NextStage(i, S), Due(i), S \subseteq 1 .. made,
         made # 0 /\ result[made] = "failed" => made \in S,
         UNCHANGED <<stages, world, stopped>>, PipelineAssumption
  PROVE  PipeInv'
<1>1. CASE i > Len(stages) \/ stopped
  <2>1. Finish(S)
    BY <1>1 DEF NextStage
  <2> QED BY <2>1, FinishKeeps
<1>2. CASE ~(i > Len(stages) \/ stopped)
  <2>1. StartStage(i, S) /\ attempt' = 0 /\ ~stopped
    BY <1>2 DEF NextStage
  <2>2. i \in 1 .. Len(stages)
    BY <1>2, StagesTyped DEF PipeInv, TypeOK
  <2> QED BY <2>1, <2>2, StartKeeps
<1> QED BY <1>1, <1>2

\* The runner's first step.
LEMMA BeginKeeps ==
  ASSUME PipeInv, Begin, PipelineAssumption
  PROVE  PipeInv'
<1>1. made = 0 /\ NextStage(1, {}) /\ UNCHANGED <<stages, world, stopped>>
  BY DEF Begin, PipeInv, Bound
<1>2. Due(1)
  BY <1>1 DEF Due
<1>3. {} \subseteq 1 .. made /\ 1 \in Nat \ {0}
  OBVIOUS
<1> QED BY <1>1, <1>2, <1>3, NextStageKeeps

\* The runner's continuation after its await.
LEMMA ResumeKeeps ==
  ASSUME PipeInv, Resume, PipelineAssumption
  PROVE  PipeInv'
<1> DEFINE i == handle[made].stage
<1>1. /\ runner = "await" /\ result[made] \in {"passed", "failed"}
      /\ UNCHANGED <<stages, world, stopped>>
  BY DEF Resume, Settled
<1>2. made # 0 /\ made \in 1 .. made /\ i \in 1 .. Len(stages) /\ Len(stages) \in Nat
  BY <1>1, StagesTyped DEF PipeInv, TypeOK, Bound
<1>3. Current = stages[i] /\ StageOf(made) = stages[i]
  BY DEF Current, StageOf
<1>4. i + 1 \in Nat \ {0}
  BY <1>2
<1>5. CASE result[made] = "passed"
  <2>1. NextStage(i + 1, {})
    BY <1>5 DEF Resume, Advance
  <2>2. Due(i + 1)
    BY <1>2, <1>5 DEF Due
  <2>3. {} \subseteq 1 .. made
    OBVIOUS
  <2> HIDE DEF i
  <2> QED BY <1>1, <1>4, <1>5, <2>1, <2>2, <2>3, NextStageKeeps
<1>6. CASE result[made] = "failed" /\ MayRetry
  <2>1. StartStage(i, {made}) /\ attempt' = attempt + 1
    BY <1>6 DEF Resume, Retry
  <2>2. stages[i].onFailure = "retry"
    BY <1>3, <1>6 DEF MayRetry
  <2>3. Due(i)
    BY <1>2, <1>6, <2>2 DEF Due
  <2>4. stages[i].timed \/ stages[i].kind = "blueprint"
    BY <1>2, <1>3, <1>6 DEF PipeInv, Bound
  <2>5. i \in DOMAIN stages
    BY <1>2, PipelineAssumption DEF PipeInv, TypeOK
  <2>6. ~Patient
    BY <2>2, <2>4, <2>5 DEF Patient
  <2>7. attempt' \in Nat /\ {made} \subseteq 1 .. made
    BY <1>2, <2>1 DEF PipeInv, TypeOK
  <2> HIDE DEF i
  <2> QED BY <1>1, <1>2, <2>1, <2>3, <2>6, <2>7, StartKeeps
<1>7. CASE result[made] = "failed" /\ ~MayRetry
  <2>1. GiveUp
    BY <1>7 DEF Resume
  <2>2. CASE stages[i].onFailure = "stop"
    <3>1. Finish({})
      BY <1>3, <2>1, <2>2 DEF GiveUp
    <3> QED BY <1>1, <3>1, FinishKeeps
  <2>3. CASE stages[i].onFailure # "stop"
    <3>1. NextStage(i + 1, {made})
      BY <1>3, <2>1, <2>3 DEF GiveUp
    <3>2. Due(i + 1)
      BY <1>2, <1>3, <1>7, <2>3 DEF Due
    <3>3. {made} \subseteq 1 .. made
      BY <1>2
    <3> HIDE DEF i
    <3> QED BY <1>1, <1>4, <3>1, <3>2, <3>3, NextStageKeeps
  <2> QED BY <2>2, <2>3
<1> QED BY <1>1, <1>5, <1>6, <1>7

-----------------------------------------------------------------------------
(* The theorems                                                            *)

\* A runner that has not begun satisfies the invariant.
LEMMA InitHolds == Init => PipeInv
<1> SUFFICES ASSUME Init PROVE PipeInv
  OBVIOUS
<1>1. MaxHandles \in Nat /\ Ids = 1 .. MaxHandles /\ NoHandle \in Handles
  BY PipelineAssumption DEF Ids, NoHandle, Handles
<1>2. /\ stages \in Pipelines /\ bot = "joining" /\ logins = 0 /\ spawned = FALSE /\ stopped = FALSE
      /\ runner = "new" /\ attempt = 0 /\ made = 0 /\ handle = [h \in Ids |-> NoHandle]
      /\ handles = {} /\ result = [h \in Ids |-> "pending"] /\ timeouts = {}
  BY DEF Init
<1>3. TypeOK
  <2>1. handle \in [Ids -> Handles] /\ result \in [Ids -> Results]
    BY <1>1, <1>2 DEF Results
  <2>2. made \in 0 .. MaxHandles /\ handles \subseteq 1 .. made /\ timeouts \subseteq 1 .. made
    BY <1>1, <1>2
  <2> QED BY <1>2, <2>1, <2>2 DEF TypeOK
<1>4. Bound
  BY <1>2 DEF Bound
<1>5. GatedInOrder /\ DroppedIsQuiet /\ TornDownWhenPatient
  BY <1>2 DEF GatedInOrder, DroppedIsQuiet, TornDownWhenPatient, TornDown
<1> QED BY <1>3, <1>4, <1>5 DEF PipeInv

\* Every step keeps it.
LEMMA StepKeeps == PipeInv /\ [Next]_vars => PipeInv'
<1> SUFFICES ASSUME PipeInv, [Next]_vars PROVE PipeInv'
  OBVIOUS
<1>1. CASE Begin
  BY <1>1, BeginKeeps, PipelineAssumption
<1>2. CASE Resume
  BY <1>2, ResumeKeeps, PipelineAssumption
<1>3. CASE Login \/ Spawned
  BY <1>3, ArrivalKeeps, PipelineAssumption
<1>4. CASE Kicked \/ End
  BY <1>4, StopKeeps, PipelineAssumption
<1>5. CASE \E h \in Ids : Timer(h)
  BY <1>5, TimerKeeps, PipelineAssumption
<1>6. CASE UNCHANGED vars
  BY <1>6 DEF vars, world, PipeInv, TypeOK, Bound, GatedInOrder, DroppedIsQuiet,
              TornDownWhenPatient, TornDown, StageOf, Quiet
<1> QED BY <1>1, <1>2, <1>3, <1>4, <1>5, <1>6 DEF Next

\* The inductive invariant of the runner, its stages and their handles.
THEOREM Inductive == Spec => []PipeInv
BY InitHolds, StepKeeps, PTL DEF Spec

\* Every variable of the runner keeps its type.
THEOREM TypeCorrect == Spec => []TypeOK
<1>1. PipeInv => TypeOK
  BY DEF PipeInv
<1> QED BY <1>1, Inductive, PTL

\* Stages run in order and each gates the next, for every pipeline and whatever
\* timers, timeouts and the server do: an attempt follows a failed one that is
\* retried, or the end of the stage before.
THEOREM StagesGate == Spec => []GatedInOrder
<1>1. PipeInv => GatedInOrder
  BY DEF PipeInv
<1> QED BY <1>1, Inductive, PTL

\* An attempt that failed and was given up does not act on the bot any more.
THEOREM DroppedStaysQuiet == Spec => []DroppedIsQuiet
<1>1. PipeInv => DroppedIsQuiet
  BY DEF PipeInv
<1> QED BY <1>1, Inductive, PTL

\* After a kick or the end of the bot nothing of a pipeline acts, if no stage is a
\* blueprint and none is retried on a timeout.
THEOREM PatientIsTornDown == Spec => []TornDownWhenPatient
<1>1. PipeInv => TornDownWhenPatient
  BY DEF PipeInv
<1> QED BY <1>1, Inductive, PTL
=============================================================================
