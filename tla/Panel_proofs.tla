------------------------------ MODULE Panel_proofs ------------------------------
(***************************************************************************)
(* Proofs about Panel, for any number of runs, streams, configs and clicks,*)
(* and with any number of answers under way: the live metrics are those of *)
(* the selected run, the editor's form shows what its text says, its text  *)
(* is that of its name, nothing that is opened ends the daemon, and what   *)
(* is ejected does what was imported.                                      *)
(*                                                                         *)
(* There is an invariant of the dashboard with its streams (BoardInv), of  *)
(* the configs with the loads under way (LoadInv), and of the editor       *)
(* (EditorInv), which needs the second.  For the end of the daemon there   *)
(* are two more, of the runs and reports that the page knows of (PageInv), *)
(* and of the run manager in the panel (RunSafe).  The last part is about  *)
(* blueprints: a blueprint's graph gives back the blueprint, the code of a *)
(* blueprint does what it does, and the canvas keeps them together         *)
(* (CanvasInv).                                                            *)
(***************************************************************************)
EXTENDS Panel, RunManager_proofs, SequenceTheorems

-----------------------------------------------------------------------------
(* The dashboard                                                           *)

\* A stream is a record of three fields.
Shaped(x) == x = [run |-> x.run, state |-> x.state, last |-> x.last]

BoardShaped ==
  board = [shown |-> board.shown, selected |-> board.selected, watched |-> board.watched,
           snap |-> board.snap]

\* Every stream is one of the watched run, and so is what it has shown.
BoardInv ==
  /\ BoardShaped
  /\ board.snap.of \in {"none", board.watched}
  /\ DOMAIN stream = Streams
  /\ \A s \in Streams : Shaped(stream[s]) /\ (stream[s] = NoStream \/ stream[s].run = board.watched)

\* push() leaves a stream the run that it is for.
LEMMA PushKeepsRun ==
  ASSUME NEW x, Shaped(x)
  PROVE  Shaped(Push(x)) /\ Push(x).run = x.run
<1> DEFINE l == IF Snapshot(x.run) = "none" THEN x.last ELSE Snapshot(x.run)
           t == IF status[x.run] = "running" THEN "open" ELSE "ended"
<1>1. Push(x) = [x EXCEPT !.last = l, !.state = t]
  BY DEF Push
<1> HIDE DEF l, t
<1>2. PICK a, b, c : x = [run |-> a, state |-> b, last |-> c]
  BY DEF Shaped
<1>3. Push(x) = [run |-> a, state |-> t, last |-> l] /\ x.run = a
  BY <1>1, <1>2
<1> QED BY <1>3 DEF Shaped

\* Nothing that leaves the board and the streams alone matters.
LEMMA BoardSame ==
  ASSUME BoardInv, UNCHANGED <<board, stream>>
  PROVE  BoardInv'
BY DEF BoardInv, BoardShaped, Shaped

\* A step of one stream, to one that is closed or that of the watched run.
LEMMA StreamKeeps ==
  ASSUME BoardInv, NEW s \in Streams, NEW x, Shaped(x), x = NoStream \/ x.run = board.watched,
         stream' = [stream EXCEPT ![s] = x], UNCHANGED board
  PROVE  BoardInv'
<1>1. DOMAIN stream' = Streams /\ stream'[s] = x /\ \A z \in Streams : z # s => stream'[z] = stream[z]
  BY DEF BoardInv
<1>2. \A z \in Streams : Shaped(stream'[z]) /\ (stream'[z] = NoStream \/ stream'[z].run = board.watched)
  BY <1>1 DEF BoardInv
<1> QED BY <1>1, <1>2 DEF BoardInv, BoardShaped, Shaped

\* What a stream does, and what it brings.
LEMMA StreamSteps ==
  ASSUME BoardInv, NEW s \in Streams,
         Connects(s) \/ Receives(s) \/ Reconnects(s) \/ (Tick(s) /\ UNCHANGED board)
  PROVE  BoardInv'
<1> USE DEF BoardInv
<1>0. Shaped(NoStream) /\ NoStream.run = "none" /\ NoStream.last = "none"
  BY DEF Shaped, NoStream
<1>1. CASE Connects(s)
  <2> DEFINE z == [run |-> board.watched, state |-> "open", last |-> "none"]
  <2>1. stream' = [stream EXCEPT ![s] = Push(z)] /\ UNCHANGED board
    BY <1>1 DEF Connects, Open, views
  <2>2. Shaped(z) /\ z.run = board.watched
    BY DEF Shaped
  <2> HIDE DEF z, BoardInv
  <2>3. Shaped(Push(z)) /\ Push(z).run = board.watched
    BY <2>2, PushKeepsRun
  <2> QED BY <2>1, <2>3, StreamKeeps
<1>2. CASE Receives(s)
  <2>1. /\ stream[s].last # "none" /\ UNCHANGED stream
        /\ board' = [board EXCEPT !.snap = Got(s)]
    BY <1>2 DEF Receives, vars
  <2>2. stream[s].run = board.watched
    BY <1>0, <2>1
  <2>3. BoardShaped' /\ board'.watched = board.watched /\ board'.snap = Got(s)
    BY <2>1 DEF BoardShaped
  <2>4. board'.snap.of = board.watched
    BY <2>2, <2>3 DEF Got
  <2> QED BY <2>1, <2>3, <2>4 DEF Shaped
<1>3. CASE Reconnects(s)
  <2>1. stream' = [stream EXCEPT ![s] = NoStream] /\ UNCHANGED board
    BY <1>3 DEF Reconnects, views
  <2> QED BY <1>0, <2>1, StreamKeeps
<1>4. CASE Tick(s) /\ UNCHANGED board
  <2>1. stream' = [stream EXCEPT ![s] = Push(stream[s])] /\ stream[s].state = "open"
    BY <1>4 DEF Tick
  <2>2. stream[s] # NoStream
    BY <2>1 DEF NoStream
  <2>3. Shaped(Push(stream[s])) /\ Push(stream[s]).run = board.watched
    BY <2>2, PushKeepsRun
  <2> QED BY <1>4, <2>1, <2>3, StreamKeeps
<1> QED BY <1>1, <1>2, <1>3, <1>4

\* What the page does with the streams.
LEMMA WatchKeeps ==
  ASSUME BoardInv,
         \/ WatchSelected \/ ListArrives \/ StartArrives \/ (\E r \in Runs : Select(r))
         \/ (\E t \in user.uses : OpenTab(t))
  PROVE  BoardInv'
<1> USE DEF BoardInv
<1>0. Shaped(NoStream) /\ NoStream.run = "none" /\ NoStream.last = "none"
  BY DEF Shaped, NoStream
<1>1. CASE WatchSelected
  <2>1. board' = [shown |-> board.shown, selected |-> board.selected, watched |-> board.selected,
                  snap |-> [of |-> "none", kind |-> "none"]]
    BY <1>1 DEF WatchSelected, BoardShaped, NewBoard
  <2>2. stream' = [s \in Streams |-> NoStream]
    BY <1>1 DEF WatchSelected, NoStreams
  <2>3. BoardShaped' /\ board'.snap.of = "none"
    BY <2>1 DEF BoardShaped
  <2>4. DOMAIN stream' = Streams /\ \A s \in Streams : stream'[s] = NoStream
    BY <2>2
  <2> QED BY <1>0, <2>3, <2>4 DEF Shaped
<1>2. CASE \E t \in user.uses : OpenTab(t)
  <2>1. board' = [shown |-> NewBoard.shown, selected |-> "none", watched |-> "none",
                  snap |-> [of |-> "none", kind |-> "none"]]
    BY <1>2 DEF OpenTab, NewBoard
  <2>2. stream' = [s \in Streams |-> NoStream]
    BY <1>2 DEF OpenTab, NoStreams
  <2>3. BoardShaped' /\ board'.snap.of = "none"
    BY <2>1 DEF BoardShaped
  <2>4. DOMAIN stream' = Streams /\ \A s \in Streams : stream'[s] = NoStream
    BY <2>2
  <2> QED BY <1>0, <2>3, <2>4 DEF Shaped
<1>3. CASE ListArrives \/ StartArrives \/ \E r \in Runs : Select(r)
  <2>1. UNCHANGED stream
    BY <1>3 DEF ListArrives, StartArrives, Select, vars
  <2>2. PICK v : board' \in {[board EXCEPT !.shown = v], [board EXCEPT !.selected = v]}
    BY <1>3 DEF ListArrives, StartArrives, Select
  <2>3. BoardShaped' /\ board'.snap = board.snap /\ board'.watched = board.watched
    BY <2>2 DEF BoardShaped
  <2> QED BY <2>1, <2>3 DEF Shaped
<1> QED BY <1>1, <1>2, <1>3

\* The steps that concern neither the board nor a stream.
Elsewhere ==
  \/ \E op \in Reads : ServeRead(op)
  \/ ServeStart \/ ServeStop \/ ServeSave \/ ServeDelete
  \/ ScriptRefused \/ ScriptConnects \/ ScriptBotThrows \/ ServeScriptEnd
  \/ \E op \in Reads \cup Writes : Lost(op)
  \/ Poll \/ Debounce \/ DebounceFires
  \/ StopArrives \/ VerdictArrives \/ LoadArrives \/ StoreArrives \/ ConfigsArrive
  \/ HistoryArrives \/ OpenArrives \/ ImportArrives \/ CompileArrives \/ ScriptArrives
  \/ ClickStart \/ (\E r \in Runs : ClickStop(r))
  \/ (\E t \in Texts : TypeText(t)) \/ (\E v \in Values : FormChange(v))
  \/ (\E n \in Names : Rename(n) \/ ClickLoad(n) \/ ClickDelete(n)) \/ ClickSave
  \/ ClickRefresh \/ (\E f \in Reports : ClickOpen(f))
  \/ (\E b \in Blueprints : ClickImport(b)) \/ EditGraph \/ ClickCompile \/ ClickRun
  \/ \E f \in user.files : Report(f)

\* Every other step leaves the dashboard and its streams alone.
LEMMA BoardElse ==
  ASSUME Elsewhere
  PROVE  UNCHANGED <<board, stream>>
<1>1. CASE (\E op \in Reads : ServeRead(op)) \/ \E op \in Reads \cup Writes : Lost(op)
  BY <1>1 DEF ServeRead, Lost, vars, views
<1>3. CASE ServeStart \/ ServeStop
  <2>1. UNCHANGED views
    BY <1>3 DEF ServeStart, ServeStop
  <2>2. UNCHANGED stream
    BY <1>3 DEF ServeStart, ServeStop, Start, Stop, vars
  <2> QED BY <2>1, <2>2 DEF views
<1>4. CASE ServeSave \/ ServeDelete \/ ScriptRefused \/ ScriptConnects \/ ScriptBotThrows
           \/ ServeScriptEnd
  BY <1>4 DEF ServeSave, ServeDelete, ScriptRefused, ScriptConnects, ScriptBotThrows,
              SessionThrows, ServeScriptEnd, vars, views
<1>5. CASE Poll \/ Debounce \/ DebounceFires \/ StopArrives \/ VerdictArrives \/ LoadArrives
           \/ StoreArrives \/ ConfigsArrive \/ HistoryArrives \/ OpenArrives
  BY <1>5 DEF Poll, Debounce, DebounceFires, StopArrives, VerdictArrives, LoadArrives,
              StoreArrives, ConfigsArrive, HistoryArrives, OpenArrives, Edited, vars, views
<1>6. CASE ImportArrives \/ CompileArrives \/ ScriptArrives \/ EditGraph \/ ClickCompile \/ ClickRun
           \/ \E b \in Blueprints : ClickImport(b)
  BY <1>6 DEF ImportArrives, CompileArrives, ScriptArrives, EditGraph, ClickCompile, ClickRun,
              ClickImport, Drawn, vars
<1>7. CASE ClickStart \/ (\E r \in Runs : ClickStop(r)) \/ (\E t \in Texts : TypeText(t))
           \/ (\E v \in Values : FormChange(v)) \/ ClickSave \/ ClickRefresh
           \/ (\E n \in Names : Rename(n) \/ ClickLoad(n) \/ ClickDelete(n))
           \/ (\E f \in Reports : ClickOpen(f)) \/ \E f \in user.files : Report(f)
  BY <1>7 DEF ClickStart, ClickStop, TypeText, FormChange, ClickSave, ClickRefresh, Rename,
              ClickLoad, ClickDelete, ClickOpen, Report, Edited, vars, views
<1> QED BY <1>1, <1>3, <1>4, <1>5, <1>6, <1>7 DEF Elsewhere

\* Every step keeps the dashboard with its streams.
LEMMA BoardStep == BoardInv /\ [PanelNext]_panelVars => BoardInv'
<1> SUFFICES ASSUME BoardInv, [PanelNext]_panelVars PROVE BoardInv'
  OBVIOUS
<1>1. CASE UNCHANGED panelVars
  BY <1>1, BoardSame DEF panelVars, vars, views
<1>2. CASE DaemonStep
  <2>1. UNCHANGED board
    BY <1>2 DEF DaemonStep, views
  <2>2. ASSUME NEW s \in Streams, Tick(s)
        PROVE  BoardInv'
    BY <2>1, <2>2, StreamSteps
  <2>3. CASE \E r \in Runs : Fulfilled(r) \/ Rejected(r) \/ Settle(r) \/ EndsByItself(r) \/ Crash(r)
    <3>1. UNCHANGED stream
      BY <2>3 DEF Fulfilled, Rejected, Settle, EndsByItself, Crash
    <3> QED BY <2>1, <3>1, BoardSame
  <2> QED BY <1>2, <2>2, <2>3 DEF DaemonStep
<1>3. CASE Elsewhere
  BY <1>3, BoardElse, BoardSame
<1>4. CASE WatchSelected \/ ListArrives \/ StartArrives
  BY <1>4, WatchKeeps
<1>5. CASE \E r \in Runs : Select(r)
  BY <1>5, WatchKeeps
<1>6. CASE \E t \in user.uses : OpenTab(t)
  BY <1>6, WatchKeeps
<1>7. ASSUME NEW s \in Streams, Connects(s) \/ Receives(s) \/ Reconnects(s)
      PROVE  BoardInv'
  BY <1>7, StreamSteps
<1>8. Arrives => Elsewhere \/ ListArrives \/ StartArrives
  BY DEF Arrives, Elsewhere
<1>9. Clicks => \/ Elsewhere
                \/ \E r \in Runs : Select(r)
                \/ \E t \in user.uses : OpenTab(t)
  BY DEF Clicks, Elsewhere
<1>10. PanelNext => \/ DaemonStep \/ WatchSelected \/ Arrives \/ Clicks \/ Elsewhere
                    \/ \E s \in Streams : Connects(s) \/ Receives(s) \/ Reconnects(s)
  BY DEF PanelNext, Elsewhere
<1> QED BY <1>1, <1>2, <1>3, <1>4, <1>5, <1>6, <1>7, <1>8, <1>9, <1>10

\* The numbers under "Live metrics" are those of the selected run, however many
\* streams are opened and closed and whatever they still bring.
THEOREM LiveMetrics == PanelSpec => []SnapshotIsOfSelected
<1>1. PanelInit => BoardInv
  BY DEF PanelInit, Init, NewBoard, BoardInv, BoardShaped, Shaped, NoStream
<1>2. BoardInv => SnapshotIsOfSelected
  BY DEF BoardInv, SnapshotIsOfSelected
<1> QED BY <1>1, <1>2, BoardStep, PTL DEF PanelSpec

-----------------------------------------------------------------------------
(* The configs and the loads under way                                     *)

Ops == Reads \cup Writes

\* What is on disk has been stored, and so has what an answer to a load says.
LoadInv ==
  /\ DOMAIN sent = Ops /\ DOMAIN answered = Ops /\ DOMAIN store = Names
  /\ \A n \in Names : store[n] = NoText \/ <<n, store[n]>> \in kept
  /\ sent["load"] \subseteq Names
  /\ answered["load"] \subseteq kept
  /\ \A k \in kept : k = <<k[1], k[2]>>

\* Requests and answers other than loads do not matter, nor does a load that is
\* asked for, lost or taken.
LEMMA NetKeeps ==
  ASSUME LoadInv, UNCHANGED <<store, kept>>, NEW op \in Ops, NEW q \in Ops, NEW X, NEW Y,
         sent' = sent \/ sent' = [sent EXCEPT ![op] = X],
         answered' = answered \/ answered' = [answered EXCEPT ![q] = Y],
         op = "load" => X \subseteq Names, q = "load" => Y \subseteq kept
  PROVE  LoadInv'
<1>1. "load" \in Ops
  BY DEF Ops, Reads
<1>2. DOMAIN sent' = Ops /\ sent'["load"] \subseteq Names
  BY <1>1 DEF LoadInv
<1>3. DOMAIN answered' = Ops /\ answered'["load"] \subseteq kept
  BY <1>1 DEF LoadInv
<1> QED BY <1>2, <1>3 DEF LoadInv

\* The same of the ways a view and the daemon use the net.
LEMMA SendKeeps ==
  ASSUME LoadInv, UNCHANGED <<store, kept>>, NEW op \in Ops, NEW a, Send(op, a),
         op = "load" => a \in Names
  PROVE  LoadInv'
<1>1. sent' = [sent EXCEPT ![op] = sent[op] \cup {a}] /\ answered' = answered
  BY DEF Send, LoadInv
<1>2. op = "load" => sent[op] \cup {a} \subseteq Names
  BY DEF LoadInv
<1>3. op = "load" => answered[op] \subseteq kept
  BY DEF LoadInv
<1> QED BY <1>1, <1>2, <1>3, NetKeeps

\* A view takes up an answer, and may send the request that follows from it.
LEMMA TakeKeeps ==
  ASSUME LoadInv, UNCHANGED <<store, kept>>, NEW op \in Ops, NEW v,
         Take(op, v) \/ (\E next \in Ops \ {"load"} : \E a : TakeAndSend(op, v, next, a))
  PROVE  LoadInv'
<1>1. answered' = [answered EXCEPT ![op] = answered[op] \ {v}]
  BY DEF Take, TakeAndSend, LoadInv
<1>2. PICK next, X : /\ next \in Ops \ {"load"}
                     /\ sent' = sent \/ sent' = [sent EXCEPT ![next] = X]
  <2>1. "list" \in Ops \ {"load"}
    BY DEF Ops, Reads
  <2>2. CASE Take(op, v)
    BY <2>1, <2>2 DEF Take
  <2>3. CASE \E next \in Ops \ {"load"} : \E a : TakeAndSend(op, v, next, a)
    BY <2>3 DEF TakeAndSend
  <2> QED BY <2>2, <2>3
<1>3. op = "load" => answered[op] \ {v} \subseteq kept
  BY DEF LoadInv
<1> QED BY <1>1, <1>2, <1>3, NetKeeps

\* The server answers a request, or the request is lost.
LEMMA ReplyKeeps ==
  ASSUME LoadInv, UNCHANGED <<store, kept>>, NEW op \in Ops, NEW a, NEW v,
         Drop(op, a) \/ Reply(op, a, v), op = "load" => Drop(op, a) \/ v \in kept
  PROVE  LoadInv'
<1>1. sent' = [sent EXCEPT ![op] = sent[op] \ {a}]
  BY DEF Drop, Reply
<1>2. op = "load" => sent[op] \ {a} \subseteq Names
  BY DEF LoadInv
<1>3. CASE Drop(op, a)
  <2>1. answered' = answered /\ (op = "load" => answered[op] \subseteq kept)
    BY <1>3 DEF Drop, LoadInv
  <2> QED BY <1>1, <1>2, <2>1, NetKeeps
<1>4. CASE Reply(op, a, v) /\ ~Drop(op, a)
  <2>1. answered' = [answered EXCEPT ![op] = answered[op] \cup {v}]
    BY <1>4 DEF Reply
  <2>2. op = "load" => answered[op] \cup {v} \subseteq kept
    BY <1>4 DEF LoadInv
  <2> QED BY <1>1, <1>2, <2>1, <2>2, NetKeeps
<1> QED BY <1>3, <1>4

\* Nothing that leaves the net and the disk alone matters.
LEMMA LoadSame ==
  ASSUME LoadInv, UNCHANGED <<store, kept, sent, answered>>
  PROVE  LoadInv'
BY DEF LoadInv

\* What a view sends for, apart from the loads that are asked for by name.
LEMMA SendsKeep ==
  ASSUME LoadInv,
         \/ Poll \/ DebounceFires \/ ClickStart \/ (\E r \in Runs : ClickStop(r))
         \/ (\E n \in Names : ClickLoad(n) \/ ClickDelete(n)) \/ ClickSave
         \/ ClickRefresh \/ (\E f \in Reports : ClickOpen(f))
         \/ (\E b \in Blueprints : ClickImport(b)) \/ ClickCompile \/ ClickRun
  PROVE  LoadInv'
<1>1. UNCHANGED <<store, kept>>
  BY DEF Poll, DebounceFires, ClickStart, ClickStop, ClickLoad, ClickDelete, ClickSave,
         ClickRefresh, ClickOpen, ClickImport, ClickCompile, ClickRun, disk
<1>2. \E op \in Ops : \E a : Send(op, a) /\ (op = "load" => a \in Names)
  <2>1. {"list", "validate", "start", "stop", "load", "delete", "save", "history", "open", "import",
         "compile", "script"} \subseteq Ops
    BY DEF Ops, Reads, Writes
  <2>2. CASE Poll \/ DebounceFires \/ ClickStart \/ \E r \in Runs : ClickStop(r)
    <3>1. \E op \in {"list", "validate", "start", "stop"} : \E a : Send(op, a)
      BY <2>2 DEF Poll, DebounceFires, ClickStart, ClickStop
    <3> QED BY <2>1, <3>1
  <2>3. CASE \E n \in Names : ClickLoad(n)
    <3>1. \E n \in Names : Send("load", n)
      BY <2>3 DEF ClickLoad
    <3> QED BY <2>1, <3>1
  <2>4. CASE (\E n \in Names : ClickDelete(n)) \/ ClickSave \/ ClickRefresh
    <3>1. \E op \in {"delete", "save", "history"} : \E a : Send(op, a)
      BY <2>4 DEF ClickDelete, ClickSave, ClickRefresh
    <3> QED BY <2>1, <3>1
  <2>5. CASE (\E f \in Reports : ClickOpen(f)) \/ (\E b \in Blueprints : ClickImport(b))
             \/ ClickCompile \/ ClickRun
    <3>1. \E op \in {"open", "import", "compile", "script"} : \E a : Send(op, a)
      BY <2>5 DEF ClickOpen, ClickImport, ClickCompile, ClickRun
    <3> QED BY <2>1, <3>1
  <2> QED BY <2>2, <2>3, <2>4, <2>5
<1> QED BY <1>1, <1>2, SendKeeps

\* What an answer that arrives does.
LEMMA ArrivesKeep ==
  ASSUME LoadInv, Arrives
  PROVE  LoadInv'
<1>1. UNCHANGED <<store, kept>>
  BY DEF Arrives, ListArrives, StartArrives, StopArrives, VerdictArrives, LoadArrives, StoreArrives,
         ConfigsArrive, HistoryArrives, OpenArrives, ImportArrives, CompileArrives, ScriptArrives, disk
<1>2. {"list", "validate", "start", "stop", "load", "delete", "save", "history", "open", "import",
       "compile", "script", "configs"} \subseteq Ops
  BY DEF Ops, Reads, Writes
<1>3. CASE ListArrives \/ VerdictArrives \/ LoadArrives \/ ConfigsArrive \/ HistoryArrives
  <2>1. \E op \in {"list", "validate", "load", "configs", "history"} : \E v : Take(op, v)
    BY <1>3 DEF ListArrives, VerdictArrives, LoadArrives, ConfigsArrive, HistoryArrives
  <2> QED BY <1>1, <1>2, <2>1, TakeKeeps
<1>4. CASE OpenArrives \/ ImportArrives \/ CompileArrives \/ ScriptArrives
  <2>1. \E op \in {"open", "import", "compile", "script"} : \E v : Take(op, v)
    BY <1>4 DEF OpenArrives, ImportArrives, CompileArrives, ScriptArrives
  <2> QED BY <1>1, <1>2, <2>1, TakeKeeps
<1>5. CASE StartArrives \/ StopArrives \/ StoreArrives
  <2>1. \E op \in {"start", "stop", "save", "delete"}, next \in {"list", "configs"} : \E v :
          TakeAndSend(op, v, next, "all")
    BY <1>5 DEF StartArrives, StopArrives, StoreArrives
  <2>2. {"list", "configs"} \subseteq Ops \ {"load"}
    BY DEF Ops, Reads
  <2> QED BY <1>1, <1>2, <2>1, <2>2, TakeKeeps
<1> QED BY <1>3, <1>4, <1>5 DEF Arrives

\* The daemon's answers that leave the disk as it is.
LEMMA ServesKeep ==
  ASSUME LoadInv,
         \/ (\E op \in Reads : ServeRead(op)) \/ ServeStart \/ ServeStop
         \/ ScriptRefused \/ ScriptConnects \/ ServeScriptEnd
         \/ \E op \in Reads \cup Writes : Lost(op)
  PROVE  LoadInv'
<1>1. UNCHANGED <<store, kept>>
  BY DEF ServeRead, ServeStart, ServeStop, ScriptRefused, ScriptConnects, ServeScriptEnd, Lost, disk
<1>2. ASSUME NEW op \in Reads, ServeRead(op) PROVE LoadInv'
  <2>1. op \in Ops
    BY DEF Ops
  <2>2. PICK a \in sent[op] : Drop(op, a) \/ (~Refused(op, a) /\ Reply(op, a, Answer(op, a)))
    BY <1>2 DEF FileFails, ServeRead
  <2>3. CASE Drop(op, a)
    <3>1. op = "load" => Drop(op, a) \/ a \in kept
      BY <2>3
    <3> QED BY <1>1, <2>1, <2>3, <3>1, ReplyKeeps
  <2>4. CASE ~Refused(op, a) /\ Reply(op, a, Answer(op, a))
    <3>1. op = "load" => Answer(op, a) \in kept
      <4> SUFFICES ASSUME op = "load" PROVE Answer(op, a) \in kept
        OBVIOUS
      <4>1. a \in Names /\ store[a] # NoText
        BY <2>4 DEF LoadInv, Refused
      <4>2. <<a, store[a]>> \in kept
        BY <4>1 DEF LoadInv
      <4>3. Answer(op, a) = <<a, store[a]>>
        BY DEF Answer
      <4> QED BY <4>2, <4>3
    <3> DEFINE v == Answer(op, a)
    <3>2. Reply(op, a, v) /\ (op = "load" => v \in kept)
      BY <2>4, <3>1
    <3> HIDE DEF v
    <3> QED BY <1>1, <2>1, <3>2, ReplyKeeps
  <2> QED BY <2>2, <2>3, <2>4
<1>3. ASSUME NEW op \in Reads \cup Writes, Lost(op) PROVE LoadInv'
  <2>1. \E a : Drop(op, a)
    BY <1>3 DEF Lost
  <2>2. op \in Ops
    BY DEF Ops
  <2> QED BY <1>1, <2>1, <2>2, ReplyKeeps
<1>4. CASE ServeStart \/ ServeStop \/ ScriptRefused \/ ServeScriptEnd
  <2>1. \E op \in {"start", "stop", "script"} : \E a, v : Drop(op, a) \/ Reply(op, a, v)
    BY <1>4 DEF ServeStart, ServeStop, ScriptRefused, ServeScriptEnd, ReplyIf
  <2>2. {"start", "stop", "script"} \subseteq Ops
    BY DEF Ops, Writes
  <2> QED BY <1>1, <2>1, <2>2, ReplyKeeps
<1>5. CASE ScriptConnects
  <2>1. \E X : sent' = [sent EXCEPT !["script"] = X] /\ answered' = answered
    BY <1>5 DEF ScriptConnects
  <2>2. "script" \in Ops
    BY DEF Ops, Writes
  <2> QED BY <1>1, <2>1, <2>2, NetKeeps
<1> QED BY <1>2, <1>3, <1>4, <1>5

\* A file that is written or deleted.
LEMMA StoresKeep ==
  ASSUME LoadInv, ServeSave \/ ServeDelete
  PROVE  LoadInv'
<1>1. PICK op \in {"save", "delete"} : \E a, v : Drop(op, a) \/ Reply(op, a, v)
  BY DEF FileFails, ServeSave, ServeDelete, ReplyIf
<1>2. /\ DOMAIN sent' = Ops /\ DOMAIN answered' = Ops
      /\ sent'["load"] \subseteq Names /\ answered'["load"] \subseteq kept
  BY <1>1 DEF Drop, Reply, LoadInv, Ops, Reads, Writes
<1>3. PICK n, t : /\ store' \in {store, [store EXCEPT ![n] = t]}
                  /\ \/ t = NoText /\ kept' = kept
                     \/ kept' = kept \cup {<<n, t>>}
                     \/ UNCHANGED <<store, kept>>
  <2>1. CASE ServeSave
    <3>1. \/ \E a \in sent["save"] : /\ store' = [store EXCEPT ![a.name] = a.text]
                                     /\ kept' = kept \cup {<<a.name, a.text>>}
          \/ UNCHANGED <<store, kept>>
      BY <2>1 DEF ServeSave
    <3> QED BY <3>1
  <2>2. CASE ServeDelete
    <3>1. PICK a \in sent["delete"] : store' \in {store, [store EXCEPT ![a.name] = NoText]}
      BY <2>2 DEF ServeDelete
    <3>2. kept' = kept
      BY <2>2 DEF ServeDelete
    <3> WITNESS a.name, NoText
    <3> QED BY <3>1, <3>2
  <2> QED BY <2>1, <2>2
<1>4. \A m \in Names : store'[m] = NoText \/ <<m, store'[m]>> \in kept'
  BY <1>3 DEF LoadInv
<1>5. DOMAIN store' = Names /\ kept \subseteq kept' /\ \A k \in kept' : k = <<k[1], k[2]>>
  BY <1>3 DEF LoadInv
<1> QED BY <1>2, <1>4, <1>5 DEF LoadInv

\* Every step keeps the configs and the loads.
LEMMA LoadStep == LoadInv /\ [PanelNext]_panelVars => LoadInv'
<1> SUFFICES ASSUME LoadInv, [PanelNext]_panelVars PROVE LoadInv'
  OBVIOUS
<1>1. CASE UNCHANGED panelVars
  BY <1>1, LoadSame DEF panelVars, disk, net
<1>2. CASE DaemonStep \/ ScriptBotThrows \/ WatchSelected \/ Debounce
  BY <1>2, LoadSame DEF DaemonStep, ScriptBotThrows, WatchSelected, Debounce, disk, net
<1>3. ASSUME NEW s \in Streams, Connects(s) \/ Receives(s) \/ Reconnects(s) PROVE LoadInv'
  BY <1>3, LoadSame DEF Connects, Receives, Reconnects, disk, net
<1>4. CASE Poll \/ DebounceFires
  BY <1>4, SendsKeep
<1>5. CASE Arrives
  BY <1>5, ArrivesKeep
<1>6. CASE ServeStart \/ ServeStop \/ ScriptRefused \/ ScriptConnects \/ ServeScriptEnd
  BY <1>6, ServesKeep
<1>7. CASE \E op \in Reads : ServeRead(op)
  BY <1>7, ServesKeep
<1>8. CASE \E op \in Reads \cup Writes : Lost(op)
  BY <1>8, ServesKeep
<1>9. CASE ServeSave \/ ServeDelete
  BY <1>9, StoresKeep
<1>10. CASE \E f \in user.files : Report(f)
  BY <1>10, LoadSame DEF Report, net
<1>11. CASE Clicks
  <2>1. CASE ClickStart \/ ClickSave \/ ClickRefresh \/ ClickCompile \/ ClickRun
    BY <2>1, SendsKeep
  <2>2. CASE \E r \in Runs : ClickStop(r)
    BY <2>2, SendsKeep
  <2>3. CASE \E n \in Names : ClickLoad(n) \/ ClickDelete(n)
    BY <2>3, SendsKeep
  <2>4. CASE \E f \in Reports : ClickOpen(f)
    BY <2>4, SendsKeep
  <2>5. CASE \E b \in Blueprints : ClickImport(b)
    BY <2>5, SendsKeep
  <2>6. CASE EditGraph \/ (\E r \in Runs : Select(r)) \/ (\E t \in Texts : TypeText(t))
             \/ (\E v \in Values : FormChange(v)) \/ \E n \in Names : Rename(n)
    BY <2>6, LoadSame DEF EditGraph, Select, TypeText, FormChange, Rename, disk, net
  <2>7. CASE \E t \in user.uses : OpenTab(t)
    <3>1. PICK t \in user.uses : OpenTab(t)
      BY <2>7
    <3>2. sent' = [op \in DOMAIN sent |->
            IF op \in Writes THEN {[a EXCEPT !.live = FALSE] : a \in sent[op]}
            ELSE IF <<t, op>> \in {<<"dashboard", "list">>, <<"config", "configs">>, <<"history", "history">>}
                   THEN {"all"} ELSE {}]
      BY <3>1 DEF OpenTab
    <3>3. answered' = [op \in DOMAIN answered |-> {}] /\ UNCHANGED <<store, kept>>
      BY <3>1 DEF OpenTab, disk
    <3>4. "load" \in Ops /\ "load" \notin Writes
      BY DEF Ops, Reads, Writes
    <3>5. DOMAIN sent' = Ops /\ DOMAIN answered' = Ops /\ answered'["load"] = {}
      BY <3>2, <3>3, <3>4 DEF LoadInv
    <3>6. sent'["load"] = {}
      BY <3>2, <3>4 DEF LoadInv
    <3> QED BY <3>3, <3>5, <3>6 DEF LoadInv
  <2>8. Clicks => \/ ClickStart \/ ClickSave \/ ClickRefresh \/ ClickCompile \/ ClickRun \/ EditGraph
                  \/ (\E r \in Runs : ClickStop(r)) \/ (\E r \in Runs : Select(r))
                  \/ (\E t \in Texts : TypeText(t)) \/ (\E v \in Values : FormChange(v))
                  \/ (\E n \in Names : Rename(n)) \/ (\E n \in Names : ClickLoad(n) \/ ClickDelete(n))
                  \/ (\E f \in Reports : ClickOpen(f)) \/ (\E b \in Blueprints : ClickImport(b))
                  \/ (\E t \in user.uses : OpenTab(t))
    BY DEF Clicks
  <2> QED BY <1>11, <2>1, <2>2, <2>3, <2>4, <2>5, <2>6, <2>7, <2>8
<1>12. PanelNext =>
         \/ DaemonStep \/ ScriptBotThrows \/ WatchSelected \/ Debounce
         \/ Poll \/ DebounceFires \/ Arrives \/ ServeStart \/ ServeStop
         \/ ScriptRefused \/ ScriptConnects \/ ServeScriptEnd \/ ServeSave \/ ServeDelete \/ Clicks
         \/ (\E s \in Streams : Connects(s) \/ Receives(s) \/ Reconnects(s))
         \/ (\E op \in Reads : ServeRead(op)) \/ (\E op \in Reads \cup Writes : Lost(op))
         \/ (\E f \in user.files : Report(f))
  BY DEF PanelNext
<1> QED BY <1>1, <1>2, <1>3, <1>4, <1>5, <1>6, <1>7, <1>8, <1>9, <1>10, <1>11, <1>12

\* At the start nothing is under way, and what is on disk has been stored.
LEMMA LoadInit == PanelInit => LoadInv
<1> SUFFICES ASSUME PanelInit PROVE LoadInv
  OBVIOUS
<1>1. store = Disk /\ kept = {<<n, Disk[n]>> : n \in Names} /\ DOMAIN Disk = Names
  BY PanelAssumption DEF PanelInit
<1>2. "load" \in Ops
  BY DEF Ops, Reads
<1>3. /\ DOMAIN sent = Ops /\ DOMAIN answered = Ops /\ sent["load"] = {} /\ answered["load"] = {}
  BY <1>2 DEF PanelInit, Ops
<1> QED BY <1>1, <1>3 DEF LoadInv

-----------------------------------------------------------------------------
(* The editor                                                              *)

EditorShaped ==
  editor = [name |-> editor.name, text |-> editor.text, obj |-> editor.obj, seen |-> editor.seen,
            timer |-> editor.timer, judged |-> editor.judged, configs |-> editor.configs,
            touched |-> editor.touched]

EditorInv == EditorShaped /\ FormMatchesText /\ NameMatchesText

\* Nothing that leaves the editor alone matters: what was stored stays so.
LEMMA EditorSame ==
  ASSUME EditorInv, UNCHANGED editor, kept \subseteq kept'
  PROVE  EditorInv'
BY DEF EditorInv, EditorShaped, FormMatchesText, NameMatchesText

\* onYamlChange() sets the text and, if it can be parsed, the object.
LEMMA YamlChanged ==
  ASSUME EditorShaped, NEW t, NEW e, e = YamlChange(editor, t)
  PROVE  /\ e = [name |-> e.name, text |-> e.text, obj |-> e.obj, seen |-> e.seen, timer |-> e.timer,
                 judged |-> e.judged, configs |-> e.configs, touched |-> e.touched]
         /\ e.text = t /\ (t.syntax # "broken" => e.obj = t.says)
<1> DEFINE o == IF t.syntax = "broken" THEN editor.obj ELSE t.says
<1>1. e = [editor EXCEPT !.text = t, !.obj = o]
  BY DEF YamlChange
<1> HIDE DEF o
<1>2. PICK n, x, y, c, d, j, g, u :
        editor = [name |-> n, text |-> x, obj |-> y, seen |-> c, timer |-> d, judged |-> j,
                  configs |-> g, touched |-> u]
  BY DEF EditorShaped
<1>3. e = [name |-> n, text |-> t, obj |-> o, seen |-> c, timer |-> d, judged |-> j,
           configs |-> g, touched |-> u]
  BY <1>1, <1>2
<1>4. t.syntax # "broken" => o = t.says
  BY DEF o
<1> QED BY <1>3, <1>4

\* What is typed into the text, the form and the name, and what arrives.
LEMMA EditsKeep ==
  ASSUME LoadInv, EditorInv, UNCHANGED kept,
         \/ (\E t \in Texts : TypeText(t)) \/ (\E v \in Values : FormChange(v))
         \/ (\E n \in Names : Rename(n)) \/ Debounce \/ DebounceFires \/ VerdictArrives
         \/ LoadArrives \/ ConfigsArrive \/ \E op \in Reads \cup Writes : Lost(op)
  PROVE  EditorInv'
<1>1. CASE \E t \in Texts : TypeText(t)
  <2>1. PICK t : editor' = [YamlChange(editor, t) EXCEPT !.touched = TRUE]
    BY <1>1 DEF TypeText, Edited
  <2> DEFINE e == YamlChange(editor, t)
  <2>2. /\ e = [name |-> e.name, text |-> e.text, obj |-> e.obj, seen |-> e.seen, timer |-> e.timer,
                judged |-> e.judged, configs |-> e.configs, touched |-> e.touched]
        /\ e.text = t /\ (t.syntax # "broken" => e.obj = t.says)
    BY YamlChanged DEF EditorInv
  <2>3. editor' = [e EXCEPT !.touched = TRUE]
    BY <2>1
  <2> HIDE DEF e
  <2>4. EditorShaped' /\ editor'.touched = TRUE /\ editor'.text = e.text /\ editor'.obj = e.obj
    BY <2>2, <2>3 DEF EditorShaped
  <2> QED BY <2>2, <2>4 DEF EditorInv, FormMatchesText, NameMatchesText
<1>2. CASE \E v \in Values : FormChange(v)
  <2>1. PICK v : editor' = [editor EXCEPT !.obj = v, !.text = [syntax |-> "yaml", says |-> v],
                                          !.touched = TRUE]
    BY <1>2 DEF FormChange, Edited
  <2>2. EditorShaped' /\ editor'.touched = TRUE /\ editor'.obj = v
        /\ editor'.text = [syntax |-> "yaml", says |-> v]
    BY <2>1 DEF EditorInv, EditorShaped
  <2> QED BY <2>2 DEF EditorInv, FormMatchesText, NameMatchesText
<1>3. CASE \E n \in Names : Rename(n)
  <2>1. PICK n : editor' = [editor EXCEPT !.name = n, !.touched = TRUE]
    BY <1>3 DEF Rename, Edited
  <2>2. EditorShaped' /\ editor'.touched = TRUE /\ editor'.obj = editor.obj /\ editor'.text = editor.text
    BY <2>1 DEF EditorInv, EditorShaped
  <2> QED BY <2>2 DEF EditorInv, FormMatchesText, NameMatchesText
<1>4. CASE \/ Debounce \/ DebounceFires \/ VerdictArrives \/ ConfigsArrive
           \/ \E op \in Reads \cup Writes : Lost(op)
  <2>1. PICK x : editor' \in {editor, [editor EXCEPT !.seen = x, !.timer = x], [editor EXCEPT !.timer = x],
                              [editor EXCEPT !.judged = x], [editor EXCEPT !.configs = x]}
    BY <1>4 DEF Debounce, DebounceFires, VerdictArrives, ConfigsArrive, Lost, Edited
  <2>2. EditorShaped' /\ editor'.name = editor.name /\ editor'.text = editor.text
        /\ editor'.obj = editor.obj /\ editor'.touched = editor.touched
    BY <2>1 DEF EditorInv, EditorShaped
  <2> QED BY <2>2 DEF EditorInv, FormMatchesText, NameMatchesText
<1>5. CASE LoadArrives
  <2>1. PICK a \in answered["load"] :
          editor' = [YamlChange(editor, a[2]) EXCEPT !.name = a[1], !.touched = FALSE]
    BY <1>5 DEF LoadArrives, Edited
  <2>2. <<a[1], a[2]>> \in kept
    BY <2>1 DEF LoadInv
  <2> DEFINE e == YamlChange(editor, a[2])
  <2>3. /\ e = [name |-> e.name, text |-> e.text, obj |-> e.obj, seen |-> e.seen, timer |-> e.timer,
                judged |-> e.judged, configs |-> e.configs, touched |-> e.touched]
        /\ e.text = a[2] /\ (a[2].syntax # "broken" => e.obj = a[2].says)
    BY YamlChanged DEF EditorInv
  <2>4. editor' = [e EXCEPT !.name = a[1], !.touched = FALSE]
    BY <2>1
  <2> HIDE DEF e
  <2>5. EditorShaped' /\ editor'.name = a[1] /\ editor'.text = e.text /\ editor'.obj = e.obj
    BY <2>3, <2>4 DEF EditorShaped
  <2> QED BY <2>2, <2>3, <2>5 DEF EditorInv, FormMatchesText, NameMatchesText
<1> QED BY <1>1, <1>2, <1>3, <1>4, <1>5

\* Another tab has a new editor, which shows the starter.
LEMMA NewEditorHolds ==
  ASSUME editor' = NewEditor
  PROVE  EditorInv'
<1>1. /\ editor'.text = Starter /\ editor'.obj = Starter.says /\ editor'.touched = TRUE
      /\ EditorShaped'
  BY DEF NewEditor, EditorShaped
<1> QED BY <1>1 DEF EditorInv, FormMatchesText, NameMatchesText

\* The steps that leave the editor alone.
LEMMA EditorElse ==
  ASSUME \/ DaemonStep \/ ServeStart \/ ServeStop \/ ServeSave \/ ServeDelete
         \/ (\E op \in Reads : ServeRead(op))
         \/ ScriptRefused \/ ScriptConnects \/ ScriptBotThrows \/ ServeScriptEnd
         \/ Poll \/ WatchSelected
         \/ (\E s \in Streams : Connects(s) \/ Receives(s) \/ Reconnects(s))
         \/ ListArrives \/ StartArrives \/ StopArrives \/ StoreArrives \/ HistoryArrives
         \/ OpenArrives \/ ImportArrives \/ CompileArrives \/ ScriptArrives
         \/ ClickStart \/ ClickSave \/ ClickRefresh \/ ClickCompile \/ ClickRun \/ EditGraph
         \/ (\E r \in Runs : ClickStop(r) \/ Select(r))
         \/ (\E n \in Names : ClickLoad(n) \/ ClickDelete(n))
         \/ (\E f \in Reports : ClickOpen(f)) \/ (\E b \in Blueprints : ClickImport(b))
         \/ \E f \in user.files : Report(f)
  PROVE  UNCHANGED editor /\ kept \subseteq kept'
<1>1. CASE DaemonStep \/ ServeStart \/ ServeStop \/ ServeSave \/ ServeDelete
           \/ \E op \in Reads : ServeRead(op)
  BY <1>1 DEF DaemonStep, ServeStart, ServeStop, ServeSave, ServeDelete, ServeRead, disk, views
<1>2. CASE ScriptRefused \/ ScriptConnects \/ ScriptBotThrows \/ ServeScriptEnd \/ Poll \/ WatchSelected
  BY <1>2 DEF ScriptRefused, ScriptConnects, ScriptBotThrows, ServeScriptEnd, Poll, WatchSelected,
              disk, views
<1>3. CASE \E s \in Streams : Connects(s) \/ Receives(s) \/ Reconnects(s)
  BY <1>3 DEF Connects, Receives, Reconnects, disk, views
<1>4. CASE ListArrives \/ StartArrives \/ StopArrives \/ StoreArrives \/ HistoryArrives \/ OpenArrives
           \/ ImportArrives \/ CompileArrives \/ ScriptArrives
  BY <1>4 DEF ListArrives, StartArrives, StopArrives, StoreArrives, HistoryArrives, OpenArrives,
              ImportArrives, CompileArrives, ScriptArrives, Drawn, disk, views
<1>5. CASE ClickStart \/ ClickSave \/ ClickRefresh \/ ClickCompile \/ ClickRun \/ EditGraph
           \/ \E r \in Runs : ClickStop(r) \/ Select(r)
  BY <1>5 DEF ClickStart, ClickSave, ClickRefresh, ClickCompile, ClickRun, EditGraph, ClickStop,
              Select, Drawn, disk
<1>6. CASE (\E n \in Names : ClickLoad(n) \/ ClickDelete(n)) \/ (\E f \in Reports : ClickOpen(f))
           \/ (\E b \in Blueprints : ClickImport(b)) \/ \E f \in user.files : Report(f)
  BY <1>6 DEF ClickLoad, ClickDelete, ClickOpen, ClickImport, Report, disk, views
<1> QED BY <1>1, <1>2, <1>3, <1>4, <1>5, <1>6

\* Every step keeps the editor's text with its name and its form.
LEMMA EditorStep == LoadInv /\ EditorInv /\ [PanelNext]_panelVars => EditorInv'
<1> SUFFICES ASSUME LoadInv, EditorInv, [PanelNext]_panelVars PROVE EditorInv'
  OBVIOUS
<1>1. CASE UNCHANGED panelVars
  BY <1>1, EditorSame DEF panelVars, views, disk
<1>2. CASE DaemonStep \/ ServeStart \/ ServeStop \/ ServeSave \/ ServeDelete \/ ScriptRefused
           \/ ScriptConnects \/ ScriptBotThrows \/ ServeScriptEnd \/ Poll \/ WatchSelected
  BY <1>2, EditorElse, EditorSame
<1>3. CASE \E op \in Reads : ServeRead(op)
  BY <1>3, EditorElse, EditorSame
<1>4. CASE \E s \in Streams : Connects(s) \/ Receives(s) \/ Reconnects(s)
  BY <1>4, EditorElse, EditorSame
<1>5. CASE \E f \in user.files : Report(f)
  BY <1>5, EditorElse, EditorSame
<1>6. CASE Debounce \/ DebounceFires
  <2>1. UNCHANGED kept
    BY <1>6 DEF Debounce, DebounceFires, disk
  <2> QED BY <1>6, <2>1, EditsKeep
<1>7. CASE \E op \in Reads \cup Writes : Lost(op)
  <2>1. UNCHANGED kept
    BY <1>7 DEF Lost, disk
  <2> QED BY <1>7, <2>1, EditsKeep
<1>8. CASE Arrives
  <2>1. CASE VerdictArrives \/ LoadArrives \/ ConfigsArrive
    <3>1. UNCHANGED kept
      BY <2>1 DEF VerdictArrives, LoadArrives, ConfigsArrive, disk
    <3> QED BY <2>1, <3>1, EditsKeep
  <2>2. CASE ListArrives \/ StartArrives \/ StopArrives \/ StoreArrives \/ HistoryArrives
             \/ OpenArrives \/ ImportArrives \/ CompileArrives \/ ScriptArrives
    BY <2>2, EditorElse, EditorSame
  <2> QED BY <1>8, <2>1, <2>2 DEF Arrives
<1>9. CASE Clicks
  <2>1. CASE ClickStart \/ ClickSave \/ ClickRefresh \/ ClickCompile \/ ClickRun \/ EditGraph
    BY <2>1, EditorElse, EditorSame
  <2>2. CASE \E r \in Runs : ClickStop(r) \/ Select(r)
    BY <2>2, EditorElse, EditorSame
  <2>3. CASE \E n \in Names : ClickLoad(n) \/ ClickDelete(n)
    BY <2>3, EditorElse, EditorSame
  <2>4. CASE \E f \in Reports : ClickOpen(f)
    BY <2>4, EditorElse, EditorSame
  <2>5. CASE \E b \in Blueprints : ClickImport(b)
    BY <2>5, EditorElse, EditorSame
  <2>6. CASE \E t \in Texts : TypeText(t)
    <3>1. UNCHANGED kept
      BY <2>6 DEF TypeText, disk
    <3> QED BY <2>6, <3>1, EditsKeep
  <2>7. CASE \E v \in Values : FormChange(v)
    <3>1. UNCHANGED kept
      BY <2>7 DEF FormChange, disk
    <3> QED BY <2>7, <3>1, EditsKeep
  <2>8. CASE \E n \in Names : Rename(n)
    <3>1. UNCHANGED kept
      BY <2>8 DEF Rename, disk
    <3> QED BY <2>8, <3>1, EditsKeep
  <2>9. CASE \E t \in user.uses : OpenTab(t)
    BY <2>9, NewEditorHolds DEF OpenTab
  <2>10. Clicks => \/ ClickStart \/ ClickSave \/ ClickRefresh \/ ClickCompile \/ ClickRun \/ EditGraph
                   \/ (\E r \in Runs : ClickStop(r) \/ Select(r))
                   \/ (\E t \in Texts : TypeText(t)) \/ (\E v \in Values : FormChange(v))
                   \/ (\E n \in Names : Rename(n)) \/ (\E n \in Names : ClickLoad(n) \/ ClickDelete(n))
                   \/ (\E f \in Reports : ClickOpen(f)) \/ (\E b \in Blueprints : ClickImport(b))
                   \/ (\E t \in user.uses : OpenTab(t))
    BY DEF Clicks
  <2> QED BY <1>9, <2>1, <2>2, <2>3, <2>4, <2>5, <2>6, <2>7, <2>8, <2>9, <2>10
<1>10. PanelNext =>
         \/ DaemonStep \/ ServeStart \/ ServeStop \/ ServeSave \/ ServeDelete \/ ScriptRefused
         \/ ScriptConnects \/ ScriptBotThrows \/ ServeScriptEnd \/ Poll \/ WatchSelected
         \/ Debounce \/ DebounceFires \/ Arrives \/ Clicks
         \/ (\E s \in Streams : Connects(s) \/ Receives(s) \/ Reconnects(s))
         \/ (\E op \in Reads : ServeRead(op)) \/ (\E op \in Reads \cup Writes : Lost(op))
         \/ (\E f \in user.files : Report(f))
  BY DEF PanelNext
<1> QED BY <1>1, <1>2, <1>3, <1>4, <1>5, <1>6, <1>7, <1>8, <1>9, <1>10

\* The editor starts with the starter.
LEMMA EditorInit == PanelInit => EditorInv
<1> SUFFICES ASSUME PanelInit PROVE EditorInv
  OBVIOUS
<1>1. /\ editor.text = Starter /\ editor.obj = Starter.says /\ editor.touched = TRUE
      /\ EditorShaped
  BY DEF PanelInit, NewEditor, EditorShaped
<1> QED BY <1>1 DEF EditorInv, FormMatchesText, NameMatchesText

\* The loads and the editor, together.
LEMMA EditorAlways == PanelSpec => [](LoadInv /\ EditorInv)
BY LoadInit, LoadStep, EditorInit, EditorStep, PTL DEF PanelSpec

\* Whenever the editor's text can be parsed its form shows what it says, whoever
\* changes one of them and whatever arrives meanwhile.
THEOREM FormInSync == PanelSpec => []FormMatchesText
<1>1. EditorInv => FormMatchesText
  BY DEF EditorInv
<1> QED BY <1>1, EditorAlways, PTL

\* Until something is edited, the text in the editor is one that was stored under
\* the name beside it, however many loads overtake each other.
THEOREM NameInSync == PanelSpec => []NameMatchesText
<1>1. EditorInv => NameMatchesText
  BY DEF EditorInv
<1> QED BY <1>1, EditorAlways, PTL

-----------------------------------------------------------------------------
(* The requests that the daemon reads of the dashboard and of the history  *)

\* What is listed, asked for or on its way to a page that will list it.
Done == {f \in Reports : reports[f] \in {"complete", "removed"}}

ViewerShaped == viewer = [entries |-> viewer.entries, selected |-> viewer.selected, html |-> viewer.html]

\* What the page knows of are runs there are, and reports that were complete once.
PageInv ==
  /\ user \in Uses
  /\ board.selected \in Runs \cup {"none"} /\ board.watched \in Runs \cup {"none"}
  /\ sent["stop"] \subseteq [run : Runs, live : BOOLEAN]
  /\ answered["start"] \subseteq Runs
  /\ DOMAIN reports = Reports
  /\ ViewerShaped /\ viewer.entries \subseteq Done
  /\ answered["history"] \subseteq SUBSET Done
  /\ sent["open"] \subseteq Done

\* The run manager inside the panel keeps its types and its invariant.
RunSafe == TypeOK /\ RunInv

\* The requests that name a run, a report or a blueprint, and the answers that do.
Told == {"stop", "open", "import", "compile"}
Heard == {"start", "history", "import", "compile"}

\* Of those there are no new ones.
Calm ==
  /\ \A op \in Told : sent'[op] \subseteq sent[op]
  /\ \A op \in Heard : answered'[op] \subseteq answered[op]

\* Other requests and answers, and those that are taken, lost or read.
LEMMA CalmNet ==
  ASSUME LoadInv, NEW op \in Ops, NEW q \in Ops, NEW X, NEW Y,
         sent' = sent \/ sent' = [sent EXCEPT ![op] = X],
         answered' = answered \/ answered' = [answered EXCEPT ![q] = Y],
         op \notin Told \/ X \subseteq sent[op],
         q \notin Heard \/ Y \subseteq answered[q]
  PROVE  Calm
<1>1. Told \subseteq Ops /\ Heard \subseteq Ops
  BY DEF Ops, Reads, Writes, Told, Heard
<1>2. \A x \in Told : sent'[x] \subseteq sent[x]
  BY <1>1 DEF LoadInv
<1>3. \A x \in Heard : answered'[x] \subseteq answered[x]
  BY <1>1 DEF LoadInv
<1> QED BY <1>2, <1>3 DEF Calm

\* A request of another kind is sent.
LEMMA CalmSend ==
  ASSUME LoadInv, NEW op \in Ops \ Told, NEW a, Send(op, a)
  PROVE  Calm
<1>1. sent' = [sent EXCEPT ![op] = sent[op] \cup {a}] /\ answered' = answered
  BY DEF Send, LoadInv
<1> QED BY <1>1, CalmNet

\* An answer is taken, and a request of another kind may follow it.
LEMMA CalmTake ==
  ASSUME LoadInv, NEW op \in Ops, NEW v,
         Take(op, v) \/ (\E next \in Ops \ Told : \E a : TakeAndSend(op, v, next, a))
  PROVE  Calm
<1>1. answered' = [answered EXCEPT ![op] = answered[op] \ {v}] /\ answered[op] \ {v} \subseteq answered[op]
  BY DEF Take, TakeAndSend, LoadInv
<1>2. CASE Take(op, v)
  <2>1. sent' = sent /\ "list" \in Ops \ Told
    BY <1>2 DEF Take, Ops, Reads, Told
  <2> QED BY <1>1, <2>1, CalmNet
<1>3. CASE \E next \in Ops \ Told : \E a : TakeAndSend(op, v, next, a)
  <2>1. \E next \in Ops \ Told : \E X : sent' = [sent EXCEPT ![next] = X]
    BY <1>3 DEF TakeAndSend
  <2> QED BY <1>1, <2>1, CalmNet
<1> QED BY <1>2, <1>3

\* A request is read, and answered if it is of another kind.
LEMMA CalmReply ==
  ASSUME LoadInv, NEW op \in Ops, NEW a, NEW v,
         Drop(op, a) \/ (Reply(op, a, v) /\ op \notin Heard)
  PROVE  Calm
<1>1. sent' = [sent EXCEPT ![op] = sent[op] \ {a}] /\ sent[op] \ {a} \subseteq sent[op]
  BY DEF Drop, Reply
<1>2. CASE Drop(op, a)
  <2>1. answered' = answered /\ answered[op] \subseteq answered[op]
    BY <1>2 DEF Drop
  <2> QED BY <1>1, <2>1, CalmNet
<1>3. CASE Reply(op, a, v) /\ op \notin Heard
  <2>1. answered' = [answered EXCEPT ![op] = answered[op] \cup {v}]
    BY <1>3 DEF Reply
  <2> QED BY <1>1, <1>3, <2>1, CalmNet
<1> QED BY <1>2, <1>3

\* The steps that bring a new request or answer of those kinds.
Telling ==
  \/ ServeRead("history") \/ ServeRead("import") \/ ServeRead("compile") \/ ServeStart
  \/ (\E b \in Blueprints : ClickImport(b)) \/ ClickCompile
  \/ (\E r \in Runs : ClickStop(r)) \/ (\E f \in Reports : ClickOpen(f))
  \/ \E t \in user.uses : OpenTab(t)

\* No other step does.
LEMMA CalmStep ==
  ASSUME LoadInv, [PanelNext]_panelVars, ~Telling
  PROVE  Calm
<1>0. /\ {"list", "validate", "start", "stop", "load", "delete", "save", "history", "open", "import",
          "compile", "script", "configs"} \subseteq Ops
      /\ Told = {"stop", "open", "import", "compile"} /\ Heard = {"start", "history", "import", "compile"}
  BY DEF Ops, Reads, Writes, Told, Heard
<1>1. ASSUME UNCHANGED net PROVE Calm
  BY <1>1 DEF Calm, net
<1>2. CASE UNCHANGED panelVars \/ DaemonStep \/ ScriptBotThrows \/ WatchSelected \/ Debounce
  BY <1>1, <1>2 DEF panelVars, DaemonStep, ScriptBotThrows, WatchSelected, Debounce
<1>3. ASSUME NEW s \in Streams, Connects(s) \/ Receives(s) \/ Reconnects(s) PROVE Calm
  BY <1>1, <1>3 DEF Connects, Receives, Reconnects
<1>4. CASE Poll \/ DebounceFires
  <2>1. \E op \in {"list", "validate"} : \E a : Send(op, a)
    BY <1>4 DEF Poll, DebounceFires
  <2> QED BY <1>0, <2>1, CalmSend
<1>5. CASE Arrives
  <2>1. CASE ListArrives \/ VerdictArrives \/ LoadArrives \/ ConfigsArrive \/ HistoryArrives
    <3>1. \E op \in {"list", "validate", "load", "configs", "history"} : \E v : Take(op, v)
      BY <2>1 DEF ListArrives, VerdictArrives, LoadArrives, ConfigsArrive, HistoryArrives
    <3> QED BY <1>0, <3>1, CalmTake
  <2>2. CASE OpenArrives \/ ImportArrives \/ CompileArrives \/ ScriptArrives
    <3>1. \E op \in {"open", "import", "compile", "script"} : \E v : Take(op, v)
      BY <2>2 DEF OpenArrives, ImportArrives, CompileArrives, ScriptArrives
    <3> QED BY <1>0, <3>1, CalmTake
  <2>3. CASE StartArrives \/ StopArrives \/ StoreArrives
    <3>1. \E op \in {"start", "stop", "save", "delete"}, next \in {"list", "configs"} : \E v :
            TakeAndSend(op, v, next, "all")
      BY <2>3 DEF StartArrives, StopArrives, StoreArrives
    <3>2. {"list", "configs"} \subseteq Ops \ Told
      BY <1>0
    <3> QED BY <1>0, <3>1, <3>2, CalmTake
  <2> QED BY <1>5, <2>1, <2>2, <2>3 DEF Arrives
<1>6. CASE ServeStop \/ ScriptRefused \/ ServeScriptEnd \/ ServeSave \/ ServeDelete
  <2>1. \E op \in {"stop", "script", "save", "delete"} : \E a, v : Drop(op, a) \/ Reply(op, a, v)
    BY <1>6 DEF FileFails, ServeStop, ScriptRefused, ServeScriptEnd, ServeSave, ServeDelete, ReplyIf
  <2>2. {"stop", "script", "save", "delete"} \subseteq Ops \ Heard
    BY <1>0
  <2> QED BY <2>1, <2>2, CalmReply
<1>7. CASE ScriptConnects
  <2>1. \E X : sent' = [sent EXCEPT !["script"] = X] /\ answered' = answered
    BY <1>7 DEF ScriptConnects
  <2>2. "script" \notin Told
    BY <1>0
  <2> QED BY <1>0, <2>1, <2>2, CalmNet
<1>8. ASSUME NEW op \in Reads \ Heard, ServeRead(op) PROVE Calm
  <2>1. \E a, v : Drop(op, a) \/ Reply(op, a, v)
    BY <1>8 DEF FileFails, ServeRead
  <2>2. op \in Ops /\ op \notin Heard
    BY <1>8 DEF Ops
  <2> QED BY <2>1, <2>2, CalmReply
<1>9. ASSUME NEW op \in Reads \cup Writes, Lost(op) PROVE Calm
  <2>1. op \in Ops /\ \E a : Drop(op, a)
    BY <1>9 DEF Lost, Ops
  <2> QED BY <2>1, CalmReply
<1>10. CASE \E f \in user.files : Report(f)
  BY <1>1, <1>10 DEF Report
<1>11. CASE Clicks
  <2>1. CASE ClickStart \/ ClickSave \/ ClickRefresh
    <3>1. \E op \in {"start", "save", "history"} : \E a : Send(op, a)
      BY <2>1 DEF ClickStart, ClickSave, ClickRefresh
    <3> QED BY <1>0, <3>1, CalmSend
  <2>2. CASE ClickRun
    <3>1. \E a : Send("script", a)
      BY <2>2 DEF ClickRun
    <3> QED BY <1>0, <3>1, CalmSend
  <2>3. CASE \E n \in Names : ClickLoad(n) \/ ClickDelete(n)
    <3>1. \E op \in {"load", "delete"} : \E a : Send(op, a)
      BY <2>3 DEF ClickLoad, ClickDelete
    <3> QED BY <1>0, <3>1, CalmSend
  <2>4. CASE EditGraph \/ (\E r \in Runs : Select(r)) \/ (\E t \in Texts : TypeText(t))
             \/ (\E v \in Values : FormChange(v)) \/ \E n \in Names : Rename(n)
    BY <1>1, <2>4 DEF EditGraph, Select, TypeText, FormChange, Rename
  <2>5. Clicks => \/ ClickStart \/ ClickSave \/ ClickRefresh \/ ClickRun \/ EditGraph
                  \/ (\E r \in Runs : Select(r))
                  \/ (\E t \in Texts : TypeText(t)) \/ (\E v \in Values : FormChange(v))
                  \/ (\E n \in Names : Rename(n)) \/ (\E n \in Names : ClickLoad(n) \/ ClickDelete(n))
                  \/ Telling
    BY DEF Clicks, Telling
  <2> QED BY <1>11, <2>1, <2>2, <2>3, <2>4, <2>5
<1>12. PanelNext =>
         \/ DaemonStep \/ ScriptBotThrows \/ WatchSelected \/ Debounce
         \/ Poll \/ DebounceFires \/ Arrives \/ ServeStop
         \/ ScriptRefused \/ ScriptConnects \/ ServeScriptEnd \/ ServeSave \/ ServeDelete \/ Clicks
         \/ (\E s \in Streams : Connects(s) \/ Receives(s) \/ Reconnects(s))
         \/ (\E op \in Reads \ Heard : ServeRead(op)) \/ (\E op \in Reads \cup Writes : Lost(op))
         \/ (\E f \in user.files : Report(f)) \/ Telling
  BY <1>0 DEF PanelNext, Telling, Reads
<1> QED BY <1>2, <1>3, <1>4, <1>5, <1>6, <1>7, <1>8, <1>9, <1>10, <1>11, <1>12

\* What a step changes of the user, of the page's history and canvas, and of the
\* reports.
LEMMA FrameStep ==
  ASSUME [PanelNext]_panelVars
  PROVE  /\ user' = user \/ Click
         /\ \/ viewer' = viewer \/ HistoryArrives \/ OpenArrives
            \/ (\E f \in Reports : ClickOpen(f)) \/ (\E t \in user.uses : OpenTab(t))
         /\ \/ canvas' = canvas \/ ImportArrives \/ CompileArrives \/ EditGraph
            \/ ClickCompile \/ (\E t \in user.uses : OpenTab(t))
         /\ reports' = reports \/ \E f \in user.files : Report(f)
<1> DEFINE Goal == /\ user' = user \/ Click
                   /\ \/ viewer' = viewer \/ HistoryArrives \/ OpenArrives
                      \/ (\E f \in Reports : ClickOpen(f)) \/ (\E t \in user.uses : OpenTab(t))
                   /\ \/ canvas' = canvas \/ ImportArrives \/ CompileArrives \/ EditGraph
                      \/ ClickCompile \/ (\E t \in user.uses : OpenTab(t))
                   /\ reports' = reports \/ \E f \in user.files : Report(f)
<1>1. ASSUME UNCHANGED views, UNCHANGED reports PROVE Goal
  BY <1>1 DEF views
<1>2. CASE UNCHANGED panelVars \/ DaemonStep \/ ScriptBotThrows \/ ScriptConnects \/ ServeScriptEnd \/ Poll
  BY <1>1, <1>2 DEF panelVars, DaemonStep, ScriptBotThrows, ScriptConnects, ServeScriptEnd, Poll, disk
<1>3. CASE ServeStart \/ ServeStop \/ ServeSave \/ ServeDelete
  BY <1>1, <1>3 DEF ServeStart, ServeStop, ServeSave, ServeDelete, disk
<1>4. ASSUME NEW op \in Reads, ServeRead(op) PROVE Goal
  BY <1>1, <1>4 DEF ServeRead, disk
<1>5. ASSUME NEW op \in Reads \cup Writes, Lost(op) PROVE Goal
  BY <1>5 DEF Lost, disk
<1>6. ASSUME NEW s \in Streams, Connects(s) \/ Receives(s) \/ Reconnects(s) PROVE Goal
  BY <1>6 DEF Connects, Receives, Reconnects, disk, views
<1>7. CASE ScriptRefused \/ WatchSelected \/ Debounce \/ DebounceFires
  BY <1>7 DEF ScriptRefused, WatchSelected, Debounce, DebounceFires, Edited, disk
<1>8. CASE Arrives
  <2>1. CASE ListArrives \/ StartArrives \/ StopArrives \/ VerdictArrives \/ LoadArrives \/ StoreArrives
             \/ ConfigsArrive
    BY <2>1 DEF ListArrives, StartArrives, StopArrives, VerdictArrives, LoadArrives, StoreArrives,
                ConfigsArrive, Edited, disk, views
  <2>2. CASE HistoryArrives \/ OpenArrives \/ ImportArrives \/ CompileArrives \/ ScriptArrives
    <3>1. user' = user /\ reports' = reports
      BY <2>2 DEF HistoryArrives, OpenArrives, ImportArrives, CompileArrives, ScriptArrives, Drawn, disk
    <3>2. viewer' = viewer \/ HistoryArrives \/ OpenArrives
      BY <2>2 DEF ImportArrives, CompileArrives, ScriptArrives, Drawn
    <3>3. canvas' = canvas \/ ImportArrives \/ CompileArrives
      BY <2>2 DEF HistoryArrives, OpenArrives, ScriptArrives
    <3> QED BY <3>1, <3>2, <3>3
  <2> QED BY <1>8, <2>1, <2>2 DEF Arrives
<1>9. ASSUME NEW f \in user.files, Report(f) PROVE Goal
  BY <1>9 DEF Report, views
<1>10. CASE Clicks
  <2>1. Click /\ reports' = reports
    <3>1. CASE ClickStart \/ ClickSave \/ ClickRefresh \/ EditGraph \/ ClickCompile \/ ClickRun
      BY <3>1 DEF ClickStart, ClickSave, ClickRefresh, EditGraph, ClickCompile, ClickRun, disk
    <3>2. ASSUME NEW r \in Runs, ClickStop(r) \/ Select(r) PROVE Click /\ reports' = reports
      BY <3>2 DEF ClickStop, Select, disk
    <3>3. ASSUME NEW n \in Names, Rename(n) \/ ClickLoad(n) \/ ClickDelete(n) PROVE Click /\ reports' = reports
      BY <3>3 DEF Rename, ClickLoad, ClickDelete, disk
    <3>4. CASE (\E t \in Texts : TypeText(t)) \/ (\E v \in Values : FormChange(v))
               \/ (\E f \in Reports : ClickOpen(f))
      BY <3>4 DEF TypeText, FormChange, ClickOpen, disk
    <3>5. CASE (\E b \in Blueprints : ClickImport(b)) \/ (\E t \in user.uses : OpenTab(t))
      BY <3>5 DEF ClickImport, OpenTab, disk
    <3> QED BY <1>10, <3>1, <3>2, <3>3, <3>4, <3>5 DEF Clicks
  <2>2. \/ viewer' = viewer
        \/ (\E f \in Reports : ClickOpen(f)) \/ (\E t \in user.uses : OpenTab(t))
    <3>1. CASE ClickStart \/ ClickSave \/ ClickRefresh \/ EditGraph \/ ClickCompile \/ ClickRun
      BY <3>1 DEF ClickStart, ClickSave, ClickRefresh, EditGraph, ClickCompile, ClickRun, Drawn
    <3>2. ASSUME NEW r \in Runs, ClickStop(r) \/ Select(r) PROVE viewer' = viewer
      BY <3>2 DEF ClickStop, Select
    <3>3. ASSUME NEW n \in Names, Rename(n) \/ ClickLoad(n) \/ ClickDelete(n) PROVE viewer' = viewer
      BY <3>3 DEF Rename, ClickLoad, ClickDelete, Edited
    <3>4. CASE (\E t \in Texts : TypeText(t)) \/ (\E v \in Values : FormChange(v))
               \/ (\E b \in Blueprints : ClickImport(b))
      BY <3>4 DEF TypeText, FormChange, ClickImport, Edited
    <3> QED BY <1>10, <3>1, <3>2, <3>3, <3>4 DEF Clicks
  <2>3. canvas' = canvas \/ EditGraph \/ ClickCompile \/ (\E t \in user.uses : OpenTab(t))
    <3>1. CASE ClickStart \/ ClickSave \/ ClickRefresh \/ ClickRun
      BY <3>1 DEF ClickStart, ClickSave, ClickRefresh, ClickRun
    <3>2. ASSUME NEW r \in Runs, ClickStop(r) \/ Select(r) PROVE canvas' = canvas
      BY <3>2 DEF ClickStop, Select
    <3>3. ASSUME NEW n \in Names, Rename(n) \/ ClickLoad(n) \/ ClickDelete(n) PROVE canvas' = canvas
      BY <3>3 DEF Rename, ClickLoad, ClickDelete, Edited
    <3>4. CASE (\E t \in Texts : TypeText(t)) \/ (\E v \in Values : FormChange(v))
               \/ (\E b \in Blueprints : ClickImport(b)) \/ (\E f \in Reports : ClickOpen(f))
      BY <3>4 DEF TypeText, FormChange, ClickImport, ClickOpen, Edited
    <3> QED BY <1>10, <3>1, <3>2, <3>3, <3>4 DEF Clicks
  <2> QED BY <2>1, <2>2, <2>3
<1>11. PanelNext =>
         \/ DaemonStep \/ ScriptBotThrows \/ WatchSelected \/ Debounce
         \/ Poll \/ DebounceFires \/ Arrives \/ ServeStart \/ ServeStop
         \/ ScriptRefused \/ ScriptConnects \/ ServeScriptEnd \/ ServeSave \/ ServeDelete \/ Clicks
         \/ (\E s \in Streams : Connects(s) \/ Receives(s) \/ Reconnects(s))
         \/ (\E op \in Reads : ServeRead(op)) \/ (\E op \in Reads \cup Writes : Lost(op))
         \/ (\E f \in user.files : Report(f))
  BY DEF PanelNext
<1> QED BY <1>2, <1>3, <1>4, <1>5, <1>6, <1>7, <1>8, <1>9, <1>10, <1>11

-----------------------------------------------------------------------------
(* The invariant of the page                                               *)

\* A page that has just been opened has listed nothing and asked for nothing.
LEMMA PageInit == PanelInit => PageInv
<1> SUFFICES ASSUME PanelInit PROVE PageInv
  OBVIOUS
<1>1. user \in Uses
  BY PanelAssumption DEF PanelInit
<1>2. {"stop", "open", "start", "history"} \subseteq Reads \cup Writes
  BY DEF Reads, Writes
<1>3. sent["stop"] = {} /\ sent["open"] = {} /\ answered["start"] = {} /\ answered["history"] = {}
  BY <1>2 DEF PanelInit
<1>4. DOMAIN reports = Reports /\ board = NewBoard /\ viewer = NewViewer
  BY DEF PanelInit
<1>5. board.selected = "none" /\ board.watched = "none"
  BY <1>4 DEF NewBoard
<1>6. ViewerShaped /\ viewer.entries = {}
  BY <1>4 DEF NewViewer, ViewerShaped
<1> QED BY <1>1, <1>3, <1>4, <1>5, <1>6 DEF PageInv

\* The user makes a click, and a report that was complete stays or is removed.
LEMMA UserKeeps ==
  ASSUME PageInv, [PanelNext]_panelVars
  PROVE  user' \in Uses
<1>1. user \in Uses
  BY DEF PageInv
<1>2. CASE user' = user
  BY <1>1, <1>2
<1>3. CASE Click
  <2>1. user.clicks \in Nat /\ user.clicks > 0 /\ user' = [user EXCEPT !.clicks = user.clicks - 1]
    BY <1>1, <1>3 DEF Click, Uses
  <2>2. user.clicks - 1 \in Nat
    BY <2>1
  <2> QED BY <1>1, <2>1, <2>2 DEF Uses
<1> QED BY <1>2, <1>3, FrameStep

\* What has been complete is complete or removed for good.
LEMMA DoneGrows ==
  ASSUME PageInv, [PanelNext]_panelVars
  PROVE  DOMAIN reports' = Reports /\ Done \subseteq Done'
<1>1. DOMAIN reports = Reports
  BY DEF PageInv
<1>2. CASE reports' = reports
  BY <1>1, <1>2 DEF Done
<1>3. CASE \E f \in user.files : Report(f)
  <2>1. PICK f : reports' = [reports EXCEPT ![f] =
                   CASE @ = "none" -> "partial" [] @ = "partial" -> "complete" [] OTHER -> "removed"]
    BY <1>3 DEF Report
  <2>2. DOMAIN reports' = Reports
    BY <1>1, <2>1
  <2>3. ASSUME NEW g \in Reports, reports[g] \in {"complete", "removed"}
        PROVE  reports'[g] \in {"complete", "removed"}
    BY <1>1, <2>1, <2>3
  <2> QED BY <2>2, <2>3 DEF Done
<1> QED BY <1>2, <1>3, FrameStep

\* The board selects and watches runs that there are.
LEMMA BoardKnowsRuns ==
  ASSUME PageInv, BoardInv, [PanelNext]_panelVars
  PROVE  board'.selected \in Runs \cup {"none"} /\ board'.watched \in Runs \cup {"none"}
<1> DEFINE Goal == board'.selected \in Runs \cup {"none"} /\ board'.watched \in Runs \cup {"none"}
<1>a. board.selected \in Runs \cup {"none"} /\ board.watched \in Runs \cup {"none"}
  BY DEF PageInv
<1>b. BoardShaped
  BY DEF BoardInv
<1>1. ASSUME board' = board PROVE Goal
  BY <1>a, <1>1
<1>2. CASE UNCHANGED panelVars \/ DaemonStep
  BY <1>1, <1>2 DEF panelVars, DaemonStep, views
<1>3. CASE Elsewhere
  BY <1>1, <1>3, BoardElse
<1>4. CASE WatchSelected
  <2>1. board' = [shown |-> board.shown, selected |-> board.selected, watched |-> board.selected,
                  snap |-> NewBoard.snap]
    BY <1>b, <1>4 DEF WatchSelected, BoardShaped
  <2> QED BY <1>a, <2>1
<1>5. CASE ListArrives
  <2>1. \E v : board' = [board EXCEPT !.shown = v]
    BY <1>5 DEF ListArrives
  <2> QED BY <1>a, <1>b, <2>1 DEF BoardShaped
<1>6. CASE StartArrives \/ \E r \in Runs : Select(r)
  <2>1. \E r \in Runs : board' = [board EXCEPT !.selected = r]
    BY <1>6 DEF StartArrives, Select, PageInv
  <2> QED BY <1>a, <1>b, <2>1 DEF BoardShaped
<1>7. ASSUME NEW s \in Streams, Connects(s) \/ Receives(s) \/ Reconnects(s) PROVE Goal
  <2>1. \E v : board' \in {board, [board EXCEPT !.snap = v]}
    BY <1>7 DEF Connects, Receives, Reconnects, views
  <2> QED BY <1>a, <1>b, <2>1 DEF BoardShaped
<1>8. CASE \E t \in user.uses : OpenTab(t)
  <2>1. board' = NewBoard
    BY <1>8 DEF OpenTab
  <2> QED BY <2>1 DEF NewBoard
<1>9. Arrives => Elsewhere \/ ListArrives \/ StartArrives
  BY DEF Arrives, Elsewhere
<1>10. Clicks => \/ Elsewhere
                 \/ \E r \in Runs : Select(r)
                 \/ \E t \in user.uses : OpenTab(t)
  BY DEF Clicks, Elsewhere
<1>11. PanelNext => \/ DaemonStep \/ WatchSelected \/ Arrives \/ Clicks \/ Elsewhere
                    \/ \E s \in Streams : Connects(s) \/ Receives(s) \/ Reconnects(s)
  BY DEF PanelNext, Elsewhere
<1> QED BY <1>2, <1>3, <1>4, <1>5, <1>6, <1>7, <1>8, <1>9, <1>10, <1>11

\* Whatever lists and requests overtake each other, what a page knows of was complete.
LEMMA ViewerKnowsDone ==
  ASSUME PageInv, [PanelNext]_panelVars
  PROVE  ViewerShaped' /\ viewer'.entries \subseteq Done'
<1>a. ViewerShaped /\ viewer.entries \subseteq Done /\ answered["history"] \subseteq SUBSET Done
  BY DEF PageInv
<1>b. Done \subseteq Done'
  BY DoneGrows
<1>1. CASE viewer' = viewer
  BY <1>a, <1>b, <1>1 DEF ViewerShaped
<1>2. CASE HistoryArrives
  <2>1. PICK v \in answered["history"] : viewer' = [viewer EXCEPT !.entries = v]
    BY <1>2 DEF HistoryArrives
  <2>2. v \subseteq Done
    BY <1>a, <2>1
  <2>3. viewer' = [entries |-> v, selected |-> viewer.selected, html |-> viewer.html]
    BY <1>a, <2>1 DEF ViewerShaped
  <2> QED BY <1>b, <2>2, <2>3 DEF ViewerShaped
<1>3. CASE OpenArrives \/ \E f \in Reports : ClickOpen(f)
  <2>1. PICK f : viewer' \in {[viewer EXCEPT !.html = f], [viewer EXCEPT !.selected = f]}
    BY <1>3 DEF OpenArrives, ClickOpen
  <2>2. ViewerShaped' /\ viewer'.entries = viewer.entries
    BY <1>a, <2>1 DEF ViewerShaped
  <2> QED BY <1>a, <1>b, <2>2
<1>4. CASE \E t \in user.uses : OpenTab(t)
  <2>1. viewer' = NewViewer
    BY <1>4 DEF OpenTab
  <2> QED BY <2>1 DEF NewViewer, ViewerShaped
<1> QED BY <1>1, <1>2, <1>3, <1>4, FrameStep

\* The requests and answers that are new name runs and reports as well.
LEMMA TellingKeeps ==
  ASSUME PageInv, LoadInv, BoardInv, Telling, UNCHANGED reports
  PROVE  /\ sent'["stop"] \subseteq [run : Runs, live : BOOLEAN]
         /\ answered'["start"] \subseteq Runs
         /\ answered'["history"] \subseteq SUBSET Done
         /\ sent'["open"] \subseteq Done
<1> DEFINE Goal == /\ sent'["stop"] \subseteq [run : Runs, live : BOOLEAN]
                   /\ answered'["start"] \subseteq Runs
                   /\ answered'["history"] \subseteq SUBSET Done
                   /\ sent'["open"] \subseteq Done
<1>a. /\ sent["stop"] \subseteq [run : Runs, live : BOOLEAN]
      /\ answered["start"] \subseteq Runs
      /\ answered["history"] \subseteq SUBSET Done
      /\ sent["open"] \subseteq Done
      /\ viewer.entries \subseteq Done
      /\ user.runs \subseteq Runs
  BY DEF PageInv, Uses
<1>b. DOMAIN sent = Ops /\ DOMAIN answered = Ops /\ {"stop", "open", "start", "history"} \subseteq Ops
  BY DEF LoadInv, Ops, Reads, Writes
<1>1. CASE ServeRead("history")
  <2>1. PICK a \in sent["history"] : Drop("history", a) \/ Reply("history", a, Answer("history", a))
    BY <1>1 DEF FileFails, ServeRead
  <2>2. Answer("history", a) = ListHistory
    BY DEF Answer
  <2>3. ListHistory \subseteq Done
    BY DEF ListHistory, Done
  <2>4. sent' = [sent EXCEPT !["history"] = @ \ {a}]
    BY <2>1 DEF Drop, Reply
  <2>5. answered' = answered \/ answered' = [answered EXCEPT !["history"] = @ \cup {ListHistory}]
    BY <2>1, <2>2 DEF Drop, Reply
  <2>6. answered'["start"] = answered["start"] /\ answered'["history"] \subseteq answered["history"] \cup {ListHistory}
    BY <1>b, <2>5
  <2>7. sent'["stop"] = sent["stop"] /\ sent'["open"] = sent["open"]
    BY <1>b, <2>4
  <2> QED BY <1>a, <2>3, <2>6, <2>7
<1>2. CASE ServeStart
  <2>1. PICK a \in sent["start"] : \/ Drop("start", a)
                                   \/ \E r \in user.runs : ReplyIf(a.live, "start", a, r)
    BY <1>2 DEF ServeStart
  <2>2. Drop("start", a) \/ \E r \in Runs : Reply("start", a, r)
    BY <1>a, <2>1 DEF ReplyIf
  <2>3. sent' = [sent EXCEPT !["start"] = @ \ {a}]
    BY <2>2 DEF Drop, Reply
  <2>4. answered' = answered \/ \E r \in Runs : answered' = [answered EXCEPT !["start"] = @ \cup {r}]
    BY <2>2 DEF Drop, Reply
  <2>5. answered'["start"] \subseteq Runs /\ answered'["history"] = answered["history"]
    BY <1>a, <1>b, <2>4
  <2>6. sent'["stop"] = sent["stop"] /\ sent'["open"] = sent["open"]
    BY <1>b, <2>3
  <2> QED BY <1>a, <2>5, <2>6
<1>3. ASSUME NEW r \in Runs, ClickStop(r) PROVE Goal
  <2>1. /\ sent' = [sent EXCEPT !["stop"] = @ \cup {[run |-> r, live |-> TRUE]}]
        /\ answered' = answered
    BY <1>3 DEF ClickStop, Send
  <2>2. /\ sent'["stop"] = sent["stop"] \cup {[run |-> r, live |-> TRUE]}
        /\ sent'["open"] = sent["open"]
    BY <1>b, <2>1
  <2>3. [run |-> r, live |-> TRUE] \in [run : Runs, live : BOOLEAN]
    OBVIOUS
  <2> QED BY <1>a, <2>1, <2>2, <2>3
<1>4. ASSUME NEW f \in Reports, ClickOpen(f) PROVE Goal
  <2>1. /\ sent' = [sent EXCEPT !["open"] = @ \cup {f}]
        /\ answered' = answered /\ f \in viewer.entries
    BY <1>4 DEF ClickOpen, Send
  <2>2. sent'["open"] = sent["open"] \cup {f} /\ sent'["stop"] = sent["stop"]
    BY <1>b, <2>1
  <2> QED BY <1>a, <2>1, <2>2
<1>5. ASSUME NEW t \in user.uses, OpenTab(t) PROVE Goal
  <2>1. sent' = [op \in Ops |->
          IF op \in Writes THEN {[a EXCEPT !.live = FALSE] : a \in sent[op]}
          ELSE IF <<t, op>> \in {<<"dashboard", "list">>, <<"config", "configs">>, <<"history", "history">>}
                 THEN {"all"} ELSE {}]
    BY <1>b, <1>5 DEF OpenTab
  <2>2. answered' = [op \in Ops |-> {}]
    BY <1>b, <1>5 DEF OpenTab
  <2>3. "stop" \in Writes /\ "open" \notin Writes
    BY DEF Writes
  <2>4. sent'["stop"] = {[a EXCEPT !.live = FALSE] : a \in sent["stop"]}
    BY <1>b, <2>1, <2>3
  <2>5. sent'["open"] = {}
    BY <1>b, <2>1, <2>3
  <2>6. \A a \in [run : Runs, live : BOOLEAN] : [a EXCEPT !.live = FALSE] \in [run : Runs, live : BOOLEAN]
    OBVIOUS
  <2>7. answered'["start"] = {} /\ answered'["history"] = {}
    BY <1>b, <2>2
  <2>8. sent'["stop"] \subseteq [run : Runs, live : BOOLEAN]
    BY <1>a, <2>4, <2>6
  <2> QED BY <2>5, <2>7, <2>8
<1>6. ASSUME NEW op \in {"import", "compile"}, ServeRead(op) PROVE Goal
  <2>1. PICK a \in sent[op] : Drop(op, a) \/ Reply(op, a, Answer(op, a))
    BY <1>6 DEF FileFails, ServeRead
  <2>2. \E X, Y : sent' = [sent EXCEPT ![op] = X] /\ answered' \in {answered, [answered EXCEPT ![op] = Y]}
    BY <2>1 DEF Drop, Reply
  <2> QED BY <1>a, <1>b, <2>2
<1>7. CASE ClickCompile \/ \E b \in Blueprints : ClickImport(b)
  <2>1. \E op \in {"import", "compile"} : \E a : Send(op, a)
    BY <1>7 DEF ClickCompile, ClickImport
  <2>2. \E op \in {"import", "compile"} : \E X : sent' = [sent EXCEPT ![op] = X] /\ answered' = answered
    BY <2>1 DEF Send
  <2> QED BY <1>a, <1>b, <2>2
<1> QED BY <1>1, <1>2, <1>3, <1>4, <1>5, <1>6, <1>7 DEF Telling

\* Every step keeps what the page knows of.
LEMMA PageStep ==
  ASSUME PageInv, LoadInv, BoardInv, [PanelNext]_panelVars
  PROVE  PageInv'
<1>1. /\ sent'["stop"] \subseteq [run : Runs, live : BOOLEAN]
      /\ answered'["start"] \subseteq Runs
      /\ answered'["history"] \subseteq SUBSET Done'
      /\ sent'["open"] \subseteq Done'
  <2>1. CASE Telling
    <3>1. UNCHANGED reports
      BY <2>1 DEF Telling, ServeRead, ServeStart, ClickStop, ClickOpen, ClickImport, ClickCompile,
                  OpenTab, disk
    <3>2. Done \subseteq Done'
      BY DoneGrows
    <3>3. SUBSET Done \subseteq SUBSET Done'
      BY <3>2
    <3>4. /\ sent'["stop"] \subseteq [run : Runs, live : BOOLEAN]
          /\ answered'["start"] \subseteq Runs
          /\ answered'["history"] \subseteq SUBSET Done
          /\ sent'["open"] \subseteq Done
      BY <2>1, <3>1, TellingKeeps
    <3> QED BY <3>2, <3>3, <3>4
  <2>2. CASE ~Telling
    <3>1. Calm
      BY <2>2, CalmStep
    <3>2. Done \subseteq Done'
      BY DoneGrows
    <3>3. SUBSET Done \subseteq SUBSET Done'
      BY <3>2
    <3> QED BY <3>1, <3>2, <3>3 DEF Calm, Told, Heard, PageInv
  <2> QED BY <2>1, <2>2
<1>2. user' \in Uses
  BY UserKeeps
<1>3. DOMAIN reports' = Reports
  BY DoneGrows
<1>4. board'.selected \in Runs \cup {"none"} /\ board'.watched \in Runs \cup {"none"}
  BY BoardKnowsRuns
<1>5. ViewerShaped' /\ viewer'.entries \subseteq Done'
  BY ViewerKnowsDone
<1> QED BY <1>1, <1>2, <1>3, <1>4, <1>5 DEF PageInv

-----------------------------------------------------------------------------
(* The run manager inside the panel                                        *)

\* The page closes streams without the daemon's knowledge, ended ones included.
StreamsClose ==
  /\ UNCHANGED <<daemon, engines, status, final>>
  /\ stream' = [s \in Streams |-> stream'[s]]
  /\ \A s \in Streams : stream'[s] \in {stream[s], NoStream}

\* To the run manager a step of the panel is one of its own, or closes streams.
LEMMA RunsSee ==
  ASSUME RunSafe, PageInv, [PanelNext]_panelVars
  PROVE  [Next]_vars \/ StreamsClose
<1>a. sent["stop"] \subseteq [run : Runs, live : BOOLEAN] /\ user.runs \subseteq Runs
      /\ board.watched \in Runs \cup {"none"}
  BY DEF PageInv, Uses
<1>1. CASE UNCHANGED panelVars
  BY <1>1 DEF panelVars
<1>2. CASE DaemonStep
  BY <1>2 DEF DaemonStep, Next
<1>3. ASSUME (\E op \in Reads : ServeRead(op)) \/ ServeSave \/ ServeDelete PROVE [Next]_vars
  <2>1. Request /\ UNCHANGED <<closing, held, engines, status, final, stream>>
    BY <1>3 DEF ServeRead, ServeSave, ServeDelete
  <2>2. up' = FALSE \/ up' = up
    BY <1>3 DEF FileFails, ServeRead, ServeSave, ServeDelete
  <2>3. CASE up' = up
    BY <2>1, <2>3 DEF vars, daemon
  <2>4. CASE up' = FALSE
    <3>1. SessionThrows
      BY <2>1, <2>4 DEF SessionThrows, Request
    <3> QED BY <3>1 DEF Next
  <2> QED BY <2>2, <2>3, <2>4
<1>4. CASE ServeStart
  <2>1. (\E r \in user.runs : Start(r)) \/ UNCHANGED vars
    BY <1>4 DEF ServeStart
  <2> QED BY <1>a, <2>1 DEF Next
<1>5. CASE ServeStop
  <2>1. (\E a \in sent["stop"] : Stop(a.run)) \/ UNCHANGED vars
    BY <1>5 DEF ServeStop
  <2>2. \A a \in sent["stop"] : a.run \in Runs
    BY <1>a
  <2> QED BY <2>1, <2>2 DEF Next
<1>6. CASE ScriptRefused \/ ScriptConnects \/ ServeScriptEnd \/ Poll \/ Debounce \/ DebounceFires
  BY <1>6 DEF ScriptRefused, ScriptConnects, ServeScriptEnd, Poll, Debounce, DebounceFires
<1>7. CASE ScriptBotThrows
  BY <1>7 DEF ScriptBotThrows, Next
<1>8. ASSUME NEW op \in Reads \cup Writes, Lost(op) PROVE UNCHANGED vars
  BY <1>8 DEF Lost
<1>9. CASE WatchSelected \/ \E t \in user.uses : OpenTab(t)
  <2>1. UNCHANGED <<daemon, engines, status, final>> /\ stream' = [s \in Streams |-> NoStream]
    BY <1>9 DEF WatchSelected, OpenTab, NoStreams
  <2> QED BY <2>1 DEF StreamsClose
<1>10. ASSUME NEW s \in Streams, Connects(s) PROVE [Next]_vars
  <2>1. Open(s, board.watched) /\ board.watched \in Runs
    BY <1>a, <1>10 DEF Connects
  <2> QED BY <2>1 DEF Next
<1>11. ASSUME NEW s \in Streams, Receives(s) PROVE UNCHANGED vars
  BY <1>11 DEF Receives
<1>12. ASSUME NEW s \in Streams, Reconnects(s) PROVE StreamsClose
  <2>1. UNCHANGED <<daemon, engines, status, final>> /\ stream' = [stream EXCEPT ![s] = NoStream]
    BY <1>12 DEF Reconnects
  <2>2. stream = [x \in Streams |-> stream[x]]
    BY DEF RunSafe, TypeOK
  <2>3. stream' = [x \in Streams |-> stream'[x]]
    BY <2>1, <2>2
  <2>4. \A x \in Streams : stream'[x] \in {stream[x], NoStream}
    BY <2>1, <2>2
  <2> QED BY <2>1, <2>3, <2>4 DEF StreamsClose
<1>13. CASE Arrives
  BY <1>13 DEF Arrives, ListArrives, StartArrives, StopArrives, VerdictArrives, LoadArrives, StoreArrives,
               ConfigsArrive, HistoryArrives, OpenArrives, ImportArrives, CompileArrives, ScriptArrives
<1>14. CASE Clicks
  <2>1. CASE ClickStart \/ ClickSave \/ ClickRefresh \/ EditGraph \/ ClickCompile \/ ClickRun
    BY <2>1 DEF ClickStart, ClickSave, ClickRefresh, EditGraph, ClickCompile, ClickRun
  <2>2. ASSUME NEW r \in Runs, ClickStop(r) \/ Select(r) PROVE UNCHANGED vars
    BY <2>2 DEF ClickStop, Select
  <2>3. ASSUME NEW n \in Names, Rename(n) \/ ClickLoad(n) \/ ClickDelete(n) PROVE UNCHANGED vars
    BY <2>3 DEF Rename, ClickLoad, ClickDelete
  <2>4. CASE (\E t \in Texts : TypeText(t)) \/ (\E v \in Values : FormChange(v))
             \/ (\E f \in Reports : ClickOpen(f)) \/ (\E b \in Blueprints : ClickImport(b))
    BY <2>4 DEF TypeText, FormChange, ClickOpen, ClickImport
  <2> QED BY <1>9, <1>14, <2>1, <2>2, <2>3, <2>4 DEF Clicks
<1>15. CASE \E f \in user.files : Report(f)
  BY <1>15 DEF Report
<1>16. PanelNext =>
         \/ DaemonStep \/ ScriptBotThrows \/ WatchSelected \/ Debounce
         \/ Poll \/ DebounceFires \/ Arrives \/ ServeStart \/ ServeStop
         \/ ScriptRefused \/ ScriptConnects \/ ServeScriptEnd \/ ServeSave \/ ServeDelete \/ Clicks
         \/ (\E s \in Streams : Connects(s) \/ Receives(s) \/ Reconnects(s))
         \/ (\E op \in Reads : ServeRead(op)) \/ (\E op \in Reads \cup Writes : Lost(op))
         \/ (\E f \in user.files : Report(f))
  BY DEF PanelNext
<1> QED BY <1>1, <1>2, <1>3, <1>4, <1>5, <1>6, <1>7, <1>8, <1>9, <1>10, <1>11, <1>12, <1>13, <1>14,
           <1>15, <1>16

\* A stream that its page has closed is not one the daemon is bound by.
LEMMA CloseKeeps ==
  ASSUME RunSafe, StreamsClose
  PROVE  RunSafe'
<1> USE DEF RunSafe
<1>1. UNCHANGED <<up, closing, held, phase, stopping, armed, status, final>>
  BY DEF StreamsClose, daemon, engines
<1>2. \A s \in Streams : stream[s] \in StreamType /\ stream'[s] \in {stream[s], NoStream}
  BY DEF TypeOK, StreamsClose
<1>3. TypeOK'
  <2>1. \A s \in Streams : stream'[s] \in StreamType
    BY <1>2, NoStreamTyped
  <2>2. stream' \in [Streams -> StreamType]
    BY <2>1 DEF StreamsClose
  <2> QED BY <1>1, <2>2 DEF TypeOK
<1>4. \A r \in Runs : RunOK(r)'
  BY <1>1 DEF RunInv, RunOK
<1>5. ASSUME NEW s \in Streams PROVE StreamOK(s)'
  <2>1. CASE stream'[s] = NoStream
    BY <2>1 DEF StreamOK, NoStream
  <2>2. CASE stream'[s] = stream[s]
    BY <1>1, <2>2 DEF RunInv, StreamOK, NeverFinal
  <2> QED BY <1>2, <2>1, <2>2
<1> QED BY <1>3, <1>4, <1>5 DEF RunInv

\* Whatever the page asks of it, the run manager keeps its invariant.
LEMMA RunsKeep ==
  ASSUME RunSafe, PageInv, [PanelNext]_panelVars
  PROVE  RunSafe'
<1>1. CASE [Next]_vars
  BY <1>1, TypesStep, RunStep, StreamStep DEF RunSafe, RunInv
<1>2. CASE StreamsClose
  BY <1>2, CloseKeeps
<1> QED BY <1>1, <1>2, RunsSee

\* Everything the panel is known to keep.
PanelInv == RunSafe /\ BoardInv /\ LoadInv /\ PageInv

\* It holds whatever the user, the net and the daemon do.
LEMMA PanelAlways == PanelSpec => []PanelInv
<1>1. PanelInit => PanelInv
  <2>1. PanelInit => BoardInv
    BY DEF PanelInit, Init, NewBoard, BoardInv, BoardShaped, Shaped, NoStream
  <2>2. PanelInit => RunSafe
    BY TypesHold, InvInit DEF PanelInit, RunSafe
  <2> QED BY <2>1, <2>2, LoadInit, PageInit DEF PanelInv
<1>2. PanelInv /\ [PanelNext]_panelVars => PanelInv'
  BY RunsKeep, BoardStep, LoadStep, PageStep DEF PanelInv
<1> QED BY <1>1, <1>2, PTL DEF PanelSpec

\* What a page is told of a run is what its engine is doing, whatever tabs are
\* opened and however requests for the same run overtake each other.
THEOREM ToldTheTruth == PanelSpec => []StatusIsHonest
<1>1. PanelInv => StatusIsHonest
  BY HonestByInv DEF PanelInv, RunSafe
<1> QED BY <1>1, PanelAlways, PTL

-----------------------------------------------------------------------------
(* What ends the daemon                                                    *)

\* A step that ends the daemon is of an engine, of a script's bot, it reads a report
\* that is not complete, or a file fails it.
LEMMA EndsBy ==
  ASSUME LoadInv, PanelNext, up, ~up'
  PROVE  \/ \E r \in Runs : Crash(r)
         \/ \E a \in sent["stop"] : Stop(a.run)
         \/ \E a \in sent["script"] : a.bot
         \/ \E a \in sent["open"] : reports[a] = "partial"
         \/ user.fails /\ \E op \in FileOps : sent'[op] # sent[op]
<1> DEFINE Fails == user.fails /\ \E op \in FileOps : sent'[op] # sent[op]
           Goal == \/ \E r \in Runs : Crash(r)
                   \/ \E a \in sent["stop"] : Stop(a.run)
                   \/ \E a \in sent["script"] : a.bot
                   \/ \E a \in sent["open"] : reports[a] = "partial"
                   \/ Fails
<1>0. ASSUME NEW op \in FileOps, NEW a \in sent[op], FileFails(op, a) PROVE Fails
  <2>1. op \in DOMAIN sent
    BY DEF LoadInv, Ops, Reads, Writes, FileOps
  <2>2. user.fails /\ sent' = [sent EXCEPT ![op] = @ \ {a}]
    BY <1>0 DEF FileFails, Drop
  <2>3. sent'[op] = sent[op] \ {a}
    BY <2>1, <2>2
  <2> QED BY <2>2, <2>3
<1> HIDE DEF Fails
<1>1. CASE DaemonStep
  <2>1. ASSUME NEW r \in Runs, Fulfilled(r) \/ Rejected(r) \/ Settle(r) \/ EndsByItself(r) PROVE up' = up
    BY <2>1 DEF Fulfilled, Rejected, Settle, EndsByItself, daemon
  <2>2. ASSUME NEW s \in Streams, Tick(s) PROVE up' = up
    BY <2>2 DEF Tick, daemon
  <2> QED BY <1>1, <2>1, <2>2 DEF DaemonStep
<1>2. ASSUME NEW op \in Reads, ServeRead(op) PROVE Goal
  <2>1. PICK a \in sent[op] : \/ Touches(op, a) /\ FileFails(op, a)
                              \/ op = "open" /\ reports[a] = "partial"
    BY <1>2 DEF ServeRead
  <2>2. Touches(op, a) => op \in FileOps
    BY DEF Touches, FileOps
  <2> QED BY <1>0, <2>1, <2>2
<1>3. CASE ServeStart
  BY <1>3 DEF ServeStart, Start, vars, daemon
<1>4. CASE ServeStop
  BY <1>4 DEF ServeStop, vars, daemon
<1>5. CASE ScriptBotThrows
  BY <1>5 DEF ScriptBotThrows
<1>6. CASE ScriptRefused \/ ScriptConnects \/ ServeScriptEnd \/ Poll \/ Debounce \/ DebounceFires
  BY <1>6 DEF ScriptRefused, ScriptConnects, ServeScriptEnd, Poll, Debounce, DebounceFires, vars, daemon
<1>7. ASSUME ServeSave \/ ServeDelete PROVE Fails
  <2>1. PICK op \in {"save", "delete"} : \E a \in sent[op] : FileFails(op, a)
    BY <1>7 DEF ServeSave, ServeDelete
  <2>2. op \in FileOps
    BY DEF FileOps
  <2> QED BY <1>0, <2>1, <2>2
<1>8. ASSUME NEW op \in Reads \cup Writes, Lost(op) PROVE up' = up
  BY <1>8 DEF Lost, vars, daemon
<1>9. CASE WatchSelected \/ (\E t \in user.uses : OpenTab(t)) \/ \E f \in user.files : Report(f)
  BY <1>9 DEF WatchSelected, OpenTab, Report, vars, daemon
<1>10. ASSUME NEW s \in Streams, Connects(s) \/ Receives(s) \/ Reconnects(s) PROVE up' = up
  BY <1>10 DEF Connects, Receives, Reconnects, Open, vars, daemon
<1>13. CASE Arrives
  BY <1>13 DEF Arrives, ListArrives, StartArrives, StopArrives, VerdictArrives, LoadArrives, StoreArrives,
               ConfigsArrive, HistoryArrives, OpenArrives, ImportArrives, CompileArrives, ScriptArrives,
               vars, daemon
<1>14. CASE Clicks
  <2>1. CASE ClickStart \/ ClickSave \/ ClickRefresh \/ EditGraph \/ ClickCompile \/ ClickRun
    BY <2>1 DEF ClickStart, ClickSave, ClickRefresh, EditGraph, ClickCompile, ClickRun, vars, daemon
  <2>2. ASSUME NEW r \in Runs, ClickStop(r) \/ Select(r) PROVE up' = up
    BY <2>2 DEF ClickStop, Select, vars, daemon
  <2>3. ASSUME NEW n \in Names, Rename(n) \/ ClickLoad(n) \/ ClickDelete(n) PROVE up' = up
    BY <2>3 DEF Rename, ClickLoad, ClickDelete, vars, daemon
  <2>4. CASE (\E t \in Texts : TypeText(t)) \/ (\E v \in Values : FormChange(v))
             \/ (\E f \in Reports : ClickOpen(f)) \/ (\E b \in Blueprints : ClickImport(b))
    BY <2>4 DEF TypeText, FormChange, ClickOpen, ClickImport, vars, daemon
  <2> QED BY <1>9, <1>14, <2>1, <2>2, <2>3, <2>4 DEF Clicks
<1> QED BY <1>1, <1>2, <1>3, <1>4, <1>5, <1>6, <1>7, <1>8, <1>9, <1>10, <1>13, <1>14 DEF PanelNext, Fails

\* While its file system does not fail it, nothing that the panel opens, saves or
\* deletes ends the daemon, for any number of reports that other processes are
\* writing and however lists of them and clicks overtake each other: what a page can
\* ask for has been listed, so it was complete.  Else the step that ends it is of an
\* engine, of a script's bot, or handles a request that calls the file system.
THEOREM OpensHarmlessly == PanelSpec => OpeningIsHarmless
<1>1. ASSUME PanelInv, [PanelNext]_panelVars, up, ~up'
      PROVE  \/ \E r \in Runs : phase[r] \in {"preflight", "waiting"}
             \/ \E a \in sent["script"] : a.bot
             \/ user.fails /\ \E op \in FileOps : sent'[op] # sent[op]
  <2>1. PanelNext
    BY <1>1 DEF panelVars, vars, daemon
  <2>2. ASSUME NEW r \in Runs, Crash(r) PROVE phase[r] = "waiting"
    BY <2>2 DEF Crash
  <2>3. ASSUME NEW a \in sent["stop"], Stop(a.run)
        PROVE  a.run \in Runs /\ phase[a.run] \in {"preflight", "waiting"}
    <3>1. a.run \in Runs
      BY <1>1 DEF PanelInv, PageInv
    <3>2. RunOK(a.run) /\ Callback /\ status[a.run] = "running"
      BY <1>1, <2>3, <3>1 DEF PanelInv, RunSafe, RunInv, Stop, Request
    <3> QED BY <3>1, <3>2, RunningIsAtWork
  <2>4. ASSUME NEW a \in sent["open"], reports[a] = "partial" PROVE FALSE
    BY <1>1, <2>4 DEF PanelInv, PageInv, Done
  <2> QED BY <1>1, <2>1, <2>2, <2>3, <2>4, EndsBy DEF PanelInv
<1>2. PanelInv /\ [PanelNext]_panelVars =>
        [up /\ ~up' => \/ \E r \in Runs : phase[r] \in {"preflight", "waiting"}
                       \/ \E a \in sent["script"] : a.bot
                       \/ user.fails /\ \E op \in FileOps : sent'[op] # sent[op]]_up
  BY <1>1
<1> QED BY <1>2, PanelAlways, PTL DEF PanelSpec, OpeningIsHarmless

-----------------------------------------------------------------------------
(* Blueprints and their graphs                                             *)

\* The loops of graph.ts and run.ts are folds.
Joining == INSTANCE FoldTheory WITH Op <- LAMBDA none, all, s : all \o s
Walking == INSTANCE FoldTheory WITH Op <- LAMBDA g, walk, n : Onward(g, walk)
Ruling == INSTANCE FoldTheory WITH Op <- LAMBDA g, rules, n : WithRuleOf(g, rules, n)
Picking == INSTANCE FoldTheory WITH
  Op <- LAMBDA triggers, rules, r : IF r.on \in triggers THEN Append(rules, r) ELSE rules

\* The folds of Graph are those.
LEMMA GraphsAreFolds ==
  /\ \A ss : Concat(ss) = Joining!Fold(0, <<>>, ss)
  /\ \A g, event : Chain(g, event) = Tail(Walking!Fold(g, <<event>>, g.nodes))
  /\ \A g : GraphToBlueprint(g) = Ruling!Fold(g, <<>>, g.nodes)
  /\ \A b, triggers : RulesOn(b, triggers) = Picking!Fold(triggers, <<>>, b)
<1>1. \A ss : Concat(ss) = Joining!Fold(0, <<>>, ss)
  BY Zenon DEF Concat, Joining!Fold, FoldLeft, Joining!FoldLeft,
               MapThenFoldSet, Joining!MapThenFoldSet, Max, Joining!Max
<1>2. \A g, event : Chain(g, event) = Tail(Walking!Fold(g, <<event>>, g.nodes))
  BY Zenon DEF Chain, Walking!Fold, FoldLeft, Walking!FoldLeft,
               MapThenFoldSet, Walking!MapThenFoldSet, Max, Walking!Max
<1>3. \A g : GraphToBlueprint(g) = Ruling!Fold(g, <<>>, g.nodes)
  BY Zenon DEF GraphToBlueprint, Ruling!Fold, FoldLeft, Ruling!FoldLeft,
               MapThenFoldSet, Ruling!MapThenFoldSet, Max, Ruling!Max
<1>4. \A b, triggers : RulesOn(b, triggers) = Picking!Fold(triggers, <<>>, b)
  BY Zenon DEF RulesOn, Picking!Fold, FoldLeft, Picking!FoldLeft,
               MapThenFoldSet, Picking!MapThenFoldSet, Max, Picking!Max
<1> QED BY <1>1, <1>2, <1>3, <1>4

\* One more sequence is added at the end.
LEMMA ConcatAppend ==
  ASSUME NEW S, NEW ss \in Seq(Seq(S)), NEW s \in Seq(S)
  PROVE  Concat(Append(ss, s)) = Concat(ss) \o s
<1>1. Joining!Fold(0, <<>>, Append(ss, s)) = Joining!Fold(0, <<>>, ss) \o s
  BY Joining!FoldAppend
<1> QED BY <1>1, GraphsAreFolds

\* What is put one after the other is of the same kind.
LEMMA ConcatTyped ==
  ASSUME NEW S, NEW ss \in Seq(Seq(S))
  PROVE  Concat(ss) \in Seq(S)
<1>1. \A v \in Seq(S), s \in Seq(S) : v \o s \in Seq(S)
  BY ConcatProperties
<1>2. <<>> \in Seq(S)
  BY EmptySeq
<1>3. Joining!Fold(0, <<>>, ss) \in Seq(S)
  BY <1>1, <1>2, Joining!FoldStays
<1> QED BY <1>3, GraphsAreFolds

\* The elements of two sequences, and of one that is longer by one.
LEMMA ElementsOfConcat ==
  ASSUME NEW S, NEW s \in Seq(S), NEW t \in Seq(S)
  PROVE  ToSet(s \o t) = ToSet(s) \cup ToSet(t)
<1> DEFINE u == s \o t
<1>1. /\ u \in Seq(S) /\ Len(u) = Len(s) + Len(t)
      /\ \A i \in 1 .. Len(s) + Len(t) : u[i] = IF i <= Len(s) THEN s[i] ELSE t[i - Len(s)]
  BY ConcatProperties
<1>2. /\ Len(s) \in Nat /\ Len(t) \in Nat
      /\ DOMAIN u = 1..Len(u) /\ DOMAIN s = 1..Len(s) /\ DOMAIN t = 1..Len(t)
  BY <1>1, LenProperties
<1> HIDE DEF u
<1>3. \A i \in DOMAIN s : i \in DOMAIN u /\ u[i] = s[i]
  BY <1>1, <1>2
<1>4. \A i \in DOMAIN t : i + Len(s) \in DOMAIN u /\ u[i + Len(s)] = t[i]
  BY <1>1, <1>2
<1>5. \A i \in DOMAIN u : i \in DOMAIN s \/ i - Len(s) \in DOMAIN t
  BY <1>1, <1>2
<1>6. ToSet(s) \cup ToSet(t) \subseteq ToSet(u)
  BY <1>3, <1>4 DEF ToSet
<1>7. ASSUME NEW x \in ToSet(u) PROVE x \in ToSet(s) \cup ToSet(t)
  <2>1. PICK i \in DOMAIN u : x = u[i]
    BY DEF ToSet
  <2>2. CASE i \in DOMAIN s
    BY <1>3, <2>1, <2>2 DEF ToSet
  <2>3. CASE i - Len(s) \in DOMAIN t
    <3>1. u[i] = t[i - Len(s)]
      BY <1>1, <1>2, <2>3
    <3> QED BY <2>1, <2>3, <3>1 DEF ToSet
  <2> QED BY <1>5, <2>1, <2>2, <2>3
<1> QED BY <1>6, <1>7 DEF u

\* What is put one after the other are the elements of all of them, and it is at
\* least as long as each.
LEMMA ConcatHas ==
  ASSUME NEW S
  PROVE  \A ss \in Seq(Seq(S)) :
           /\ ToSet(Concat(ss)) = UNION {ToSet(ss[i]) : i \in DOMAIN ss}
           /\ \A i \in DOMAIN ss : Len(ss[i]) <= Len(Concat(ss))
<1> DEFINE T == {ss \in Seq(Seq(S)) :
                   /\ ToSet(Concat(ss)) = UNION {ToSet(ss[i]) : i \in DOMAIN ss}
                   /\ \A i \in DOMAIN ss : Len(ss[i]) <= Len(Concat(ss))}
<1>1. <<>> \in T
  <2>1. Concat(<<>>) = <<>>
    BY GraphsAreFolds, Joining!FoldEmpty
  <2>2. DOMAIN <<>> = {}
    OBVIOUS
  <2> QED BY <2>1, <2>2, EmptySeq DEF ToSet
<1>2. ASSUME NEW ss \in Seq(Seq(S)), NEW s \in Seq(S), ss \in T PROVE Append(ss, s) \in T
  <2> DEFINE tt == Append(ss, s)
             c == Concat(ss)
  <2>1. Concat(tt) = c \o s /\ c \in Seq(S)
    BY ConcatAppend, ConcatTyped
  <2>2. ToSet(Concat(tt)) = ToSet(c) \cup ToSet(s)
    <3> HIDE DEF c, tt
    <3> QED BY <2>1, ElementsOfConcat
  <2>3. Len(Concat(tt)) = Len(c) + Len(s) /\ Len(c) \in Nat /\ Len(s) \in Nat
    <3> HIDE DEF c, tt
    <3> QED BY <2>1, ConcatProperties, LenProperties
  <2>4. /\ tt \in Seq(Seq(S)) /\ Len(tt) = Len(ss) + 1 /\ tt[Len(ss) + 1] = s
        /\ \A i \in 1..Len(ss) : tt[i] = ss[i]
    BY AppendProperties
  <2>5. DOMAIN tt = 1..(Len(ss) + 1) /\ DOMAIN ss = 1..Len(ss) /\ Len(ss) \in Nat
    <3> HIDE DEF tt
    <3> QED BY <2>4, LenProperties
  <2> HIDE DEF tt
  <2>6. \A i \in DOMAIN tt : (i \in DOMAIN ss /\ tt[i] = ss[i]) \/ tt[i] = s
    BY <2>4, <2>5
  <2>7. UNION {ToSet(tt[i]) : i \in DOMAIN tt} = (UNION {ToSet(ss[i]) : i \in DOMAIN ss}) \cup ToSet(s)
    <3>1. \A i \in DOMAIN ss : i \in DOMAIN tt /\ tt[i] = ss[i]
      BY <2>4, <2>5
    <3>2. Len(ss) + 1 \in DOMAIN tt /\ tt[Len(ss) + 1] = s
      BY <2>4, <2>5
    <3>3. \A i \in DOMAIN tt : ToSet(tt[i]) \subseteq (UNION {ToSet(ss[j]) : j \in DOMAIN ss}) \cup ToSet(s)
      BY <2>6
    <3>4. \A i \in DOMAIN ss : ToSet(ss[i]) \subseteq UNION {ToSet(tt[j]) : j \in DOMAIN tt}
      BY <3>1
    <3>5. ToSet(s) \subseteq UNION {ToSet(tt[j]) : j \in DOMAIN tt}
      BY <3>2
    <3> QED BY <3>3, <3>4, <3>5
  <2>8. ASSUME NEW i \in DOMAIN tt PROVE Len(tt[i]) <= Len(Concat(tt))
    <3>1. CASE i \in DOMAIN ss /\ tt[i] = ss[i]
      <4>1. Len(ss[i]) <= Len(c) /\ ss[i] \in Seq(S)
        BY <1>2, <2>5, <3>1, ElementOfSeq
      <4>2. Len(ss[i]) \in Nat
        BY <4>1, LenProperties
      <4> QED BY <2>3, <3>1, <4>1, <4>2
    <3>2. CASE tt[i] = s
      BY <2>3, <3>2
    <3> QED BY <2>6, <3>1, <3>2
  <2>9. ToSet(c) = UNION {ToSet(ss[i]) : i \in DOMAIN ss}
    BY <1>2
  <2> QED BY <2>2, <2>4, <2>7, <2>8, <2>9 DEF tt
<1>3. \A ss \in Seq(Seq(S)) : ss \in T
  <2> HIDE DEF T
  <2> QED BY <1>1, <1>2, Joining!SeqInduction
<1> QED BY <1>3

\* The nodes and edges of a blueprint, by their places.
EventNode(b, i) == [id |-> <<i, 0>>, kind |-> "event", type |-> b[i].on, arg |-> "none"]
ActionNode(b, i, j) == [id |-> <<i, j>>, kind |-> "action", type |-> b[i].actions[j].type,
                        arg |-> b[i].actions[j].arg]
ActionNodes(b, i) == [j \in DOMAIN b[i].actions |-> ActionNode(b, i, j)]
WireTo(i, j) == [source |-> <<i, j - 1>>, target |-> <<i, j>>]
RowOfNodes(b, i) == {EventNode(b, i)} \cup {ActionNode(b, i, j) : j \in DOMAIN b[i].actions}
RowOfEdges(b, i) == {WireTo(i, j) : j \in DOMAIN b[i].actions}
Nodes(b) == UNION {RowOfNodes(b, i) : i \in DOMAIN b}
Edges(b) == UNION {RowOfEdges(b, i) : i \in DOMAIN b}

\* A rule of a blueprint, and an action of it.
LEMMA RuleTyped ==
  ASSUME NEW b \in BlueprintType, NEW i \in DOMAIN b
  PROVE  /\ i \in Nat /\ b[i] \in RuleType
         /\ DOMAIN b[i].actions = 1..Len(b[i].actions) /\ Len(b[i].actions) \in Nat
         /\ \A j \in DOMAIN b[i].actions : b[i].actions[j] \in ActionType
<1>1. DOMAIN b = 1..Len(b) /\ Len(b) \in Nat
  BY LenProperties DEF BlueprintType
<1>2. i \in Nat
  BY <1>1
<1>3. b[i] \in RuleType
  BY <1>1, ElementOfSeq DEF BlueprintType
<1>4. b[i].actions \in Seq(ActionType)
  BY <1>3 DEF RuleType
<1> DEFINE a == b[i].actions
<1> HIDE DEF a
<1>5. a \in Seq(ActionType)
  BY <1>4 DEF a
<1>6. DOMAIN a = 1..Len(a) /\ Len(a) \in Nat /\ \A j \in DOMAIN a : a[j] \in ActionType
  BY <1>5, LenProperties, ElementOfSeq
<1> QED BY <1>2, <1>3, <1>6 DEF a

\* An action is its type and its argument.
LEMMA ActionIs ==
  ASSUME NEW a \in ActionType
  PROVE  /\ a = [type |-> a.type, arg |-> a.arg]
         /\ a.type \notin WithFields => a.arg = "none"
         /\ a.type \notin WithFields /\ a.type \notin Outcomes => a.type = "stop"
<1>1. CASE a \in [type : WithFields, arg : STRING]
  <2>1. a.type \in WithFields /\ a = [type |-> a.type, arg |-> a.arg]
    BY <1>1
  <2> QED BY <2>1
<1>2. CASE a \in [type : {"stop"} \cup Outcomes, arg : {"none"}]
  <2>1. a.arg = "none" /\ a.type \in {"stop"} \cup Outcomes
    BY <1>2
  <2>2. a = [type |-> a.type, arg |-> a.arg]
    BY <1>2
  <2> QED BY <2>1, <2>2
<1> QED BY <1>1, <1>2 DEF ActionType

\* A row of the graph is an event node, then the nodes of its actions.
LEMMA RowIs ==
  ASSUME NEW b \in BlueprintType, NEW i \in DOMAIN b
  PROVE  /\ RowNodes(b, i) = <<EventNode(b, i)>> \o ActionNodes(b, i)
         /\ <<EventNode(b, i)>> \in Seq(Nodes(b))
         /\ ActionNodes(b, i) \in Seq(Nodes(b)) /\ Len(ActionNodes(b, i)) = Len(b[i].actions)
         /\ RowNodes(b, i) \in Seq(Nodes(b))
<1> DEFINE n == Len(b[i].actions)
<1>1. DOMAIN b[i].actions = 1..n /\ n \in Nat
  BY RuleTyped
<1> HIDE DEF n
<1>2. RowNodes(b, i) = <<EventNode(b, i)>> \o ActionNodes(b, i)
  BY DEF RowNodes, EventNode, ActionNodes, ActionNode
<1>3. EventNode(b, i) \in Nodes(b)
  BY DEF Nodes, RowOfNodes
<1>4. \A j \in 1..n : ActionNode(b, i, j) \in Nodes(b)
  BY <1>1 DEF Nodes, RowOfNodes
<1>5. ActionNodes(b, i) \in [1..n -> Nodes(b)]
  BY <1>1, <1>4 DEF ActionNodes
<1>6. ActionNodes(b, i) \in Seq(Nodes(b)) /\ Len(ActionNodes(b, i)) = n
  BY <1>1, <1>5, SeqDef, LenProperties
<1>7. <<EventNode(b, i)>> \in Seq(Nodes(b))
  BY <1>3
<1> DEFINE e == <<EventNode(b, i)>>
           a == ActionNodes(b, i)
<1>8. e \o a \in Seq(Nodes(b))
  <2>1. e \in Seq(Nodes(b)) /\ a \in Seq(Nodes(b))
    BY <1>6, <1>7
  <2> HIDE DEF e, a
  <2> QED BY <2>1, ConcatProperties
<1> QED BY <1>2, <1>6, <1>7, <1>8 DEF n

\* The rows of nodes, and of edges.
LEMMA RowsTyped ==
  ASSUME NEW b \in BlueprintType
  PROVE  /\ [i \in DOMAIN b |-> RowNodes(b, i)] \in Seq(Seq(Nodes(b)))
         /\ [i \in DOMAIN b |-> RowEdges(b, i)] \in Seq(Seq(Edges(b)))
<1>1. DOMAIN b = 1..Len(b) /\ Len(b) \in Nat
  BY LenProperties DEF BlueprintType
<1>2. \A i \in DOMAIN b : RowNodes(b, i) \in Seq(Nodes(b))
  BY RowIs
<1>3. ASSUME NEW i \in DOMAIN b PROVE RowEdges(b, i) \in Seq(Edges(b))
  <2> DEFINE n == Len(b[i].actions)
  <2>1. DOMAIN b[i].actions = 1..n /\ n \in Nat
    BY RuleTyped
  <2> HIDE DEF n
  <2>2. \A j \in 1..n : WireTo(i, j) \in Edges(b)
    <3>1. \A j \in 1..n : WireTo(i, j) \in RowOfEdges(b, i)
      BY <2>1 DEF RowOfEdges
    <3> QED BY <3>1 DEF Edges
  <2>3. RowEdges(b, i) \in [1..n -> Edges(b)]
    BY <2>1, <2>2 DEF RowEdges, WireTo
  <2> QED BY <2>1, <2>3, SeqDef
<1>4. [i \in DOMAIN b |-> RowNodes(b, i)] \in [1..Len(b) -> Seq(Nodes(b))]
  BY <1>1, <1>2
<1>5. [i \in DOMAIN b |-> RowEdges(b, i)] \in [1..Len(b) -> Seq(Edges(b))]
  BY <1>1, <1>3
<1>6. [i \in DOMAIN b |-> RowNodes(b, i)] \in Seq(Seq(Nodes(b)))
  BY <1>1, <1>4, SeqDef
<1>7. [i \in DOMAIN b |-> RowEdges(b, i)] \in Seq(Seq(Edges(b)))
  BY <1>1, <1>5, SeqDef
<1> QED BY <1>6, <1>7

\* The graph of a blueprint has these nodes and no others.
LEMMA NodesAre ==
  ASSUME NEW b \in BlueprintType, NEW g, g = BlueprintToGraph(b)
  PROVE  /\ g.nodes \in Seq(Nodes(b)) /\ ToSet(g.nodes) = Nodes(b)
         /\ \A i \in DOMAIN b : Len(b[i].actions) < Len(g.nodes)
<1> DEFINE rows == [i \in DOMAIN b |-> RowNodes(b, i)]
<1>1. rows \in Seq(Seq(Nodes(b))) /\ DOMAIN rows = DOMAIN b /\ \A i \in DOMAIN b : rows[i] = RowNodes(b, i)
  BY RowsTyped
<1>2. g.nodes = Concat(rows)
  BY DEF BlueprintToGraph
<1> HIDE DEF rows
<1>3. g.nodes \in Seq(Nodes(b))
  BY <1>1, <1>2, ConcatTyped
<1>4. /\ ToSet(g.nodes) = UNION {ToSet(rows[i]) : i \in DOMAIN rows}
      /\ \A i \in DOMAIN rows : Len(rows[i]) <= Len(g.nodes)
  BY <1>1, <1>2, ConcatHas
<1>5. ASSUME NEW i \in DOMAIN b
      PROVE  ToSet(rows[i]) = RowOfNodes(b, i) /\ Len(rows[i]) = Len(b[i].actions) + 1
  <2> DEFINE e == <<EventNode(b, i)>>
             a == ActionNodes(b, i)
  <2>1. e \in Seq(Nodes(b)) /\ a \in Seq(Nodes(b)) /\ rows[i] = e \o a /\ Len(a) = Len(b[i].actions)
    BY <1>1, RowIs
  <2>2. ToSet(e) = {EventNode(b, i)} /\ Len(e) = 1
    BY DEF ToSet
  <2>3. ToSet(a) = {ActionNode(b, i, j) : j \in DOMAIN b[i].actions}
    BY DEF ToSet, ActionNodes
  <2> HIDE DEF e, a
  <2>4. ToSet(e \o a) = ToSet(e) \cup ToSet(a)
    BY <2>1, ElementsOfConcat
  <2>6. Len(e \o a) = Len(e) + Len(a)
    BY <2>1, ConcatProperties
  <2>5. Len(b[i].actions) \in Nat
    BY RuleTyped
  <2> QED BY <2>1, <2>2, <2>3, <2>4, <2>5, <2>6 DEF RowOfNodes
<1>6. ToSet(g.nodes) = Nodes(b)
  BY <1>1, <1>4, <1>5 DEF Nodes
<1>7. ASSUME NEW i \in DOMAIN b PROVE Len(b[i].actions) < Len(g.nodes)
  <2>1. Len(rows[i]) <= Len(g.nodes) /\ Len(rows[i]) = Len(b[i].actions) + 1
    BY <1>1, <1>4, <1>5
  <2>2. Len(b[i].actions) \in Nat /\ Len(g.nodes) \in Nat
    BY <1>3, RuleTyped, LenProperties
  <2> QED BY <2>1, <2>2
<1> QED BY <1>3, <1>6, <1>7

\* And these edges.
LEMMA EdgesAre ==
  ASSUME NEW b \in BlueprintType, NEW g, g = BlueprintToGraph(b)
  PROVE  g.edges \in Seq(Edges(b)) /\ ToSet(g.edges) = Edges(b)
<1> DEFINE rows == [i \in DOMAIN b |-> RowEdges(b, i)]
<1>1. rows \in Seq(Seq(Edges(b))) /\ DOMAIN rows = DOMAIN b /\ \A i \in DOMAIN b : rows[i] = RowEdges(b, i)
  BY RowsTyped
<1>2. g.edges = Concat(rows)
  BY DEF BlueprintToGraph
<1> HIDE DEF rows
<1>3. g.edges \in Seq(Edges(b))
  BY <1>1, <1>2, ConcatTyped
<1>4. ToSet(g.edges) = UNION {ToSet(rows[i]) : i \in DOMAIN rows}
  BY <1>1, <1>2, ConcatHas
<1>5. \A i \in DOMAIN b : ToSet(RowEdges(b, i)) = RowOfEdges(b, i)
  BY DEF ToSet, RowEdges, RowOfEdges, WireTo
<1>6. ToSet(g.edges) = Edges(b)
  BY <1>1, <1>4, <1>5 DEF Edges
<1> QED BY <1>3, <1>6

\* The first place of a sequence of elements that pass a test is of such an element.
LEMMA Selected ==
  ASSUME NEW S, NEW s \in Seq(S), NEW t \in SUBSET (1..Len(s)), NEW at,
         at = IF t # {} THEN Min(t) ELSE 0
  PROVE  (at = 0 /\ t = {}) \/ (at \in t /\ at # 0)
<1>1. t \subseteq Nat /\ 0 \notin t
  OBVIOUS
<1>2. CASE t # {}
  <2>1. Joining!Min(t) \in t
    BY <1>1, <1>2, Joining!LeastIs
  <2>2. Min(t) = Joining!Min(t)
    BY Zenon DEF Min, Joining!Min
  <2> QED BY <1>1, <1>2, <2>1, <2>2
<1>3. CASE t = {}
  BY <1>3
<1> QED BY <1>2, <1>3

\* An edge that leaves a node of a row leads to the one after it.
LEMMA EdgeFrom ==
  ASSUME NEW b \in BlueprintType, NEW i \in DOMAIN b, NEW j \in 0..Len(b[i].actions)
  PROVE  /\ \A e \in Edges(b) : e.source = <<i, j>> =>
                j < Len(b[i].actions) /\ e.target = <<i, j + 1>>
         /\ j < Len(b[i].actions) => \E e \in Edges(b) : e.source = <<i, j>>
<1> DEFINE n == Len(b[i].actions)
<1>1. DOMAIN b[i].actions = 1..n /\ n \in Nat
  BY RuleTyped
<1> HIDE DEF n
<1>2. ASSUME NEW e \in Edges(b), e.source = <<i, j>> PROVE j < n /\ e.target = <<i, j + 1>>
  <2>1. PICK x \in DOMAIN b : e \in RowOfEdges(b, x)
    BY DEF Edges
  <2>2. PICK y \in DOMAIN b[x].actions : e = WireTo(x, y)
    BY <2>1 DEF RowOfEdges
  <2>3. y \in 1..Len(b[x].actions)
    BY <2>2, RuleTyped
  <2>4. x = i /\ y - 1 = j /\ e.target = <<x, y>>
    BY <1>2, <2>2 DEF WireTo
  <2>5. y \in 1..n /\ y = j + 1
    BY <1>1, <2>3, <2>4 DEF n
  <2> QED BY <1>1, <2>4, <2>5
<1>3. ASSUME j < n PROVE \E e \in Edges(b) : e.source = <<i, j>>
  <2>1. j + 1 \in DOMAIN b[i].actions /\ (j + 1) - 1 = j
    BY <1>1, <1>3 DEF n
  <2>2. WireTo(i, j + 1) \in RowOfEdges(b, i)
    BY <2>1 DEF RowOfEdges
  <2>3. WireTo(i, j + 1).source = <<i, j>>
    BY <2>1 DEF WireTo
  <2>4. WireTo(i, j + 1) \in Edges(b)
    BY <2>2 DEF Edges
  <2> QED BY <2>3, <2>4
<1> QED BY <1>2, <1>3 DEF n

\* What comes after a node of a row.
LEMMA NextIs ==
  ASSUME NEW b \in BlueprintType, NEW i \in DOMAIN b, NEW j \in 0..Len(b[i].actions)
  PROVE  NextOf(BlueprintToGraph(b), <<i, j>>) =
           IF j < Len(b[i].actions) THEN <<i, j + 1>> ELSE NoNode
<1> DEFINE edges == BlueprintToGraph(b).edges
           out == SelectInSeq(edges, LAMBDA e : e.source = <<i, j>>)
           t == {k \in 1..Len(edges) : edges[k].source = <<i, j>>}
<1>1. edges \in Seq(Edges(b)) /\ ToSet(edges) = Edges(b)
  BY EdgesAre
<1>2. NextOf(BlueprintToGraph(b), <<i, j>>) = IF out = 0 THEN NoNode ELSE edges[out].target
  BY DEF NextOf
<1>3. out = IF t # {} THEN Min(t) ELSE 0
  BY DEF SelectInSeq
<1> HIDE DEF edges, out
<1>4. \A k \in 1..Len(edges) : edges[k] \in Edges(b)
  BY <1>1, ElementOfSeq
<1>5. (out = 0 /\ t = {}) \/ (out \in t /\ out # 0)
  <2>1. t \in SUBSET (1..Len(edges))
    OBVIOUS
  <2> HIDE DEF t
  <2> QED BY <1>1, <1>3, <2>1, Selected
<1>6. CASE j < Len(b[i].actions)
  <2>1. PICK e \in Edges(b) : e.source = <<i, j>>
    BY <1>6, EdgeFrom
  <2>2. PICK k \in DOMAIN edges : edges[k] = e
    BY <1>1 DEF ToSet
  <2>3. k \in t
    BY <1>1, <2>1, <2>2, LenProperties
  <2>4. out \in t /\ out # 0
    BY <1>5, <2>3
  <2>5. edges[out] \in Edges(b) /\ edges[out].source = <<i, j>>
    BY <1>4, <2>4
  <2>6. edges[out].target = <<i, j + 1>>
    BY <2>5, EdgeFrom
  <2> QED BY <1>2, <1>6, <2>4, <2>6
<1>7. CASE ~(j < Len(b[i].actions))
  <2>1. t = {}
    <3>1. \A e \in Edges(b) : e.source # <<i, j>>
      BY <1>7, EdgeFrom
    <3> QED BY <1>4, <3>1
  <2>2. out = 0
    BY <1>5, <2>1
  <2> QED BY <1>2, <1>7, <2>2
<1> QED BY <1>6, <1>7

\* An action node is that of its place.
LEMMA ActionIn ==
  ASSUME NEW b \in BlueprintType, NEW x \in Nodes(b), x.kind = "action"
  PROVE  \E i \in DOMAIN b : \E j \in DOMAIN b[i].actions : x = ActionNode(b, i, j) /\ x.id = <<i, j>>
<1>1. PICK i \in DOMAIN b : x \in RowOfNodes(b, i)
  BY DEF Nodes
<1>2. x # EventNode(b, i)
  BY DEF EventNode
<1>3. PICK j \in DOMAIN b[i].actions : x = ActionNode(b, i, j)
  BY <1>1, <1>2 DEF RowOfNodes
<1> QED BY <1>3 DEF ActionNode

\* There is an action node for every place.
LEMMA ActionThere ==
  ASSUME NEW b \in BlueprintType, NEW nodes, nodes = BlueprintToGraph(b).nodes,
         NEW i \in DOMAIN b, NEW j \in DOMAIN b[i].actions
  PROVE  \E at \in 1..Len(nodes) : nodes[at].id = <<i, j>> /\ nodes[at].kind = "action"
<1>1. nodes \in Seq(Nodes(b)) /\ ToSet(nodes) = Nodes(b)
  BY NodesAre
<1>2. ActionNode(b, i, j) \in ToSet(nodes)
  <2>1. ActionNode(b, i, j) \in RowOfNodes(b, i)
    BY DEF RowOfNodes
  <2> QED BY <1>1, <2>1 DEF Nodes
<1>3. PICK at \in DOMAIN nodes : nodes[at] = ActionNode(b, i, j)
  BY <1>2 DEF ToSet
<1>4. nodes[at].id = <<i, j>> /\ nodes[at].kind = "action"
  BY <1>3 DEF ActionNode
<1>5. at \in 1..Len(nodes)
  BY <1>1, LenProperties
<1> QED BY <1>4, <1>5

\* And it is what its place says.
LEMMA ActionAt ==
  ASSUME NEW b \in BlueprintType, NEW nodes, nodes = BlueprintToGraph(b).nodes,
         NEW at \in 1..Len(nodes), nodes[at].kind = "action",
         NEW i \in DOMAIN b, NEW j \in DOMAIN b[i].actions, nodes[at].id = <<i, j>>
  PROVE  nodes[at] = ActionNode(b, i, j)
<1>1. nodes \in Seq(Nodes(b))
  BY NodesAre
<1>2. nodes[at] \in Nodes(b)
  BY <1>1, ElementOfSeq
<1>3. PICK x \in DOMAIN b : \E y \in DOMAIN b[x].actions :
        nodes[at] = ActionNode(b, x, y) /\ nodes[at].id = <<x, y>>
  BY <1>2, ActionIn
<1>4. PICK y \in DOMAIN b[x].actions : nodes[at] = ActionNode(b, x, y) /\ nodes[at].id = <<x, y>>
  BY <1>3
<1>5. x = i /\ y = j
  BY <1>4
<1> QED BY <1>4, <1>5

\* No action is without a place.
LEMMA ActionHasPlace ==
  ASSUME NEW b \in BlueprintType, NEW nodes, nodes = BlueprintToGraph(b).nodes,
         NEW at \in 1..Len(nodes), nodes[at].kind = "action"
  PROVE  nodes[at].id # NoNode
<1>1. nodes \in Seq(Nodes(b))
  BY NodesAre
<1>2. nodes[at] \in Nodes(b)
  BY <1>1, ElementOfSeq
<1>3. PICK i \in DOMAIN b : \E j \in DOMAIN b[i].actions : nodes[at].id = <<i, j>>
  BY <1>2, ActionIn
<1>4. PICK j \in DOMAIN b[i].actions : nodes[at].id = <<i, j>>
  BY <1>3
<1>5. <<i, j>> # <<>>
  <2>1. Len(<<i, j>>) = 2 /\ Len(<<>>) = 0
    OBVIOUS
  <2> QED BY <2>1, Zenon
<1> QED BY <1>4, <1>5 DEF NoNode

\* A walk along a row, up to an action.
Walk(b, i, k) == [m \in 1..(k + 1) |-> IF m = 1 THEN EventNode(b, i) ELSE ActionNode(b, i, m - 1)]

LEMMA WalkIs ==
  ASSUME NEW b \in BlueprintType, NEW i \in DOMAIN b, NEW k \in 0..Len(b[i].actions)
  PROVE  /\ Walk(b, i, k) \in Seq(Nodes(b)) /\ Last(Walk(b, i, k)).id = <<i, k>>
         /\ \A x \in ToSet(Walk(b, i, k)) : \E m \in 0..k : x.id = <<i, m>>
         /\ Walk(b, i, 0) = <<EventNode(b, i)>>
         /\ k < Len(b[i].actions) =>
              Append(Walk(b, i, k), ActionNode(b, i, k + 1)) = Walk(b, i, k + 1)
<1> DEFINE n == Len(b[i].actions)
           f == [m \in 1..(n + 1) |-> IF m = 1 THEN EventNode(b, i) ELSE ActionNode(b, i, m - 1)]
           w == Walk(b, i, k)
<1>1. DOMAIN b[i].actions = 1..n /\ n \in Nat
  BY RuleTyped
<1> HIDE DEF n
<1>2. k \in Nat /\ k <= n
  BY <1>1 DEF n
<1>3. ASSUME NEW m \in 1..(n + 1) PROVE f[m] \in Nodes(b)
  <2>1. m = 1 \/ m - 1 \in DOMAIN b[i].actions
    BY <1>1
  <2>2. f[m] \in RowOfNodes(b, i)
    BY <2>1 DEF RowOfNodes
  <2> QED BY <2>2 DEF Nodes
<1>4. w = [m \in 1..(k + 1) |-> f[m]]
  BY <1>1, <1>2 DEF Walk
<1>5. \A m \in 1..(k + 1) : f[m] \in Nodes(b)
  BY <1>1, <1>2, <1>3
<1>6. w \in [1..(k + 1) -> Nodes(b)]
  <2> HIDE DEF f, w
  <2> QED BY <1>4, <1>5
<1>7. w \in Seq(Nodes(b)) /\ Len(w) = k + 1
  <2>1. w \in Seq(Nodes(b))
    BY <1>2, <1>6, SeqDef
  <2> QED BY <1>2, <1>6, <2>1, LenProperties
<1>8. \A m \in 1..(k + 1) : w[m].id = <<i, m - 1>>
  BY <1>2 DEF Walk, EventNode, ActionNode
<1>9. Last(w).id = <<i, k>>
  BY <1>2, <1>7, <1>8 DEF Last
<1>10. ASSUME NEW x \in ToSet(w) PROVE \E m \in 0..k : x.id = <<i, m>>
  <2>1. PICK m \in 1..(k + 1) : x = w[m]
    BY <1>6 DEF ToSet
  <2> QED BY <1>2, <1>8, <2>1
<1>11. Walk(b, i, 0) = <<EventNode(b, i)>>
  BY DEF Walk
<1>12. ASSUME k < n PROVE Append(w, ActionNode(b, i, k + 1)) = Walk(b, i, k + 1)
  <2>1. \A m \in 1..((k + 1) + 1) : f[m] \in Nodes(b)
    BY <1>1, <1>2, <1>3, <1>12
  <2>2. Walk(b, i, k + 1) = [m \in 1..((k + 1) + 1) |-> f[m]]
    BY <1>1, <1>2, <1>12 DEF Walk
  <2>3. f[(k + 1) + 1] = ActionNode(b, i, k + 1)
    BY <1>1, <1>2, <1>12
  <2> HIDE DEF f, w
  <2>4. [m \in 1..((k + 1) + 1) |-> f[m]] = Append([m \in 1..(k + 1) |-> f[m]], f[(k + 1) + 1])
    BY <1>2, <2>1, Joining!PrefixGrows
  <2> QED BY <1>4, <2>2, <2>3, <2>4
<1> HIDE DEF f, w
<1> QED BY <1>7, <1>9, <1>10, <1>11, <1>12 DEF n, w

\* A step of a walk along a row.
LEMMA OnwardIs ==
  ASSUME NEW b \in BlueprintType, NEW i \in DOMAIN b, NEW k \in 0..Len(b[i].actions)
  PROVE  Onward(BlueprintToGraph(b), Walk(b, i, k)) =
           Walk(b, i, IF k < Len(b[i].actions) THEN k + 1 ELSE k)
<1> DEFINE g == BlueprintToGraph(b)
           n == Len(b[i].actions)
           w == Walk(b, i, k)
           id == NextOf(g, Last(w).id)
           at == SelectInSeq(g.nodes, LAMBDA x : x.id = id /\ x.kind = "action")
<1>1. DOMAIN b[i].actions = 1..n /\ n \in Nat
  BY RuleTyped
<1>2. /\ Last(w).id = <<i, k>>
      /\ \A x \in ToSet(w) : \E m \in 0..k : x.id = <<i, m>>
      /\ k < n => Append(w, ActionNode(b, i, k + 1)) = Walk(b, i, k + 1)
  BY WalkIs
<1>3. NextOf(g, <<i, k>>) = IF k < n THEN <<i, k + 1>> ELSE NoNode
  BY NextIs
<1>4. id = IF k < n THEN <<i, k + 1>> ELSE NoNode
  BY <1>2, <1>3
<1>5. Onward(g, w) = IF at = 0 \/ \E x \in ToSet(w) : x.id = id THEN w ELSE Append(w, g.nodes[at])
  BY DEF Onward
<1> DEFINE nodes == g.nodes
           t == {m \in 1..Len(nodes) : nodes[m].id = id /\ nodes[m].kind = "action"}
<1>6. at = IF t # {} THEN Min(t) ELSE 0
  BY DEF SelectInSeq
<1>7. nodes \in Seq(Nodes(b)) /\ nodes = BlueprintToGraph(b).nodes
  BY NodesAre
<1>8. /\ t \in SUBSET (1..Len(nodes))
      /\ \A m \in 1..Len(nodes) : m \in t <=> nodes[m].id = id /\ nodes[m].kind = "action"
  OBVIOUS
<1> HIDE DEF n, w, id, at, nodes, t
<1>9. (at = 0 /\ t = {}) \/ (at \in t /\ at # 0)
  BY <1>6, <1>7, <1>8, Selected
<1>10. CASE k < n
  <2> DEFINE j == k + 1
  <2>1. id = <<i, j>> /\ j \in DOMAIN b[i].actions
    BY <1>1, <1>4, <1>10 DEF n
  <2> HIDE DEF g, j
  <2>2. \A m \in 1..Len(nodes) : m \in t <=> nodes[m].id = <<i, j>> /\ nodes[m].kind = "action"
    BY <1>8, <2>1
  <2>3. at # 0 /\ nodes[at] = ActionNode(b, i, j)
    <3>1. nodes = BlueprintToGraph(b).nodes
      BY <1>7
    <3>2. PICK x \in 1..Len(nodes) : nodes[x].id = <<i, j>> /\ nodes[x].kind = "action"
      BY <2>1, <3>1, ActionThere
    <3>3. at \in t /\ at # 0
      BY <1>9, <2>2, <3>2
    <3>4. at \in 1..Len(nodes) /\ nodes[at].id = <<i, j>> /\ nodes[at].kind = "action"
      BY <1>8, <2>2, <3>3
    <3> QED BY <2>1, <3>1, <3>3, <3>4, ActionAt
  <2>4. at # 0 /\ nodes[at] = ActionNode(b, i, k + 1)
    BY <2>3 DEF j
  <2>5. \A m \in 0..k : <<i, m>> # id
    BY <2>1 DEF j
  <2>6. ~\E x \in ToSet(w) : x.id = id
    BY <1>2, <2>5
  <2>7. Onward(g, w) = Walk(b, i, k + 1)
    BY <1>2, <1>5, <1>10, <2>4, <2>6 DEF nodes
  <2> QED BY <1>10, <2>7 DEF g, w, n
<1>11. CASE ~(k < n)
  <2>1. t = {}
    <3>1. \A m \in t : FALSE
      BY <1>4, <1>7, <1>8, <1>11, ActionHasPlace
    <3> QED BY <3>1
  <2>2. Onward(g, w) = w
    BY <1>5, <1>9, <2>1
  <2> QED BY <1>11, <2>2 DEF g, w, n
<1> QED BY <1>10, <1>11

\* The actions wired after an event are those of its rule.
LEMMA ChainIs ==
  ASSUME NEW b \in BlueprintType, NEW i \in DOMAIN b
  PROVE  Chain(BlueprintToGraph(b), EventNode(b, i)) = ActionNodes(b, i)
<1> DEFINE g == BlueprintToGraph(b)
           n == Len(b[i].actions)
           S == Nodes(b)
           Seen(l) == IF l < n THEN l ELSE n
           T == {s \in Seq(S) : Walking!Fold(g, <<EventNode(b, i)>>, s) = Walk(b, i, Seen(Len(s)))}
<1>1. DOMAIN b[i].actions = 1..n /\ n \in Nat
  BY RuleTyped
<1> HIDE DEF n
<1>2. <<>> \in T
  <2>1. 0 \in 0..n
    BY <1>1
  <2>2. Walk(b, i, 0) = <<EventNode(b, i)>>
    BY <2>1, WalkIs DEF n
  <2>3. Seen(Len(<<>>)) = 0
    BY <1>1
  <2>4. Walking!Fold(g, <<EventNode(b, i)>>, <<>>) = <<EventNode(b, i)>>
    BY Walking!FoldEmpty
  <2> HIDE DEF Seen, g
  <2> QED BY <2>2, <2>3, <2>4, EmptySeq
<1>3. ASSUME NEW s \in Seq(S), NEW x \in S, s \in T PROVE Append(s, x) \in T
  <2>1. Append(s, x) \in Seq(S) /\ Len(Append(s, x)) = Len(s) + 1 /\ Len(s) \in Nat
    BY AppendProperties, LenProperties
  <2> DEFINE k == Seen(Len(s))
  <2>2. k \in 0..n /\ Seen(Len(s) + 1) = IF k < n THEN k + 1 ELSE k
    BY <1>1, <2>1
  <2>3. Onward(g, Walk(b, i, k)) = Walk(b, i, IF k < n THEN k + 1 ELSE k)
    <3> HIDE DEF k
    <3> QED BY <2>2, OnwardIs DEF n
  <2>4. Walking!Fold(g, <<EventNode(b, i)>>, s) = Walk(b, i, k)
    BY <1>3
  <2> HIDE DEF k, g, Seen
  <2>5. Walking!Fold(g, <<EventNode(b, i)>>, Append(s, x))
          = Onward(g, Walking!Fold(g, <<EventNode(b, i)>>, s))
    BY Walking!FoldAppend
  <2>6. Walking!Fold(g, <<EventNode(b, i)>>, Append(s, x)) = Walk(b, i, Seen(Len(s) + 1))
    BY <2>2, <2>3, <2>4, <2>5
  <2> QED BY <2>1, <2>6
<1>4. \A s \in Seq(S) : s \in T
  <2> HIDE DEF T, S
  <2> QED BY <1>2, <1>3, Walking!SeqInduction
<1>5. g.nodes \in Seq(S) /\ n < Len(g.nodes) /\ Len(g.nodes) \in Nat
  BY NodesAre, LenProperties DEF n
<1>6. Walking!Fold(g, <<EventNode(b, i)>>, g.nodes) = Walk(b, i, n)
  <2>1. Seen(Len(g.nodes)) = n
    BY <1>1, <1>5
  <2> QED BY <1>4, <1>5, <2>1
<1>7. Chain(g, EventNode(b, i)) = Tail(Walk(b, i, n))
  BY <1>6, GraphsAreFolds
<1>8. Tail(Walk(b, i, n)) = ActionNodes(b, i)
  <2> DEFINE w == Walk(b, i, n)
             c == ActionNodes(b, i)
  <2>1. w \in Seq(S)
    <3>1. n \in 0..n
      BY <1>1
    <3> QED BY <3>1, WalkIs DEF n
  <2>2. DOMAIN w = 1..(n + 1)
    BY DEF Walk
  <2>3. Len(w) = n + 1
    BY <1>1, <2>1, <2>2, LenProperties
  <2>4. c \in Seq(S) /\ Len(c) = n
    BY RowIs DEF n
  <2>5. \A m \in 1..n : w[m + 1] = c[m]
    BY <1>1 DEF Walk, ActionNodes
  <2> HIDE DEF w, c, S
  <2>6. /\ Tail(w) \in Seq(S) /\ Len(Tail(w)) = n
        /\ \A m \in 1..n : Tail(w)[m] = w[m + 1]
    <3>1. w # <<>>
      BY <1>1, <2>3
    <3>2. /\ Tail(w) \in Seq(S) /\ Len(Tail(w)) = Len(w) - 1
          /\ \A m \in 1..Len(Tail(w)) : Tail(w)[m] = w[m + 1]
      BY <2>1, <3>1, HeadTailProperties
    <3> QED BY <1>1, <2>3, <3>2
  <2>7. Tail(w) = c
    BY <2>4, <2>5, <2>6, SeqEqual
  <2> QED BY <2>7 DEF w, c
<1> QED BY <1>7, <1>8

\* The event node of a row makes its rule, the action nodes make none.
LEMMA RuleIs ==
  ASSUME NEW b \in BlueprintType, ValidBlueprint(b), ~HasOutcome(b), NEW i \in DOMAIN b, NEW rules
  PROVE  /\ WithRuleOf(BlueprintToGraph(b), rules, EventNode(b, i)) = Append(rules, b[i])
         /\ \A j \in DOMAIN b[i].actions :
              WithRuleOf(BlueprintToGraph(b), rules, ActionNode(b, i, j)) = rules
<1> DEFINE g == BlueprintToGraph(b)
           n == Len(b[i].actions)
           e == EventNode(b, i)
           c == ActionNodes(b, i)
           acts == [j \in DOMAIN c |-> ToAction(c[j])]
<1>1. /\ DOMAIN b[i].actions = 1..n /\ n \in Nat /\ b[i] \in RuleType
      /\ \A j \in DOMAIN b[i].actions : b[i].actions[j] \in ActionType
  BY RuleTyped
<1>2. b[i] \in ToSet(b)
  BY DEF ToSet
<1>3. b[i].on \in Triggers /\ b[i].actions # <<>>
  BY <1>2 DEF ValidBlueprint
<1>4. \A j \in DOMAIN b[i].actions : b[i].actions[j].type \notin Outcomes
  BY <1>2 DEF HasOutcome, ToSet
<1>5. Chain(g, e) = c
  BY ChainIs
<1>6. DOMAIN c = DOMAIN b[i].actions /\ \A j \in DOMAIN c : c[j] = ActionNode(b, i, j)
  BY DEF ActionNodes
<1> HIDE DEF c
<1>7. ASSUME NEW j \in DOMAIN c PROVE ToAction(c[j]) = b[i].actions[j]
  <2> DEFINE a == b[i].actions[j]
  <2>1. /\ a = [type |-> a.type, arg |-> a.arg] /\ (a.type \notin WithFields => a.arg = "none")
        /\ (a.type \notin WithFields /\ a.type \notin Outcomes => a.type = "stop")
    <3>1. a \in ActionType
      BY <1>1, <1>6
    <3> HIDE DEF a
    <3> QED BY <3>1, ActionIs
  <2>2. a.type \notin Outcomes
    BY <1>4, <1>6
  <2>3. c[j].type = a.type /\ c[j].arg = a.arg
    <3>1. c[j] = ActionNode(b, i, j)
      BY <1>6
    <3>2. ActionNode(b, i, j).type = a.type /\ ActionNode(b, i, j).arg = a.arg
      BY DEF ActionNode
    <3> QED BY <3>1, <3>2
  <2> HIDE DEF a
  <2>4. ToAction(c[j]) = a
    BY <2>1, <2>2, <2>3 DEF ToAction
  <2> QED BY <2>4 DEF a
<1>8. acts = b[i].actions
  <2> DEFINE s == b[i].actions
  <2>1. s \in Seq(ActionType)
    BY <1>1 DEF RuleType
  <2>2. DOMAIN c = DOMAIN s /\ \A j \in DOMAIN c : ToAction(c[j]) = s[j]
    BY <1>6, <1>7
  <2> HIDE DEF s
  <2>3. s = [j \in DOMAIN s |-> s[j]]
    BY <2>1
  <2>4. acts = [j \in DOMAIN s |-> s[j]]
    BY <2>2
  <2> QED BY <2>3, <2>4 DEF s
<1>9. c # <<>>
  <2>1. b[i].actions \in Seq(ActionType)
    BY <1>1 DEF RuleType
  <2>2. n # 0
    BY <1>3, <2>1, EmptySeq
  <2>3. DOMAIN c # {}
    BY <1>1, <1>6, <2>2
  <2>4. DOMAIN <<>> = {}
    OBVIOUS
  <2> QED BY <2>3, <2>4
<1>10. [on |-> b[i].on, actions |-> b[i].actions] = b[i]
  BY <1>1 DEF RuleType
<1>11. e.kind = "event" /\ e.type = b[i].on
  BY DEF EventNode
<1>12. WithRuleOf(g, rules, e) = Append(rules, b[i])
  <2>1. WithRuleOf(g, rules, e) = Append(rules, [on |-> e.type, actions |-> acts])
    <3> HIDE DEF g, e
    <3> QED BY <1>3, <1>5, <1>9, <1>11 DEF WithRuleOf
  <2> QED BY <1>8, <1>10, <1>11, <2>1
<1>13. ASSUME NEW j \in DOMAIN b[i].actions
       PROVE  WithRuleOf(g, rules, ActionNode(b, i, j)) = rules
  BY DEF WithRuleOf, ActionNode
<1> QED BY <1>12, <1>13

\* A fold of things that change nothing.
LEMMA RulesStay ==
  ASSUME NEW b \in BlueprintType, ValidBlueprint(b), ~HasOutcome(b), NEW i \in DOMAIN b, NEW rules
  PROVE  Ruling!Fold(BlueprintToGraph(b), rules, RowNodes(b, i)) = Append(rules, b[i])
<1> DEFINE g == BlueprintToGraph(b)
           e == <<EventNode(b, i)>>
           c == ActionNodes(b, i)
           N == Nodes(b)
           A == {ActionNode(b, i, j) : j \in DOMAIN b[i].actions}
           mid == Append(rules, b[i])
           event == EventNode(b, i)
<1>1. RowNodes(b, i) = e \o c /\ e \in Seq(N) /\ c \in Seq(N)
  BY RowIs
<1>2. c \in Seq(A)
  <2>1. DOMAIN c = 1..Len(c) /\ \A j \in DOMAIN c : c[j] \in A
    BY <1>1, LenProperties DEF ActionNodes
  <2>2. Len(c) \in Nat /\ c = [j \in DOMAIN c |-> c[j]]
    BY <1>1, LenProperties
  <2> HIDE DEF c, A
  <2>3. c \in [1..Len(c) -> A]
    BY <2>1, <2>2
  <2> QED BY <2>2, <2>3, SeqDef
<1>3. WithRuleOf(g, rules, event) = mid /\ \A x \in A : WithRuleOf(g, mid, x) = mid
  <2>1. WithRuleOf(g, rules, event) = mid
    BY RuleIs
  <2> HIDE DEF mid, g
  <2>2. \A x \in A : WithRuleOf(g, mid, x) = mid
    BY RuleIs DEF g
  <2> QED BY <2>1, <2>2
<1>4. event \in N
  BY DEF Nodes, RowOfNodes
<1>5. e = Append(<<>>, event)
  OBVIOUS
<1> HIDE DEF e, c, g, N, A, mid, event
<1>6. Ruling!Fold(g, rules, e) = mid
  <2> DEFINE none == <<>>
  <2>1. Ruling!Fold(g, rules, none) = rules
    BY Ruling!FoldEmpty
  <2>2. none \in Seq(N) /\ e = Append(none, event)
    BY <1>5, EmptySeq
  <2> HIDE DEF none
  <2>3. Ruling!Fold(g, rules, Append(none, event)) = WithRuleOf(g, Ruling!Fold(g, rules, none), event)
    BY <1>4, <2>2, Ruling!FoldAppend
  <2> QED BY <1>3, <2>1, <2>2, <2>3
<1>7. Ruling!Fold(g, mid, c) = mid
  <2> DEFINE I == {mid}
  <2>1. mid \in I /\ \A v \in I, x \in A : WithRuleOf(g, v, x) \in I
    BY <1>3
  <2> HIDE DEF I
  <2>2. Ruling!Fold(g, mid, c) \in I
    BY <1>2, <2>1, Ruling!FoldStays
  <2> QED BY <2>2 DEF I
<1>8. Ruling!Fold(g, rules, e \o c) = Ruling!Fold(g, Ruling!Fold(g, rules, e), c)
  BY <1>1, Ruling!FoldConcat
<1> QED BY <1>1, <1>6, <1>7, <1>8 DEF g, mid

\* graphToBlueprint() gives back the blueprint that blueprintToGraph() was given.
THEOREM RoundTrip ==
  ASSUME NEW b \in BlueprintType, ValidBlueprint(b), ~HasOutcome(b)
  PROVE  GraphToBlueprint(BlueprintToGraph(b)) = b
<1> DEFINE g == BlueprintToGraph(b)
           n == Len(b)
           N == Nodes(b)
           rows == [i \in DOMAIN b |-> RowNodes(b, i)]
           Rows(k) == [i \in 1..k |-> rows[i]]
           Rules(k) == [i \in 1..k |-> b[i]]
           T == {k \in Nat : k <= n => Ruling!Fold(g, <<>>, Concat(Rows(k))) = Rules(k)}
<1>1. DOMAIN b = 1..n /\ n \in Nat /\ b \in Seq(RuleType) /\ \A i \in 1..n : b[i] \in RuleType
  BY LenProperties, ElementOfSeq DEF BlueprintType
<1>2. rows \in Seq(Seq(N)) /\ DOMAIN rows = 1..n /\ \A i \in 1..n : rows[i] = RowNodes(b, i)
  BY <1>1, RowsTyped
<1>3. \A i \in 1..n : rows[i] \in Seq(N)
  BY <1>1, <1>2, RowIs
<1>4. g.nodes = Concat(rows)
  BY DEF BlueprintToGraph
<1>5. \A i \in 1..n : \A rules : Ruling!Fold(g, rules, rows[i]) = Append(rules, b[i])
  BY <1>1, <1>2, RulesStay
<1> HIDE DEF g, n, N, rows
<1>6. 0 \in T
  <2>1. Rows(0) = <<>> /\ Rules(0) = <<>>
    OBVIOUS
  <2>2. Concat(<<>>) = <<>>
    BY GraphsAreFolds, Joining!FoldEmpty
  <2> QED BY <2>1, <2>2, Ruling!FoldEmpty
<1>7. ASSUME NEW k \in Nat, k \in T PROVE k + 1 \in T
  <2> SUFFICES ASSUME k + 1 <= n
               PROVE  Ruling!Fold(g, <<>>, Concat(Rows(k + 1))) = Rules(k + 1)
    OBVIOUS
  <2>1. \A i \in 1..(k + 1) : i \in 1..n
    BY <1>1
  <2>2. k + 1 \in 1..n
    BY <1>1
  <2>3. Rows(k) \in Seq(Seq(N)) /\ Rows(k + 1) = Append(Rows(k), rows[k + 1])
    BY <1>3, <2>1, Joining!PrefixGrows
  <2>4. Rules(k + 1) = Append(Rules(k), b[k + 1])
    BY <1>1, <2>1, Joining!PrefixGrows
  <2>5. Ruling!Fold(g, <<>>, Concat(Rows(k))) = Rules(k)
    BY <1>1, <1>7
  <2> DEFINE Before == Rows(k)
             Made == Rules(k)
  <2> HIDE DEF Before, Made
  <2>6. Before \in Seq(Seq(N)) /\ rows[k + 1] \in Seq(N)
    BY <1>3, <2>2, <2>3 DEF Before
  <2>7. Concat(Append(Before, rows[k + 1])) = Concat(Before) \o rows[k + 1] /\ Concat(Before) \in Seq(N)
    BY <2>6, ConcatAppend, ConcatTyped
  <2>8. Ruling!Fold(g, <<>>, Concat(Before) \o rows[k + 1])
          = Ruling!Fold(g, Ruling!Fold(g, <<>>, Concat(Before)), rows[k + 1])
    BY <2>6, <2>7, Ruling!FoldConcat
  <2>9. Ruling!Fold(g, <<>>, Concat(Before)) = Made
    BY <2>5 DEF Before, Made
  <2>10. Ruling!Fold(g, Made, rows[k + 1]) = Append(Made, b[k + 1])
    BY <1>5, <2>2
  <2>11. Ruling!Fold(g, <<>>, Concat(Append(Before, rows[k + 1]))) = Append(Made, b[k + 1])
    BY <2>7, <2>8, <2>9, <2>10
  <2> QED BY <2>3, <2>4, <2>11 DEF Before, Made
<1>8. \A k \in Nat : k \in T
  <2> HIDE DEF T
  <2> QED BY <1>6, <1>7, Joining!SetInduction
<1>9. Ruling!Fold(g, <<>>, Concat(Rows(n))) = Rules(n)
  BY <1>1, <1>8
<1>10. Rows(n) = rows
  BY <1>1, <1>2
<1>11. Rules(n) = b
  BY <1>1
<1>12. GraphToBlueprint(g) = Ruling!Fold(g, <<>>, g.nodes)
  BY GraphsAreFolds
<1> QED BY <1>4, <1>9, <1>10, <1>11, <1>12 DEF g

-----------------------------------------------------------------------------
(* The code of a blueprint                                                 *)

\* One more rule is picked if its trigger is among those.
LEMMA RulesOnAppend ==
  ASSUME NEW S, NEW b \in Seq(S), NEW r \in S, NEW triggers
  PROVE  RulesOn(Append(b, r), triggers) =
           IF r.on \in triggers THEN Append(RulesOn(b, triggers), r) ELSE RulesOn(b, triggers)
<1>1. Picking!Fold(triggers, <<>>, Append(b, r)) =
        IF r.on \in triggers THEN Append(Picking!Fold(triggers, <<>>, b), r)
                             ELSE Picking!Fold(triggers, <<>>, b)
  BY Picking!FoldAppend
<1> QED BY <1>1, GraphsAreFolds

\* What is picked is of the same kind, and of those triggers.
LEMMA RulesOnTyped ==
  ASSUME NEW S, NEW b \in Seq(S), NEW triggers
  PROVE  RulesOn(b, triggers) \in Seq({r \in S : r.on \in triggers})
<1> DEFINE T == {r \in S : r.on \in triggers}
<1>1. ASSUME NEW v \in Seq(T), NEW r \in S
      PROVE  (IF r.on \in triggers THEN Append(v, r) ELSE v) \in Seq(T)
  <2>1. CASE r.on \in triggers
    <3>1. r \in T
      BY <2>1
    <3> HIDE DEF T
    <3> QED BY <2>1, <3>1, AppendProperties
  <2> QED BY <2>1
<1> HIDE DEF T
<1>2. <<>> \in Seq(T)
  BY EmptySeq
<1>3. Picking!Fold(triggers, <<>>, b) \in Seq(T)
  BY <1>1, <1>2, Picking!FoldStays
<1> QED BY <1>3, GraphsAreFolds DEF T

\* Rules of a kind, picked, are of that kind.
LEMMA RulesOnKind ==
  ASSUME NEW S, NEW b \in Seq(S), NEW triggers
  PROVE  RulesOn(b, triggers) \in Seq(S)
<1> DEFINE T == {r \in S : r.on \in triggers}
           p == RulesOn(b, triggers)
<1>1. p \in Seq(T) /\ T \subseteq S
  BY RulesOnTyped
<1> HIDE DEF T, p
<1>2. DOMAIN p = 1..Len(p) /\ Len(p) \in Nat /\ p = [i \in DOMAIN p |-> p[i]]
  BY <1>1, LenProperties
<1>3. \A i \in DOMAIN p : p[i] \in S
  BY <1>1, <1>2, ElementOfSeq
<1>4. p \in [1..Len(p) -> S]
  BY <1>2, <1>3
<1>5. p \in Seq(S)
  BY <1>2, <1>4, SeqDef
<1> QED BY <1>5 DEF p

\* Picking the rules of one trigger from those of some leaves what the blueprint has.
LEMMA RulesOnTwice ==
  ASSUME NEW S, NEW few, NEW many, few \subseteq many
  PROVE  \A b \in Seq(S) : RulesOn(RulesOn(b, many), few) = RulesOn(b, few)
<1> DEFINE T == {b \in Seq(S) : RulesOn(RulesOn(b, many), few) = RulesOn(b, few)}
<1>1. <<>> \in T
  <2>1. RulesOn(<<>>, many) = <<>> /\ RulesOn(<<>>, few) = <<>>
    BY GraphsAreFolds, Picking!FoldEmpty
  <2> QED BY <2>1, EmptySeq
<1>2. ASSUME NEW b \in Seq(S), NEW r \in S, b \in T PROVE Append(b, r) \in T
  <2>1. RulesOn(b, many) \in Seq(S) /\ Append(b, r) \in Seq(S)
    BY RulesOnKind, AppendProperties
  <2> DEFINE more == RulesOn(b, many)
             c == Append(b, r)
  <2>2. RulesOn(c, many) = IF r.on \in many THEN Append(more, r) ELSE more
    BY RulesOnAppend
  <2>3. RulesOn(c, few) = IF r.on \in few THEN Append(RulesOn(b, few), r) ELSE RulesOn(b, few)
    BY RulesOnAppend
  <2>4. RulesOn(more, few) = RulesOn(b, few)
    BY <1>2
  <2> HIDE DEF more, c
  <2>5. more \in Seq(S) /\ c \in Seq(S)
    BY <2>1 DEF more, c
  <2>6. RulesOn(Append(more, r), few) =
          IF r.on \in few THEN Append(RulesOn(more, few), r) ELSE RulesOn(more, few)
    BY <2>5, RulesOnAppend
  <2>7. RulesOn(RulesOn(c, many), few) = RulesOn(c, few)
    BY <2>2, <2>3, <2>4, <2>6
  <2> QED BY <2>5, <2>7 DEF c
<1>3. \A b \in Seq(S) : b \in T
  <2> HIDE DEF T
  <2> QED BY <1>1, <1>2, Picking!SeqInduction
<1> QED BY <1>3

\* Actions without an outcome all run.
LEMMA AllRun ==
  ASSUME NEW s, \A a \in ToSet(s) : a.type \notin Outcomes, DOMAIN s = 1..Len(s)
  PROVE  RunActions(s) = s
<1> DEFINE end == SelectInSeq(s, LAMBDA a : a.type \in Outcomes)
           t == {k \in 1..Len(s) : s[k].type \in Outcomes}
<1>1. end = IF t # {} THEN Min(t) ELSE 0
  BY DEF SelectInSeq
<1>2. t = {}
  BY DEF ToSet
<1>3. RunActions(s) = IF end = 0 THEN s ELSE SubSeq(s, 1, end - 1)
  BY DEF RunActions
<1> HIDE DEF end
<1> QED BY <1>1, <1>2, <1>3

\* One sequence, put one after the other, is that sequence.
LEMMA ConcatOne ==
  ASSUME NEW S, NEW s \in Seq(S)
  PROVE  Concat(<<s>>) = s
<1>1. <<>> \in Seq(Seq(S)) /\ Append(<<>>, s) = <<s>>
  BY EmptySeq
<1>2. Concat(<<>>) = <<>>
  BY GraphsAreFolds, Joining!FoldEmpty
<1>3. Concat(Append(<<>>, s)) = Concat(<<>>) \o s
  BY <1>1, ConcatAppend
<1>4. <<>> \o s = s
  BY ConcatEmptySeq
<1> QED BY <1>1, <1>2, <1>3, <1>4

\* Rules whose actions are of a kind are a blueprint of such rules.
LEMMA RulesOf ==
  ASSUME NEW b \in BlueprintType, NEW S,
         \A r \in ToSet(b) : r \in RuleType => r \in S
  PROVE  b \in Seq(S)
<1>1. DOMAIN b = 1..Len(b) /\ Len(b) \in Nat /\ b = [i \in DOMAIN b |-> b[i]]
  BY LenProperties DEF BlueprintType
<1>2. \A i \in DOMAIN b : b[i] \in S
  BY RuleTyped DEF ToSet
<1>3. b \in [1..Len(b) -> S]
  BY <1>1, <1>2
<1> QED BY <1>1, <1>3, SeqDef

\* Actions of which each is of a kind.
LEMMA ActionsOf ==
  ASSUME NEW s \in Seq(ActionType), NEW P, \A a \in ToSet(s) : a \in ActionType => a \in P
  PROVE  s \in Seq(P)
<1>1. DOMAIN s = 1..Len(s) /\ Len(s) \in Nat /\ s = [j \in DOMAIN s |-> s[j]]
  BY LenProperties
<1>2. \A j \in DOMAIN s : s[j] \in P
  BY <1>1, ElementOfSeq DEF ToSet
<1>3. s \in [1..Len(s) -> P]
  BY <1>1, <1>2
<1> QED BY <1>1, <1>3, SeqDef

\* The actions of the spawn rules, rule by rule.
SpawnLists(b) ==
  LET spawned == RulesOn(b, {"spawn"}) IN [i \in DOMAIN spawned |-> spawned[i].actions]

\* Spawn rules whose actions are of a kind without outcomes do all of them.
LEMMA SpawnsRun ==
  ASSUME NEW b \in BlueprintType, ~HasOutcome(b), NEW P,
         \A r \in ToSet(b) : r.on = "spawn" => r.actions \in Seq(P),
         \A a \in P : a.type \notin Outcomes
  PROVE  /\ SpawnLists(b) \in Seq(Seq(P))
         /\ Strands(b, "spawn") = SpawnLists(b)
         /\ Concat(SpawnLists(b)) \in Seq(P)
         /\ RunActions(Concat(SpawnLists(b))) = Concat(SpawnLists(b))
<1> DEFINE S == {r \in RuleType : r.on = "spawn" => r.actions \in Seq(P)}
           spawned == RulesOn(b, {"spawn"})
           lists == SpawnLists(b)
           inline == Concat(lists)
<1>1. b \in Seq(S)
  BY RulesOf
<1>2. \A r \in {x \in S : x.on \in {"spawn"}} : r.actions \in Seq(P)
  OBVIOUS
<1>3. \A s \in Seq(P) : RunActions(s) = s
  <2> SUFFICES ASSUME NEW s \in Seq(P) PROVE RunActions(s) = s
    OBVIOUS
  <2>1. DOMAIN s = 1..Len(s) /\ \A j \in DOMAIN s : s[j] \in P
    BY LenProperties, ElementOfSeq
  <2>2. \A a \in ToSet(s) : a.type \notin Outcomes
    BY <2>1 DEF ToSet
  <2> QED BY <2>1, <2>2, AllRun
<1> DEFINE T == {x \in S : x.on \in {"spawn"}}
<1>4. spawned \in Seq(T)
  BY <1>1, RulesOnTyped
<1>5. \A r \in T : r.actions \in Seq(P)
  BY <1>2
<1> HIDE DEF S, T, spawned
<1>6. DOMAIN spawned = 1..Len(spawned) /\ Len(spawned) \in Nat
      /\ \A i \in DOMAIN spawned : spawned[i].actions \in Seq(P)
  BY <1>4, <1>5, LenProperties, ElementOfSeq
<1>7. lists = [i \in DOMAIN spawned |-> spawned[i].actions]
  BY DEF SpawnLists, spawned
<1>8. Strands(b, "spawn") = [i \in DOMAIN spawned |-> RunActions(spawned[i].actions)]
  BY DEF Strands, spawned
<1> HIDE DEF lists
<1>9. lists \in Seq(Seq(P))
  <2>1. lists \in [1..Len(spawned) -> Seq(P)]
    BY <1>6, <1>7
  <2> QED BY <1>6, <2>1, SeqDef
<1>10. Strands(b, "spawn") = lists
  BY <1>3, <1>6, <1>7, <1>8
<1>11. inline \in Seq(P)
  BY <1>9, ConcatTyped
<1> HIDE DEF inline
<1>12. RunActions(inline) = inline
  BY <1>3, <1>11
<1> QED BY <1>9, <1>10, <1>11, <1>12 DEF lists, inline

\* What the code of a blueprint without an outcome does.
LEMMA CodeIs ==
  ASSUME NEW b \in BlueprintType, ~HasOutcome(b)
  PROVE  LET inline == Concat(SpawnLists(b))
         IN RunCode(CompileToCode(b)) =
              [now |-> <<inline>>, later |-> RunBlueprint(b).later,
               deaf |-> RulesOn(b, Events) # <<>> /\ Waits(inline)]
<1> DEFINE inline == Concat(SpawnLists(b))
           subs == RulesOn(b, Events)
           P == {a \in ActionType : a.type \notin Outcomes}
<1>1. \A r \in ToSet(b) : r.on = "spawn" => r.actions \in Seq(P)
  <2> SUFFICES ASSUME NEW i \in DOMAIN b PROVE b[i].actions \in Seq(P)
    BY DEF ToSet
  <2> DEFINE s == b[i].actions
  <2>1. s \in Seq(ActionType) /\ b[i] \in ToSet(b)
    BY RuleTyped DEF RuleType, ToSet
  <2>2. \A a \in ToSet(s) : a.type \notin Outcomes
    BY <2>1 DEF HasOutcome
  <2>3. \A a \in ToSet(s) : a \in ActionType => a \in P
    BY <2>2
  <2> HIDE DEF s, P
  <2>4. s \in Seq(P)
    BY <2>1, <2>3, ActionsOf
  <2> QED BY <2>4 DEF s
<1>2. \A a \in P : a.type \notin Outcomes
  OBVIOUS
<1> HIDE DEF P
<1>3. RunActions(inline) = inline
  BY <1>1, <1>2, SpawnsRun
<1>4. CompileToCode(b).inline = inline /\ CompileToCode(b).subs = subs
  BY DEF CompileToCode, SpawnLists
<1>5. ASSUME NEW e \in Events PROVE Strands(subs, e) = Strands(b, e)
  <2>1. {e} \subseteq Events
    OBVIOUS
  <2>2. b \in Seq(RuleType)
    BY DEF BlueprintType
  <2>3. RulesOn(subs, {e}) = RulesOn(b, {e})
    BY <2>1, <2>2, RulesOnTwice
  <2> HIDE DEF subs
  <2> QED BY <2>3 DEF Strands
<1>6. RunBlueprint(b).later = [e \in Events |-> Strands(b, e)]
  BY DEF RunBlueprint
<1> HIDE DEF inline, subs
<1>7. RunCode(CompileToCode(b)) =
        [now |-> <<inline>>, later |-> [e \in Events |-> Strands(subs, e)],
         deaf |-> subs # <<>> /\ Waits(inline)]
  BY <1>3, <1>4 DEF RunCode
<1>8. [e \in Events |-> Strands(subs, e)] = RunBlueprint(b).later
  BY <1>5, <1>6
<1>9. RunCode(CompileToCode(b)) =
        [now |-> <<inline>>, later |-> RunBlueprint(b).later,
         deaf |-> subs # <<>> /\ Waits(inline)]
  BY <1>7, <1>8
<1> QED BY <1>9 DEF inline, subs

\* The code of a blueprint without an outcome whose spawn rules do not wait does
\* what the blueprint does: the spawn rules are over before any event.
LEMMA QuietSame ==
  ASSUME NEW b \in BlueprintType, ~HasOutcome(b), ~WaitsAtSpawn(b)
  PROVE  Does(RunCode(CompileToCode(b))) = Does(RunBlueprint(b))
<1> DEFINE P == {a \in ActionType : a.type \notin Outcomes \cup Awaits}
           lists == SpawnLists(b)
           inline == Concat(lists)
           later == RunBlueprint(b).later
<1>1. \A r \in ToSet(b) : r.on = "spawn" => r.actions \in Seq(P)
  <2> SUFFICES ASSUME NEW i \in DOMAIN b, b[i].on = "spawn" PROVE b[i].actions \in Seq(P)
    BY DEF ToSet
  <2> DEFINE s == b[i].actions
  <2>1. s \in Seq(ActionType) /\ b[i] \in ToSet(b)
    BY RuleTyped DEF RuleType, ToSet
  <2>2. \A a \in ToSet(s) : a.type \notin Outcomes
    BY <2>1 DEF HasOutcome
  <2>3. \A a \in ToSet(s) : a.type \notin Awaits
    BY <2>1 DEF WaitsAtSpawn, Waits
  <2>4. \A a \in ToSet(s) : a \in ActionType => a \in P
    BY <2>2, <2>3
  <2> HIDE DEF s, P
  <2>5. s \in Seq(P)
    BY <2>1, <2>4, ActionsOf
  <2> QED BY <2>5 DEF s
<1>2. \A a \in P : a.type \notin Outcomes /\ a.type \notin Awaits
  OBVIOUS
<1> HIDE DEF P
<1>3. /\ lists \in Seq(Seq(P)) /\ Strands(b, "spawn") = lists /\ inline \in Seq(P)
  BY <1>1, <1>2, SpawnsRun
<1>4. \A s \in Seq(P) : ~Waits(s)
  <2> SUFFICES ASSUME NEW s \in Seq(P) PROVE ~Waits(s)
    OBVIOUS
  <2>1. \A j \in DOMAIN s : s[j] \in P
    BY LenProperties, ElementOfSeq
  <2> QED BY <1>2, <2>1 DEF Waits, ToSet
<1> HIDE DEF lists
<1>5. \A s \in ToSet(lists) : ~Waits(s)
  <2>1. \A i \in DOMAIN lists : lists[i] \in Seq(P)
    BY <1>3, LenProperties, ElementOfSeq
  <2> QED BY <1>4, <2>1 DEF ToSet
<1>6. Concat(<<inline>>) = inline /\ ~Waits(inline)
  <2> HIDE DEF inline
  <2> QED BY <1>3, <1>4, ConcatOne
<1>7. RunCode(CompileToCode(b)) = [now |-> <<inline>>, later |-> later, deaf |-> FALSE]
  <2> HIDE DEF later
  <2> QED BY <1>6, CodeIs DEF lists, later
<1>8. RunBlueprint(b) = [now |-> lists, later |-> later, deaf |-> FALSE]
  BY <1>3 DEF RunBlueprint
<1> HIDE DEF inline, later
<1>9. Does([now |-> <<inline>>, later |-> later, deaf |-> FALSE]) =
        [now |-> <<inline>>, later |-> later, deaf |-> FALSE]
  <2>1. \A s \in ToSet(<<inline>>) : ~Waits(s)
    BY <1>6 DEF ToSet
  <2> QED BY <1>6, <2>1 DEF Does
<1>10. Does([now |-> lists, later |-> later, deaf |-> FALSE]) =
         [now |-> <<Concat(lists)>>, later |-> later, deaf |-> FALSE]
  BY <1>5 DEF Does
<1> QED BY <1>7, <1>8, <1>9, <1>10 DEF inline

\* The code of a blueprint that is one spawn rule without an outcome does what the
\* blueprint does, waits included: there is nothing that the code could miss.
LEMMA LoneSame ==
  ASSUME NEW b \in BlueprintType, ~HasOutcome(b), Len(b) = 1, b[1].on = "spawn"
  PROVE  RunCode(CompileToCode(b)) = RunBlueprint(b)
<1> DEFINE r == b[1]
           s == r.actions
           P == {a \in ActionType : a.type \notin Outcomes}
<1>1. r \in RuleType /\ s \in Seq(ActionType) /\ r \in ToSet(b) /\ b = <<r>>
  <2>1. 1 \in DOMAIN b /\ b = <<b[1]>>
    BY LenProperties DEF BlueprintType
  <2> QED BY <2>1, RuleTyped DEF RuleType, ToSet
<1>2. s \in Seq(P)
  <2>1. \A a \in ToSet(s) : a.type \notin Outcomes
    BY <1>1 DEF HasOutcome
  <2>2. \A a \in ToSet(s) : a \in ActionType => a \in P
    BY <2>1
  <2> HIDE DEF s, P
  <2> QED BY <1>1, <2>2, ActionsOf
<1>3. \A x \in ToSet(b) : x.on = "spawn" => x.actions \in Seq(P)
  BY <1>1, <1>2 DEF ToSet
<1>4. \A a \in P : a.type \notin Outcomes
  OBVIOUS
<1> HIDE DEF P
<1>5. Strands(b, "spawn") = SpawnLists(b)
  BY <1>3, <1>4, SpawnsRun
<1> HIDE DEF s
<1>6. RulesOn(b, {"spawn"}) = <<r>> /\ RulesOn(b, Events) = <<>>
  <2>1. b = Append(<<>>, r) /\ <<>> \in Seq(RuleType)
    BY <1>1, EmptySeq
  <2>2. RulesOn(<<>>, {"spawn"}) = <<>> /\ RulesOn(<<>>, Events) = <<>>
    BY GraphsAreFolds, Picking!FoldEmpty
  <2>3. r.on \in {"spawn"} /\ r.on \notin Events
    BY DEF Events
  <2> HIDE DEF r
  <2>4. RulesOn(Append(<<>>, r), {"spawn"}) = Append(<<>>, r)
    BY <1>1, <2>1, <2>2, <2>3, RulesOnAppend
  <2>5. RulesOn(Append(<<>>, r), Events) = <<>>
    BY <1>1, <2>1, <2>2, <2>3, RulesOnAppend
  <2> QED BY <1>1, <2>1, <2>4, <2>5
<1>7. SpawnLists(b) = <<s>>
  BY <1>6 DEF SpawnLists, s
<1>8. Concat(<<s>>) = s
  BY <1>1, ConcatOne
<1>9. RunCode(CompileToCode(b)) = [now |-> <<s>>, later |-> RunBlueprint(b).later, deaf |-> FALSE]
  BY <1>6, <1>7, <1>8, CodeIs
<1>10. RunBlueprint(b) = [now |-> <<s>>, later |-> RunBlueprint(b).later, deaf |-> FALSE]
  BY <1>5, <1>7 DEF RunBlueprint
<1> QED BY <1>9, <1>10

\* The code that compileToCode() makes of a blueprint without outcomes does what
\* runBlueprint() does with it, if no spawn rule waits or it has but one rule.
THEOREM CodeSame ==
  ASSUME NEW b \in BlueprintType, ~HasOutcome(b), WaitsAtSpawn(b) => Len(b) = 1
  PROVE  Does(RunCode(CompileToCode(b))) = Does(RunBlueprint(b))
<1>1. CASE ~WaitsAtSpawn(b)
  BY <1>1, QuietSame
<1>2. CASE WaitsAtSpawn(b)
  <2>1. Len(b) = 1 /\ DOMAIN b = 1..Len(b)
    BY <1>2, LenProperties DEF BlueprintType
  <2>2. b[1].on = "spawn"
    BY <1>2, <2>1 DEF WaitsAtSpawn, ToSet
  <2> QED BY <2>1, <2>2, LoneSame
<1> QED BY <1>1, <1>2

-----------------------------------------------------------------------------
(* The canvas                                                              *)

\* Blueprints that the daemon accepts, and the code of the graph of one.
Good == {b \in Blueprints : ValidBlueprint(b)}
Ejected(b) == CompileToCode(GraphToBlueprint(BlueprintToGraph(b)))

CanvasShaped ==
  canvas = [graph |-> canvas.graph, from |-> canvas.from, code |-> canvas.code, codeOf |-> canvas.codeOf]

\* A graph is that of the blueprint it is said to be from, and a code is the one
\* that the graph of its blueprint compiles to.
Draws(from, graph) == from = <<>> \/ (from \in Good /\ graph = BlueprintToGraph(from))
Codes(of, code) == of = <<>> \/ (of \in Good /\ code = Ejected(of))

\* That is so of the canvas, and of what is on its way to and from the daemon.
CanvasInv ==
  /\ CanvasShaped /\ Draws(canvas.from, canvas.graph) /\ Codes(canvas.codeOf, canvas.code)
  /\ sent["import"] \subseteq Blueprints
  /\ answered["import"] \subseteq Good
  /\ \A a \in sent["compile"] : Draws(a[1], a[2])
  /\ \A a \in answered["compile"] : Codes(a[1], a[2])

\* The editor knows every field of the graph of a blueprint.
LEMMA FieldsKnown ==
  ASSUME NEW b \in BlueprintType
  PROVE  KnownFields(BlueprintToGraph(b)) = BlueprintToGraph(b)
<1> DEFINE g == BlueprintToGraph(b)
           Known(n) == IF n.type \in WithFields THEN n ELSE [n EXCEPT !.arg = "none"]
<1>1. g.nodes \in Seq(Nodes(b)) /\ g = [nodes |-> g.nodes, edges |-> g.edges]
  BY NodesAre DEF BlueprintToGraph
<1>2. ASSUME NEW n \in Nodes(b) PROVE Known(n) = n
  <2>1. PICK i \in DOMAIN b : n \in RowOfNodes(b, i)
    BY DEF Nodes
  <2>2. CASE n = EventNode(b, i)
    BY <2>2 DEF EventNode
  <2>3. ASSUME NEW j \in DOMAIN b[i].actions, n = ActionNode(b, i, j) PROVE Known(n) = n
    <3> DEFINE a == b[i].actions[j]
    <3>1. a.type \notin WithFields => a.arg = "none"
      <4>1. a \in ActionType
        BY RuleTyped
      <4> HIDE DEF a
      <4> QED BY <4>1, ActionIs
    <3>2. n = [id |-> <<i, j>>, kind |-> "action", type |-> a.type, arg |-> a.arg]
      BY <2>3 DEF ActionNode
    <3> HIDE DEF a
    <3> QED BY <3>1, <3>2
  <2> QED BY <2>1, <2>2, <2>3 DEF RowOfNodes
<1> DEFINE s == g.nodes
<1>3. KnownFields(g) = [g EXCEPT !.nodes = [i \in DOMAIN s |-> Known(s[i])]]
  BY DEF KnownFields
<1> HIDE DEF g, Known
<1>4. [i \in DOMAIN s |-> Known(s[i])] = s
  <2> HIDE DEF s
  <2>1. s \in Seq(Nodes(b))
    BY <1>1 DEF s
  <2>2. DOMAIN s = 1..Len(s) /\ s = [i \in DOMAIN s |-> s[i]]
    BY <2>1, LenProperties
  <2>3. \A i \in DOMAIN s : Known(s[i]) = s[i]
    BY <1>2, <2>1, <2>2, ElementOfSeq
  <2> QED BY <2>2, <2>3
<1>5. KnownFields(g) = g
  BY <1>1, <1>3, <1>4
<1> QED BY <1>5 DEF g

\* What the canvas shows after a step.
LEMMA CanvasDraws ==
  ASSUME CanvasInv, [PanelNext]_panelVars
  PROVE  CanvasShaped' /\ Draws(canvas.from, canvas.graph)' /\ Codes(canvas.codeOf, canvas.code)'
<1> DEFINE Goal == CanvasShaped' /\ Draws(canvas'.from, canvas'.graph) /\ Codes(canvas'.codeOf, canvas'.code)
<1>a. CanvasShaped /\ Draws(canvas.from, canvas.graph) /\ Codes(canvas.codeOf, canvas.code)
  BY DEF CanvasInv
<1>1. CASE canvas' = canvas
  BY <1>a, <1>1 DEF CanvasShaped
<1>2. CASE ImportArrives
  <2>1. PICK b \in answered["import"] :
          canvas' = [canvas EXCEPT !.graph = KnownFields(BlueprintToGraph(b)), !.from = b]
    BY <1>2 DEF ImportArrives, Drawn
  <2>2. b \in Good /\ b \in BlueprintType
    BY PanelAssumption DEF CanvasInv, Good
  <2>3. KnownFields(BlueprintToGraph(b)) = BlueprintToGraph(b)
    BY <2>2, FieldsKnown
  <2>4. canvas' = [graph |-> BlueprintToGraph(b), from |-> b, code |-> canvas.code, codeOf |-> canvas.codeOf]
    BY <1>a, <2>1, <2>3 DEF CanvasShaped
  <2> QED BY <1>a, <2>2, <2>4 DEF CanvasShaped, Draws
<1>3. CASE CompileArrives
  <2>1. PICK a \in answered["compile"] : canvas' = [canvas EXCEPT !.codeOf = a[1], !.code = a[2]]
    BY <1>3 DEF CompileArrives, Drawn
  <2>2. Codes(a[1], a[2])
    BY DEF CanvasInv
  <2>3. canvas' = [graph |-> canvas.graph, from |-> canvas.from, code |-> a[2], codeOf |-> a[1]]
    BY <1>a, <2>1 DEF CanvasShaped
  <2> QED BY <1>a, <2>2, <2>3 DEF CanvasShaped
<1>4. CASE EditGraph
  <2>1. PICK h : canvas' = [canvas EXCEPT !.graph = h, !.from = <<>>]
    BY <1>4 DEF EditGraph, Drawn
  <2>2. canvas' = [graph |-> h, from |-> <<>>, code |-> canvas.code, codeOf |-> canvas.codeOf]
    BY <1>a, <2>1 DEF CanvasShaped
  <2> QED BY <1>a, <2>2 DEF CanvasShaped, Draws
<1>5. CASE ClickCompile
  <2>1. canvas' = [canvas EXCEPT !.code = NewCanvas.code, !.codeOf = <<>>]
    BY <1>5 DEF ClickCompile, Drawn
  <2>2. canvas' = [graph |-> canvas.graph, from |-> canvas.from, code |-> NewCanvas.code, codeOf |-> <<>>]
    BY <1>a, <2>1 DEF CanvasShaped
  <2> QED BY <1>a, <2>2 DEF CanvasShaped, Codes
<1>6. CASE \E t \in user.uses : OpenTab(t)
  <2>1. canvas' = NewCanvas
    BY <1>6 DEF OpenTab
  <2> QED BY <2>1 DEF NewCanvas, CanvasShaped, Draws, Codes
<1>7. Goal
  BY <1>1, <1>2, <1>3, <1>4, <1>5, <1>6, FrameStep
<1> QED BY <1>7

\* What goes to the daemon and comes from it after a step.
LEMMA CanvasAsks ==
  ASSUME CanvasInv, LoadInv, [PanelNext]_panelVars
  PROVE  /\ sent'["import"] \subseteq Blueprints
         /\ answered'["import"] \subseteq Good
         /\ \A a \in sent'["compile"] : Draws(a[1], a[2])
         /\ \A a \in answered'["compile"] : Codes(a[1], a[2])
<1> DEFINE Goal == /\ sent'["import"] \subseteq Blueprints
                   /\ answered'["import"] \subseteq Good
                   /\ \A a \in sent'["compile"] : Draws(a[1], a[2])
                   /\ \A a \in answered'["compile"] : Codes(a[1], a[2])
<1>a. /\ sent["import"] \subseteq Blueprints
      /\ answered["import"] \subseteq Good
      /\ \A a \in sent["compile"] : Draws(a[1], a[2])
      /\ \A a \in answered["compile"] : Codes(a[1], a[2])
  BY DEF CanvasInv
<1>b. DOMAIN sent = Ops /\ DOMAIN answered = Ops /\ {"import", "compile"} \subseteq Ops
      /\ {"import", "compile"} \subseteq Told \cap Heard
  BY DEF LoadInv, Ops, Reads, Told, Heard
<1>1. CASE ~Telling
  BY <1>a, <1>b, <1>1, CalmStep DEF Calm
<1>2. CASE ServeRead("import")
  <2>1. PICK b \in sent["import"] :
          Drop("import", b) \/ (ValidBlueprint(b) /\ Reply("import", b, b))
    BY <1>2 DEF FileFails, ServeRead, Refused, Answer
  <2>2. b \in Blueprints
    BY <1>a
  <2>3. sent' = [sent EXCEPT !["import"] = @ \ {b}]
    BY <2>1 DEF Drop, Reply
  <2>4. answered' = answered
        \/ (ValidBlueprint(b) /\ answered' = [answered EXCEPT !["import"] = @ \cup {b}])
    BY <2>1 DEF Drop, Reply
  <2>5. sent'["import"] \subseteq sent["import"] /\ sent'["compile"] = sent["compile"]
    BY <1>b, <2>3
  <2>6. answered'["import"] \subseteq Good /\ answered'["compile"] = answered["compile"]
    BY <1>a, <1>b, <2>2, <2>4 DEF Good
  <2> QED BY <1>a, <2>5, <2>6
<1>3. CASE ServeRead("compile")
  <2>1. PICK a \in sent["compile"] :
          Drop("compile", a) \/ Reply("compile", a, Answer("compile", a))
    BY <1>3 DEF FileFails, ServeRead
  <2> DEFINE v == <<a[1], CompileToCode(GraphToBlueprint(a[2]))>>
  <2>2. Answer("compile", a) = v
    BY DEF Answer
  <2>3. Codes(v[1], v[2])
    <3>1. Draws(a[1], a[2])
      BY <1>a
    <3> QED BY <3>1 DEF Draws, Codes, Ejected
  <2> HIDE DEF v
  <2>4. sent' = [sent EXCEPT !["compile"] = @ \ {a}]
    BY <2>1 DEF Drop, Reply
  <2>5. answered' = answered \/ answered' = [answered EXCEPT !["compile"] = @ \cup {v}]
    BY <2>1, <2>2 DEF Drop, Reply
  <2>6. sent'["compile"] \subseteq sent["compile"] /\ sent'["import"] = sent["import"]
    BY <1>b, <2>4
  <2>7. answered'["import"] = answered["import"] /\ answered'["compile"] \subseteq answered["compile"] \cup {v}
    BY <1>b, <2>5
  <2>8. \A c \in answered'["compile"] : Codes(c[1], c[2])
    BY <1>a, <2>3, <2>7
  <2> QED BY <1>a, <2>6, <2>7, <2>8
<1>4. ASSUME NEW b \in Blueprints, ClickImport(b) PROVE Goal
  <2>1. sent' = [sent EXCEPT !["import"] = @ \cup {b}] /\ answered' = answered
    BY <1>4 DEF ClickImport, Send
  <2>2. sent'["import"] = sent["import"] \cup {b} /\ sent'["compile"] = sent["compile"]
    BY <1>b, <2>1
  <2> QED BY <1>a, <2>1, <2>2
<1>5. CASE ClickCompile
  <2> DEFINE q == <<canvas.from, KnownFields(canvas.graph)>>
  <2>1. sent' = [sent EXCEPT !["compile"] = @ \cup {q}] /\ answered' = answered
    BY <1>5 DEF ClickCompile, Send
  <2>2. Draws(q[1], q[2])
    <3>1. Draws(canvas.from, canvas.graph)
      BY DEF CanvasInv
    <3>2. CASE canvas.from = <<>>
      BY <3>2 DEF Draws
    <3>3. CASE canvas.from \in Good /\ canvas.graph = BlueprintToGraph(canvas.from)
      <4>1. canvas.from \in BlueprintType
        BY <3>3, PanelAssumption DEF Good
      <4>2. KnownFields(canvas.graph) = canvas.graph
        BY <3>3, <4>1, FieldsKnown
      <4> QED BY <3>1, <4>2
    <3> QED BY <3>1, <3>2, <3>3 DEF Draws
  <2> HIDE DEF q
  <2>3. sent'["compile"] = sent["compile"] \cup {q} /\ sent'["import"] = sent["import"]
    BY <1>b, <2>1
  <2>4. \A a \in sent'["compile"] : Draws(a[1], a[2])
    BY <1>a, <2>2, <2>3
  <2> QED BY <1>a, <2>1, <2>3, <2>4
<1>6. CASE ServeRead("history") \/ ServeStart \/ (\E r \in Runs : ClickStop(r)) \/ (\E f \in Reports : ClickOpen(f))
  <2>1. /\ sent'["import"] = sent["import"] /\ sent'["compile"] = sent["compile"]
        /\ answered'["import"] = answered["import"] /\ answered'["compile"] = answered["compile"]
    <3>1. CASE ServeRead("history")
      <4>1. PICK a : Drop("history", a) \/ Reply("history", a, Answer("history", a))
        BY <3>1 DEF FileFails, ServeRead
      <4>2. \E X, Y : /\ sent' = [sent EXCEPT !["history"] = X]
                      /\ answered' \in {answered, [answered EXCEPT !["history"] = Y]}
        BY <4>1 DEF Drop, Reply
      <4> QED BY <1>b, <4>2
    <3>2. CASE ServeStart
      <4>1. \E a, v : Drop("start", a) \/ Reply("start", a, v)
        BY <3>2 DEF ServeStart, ReplyIf
      <4>2. \E X, Y : /\ sent' = [sent EXCEPT !["start"] = X]
                      /\ answered' \in {answered, [answered EXCEPT !["start"] = Y]}
        BY <4>1 DEF Drop, Reply
      <4> QED BY <1>b, <4>2
    <3>3. CASE (\E r \in Runs : ClickStop(r)) \/ (\E f \in Reports : ClickOpen(f))
      <4>1. \E op \in {"stop", "open"} : \E a : Send(op, a)
        BY <3>3 DEF ClickStop, ClickOpen
      <4>2. \E op \in {"stop", "open"} : \E X : sent' = [sent EXCEPT ![op] = X] /\ answered' = answered
        BY <4>1 DEF Send
      <4> QED BY <1>b, <4>2
    <3> QED BY <1>6, <3>1, <3>2, <3>3
  <2> QED BY <1>a, <2>1
<1>7. ASSUME NEW t \in user.uses, OpenTab(t) PROVE Goal
  <2>1. sent' = [op \in Ops |->
          IF op \in Writes THEN {[a EXCEPT !.live = FALSE] : a \in sent[op]}
          ELSE IF <<t, op>> \in {<<"dashboard", "list">>, <<"config", "configs">>, <<"history", "history">>}
                 THEN {"all"} ELSE {}]
    BY <1>b, <1>7 DEF OpenTab
  <2>2. answered' = [op \in Ops |-> {}]
    BY <1>b, <1>7 DEF OpenTab
  <2>3. "import" \notin Writes /\ "compile" \notin Writes
    BY DEF Writes
  <2>4. sent'["import"] = {} /\ sent'["compile"] = {}
    BY <1>b, <2>1, <2>3
  <2>5. answered'["import"] = {} /\ answered'["compile"] = {}
    BY <1>b, <2>2
  <2> QED BY <2>4, <2>5
<1>8. Goal
  BY <1>1, <1>2, <1>3, <1>4, <1>5, <1>6, <1>7 DEF Telling
<1> QED BY <1>8

\* The code of a blueprint that is imported and ejected does what the interpreter
\* does with it, unless it has outcomes or rules beside a spawn rule that waits, for
\* any blueprints and whatever is edited, drawn and compiled in between: what is
\* compiled is the graph of the blueprint, and that gives back the blueprint, rule
\* by rule and action by action.
THEOREM EjectsTheSame == PanelSpec => []EjectedDoesTheSame
<1>1. PanelInit => LoadInv /\ CanvasInv
  <2> SUFFICES ASSUME PanelInit PROVE CanvasInv
    BY LoadInit
  <2>1. canvas = NewCanvas
    BY DEF PanelInit
  <2>2. CanvasShaped /\ canvas.from = <<>> /\ canvas.codeOf = <<>>
    BY <2>1 DEF NewCanvas, CanvasShaped
  <2>3. {"import", "compile"} \subseteq Reads \cup Writes
    BY DEF Reads
  <2>4. /\ sent["import"] = {} /\ sent["compile"] = {}
        /\ answered["import"] = {} /\ answered["compile"] = {}
    BY <2>3 DEF PanelInit
  <2> QED BY <2>2, <2>4 DEF CanvasInv, Draws, Codes
<1>2. LoadInv /\ CanvasInv /\ [PanelNext]_panelVars => (LoadInv /\ CanvasInv)'
  BY LoadStep, CanvasDraws, CanvasAsks DEF CanvasInv
<1>3. LoadInv /\ CanvasInv => EjectedDoesTheSame
  <2> DEFINE b == canvas.codeOf
  <2> SUFFICES ASSUME CanvasInv, b # <<>>, ~HasOutcome(b), WaitsAtSpawn(b) => Len(b) = 1
               PROVE  Does(RunCode(canvas.code)) = Does(RunBlueprint(b))
    BY DEF EjectedDoesTheSame
  <2>1. b \in Blueprints /\ ValidBlueprint(b) /\ canvas.code = Ejected(b)
    BY DEF CanvasInv, Codes, Good
  <2>2. b \in BlueprintType
    BY <2>1, PanelAssumption
  <2> HIDE DEF b
  <2>3. GraphToBlueprint(BlueprintToGraph(b)) = b
    BY <2>1, <2>2, RoundTrip
  <2>4. Does(RunCode(CompileToCode(b))) = Does(RunBlueprint(b))
    BY <2>2, CodeSame
  <2> QED BY <2>1, <2>3, <2>4 DEF Ejected
<1> QED BY <1>1, <1>2, <1>3, PTL DEF PanelSpec
=============================================================================
