--------------------------------- MODULE Panel ---------------------------------
(***************************************************************************)
(* The web control panel (packages/ui) in one browser page, against the    *)
(* daemon that serves it: the run manager (RunManager), the pure router    *)
(* (server/router.ts), the config store and the report history.            *)
(*                                                                         *)
(* A view is mounted while its tab is open.  A request is sent, read by the*)
(* daemon, and its answer arrives, at any later time and in any order.     *)
(* What answers a view that is gone reaches nobody.  An answer that is an  *)
(* error only sets a message: it arrives at once, and says no more.        *)
(***************************************************************************)
EXTENDS RunManager, Graph, FiniteSets

CONSTANTS
  Names, JsonNames, SafeNames,  \* names of configs: those that end in .json, those allowed
  Values, GoodValues,           \* what configs say: that which fits the schema
  Reports,                      \* names of report files
  Blueprints,                   \* what may be imported into the graph editor
  Plans,                        \* what a user does and what happens meanwhile (MCPanel)
  Disk                          \* the configs that are on disk from the start

Texts == [syntax : {"yaml", "json"}, says : Values] \cup [syntax : {"broken"}, says : {"none"}]
NoText == [syntax |-> "none", says |-> "none"]

\* The tabs that have a view here, and what one user does: the tabs that are
\* opened, how many clicks, the runs that may be started, the reports that are
\* written meanwhile, how many answers of a kind are on their way at most, and
\* whether the daemon's file system may fail.
Tabs == {"dashboard", "config", "history", "graph", "scripts"}
Uses == [uses : SUBSET Tabs, clicks : Nat, runs : SUBSET Runs, files : SUBSET Reports, answers : Nat,
         fails : BOOLEAN]

\* On disk from the start there is a text, or no file, for each name.
ASSUME PanelAssumption ==
  /\ Disk \in [Names -> Texts \cup {NoText}]
  /\ Plans \subseteq Uses
  /\ Blueprints \subseteq BlueprintType

Starter == [syntax |-> "yaml", says |-> CHOOSE v \in GoodValues : TRUE]

Reads == {"list", "configs", "validate", "load", "history", "open", "import", "compile"}
Writes == {"start", "stop", "save", "delete", "script"}

VARIABLES
  store,    \* the text of each config file
  reports,  \* each report file: none, partial, complete
  sent,     \* of each operation the requests that the daemon has not read
  answered, \* and the answers that have not arrived
  user,     \* what the user goes on to do
  tab,      \* the open tab
  board,    \* the state of Dashboard
  editor,   \* the state of ConfigEditor
  viewer,   \* the state of History
  canvas,   \* the state of GraphEditor
  busy,     \* the state of Scripts
  kept      \* every text that has been stored, with its name

disk == <<store, reports, kept>>
net == <<sent, answered>>
views == <<user, tab, board, editor, viewer, canvas, busy>>
panelVars == <<vars, disk, net, views>>

NewBoard == [shown |-> [r \in Runs |-> "none"], selected |-> "none", watched |-> "none",
             snap |-> [of |-> "none", kind |-> "none"]]
NewEditor == [name |-> CHOOSE n \in Names : TRUE, text |-> Starter, obj |-> Starter.says,
              seen |-> NoText, timer |-> NoText, judged |-> NoText, configs |-> {},
              touched |-> TRUE]
NewViewer == [entries |-> {}, selected |-> "none", html |-> "none"]
NewCanvas == [graph |-> [nodes |-> <<>>, edges |-> <<>>], from |-> <<>>,
              code |-> [inline |-> <<>>, subs |-> <<>>], codeOf |-> <<>>]

PanelInit ==
  /\ Init
  /\ store = Disk
  /\ kept = {<<n, Disk[n]>> : n \in Names}
  /\ reports = [f \in Reports |-> "none"]
  /\ sent = [op \in Reads \cup Writes |-> IF op = "list" THEN {"all"} ELSE {}]
  /\ answered = [op \in Reads \cup Writes |-> {}]
  /\ user \in Plans
  /\ tab = "dashboard"
  /\ board = NewBoard /\ editor = NewEditor /\ viewer = NewViewer /\ canvas = NewCanvas
  /\ busy = FALSE

-----------------------------------------------------------------------------
(* api.ts and the router                                                   *)

Send(op, a) == sent' = [sent EXCEPT ![op] = @ \cup {a}] /\ UNCHANGED answered
Drop(op, a) == sent' = [sent EXCEPT ![op] = @ \ {a}] /\ UNCHANGED answered
Reply(op, a, v) ==
  /\ sent' = [sent EXCEPT ![op] = @ \ {a}]
  /\ answered' = [answered EXCEPT ![op] = @ \cup {v}]
ReplyIf(live, op, a, v) == IF live THEN Reply(op, a, v) ELSE Drop(op, a)
Take(op, v) == answered' = [answered EXCEPT ![op] = @ \ {v}] /\ UNCHANGED sent
TakeAndSend(op, v, next, a) ==
  /\ answered' = [answered EXCEPT ![op] = @ \ {v}]
  /\ sent' = [sent EXCEPT ![next] = @ \cup {a}]

Click == user.clicks > 0 /\ user' = [user EXCEPT !.clicks = @ - 1]
On(t) == tab = t

\* validateConfig(): a .json name takes JSON only, which is YAML as well.
Valid(text, json) ==
  /\ text.syntax \in (IF json THEN {"json"} ELSE {"json", "yaml"})
  /\ text.says \in GoodValues

\* Mutant of ListHistory: by the names of the files alone.
ListFiles == {f \in Reports : reports[f] \notin {"none", "removed"}}

\* listHistory(): a report that cannot be parsed is skipped.
ListHistory == {f \in Reports : reports[f] = "complete"}

\* The requests that read; a validation is of YAML whatever the name.
Answer(op, a) ==
  CASE op = "list"     -> status
    [] op = "configs"  -> {n \in Names : store[n] # NoText}
    [] op = "validate" -> a
    [] op = "load"     -> <<a, store[a]>>
    [] op = "history"  -> ListHistory
    [] op = "open"     -> a
    [] op = "import"   -> a
    [] op = "compile"  -> <<a[1], CompileToCode(GraphToBlueprint(a[2]))>>

Refused(op, a) ==
  \/ op = "load" /\ store[a] = NoText
  \/ op = "open" /\ reports[a] \in {"none", "removed"}
  \/ op = "import" /\ ~ValidBlueprint(a)
  \/ op = "compile" /\ ~ValidBlueprint(GraphToBlueprint(a[2]))

\* The requests whose handler calls the file system, and when a read gets to that.
FileOps == {"configs", "load", "save", "delete", "history", "open"}
Touches(op, a) == op \in {"configs", "history"} \/ (op \in {"load", "open"} /\ ~Refused(op, a))

\* The file system throws (no access, no space), and serve() catches nothing: the
\* daemon ends.  What a failed write leaves behind is read by nobody any more.
FileFails(op, a) == user.fails /\ up' = FALSE /\ Drop(op, a)

\* handleRequest() of a read.  readHistory() parses what it finds: a partial
\* report ends the daemon as well.
ServeRead(op) ==
  /\ Request
  /\ Cardinality(answered[op]) < user.answers
  /\ \E a \in sent[op] :
       \/ Touches(op, a) /\ FileFails(op, a)
       \/ IF op = "open" /\ reports[a] = "partial"
            THEN up' = FALSE /\ Drop(op, a)
            ELSE /\ IF Refused(op, a) THEN Drop(op, a) ELSE Reply(op, a, Answer(op, a))
                 /\ UNCHANGED up
  /\ UNCHANGED <<closing, held, engines, status, final, stream, disk, views>>

\* POST /api/runs.  The body may not make a config (400).
ServeStart ==
  \E a \in sent["start"] :
    \/ /\ \E r \in user.runs : /\ r = CHOOSE x \in user.runs : status[x] = "none"
                               /\ Start(r) /\ ReplyIf(a.live, "start", a, r)
       /\ UNCHANGED <<disk, views>>
    \/ /\ Request /\ Drop("start", a)
       /\ UNCHANGED <<vars, disk, views>>

\* POST /api/runs/:id/stop.
ServeStop ==
  \E a \in sent["stop"] :
    \/ /\ Stop(a.run) /\ ReplyIf(a.live, "stop", a, a.run)
       /\ UNCHANGED <<disk, views>>
    \/ /\ Request /\ status[a.run] # "running" /\ Drop("stop", a)
       /\ UNCHANGED <<vars, disk, views>>

\* ConfigStore.write(): a safe name, and text that is valid under it.
Accepted(a) == a.name \in SafeNames /\ Valid(a.text, a.name \in JsonNames)

\* PUT /api/configs/:name.
ServeSave ==
  /\ Request
  /\ \E a \in sent["save"] :
       \/ Accepted(a) /\ FileFails("save", a) /\ UNCHANGED <<store, kept>>
       \/ /\ IF Accepted(a)
               THEN /\ store' = [store EXCEPT ![a.name] = a.text]
                    /\ kept' = kept \cup {<<a.name, a.text>>}
                    /\ ReplyIf(a.live, "save", a, a.name)
               ELSE Drop("save", a) /\ UNCHANGED <<store, kept>>
          /\ UNCHANGED up
  /\ UNCHANGED <<closing, held, engines, status, final, stream, reports, views>>

\* DELETE /api/configs/:name.
ServeDelete ==
  /\ Request
  /\ \E a \in sent["delete"] :
       \/ store[a.name] # NoText /\ FileFails("delete", a) /\ UNCHANGED store
       \/ /\ store' = [store EXCEPT ![a.name] = NoText]
          /\ IF store[a.name] # NoText THEN ReplyIf(a.live, "delete", a, a.name)
                                       ELSE Drop("delete", a)
          /\ UNCHANGED up
  /\ UNCHANGED <<closing, held, engines, status, final, stream, reports, kept, views>>

-----------------------------------------------------------------------------
(* Dashboard                                                               *)

\* Mutant of Poll: only until there is something to show.
PollUntilShown ==
  /\ On("dashboard") /\ board.shown = NewBoard.shown /\ Send("list", "all")
  /\ UNCHANGED <<vars, disk, views>>

\* refresh(), every other second.
Poll == On("dashboard") /\ Send("list", "all") /\ UNCHANGED <<vars, disk, views>>

ListArrives ==
  \E v \in answered["list"] :
    /\ board' = [board EXCEPT !.shown = v]
    /\ Take("list", v)
    /\ UNCHANGED <<vars, disk, user, tab, editor, viewer, canvas, busy>>

ClickStart ==
  /\ On("dashboard") /\ Click
  /\ \E r \in user.runs : status[r] = "none"
  /\ sent["start"] = {}
  /\ Send("start", [live |-> TRUE])
  /\ UNCHANGED <<vars, disk, tab, board, editor, viewer, canvas, busy>>

StartArrives ==
  \E r \in answered["start"] :
    /\ board' = [board EXCEPT !.selected = r]
    /\ TakeAndSend("start", r, "list", "all")
    /\ UNCHANGED <<vars, disk, user, tab, editor, viewer, canvas, busy>>

ClickStop(r) ==
  /\ On("dashboard") /\ board.shown[r] = "running" /\ Click
  /\ Send("stop", [run |-> r, live |-> TRUE])
  /\ UNCHANGED <<vars, disk, tab, board, editor, viewer, canvas, busy>>

StopArrives ==
  \E r \in answered["stop"] :
    /\ TakeAndSend("stop", r, "list", "all")
    /\ UNCHANGED <<vars, disk, views>>

Select(r) ==
  /\ On("dashboard") /\ board.shown[r] # "none" /\ board.selected # r /\ Click
  /\ board' = [board EXCEPT !.selected = r]
  /\ UNCHANGED <<vars, disk, net, tab, editor, viewer, canvas, busy>>

NoStreams == [s \in Streams |-> NoStream]

\* Mutant of WatchSelected: the effect does not give back its clean-up.
WatchWithoutCleanup ==
  /\ On("dashboard") /\ board.watched # board.selected
  /\ board' = [board EXCEPT !.watched = board.selected, !.snap = NewBoard.snap]
  /\ UNCHANGED <<vars, disk, net, user, tab, editor, viewer, canvas, busy>>

\* The effect on `selected`, after the view is drawn: its clean-up closes the
\* stream of the run before.
WatchSelected ==
  /\ On("dashboard") /\ board.watched # board.selected
  /\ board' = [board EXCEPT !.watched = board.selected, !.snap = NewBoard.snap]
  /\ stream' = NoStreams
  /\ UNCHANGED <<daemon, engines, status, final, disk, net,
                 user, tab, editor, viewer, canvas, busy>>

\* The EventSource of the watched run connects.
Connects(s) ==
  /\ On("dashboard") /\ board.watched # "none"
  /\ \A x \in Streams : stream[x].run # board.watched
  /\ Open(s, board.watched)
  /\ UNCHANGED <<disk, net, views>>

\* A message of an open stream; those it has sent arrive before its end.
Got(s) == [of |-> stream[s].run, kind |-> stream[s].last]

Receives(s) ==
  /\ stream[s].last # "none" /\ board.snap # Got(s)
  /\ board' = [board EXCEPT !.snap = Got(s)]
  /\ UNCHANGED <<vars, disk, net, user, tab, editor, viewer, canvas, busy>>

\* When the server ends a stream, the EventSource connects anew.
Reconnects(s) ==
  /\ stream[s].state = "ended"
  /\ stream[s].last # "none" => board.snap = Got(s)
  /\ stream' = [stream EXCEPT ![s] = NoStream]
  /\ UNCHANGED <<daemon, engines, status, final, disk, net, views>>

-----------------------------------------------------------------------------
(* ConfigEditor                                                            *)

Edited(e) == editor' = e /\ UNCHANGED <<tab, board, viewer, canvas, busy>>

\* onYamlChange(): the form keeps the last object that could be parsed.
YamlChange(e, t) ==
  [e EXCEPT !.text = t, !.obj = IF t.syntax = "broken" THEN @ ELSE t.says]

TypeText(t) ==
  /\ On("config") /\ t # editor.text /\ Click
  /\ Edited([YamlChange(editor, t) EXCEPT !.touched = TRUE])
  /\ UNCHANGED <<vars, disk, net>>

\* onFormChange(): the text is written anew from the object.
FormChange(v) ==
  /\ On("config") /\ v # editor.obj /\ Click
  /\ Edited([editor EXCEPT !.obj = v, !.text = [syntax |-> "yaml", says |-> v],
                           !.touched = TRUE])
  /\ UNCHANGED <<vars, disk, net>>

Rename(n) ==
  /\ On("config") /\ n # editor.name /\ Click
  /\ Edited([editor EXCEPT !.name = n, !.touched = TRUE])
  /\ UNCHANGED <<vars, disk, net>>

\* The effect on the text: a new timer in place of the one that runs.
Debounce ==
  /\ On("config") /\ editor.seen # editor.text
  /\ Edited([editor EXCEPT !.seen = editor.text, !.timer = editor.text])
  /\ UNCHANGED <<vars, disk, net, user>>

DebounceFires ==
  /\ On("config") /\ editor.timer # NoText
  /\ Send("validate", editor.timer)
  /\ Edited([editor EXCEPT !.timer = NoText])
  /\ UNCHANGED <<vars, disk, user>>

VerdictArrives ==
  \E t \in answered["validate"] :
    /\ Edited([editor EXCEPT !.judged = t])
    /\ Take("validate", t)
    /\ UNCHANGED <<vars, disk, user>>

\* Mutant of ClickLoad: the name is set before the answer is there.
NameThenLoad(n) ==
  /\ On("config") /\ n \in editor.configs /\ Click
  /\ Send("load", n)
  /\ Edited([editor EXCEPT !.name = n])
  /\ UNCHANGED <<vars, disk>>

ClickLoad(n) ==
  /\ On("config") /\ n \in editor.configs /\ Click
  /\ Send("load", n)
  /\ UNCHANGED <<vars, disk, tab, board, editor, viewer, canvas, busy>>

\* Mutant of LoadArrives: only the text is set.
LoadText ==
  \E a \in answered["load"] :
    /\ Edited([editor EXCEPT !.text = a[2], !.name = a[1], !.touched = FALSE])
    /\ Take("load", a)
    /\ UNCHANGED <<vars, disk, user>>

LoadArrives ==
  \E a \in answered["load"] :
    /\ Edited([YamlChange(editor, a[2]) EXCEPT !.name = a[1], !.touched = FALSE])
    /\ Take("load", a)
    /\ UNCHANGED <<vars, disk, user>>

ClickSave ==
  /\ On("config") /\ Click
  /\ Send("save", [name |-> editor.name, text |-> editor.text, live |-> TRUE])
  /\ UNCHANGED <<vars, disk, tab, board, editor, viewer, canvas, busy>>

ClickDelete(n) ==
  /\ On("config") /\ n \in editor.configs /\ Click
  /\ Send("delete", [name |-> n, live |-> TRUE])
  /\ UNCHANGED <<vars, disk, tab, board, editor, viewer, canvas, busy>>

\* Saved or deleted: refreshConfigs().
StoreArrives ==
  \E op \in {"save", "delete"} : \E n \in answered[op] :
    /\ TakeAndSend(op, n, "configs", "all")
    /\ UNCHANGED <<vars, disk, views>>

ConfigsArrive ==
  \E v \in answered["configs"] :
    /\ Edited([editor EXCEPT !.configs = v])
    /\ Take("configs", v)
    /\ UNCHANGED <<vars, disk, user>>

-----------------------------------------------------------------------------
(* History, and the reports that runs of this and other processes write    *)

ClickRefresh ==
  /\ On("history") /\ Click /\ Send("history", "all")
  /\ UNCHANGED <<vars, disk, tab, board, editor, viewer, canvas, busy>>

HistoryArrives ==
  \E v \in answered["history"] :
    /\ viewer' = [viewer EXCEPT !.entries = v]
    /\ Take("history", v)
    /\ UNCHANGED <<vars, disk, user, tab, board, editor, canvas, busy>>

\* open(): the entry is selected at once, its report shown when it arrives.
ClickOpen(f) ==
  /\ On("history") /\ f \in viewer.entries /\ Click
  /\ viewer' = [viewer EXCEPT !.selected = f]
  /\ Send("open", f)
  /\ UNCHANGED <<vars, disk, tab, board, editor, canvas, busy>>

OpenArrives ==
  \E f \in answered["open"] :
    /\ viewer' = [viewer EXCEPT !.html = f]
    /\ Take("open", f)
    /\ UNCHANGED <<vars, disk, user, tab, board, editor, canvas, busy>>

\* writeJsonReport() of another process makes the file, then fills it; its name
\* is new.  Whoever keeps the directory may remove it.
Report(f) ==
  /\ reports' = [reports EXCEPT ![f] = CASE @ = "none" -> "partial" [] @ = "partial" -> "complete"
                                         [] OTHER -> "removed"]
  /\ UNCHANGED <<vars, store, kept, net, views>>

-----------------------------------------------------------------------------
(* GraphEditor                                                             *)

\* FIELDS: only the fields of an action that the editor knows are kept.
KnownFields(g) ==
  [g EXCEPT !.nodes = [i \in DOMAIN @ |->
     IF @[i].type \in WithFields THEN @[i] ELSE [@[i] EXCEPT !.arg = "none"]]]

Drawn(c) == canvas' = c /\ UNCHANGED <<tab, board, editor, viewer, busy>>

ClickImport(b) ==
  /\ On("graph") /\ Click /\ Send("import", b)
  /\ UNCHANGED <<vars, disk, tab, board, editor, viewer, canvas, busy>>

\* loadGraph() of what the daemon has made of the blueprint.
ImportArrives ==
  \E b \in answered["import"] :
    /\ Drawn([canvas EXCEPT !.graph = KnownFields(BlueprintToGraph(b)), !.from = b])
    /\ Take("import", b)
    /\ UNCHANGED <<vars, disk, user>>

\* add(), updateField(), onConnect() and what a key deletes: a node goes with its
\* edges.  The id of a new node is a new one.  Of the nodes there are, it is the last
\* that is edited or wired, back or forth; a connection that is there is not added.
EditGraph ==
  LET g == canvas.graph
      n == Len(g.nodes)
      fresh == CHOOSE k \in 0 .. n : \A i \in 1 .. n : g.nodes[i].id # <<0, k>>
      Added(kind, type) ==
        [g EXCEPT !.nodes = Append(@, [id |-> <<0, fresh>>, kind |-> kind, type |-> type, arg |-> "none"])]
      Wired(i, j) ==
        LET e == [source |-> g.nodes[i].id, target |-> g.nodes[j].id]
        IN [g EXCEPT !.edges = IF e \in ToSet(@) THEN @ ELSE Append(@, e)]
      Without(i) ==
        [nodes |-> RemoveAt(g.nodes, i),
         edges |-> SelectSeq(g.edges, LAMBDA e : g.nodes[i].id \notin {e.source, e.target})]
  IN /\ On("graph") /\ Click
     /\ \E h \in {Added("event", "death"), Added("action", "wait")}
              \cup {[g EXCEPT !.nodes[i].arg = "odd"] : i \in {n} \ {0}}
              \cup {Wired(i, n) : i \in 1 .. n} \cup {Wired(n, i) : i \in 1 .. n}
              \cup {Without(i) : i \in 1 .. n}
              \cup {[g EXCEPT !.edges = RemoveAt(@, i)] : i \in DOMAIN g.edges} :
          Drawn([canvas EXCEPT !.graph = h, !.from = <<>>])
     /\ UNCHANGED <<vars, disk, net>>

ClickCompile ==
  /\ On("graph") /\ Click
  /\ Drawn([canvas EXCEPT !.code = NewCanvas.code, !.codeOf = <<>>])
  /\ Send("compile", <<canvas.from, KnownFields(canvas.graph)>>)
  /\ UNCHANGED <<vars, disk>>

CompileArrives ==
  \E a \in answered["compile"] :
    /\ Drawn([canvas EXCEPT !.codeOf = a[1], !.code = a[2]])
    /\ Take("compile", a)
    /\ UNCHANGED <<vars, disk, user>>

-----------------------------------------------------------------------------
(* Scripts                                                                 *)

ClickRun ==
  /\ On("scripts") /\ ~busy /\ Click
  /\ busy' = TRUE
  /\ Send("script", [n |-> user.clicks, live |-> TRUE, bot |-> FALSE])
  /\ UNCHANGED <<vars, disk, tab, board, editor, viewer, canvas>>

\* POST /api/script/run is refused, or its bot does not connect (502).
ScriptRefused ==
  /\ Request
  /\ \E a \in sent["script"] : ~a.bot /\ Drop("script", a) /\ busy' = (busy /\ ~a.live)
  /\ UNCHANGED <<vars, disk, user, tab, board, editor, viewer, canvas>>

ScriptConnects ==
  /\ Request
  /\ \E a \in sent["script"] :
       ~a.bot /\ sent' = [sent EXCEPT !["script"] = (@ \ {a}) \cup {[a EXCEPT !.bot = TRUE]}]
  /\ UNCHANGED <<vars, disk, answered, views>>

\* An error event of its bot that nobody listens for (Session).
ScriptBotThrows ==
  /\ \E a \in sent["script"] : a.bot
  /\ SessionThrows
  /\ UNCHANGED <<disk, net, views>>

\* The script ends or times out, the bot disconnects and the answer is sent.
ServeScriptEnd ==
  /\ Request
  /\ \E a \in sent["script"] : a.bot /\ ReplyIf(a.live, "script", a, a.n)
  /\ UNCHANGED <<vars, disk, views>>

ScriptArrives ==
  \E n \in answered["script"] :
    /\ busy' = FALSE
    /\ Take("script", n)
    /\ UNCHANGED <<vars, disk, user, tab, board, editor, viewer, canvas>>

-----------------------------------------------------------------------------
(* The page                                                                *)

\* Another tab: the view there was is unmounted, the other one starts anew.
OpenTab(t) ==
  /\ t \in user.uses /\ ~On(t) /\ Click
  /\ tab' = t
  /\ board' = NewBoard /\ editor' = NewEditor /\ viewer' = NewViewer /\ canvas' = NewCanvas
  /\ busy' = FALSE
  /\ stream' = NoStreams
  /\ sent' = [op \in DOMAIN sent |->
       IF op \in Writes THEN {[a EXCEPT !.live = FALSE] : a \in sent[op]}
       ELSE IF <<t, op>> \in {<<"dashboard", "list">>, <<"config", "configs">>, <<"history", "history">>}
              THEN {"all"} ELSE {}]
  /\ answered' = [op \in DOMAIN answered |-> {}]
  /\ UNCHANGED <<daemon, engines, status, final, disk>>

\* fetch() rejects once the daemon is gone.
Lost(op) ==
  /\ ~up
  /\ \E a \in sent[op] :
       /\ Drop(op, a)
       /\ busy' = (busy /\ ~(op = "script" /\ a.live))
       /\ editor' = IF op = "validate" THEN [editor EXCEPT !.judged = a] ELSE editor
  /\ UNCHANGED <<vars, disk, user, tab, board, viewer, canvas>>

DaemonStep ==
  /\ \/ \E r \in Runs : Fulfilled(r) \/ Rejected(r) \/ Settle(r) \/ EndsByItself(r) \/ Crash(r)
     \/ \E s \in Streams : Tick(s)
  /\ UNCHANGED <<disk, net, views>>

Arrives == \/ ListArrives \/ StartArrives \/ StopArrives \/ VerdictArrives \/ LoadArrives
           \/ StoreArrives \/ ConfigsArrive \/ HistoryArrives \/ OpenArrives \/ ImportArrives
           \/ CompileArrives \/ ScriptArrives

Clicks == \/ ClickStart \/ (\E r \in Runs : ClickStop(r) \/ Select(r))
          \/ (\E t \in Texts : TypeText(t)) \/ (\E v \in Values : FormChange(v))
          \/ (\E n \in Names : Rename(n) \/ ClickLoad(n) \/ ClickDelete(n)) \/ ClickSave
          \/ ClickRefresh \/ (\E f \in Reports : ClickOpen(f))
          \/ (\E b \in Blueprints : ClickImport(b)) \/ EditGraph \/ ClickCompile
          \/ ClickRun \/ (\E t \in user.uses : OpenTab(t))

PanelNext ==
  \/ DaemonStep
  \/ \E op \in Reads : ServeRead(op)
  \/ ServeStart \/ ServeStop \/ ServeSave \/ ServeDelete
  \/ ScriptRefused \/ ScriptConnects \/ ScriptBotThrows \/ ServeScriptEnd
  \/ \E op \in Reads \cup Writes : Lost(op)
  \/ Poll \/ WatchSelected \/ Debounce \/ DebounceFires
  \/ \E s \in Streams : Connects(s) \/ Receives(s) \/ Reconnects(s)
  \/ Arrives
  \/ Clicks
  \/ \E f \in user.files : Report(f)

PanelSpec == PanelInit /\ [][PanelNext]_panelVars

\* The dashboard polls and its effect runs, the daemon reads what reaches it and
\* what it sends arrives.  The user need do nothing.
PanelFairness ==
  /\ Fairness
  /\ WF_panelVars(Poll) /\ WF_panelVars(ServeRead("list")) /\ WF_panelVars(ListArrives)
  /\ WF_panelVars(WatchSelected)
  /\ \A s \in Streams : /\ WF_panelVars(Connects(s)) /\ WF_panelVars(Receives(s))
                         /\ WF_panelVars(Reconnects(s))

FairPanelSpec == PanelSpec /\ PanelFairness

-----------------------------------------------------------------------------
(* Properties                                                              *)

\* Once the effect of a selection has run, the numbers under "Live metrics" are
\* those of the selected run: nothing of a stream that was open before gets in.
SnapshotIsOfSelected ==
  board.watched = board.selected => board.snap.of \in {"none", board.selected}

\* Without an edit since, the name in the editor is the name of a file that had
\* the text beside it: two loads that overtake each other do not mix, and Save
\* cannot put one file's text under the name of another.
NameMatchesText == editor.touched \/ <<editor.name, editor.text>> \in kept

\* "kept in sync" (docs/gui.md:19): whenever the text can be parsed, the form shows
\* what it says, however the text and the form came to be.
FormMatchesText == editor.text.syntax # "broken" => editor.obj = editor.text.says

\* The code that the graph editor ejects for an imported blueprint does what the
\* interpreter does with the blueprint itself, if that reports no outcome and has a
\* spawn rule that waits as its only rule at most: the code has its spawn rules in
\* turn and listens only after them, the interpreter starts them all and listens.
EjectedDoesTheSame ==
  LET b == canvas.codeOf
  IN b # <<>> /\ ~HasOutcome(b) /\ (WaitsAtSpawn(b) => Len(b) = 1)
       => Does(RunCode(canvas.code)) = Does(RunBlueprint(b))

\* Nothing that the panel opens, saves or deletes ends the daemon as long as its
\* file system does not fail it, though readHistory() throws on the partial report
\* of another process: what is listed is complete and stays so.  Only an engine that
\* cannot shut down does, or the bot of a script, or else a request whose handler
\* has the file system throw, which nothing catches.
OpeningIsHarmless ==
  [][up /\ ~up' => \/ \E r \in Runs : phase[r] \in {"preflight", "waiting"}
                   \/ \E a \in sent["script"] : a.bot
                   \/ user.fails /\ \E op \in FileOps : sent'[op] # sent[op]]_up

\* "The runs list updates live" (docs/gui.md:17): a run that is over is seen to be
\* over, and its final numbers are seen if it is selected, although lists arrive in
\* any order and a stopped run may end its stream before it has final numbers.
DashboardCatchesUp ==
  \A r \in Runs :
    /\ status[r] \notin {"none", "running"}
         ~> board.shown[r] = status[r] \/ ~On("dashboard") \/ ~up
    /\ board.selected = r /\ r \in final
         ~> board.snap = [of |-> r, kind |-> "final"]
            \/ board.selected # r \/ ~On("dashboard") \/ ~up
=============================================================================
