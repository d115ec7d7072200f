--------------------------------- MODULE Graph ---------------------------------
(***************************************************************************)
(* Blueprints and their graphs (script/blueprint.ts, graph.ts, compile.ts, *)
(* run.ts): a blueprint is a sequence of rules, each a trigger and actions.*)
(* A graph has a node for every trigger and action, and edges between them.*)
(*                                                                         *)
(* The fields of an action are one value `arg`; "odd" is a value that the  *)
(* schema refuses in a wait and nowhere else (a fraction, a negative).     *)
(***************************************************************************)
EXTENDS Naturals, Sequences, SequencesExt

Events == {"chat", "death"}
Triggers == {"spawn"} \cup Events
Outcomes == {"succeed", "fail"}
WithFields == {"chat", "command", "look", "goto", "wait"}

\* What can be read as a blueprint; only actions with fields have an argument (the
\* reason of a fail is left out).
ActionType == [type : WithFields, arg : STRING] \cup [type : {"stop"} \cup Outcomes, arg : {"none"}]
RuleType == [on : STRING, actions : Seq(ActionType)]
BlueprintType == Seq(RuleType)

\* blueprintSchema, ruleSchema, actionSchema.
ValidAction(a) == ~(a.type = "wait" /\ a.arg = "odd")

ValidBlueprint(b) ==
  \A r \in ToSet(b) :
    /\ r.on \in Triggers
    /\ r.actions # <<>> /\ \A a \in ToSet(r.actions) : ValidAction(a)

-----------------------------------------------------------------------------
(* Between blueprints and graphs                                           *)

\* A node's id is its place: <<i, 0>> the event of rule i, <<i, j>> its j-th action.
NoNode == <<>>

\* One after the other.
Concat(ss) == FoldLeft(LAMBDA all, s : all \o s, <<>>, ss)

RowNodes(b, i) ==
  <<[id |-> <<i, 0>>, kind |-> "event", type |-> b[i].on, arg |-> "none"]>>
  \o [j \in DOMAIN b[i].actions |->
       [id |-> <<i, j>>, kind |-> "action", type |-> b[i].actions[j].type,
        arg |-> b[i].actions[j].arg]]

\* Mutant of RowEdges: every action is wired to its event.
StarEdges(b, i) ==
  [j \in DOMAIN b[i].actions |-> [source |-> <<i, 0>>, target |-> <<i, j>>]]

RowEdges(b, i) ==
  [j \in DOMAIN b[i].actions |-> [source |-> <<i, j - 1>>, target |-> <<i, j>>]]

\* blueprintToGraph(): one row per rule, its actions one after the other.
BlueprintToGraph(b) ==
  [nodes |-> Concat([i \in DOMAIN b |-> RowNodes(b, i)]),
   edges |-> Concat([i \in DOMAIN b |-> RowEdges(b, i)])]

\* toAction(): a type that it does not know becomes a stop.
ToAction(node) ==
  IF node.type \in WithFields THEN [type |-> node.type, arg |-> node.arg]
                              ELSE [type |-> "stop", arg |-> "none"]

\* The first edge out of a node decides what comes next.
NextOf(g, id) ==
  LET out == SelectInSeq(g.edges, LAMBDA e : e.source = id)
  IN IF out = 0 THEN NoNode ELSE g.edges[out].target

\* A step from the last node of a walk, to an action that was not seen before.
Onward(g, walk) ==
  LET id == NextOf(g, Last(walk).id)
      at == SelectInSeq(g.nodes, LAMBDA n : n.id = id /\ n.kind = "action")
  IN IF at = 0 \/ \E x \in ToSet(walk) : x.id = id THEN walk ELSE Append(walk, g.nodes[at])

\* The action nodes wired after an event node: there are no more than there are nodes.
Chain(g, event) == Tail(FoldLeft(LAMBDA walk, n : Onward(g, walk), <<event>>, g.nodes))

\* An event node without an action makes no rule.
WithRuleOf(g, rules, n) ==
  LET c == Chain(g, n)
  IN IF n.kind = "event" /\ n.type \in Triggers /\ c # <<>>
       THEN Append(rules, [on |-> n.type, actions |-> [j \in DOMAIN c |-> ToAction(c[j])]])
       ELSE rules

\* graphToBlueprint(): the rules of the event nodes, in their order.
GraphToBlueprint(g) == FoldLeft(LAMBDA rules, n : WithRuleOf(g, rules, n), <<>>, g.nodes)

-----------------------------------------------------------------------------
(* What a blueprint does, and the code that it is ejected to               *)

\* runActions(): in order, up to an outcome.
RunActions(actions) ==
  LET end == SelectInSeq(actions, LAMBDA a : a.type \in Outcomes)
  IN IF end = 0 THEN actions ELSE SubSeq(actions, 1, end - 1)

\* The rules of some triggers, in their order.
RulesOn(b, triggers) ==
  FoldLeft(LAMBDA rules, r : IF r.on \in triggers THEN Append(rules, r) ELSE rules, <<>>, b)

\* The actions that are awaited, so that other code runs before the next one.
Awaits == {"look", "goto", "wait"}
Waits(actions) == \E a \in ToSet(actions) : a.type \in Awaits

\* What the rules of a trigger do, each started without waiting for the others.
Strands(b, trigger) ==
  LET rules == RulesOn(b, {trigger})
  IN [i \in DOMAIN rules |-> RunActions(rules[i].actions)]

\* runBlueprint(): what starts now, what an event starts, and whether the events
\* are missed that come before the last action of now.  It subscribes at once.
RunBlueprint(b) ==
  [now |-> Strands(b, "spawn"), later |-> [e \in Events |-> Strands(b, e)], deaf |-> FALSE]

\* compileToCode(): the spawn rules inline, then a subscription for every other.
\* A line of code does what its action does (actionLine()).
CompileToCode(b) ==
  LET spawned == RulesOn(b, {"spawn"})
  IN [inline |-> Concat([i \in DOMAIN spawned |-> spawned[i].actions]),
      subs |-> RulesOn(b, Events)]

\* What the code does: the spawn rules one after the other, and the subscriptions
\* after them, at once only if none of them is awaited; a return or a throw ends it.
RunCode(c) ==
  LET done == RunActions(c.inline)
      subs == IF done = c.inline THEN c.subs ELSE <<>>
  IN [now |-> <<done>>, later |-> [e \in Events |-> Strands(subs, e)],
      deaf |-> subs # <<>> /\ Waits(done)]

\* What starts at once and never waits is over before anything else runs: it is
\* the same whether its parts are started side by side or in turn.
Does(p) ==
  IF \E s \in ToSet(p.now) : Waits(s) THEN p ELSE [p EXCEPT !.now = <<Concat(@)>>]

HasOutcome(b) ==
  \E r \in ToSet(b) : \E a \in ToSet(r.actions) : a.type \in Outcomes

WaitsAtSpawn(b) ==
  \E r \in ToSet(b) : r.on = "spawn" /\ Waits(r.actions)
=============================================================================
