-------------------------------- MODULE MCPanel --------------------------------
(* The panel with two runs, three names of configs and two reports, in seven   *)
(* uses: runs (two), configs, reports, scripts with runs, blueprints, and      *)
(* configs and reports on a file system that fails.                            *)
EXTENDS Panel

\* The tabs a user opens and the clicks, those included; the runs that are started
\* and the reports that are written; the answers of a kind that are on their way.
Plan(uses, clicks, runs, files, answers) ==
  [uses |-> uses, clicks |-> clicks, runs |-> runs, files |-> files, answers |-> answers,
   fails |-> FALSE]

MCPlans ==
  {Plan({"dashboard"}, 2, Runs, {}, 1),
   Plan({"dashboard"}, 3, {CHOOSE r \in Runs : TRUE}, {}, 2),
   Plan({"config"}, 3, {}, {}, 2),
   Plan({"history"}, 4, {}, Reports, 2),
   Plan({"scripts", "dashboard"}, 6, {}, {}, 1),
   Plan({"graph"}, 4, {}, {}, 2),
   [Plan({"config", "history"}, 3, {}, {CHOOSE f \in Reports : TRUE}, 1) EXCEPT !.fails = TRUE]}

MCDisk == [n \in Names |->
  CASE n = "run.yaml" -> [syntax |-> "yaml", says |-> "light"]
    [] n = "flood.json" -> [syntax |-> "json", says |-> "light"]
    [] OTHER -> NoText]

\* An action, and a rule of such actions.
A(type, arg) == [type |-> type, arg |-> arg]
On_(trigger, actions) == [on |-> trigger, actions |-> actions]

\* Spawn rules between event rules that wait; one spawn rule that waits; one that
\* waits before other rules; outcomes; two that the daemon refuses.
MCBlueprints ==
  {<<On_("death", <<A("wait", "some"), A("chat", "hi")>>),
     On_("spawn", <<A("chat", "hi")>>),
     On_("chat", <<A("look", "up")>>),
     On_("spawn", <<A("stop", "none"), A("command", "list")>>),
     On_("chat", <<A("goto", "home"), A("command", "list")>>)>>,
   <<On_("spawn", <<A("chat", "hi"), A("wait", "some"), A("stop", "none")>>)>>,
   <<On_("spawn", <<A("wait", "some"), A("chat", "hi")>>),
     On_("spawn", <<A("look", "up")>>),
     On_("chat", <<A("stop", "none")>>)>>,
   <<On_("death", <<A("chat", "hi"), A("succeed", "none")>>),
     On_("spawn", <<A("fail", "none")>>)>>,
   <<On_("spawn", <<A("wait", "odd")>>)>>,
   <<On_("spawn", <<>>)>>}
=============================================================================
