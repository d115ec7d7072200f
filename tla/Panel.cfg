\* Two runs and two streams, three names of configs, two reports, four blueprints.
SPECIFICATION FairPanelSpec
CONSTANTS
  Runs = {r1, r2}
  Streams = {s1, s2}
  Names = {"run.yaml", "flood.json", "x"}
  JsonNames = {"flood.json"}
  SafeNames = {"run.yaml", "flood.json"}
  Values = {"light", "odd"}
  GoodValues = {"light"}
  Reports = {"a", "b"}
  Blueprints <- MCBlueprints
  Plans <- MCPlans
  Disk <- MCDisk
INVARIANTS
  SnapshotIsOfSelected
  NameMatchesText
  FormMatchesText
  EjectedDoesTheSame
PROPERTIES
  OpeningIsHarmless
  DashboardCatchesUp
CHECK_DEADLOCK FALSE
