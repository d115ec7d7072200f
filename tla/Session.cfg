\* One connection: two bots, two scripts.
SPECIFICATION FairSpec
CONSTANTS
  MaxBots = 2
  MaxScripts = 2
  MaxInbox = 1
INVARIANTS
  PatientClientHasOneBot
  OneScriptAtATime
PROPERTIES
  ScriptsEnd
CHECK_DEADLOCK FALSE
