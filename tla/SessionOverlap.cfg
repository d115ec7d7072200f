\* Two attach messages in a row.
SPECIFICATION Spec
CONSTANTS
  MaxBots = 2
  MaxScripts = 0
  MaxInbox = 0
INVARIANTS
  OneBot
CHECK_DEADLOCK FALSE
