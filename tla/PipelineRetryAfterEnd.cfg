\* A timed retry starts a stage on a bot that has ended.
SPECIFICATION Spec
CONSTANTS
  Pipelines <- ImpatientPipelines
  MaxHandles = 2
  MaxLogins = 1
INVARIANTS
  TornDown
CHECK_DEADLOCK FALSE
