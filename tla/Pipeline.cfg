\* Every kind of stage and every failure policy.
SPECIFICATION FairSpec
CONSTANTS
  Pipelines <- MixedPipelines
  MaxHandles = 9
  MaxLogins = 2
INVARIANTS
  GatedInOrder
  DroppedIsQuiet
  TornDownWhenPatient
PROPERTIES
  PipelineEnds
CHECK_DEADLOCK FALSE
