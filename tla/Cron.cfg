SPECIFICATION CronSpec
CONSTANTS
  Instances = {0, 1}
  Templates <- MCTemplates
  MaxTriggers = 2
  MaxRuns = 4
  None = None
INVARIANTS
  WaitsForDying
  RunsDoNotOverlap
PROPERTIES
  ExecutionEnds
CHECK_DEADLOCK FALSE
