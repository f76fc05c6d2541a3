SPECIFICATION JobSpec
CONSTANTS
  Instances = {0, 1}
  Configs = {a, b}
  UpdateKeys = {u1}
  Client = Client
  None = None
  Counts = {1}
  Scopes = {{0, 1}}
  Requests = {}
  GroupSize = 1
  BatchStrategy = FALSE
  MaxPerInstanceFailures = 0
  MaxFailedInstances = 0
  RollbackOnFailure = TRUE
  MaxEvents = 1
  MaxPending = 4
CONSTRAINT EventBound
PROPERTIES
  CompletedAsRequested
CHECK_DEADLOCK FALSE
