SPECIFICATION JobSpec
CONSTANTS
  Instances = {0, 1, 2}
  Configs = {a, b}
  UpdateKeys = {u1}
  Client = Client
  None = None
  Counts = {3}
  Scopes = {{}}
  Requests = {"pause"}
  GroupSize = 2
  BatchStrategy = FALSE
  MaxPerInstanceFailures = 0
  MaxFailedInstances = 0
  RollbackOnFailure = TRUE
  MaxEvents = 1
  MaxPending = 4
CONSTRAINT EventBound
INVARIANTS
  InstancesAttended
CHECK_DEADLOCK FALSE
