SPECIFICATION JobSpec
CONSTANTS
  Instances = {0, 1}
  Configs = {a, b}
  UpdateKeys = {u1}
  Client = Client
  None = None
  Counts = {1}
  Scopes = {{}}
  Requests = {"pause", "abort", "locks", "tasks", "pulse"}
  GroupSize = 1
  BatchStrategy = FALSE
  MaxPerInstanceFailures = 0
  MaxFailedInstances = 0
  RollbackOnFailure = TRUE
  MaxEvents = 1
  MaxPending = 2
CONSTRAINT EventBound
SYMMETRY MCSymmetry
INVARIANTS
  UpdaterFollowsStatus
  LockedByActive
  PulsedWhileActive
  GroupBound
  InstancesAttended
PROPERTIES
  CompletedAsRequested
CHECK_DEADLOCK FALSE
