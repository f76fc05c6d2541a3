SPECIFICATION ClusterSpec
CONSTRAINT InOrder
CONSTANTS
  TaskIds = {1, 2}
  Instances = {i1}
  service = service
  Configs = {service}
  None = None
  IsService <- MCIsService
  MaxTaskFailures <- MCMaxTaskFailures
  RequestKinds = {"kill", "restart"}
  MaxOffers = 1
  MaxUpdates = 2
PROPERTIES
  ZombiesAreKilled
CHECK_DEADLOCK FALSE
