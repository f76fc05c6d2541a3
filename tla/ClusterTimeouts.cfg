SPECIFICATION LossySpec
CONSTRAINT InOrder
CONSTANTS
  TaskIds = {1, 2}
  Instances = {i1}
  service = service
  Configs = {service}
  None = None
  IsService <- MCIsService
  MaxTaskFailures <- MCMaxTaskFailures
  RequestKinds = {"kill", "restart"}
  MaxOffers = 1
  MaxUpdates = 1
PROPERTIES
  ImplementsStateManager
  TransientEnds
CHECK_DEADLOCK FALSE
