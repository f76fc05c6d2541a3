SPECIFICATION ThrottlerSpec
CONSTRAINT InOrder
CONSTANTS
  TaskIds = {1, 2, 3}
  Instances = {i1}
  service = service
  Configs = {service}
  None = None
  IsService <- MCIsService
  MaxTaskFailures <- MCMaxTaskFailures
  RequestKinds = {}
  MaxOffers = 2
  MaxUpdates = 1
PROPERTIES
  ThrottledIsReleased
CHECK_DEADLOCK FALSE
