SPECIFICATION OffersSpec
CONSTRAINT Scenarios
CONSTANTS
  s1 = s1
  s2 = s2
  s3 = s3
  h1 = h1
  h2 = h2
  t1 = t1
  t2 = t2
  None = None
  OfferIds = {1, 2, 3, 4}
  Slaves = {s1, s2, s3}
  Hosts = {h1, h2}
  TaskIds = {t1, t2}
  OfferSlave <- MCOfferSlave
  SlaveHost <- MCSlaveHost
  Fits <- MCFits
  Suffices <- MCSuffices
  Limit <- MCLimit
  InitialTasks <- MCInitialTasks
  MaxFaults = 1
  MaxRequests = 1
INVARIANTS
  AnsweredOnce
  IndicesAgree
  DrainedIsEmpty
PROPERTIES
  DroppedOnDisconnectOnly
  DrainEnds
  MatchIsFound
CHECK_DEADLOCK FALSE
