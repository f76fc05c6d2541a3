SPECIFICATION Spec
CONSTANTS
  TaskIds = {t1, t2, t3}
  MaxStale = 1
  Instances = {i1}
  service = service
  batch = batch
  Configs = {service, batch}
  None = None
  IsService <- MCIsService
  MaxTaskFailures <- MCMaxTaskFailures
CONSTRAINTS StaleBound OneJob
SYMMETRY MCSymmetry
INVARIANTS
  TypeOK
  SingleSuccessor
  OneActivePerInstance
  NeverAbandoned
  FailureBudget
  NothingForgotten
PROPERTIES
  NeverBackwards
  ImplementsInstanceLife
CHECK_DEADLOCK FALSE
