SPECIFICATION LogSpec
CONSTANTS
  TaskIds = {t1}
  Tasks = {v1}
  h1 = h1
  Hosts = {h1}
  Slaves = {}
  Attributes = {a1}
  Frameworks = {}
  Keys = {}
  Entries = {e1}
  None = None
  SlaveHost <- MCSlaveHost
  ChunkCounts = {2}
  MaxOps = 1
  MaxLog = 5
  TaskStoreTransactional = TRUE
  WorkMayThrow = TRUE
CONSTRAINT LogBound
INVARIANTS
  LogReadable
PROPERTY ImplementsDurableStore
