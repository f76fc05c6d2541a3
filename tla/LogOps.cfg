SPECIFICATION LogSpec
CONSTANTS
  TaskIds = {t1, t2}
  Tasks = {v1, v2}
  h1 = h1
  Hosts = {h1}
  Slaves = {s1}
  Attributes = {a1, a2}
  Frameworks = {f1}
  Keys = {k1}
  Entries = {e1}
  None = None
  SlaveHost <- MCSlaveHost
  ChunkCounts = {}
  MaxOps = 2
  MaxLog = 2
  TaskStoreTransactional = FALSE
  WorkMayThrow = FALSE
CONSTRAINT LogBound
SYMMETRY MCSymmetry
INVARIANTS
  MemoryIsDurable
