SPECIFICATION Spec
CONSTANTS
  q1 = q1
  q2 = q2
  t1 = t1
  t2 = t2
  None = None
  QueueName <- OneQueue
  Thread <- TwoThreads
  Request <- UpdatesAndUnknown
  Faults = {"opendir", "mkdir", "fopen", "write", "unlink", "rmdir", "send"}
  MayCrash = TRUE
  MaxMessages = 3
SYMMETRY Interchangeable
INVARIANTS
  OldestFirst
  NoOrphanFiles
  PoolHasDirs
  IndInv
PROPERTY ImplementsNames
