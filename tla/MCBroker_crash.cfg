SPECIFICATION Spec
CONSTANTS
  q1 = q1
  q2 = q2
  t1 = t1
  t2 = t2
  None = None
  QueueName <- TwoQueues
  Thread <- TwoThreads
  Request <- Updates
  Faults = {"opendir", "mkdir", "send"}
  MayCrash = TRUE
  MaxMessages = 3
SYMMETRY Interchangeable
INVARIANTS
  StoreInv
  MemoryMatchesDisk
  AckedStored
PROPERTY ImplementsStore
