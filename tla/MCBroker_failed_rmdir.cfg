SPECIFICATION Spec
CONSTANTS
  q1 = q1
  q2 = q2
  t1 = t1
  t2 = t2
  None = None
  QueueName <- OneQueue
  Thread <- TwoThreads
  Request <- OneQueueUpdates
  Faults = {"rmdir"}
  MayCrash = FALSE
  MaxMessages = 2
INVARIANT AckedStored
