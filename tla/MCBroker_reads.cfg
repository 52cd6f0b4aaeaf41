SPECIFICATION FairSpec
CONSTANTS
  q1 = q1
  q2 = q2
  t1 = t1
  t2 = t2
  None = None
  QueueName <- OneQueue
  Thread <- TwoThreads
  Request <- UpdatesAndReads
  Faults = {"mkdir", "fopen"}
  MayCrash = FALSE
  MaxMessages = 3
INVARIANTS
  ReadsMatchDisk
PROPERTIES
  ServerSurvives
  LockIsReleased
  AllAnswered
