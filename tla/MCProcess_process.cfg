SPECIFICATION FairSpec
CONSTANTS
  t1 = t1
  t2 = t2
  Main = Main
  None = None
  Thread = {t1, t2}
  MaxFds = 5
  MaxStacks = 5
  MaxOpens = 2
  MaxBlocks = 2
INVARIANTS
  ProcessInv
  OnlyRemovalsLeak
  
  CounterOnlyLoses
PROPERTIES
  OnlyLeaksEndServer
  ReceivedIsAnswered
