SPECIFICATION Spec
CONSTANTS
  a = a
  b = b
  c = c
  x1 = x1
  x2 = x2
  x3 = x3
  x4 = x4
  Null = Null
  Name <- ThreeNames
  Queue <- FourQueues
  PersistFails = FALSE
INVARIANT ExitIsClean
