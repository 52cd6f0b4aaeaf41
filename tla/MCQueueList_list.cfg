SPECIFICATION FairSpec
CONSTANTS
  n1 = n1
  n2 = n2
  n3 = n3
  m1 = m1
  m2 = m2
  Null = Null
  Node <- ThreeNodes
  Message <- TwoMessages
  Index <- SomeIndices
INVARIANTS
  ListIsChain
  PointersAreLive
  IndInv
PROPERTIES
  NothingLeaks
  ImplementsFifo
  CallsReturn
