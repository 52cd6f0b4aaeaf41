SPECIFICATION Spec
CONSTANTS
  Message <- MCMessage
  Id = {1, 10, 99}
  Garbage <- MCGarbage
INVARIANTS
  DecodingStaysInside
  RestartKeepsText
  AnswerIsMeant
  MessageInv
  NameFits
