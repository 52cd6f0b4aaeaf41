SPECIFICATION Spec
CONSTANTS
  t1 = t1
  Thread = {t1}
  Cell <- MCCell
  Message <- MCMessage
  NumberOf <- MCNumberOf
  Behind <- MCBehind
  BufferSize = 14
  Cuts = {1, 5, 7, 9}
  JsonLength = {40, 45, 48}
INVARIANT BlocksFit
