SPECIFICATION Spec
CONSTANTS
  MaxStack = 7
  Word = 64
  Elem <- TwoElems
  Programs <- Written
  NumIn = 2
  NumOut = 1
  MaxTemp = 4
  MaxDepth = 2
INVARIANTS
  NoStaleTemps
CHECK_DEADLOCK FALSE
