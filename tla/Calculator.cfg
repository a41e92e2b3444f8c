SPECIFICATION Spec
CONSTANTS
  MaxStack = 7
  Word = 64
  Elem <- TwoElems
  Programs <- All
  NumIn = 2
  NumOut = 1
  MaxTemp = 4
  MaxDepth = 2
INVARIANTS
  InBounds
  AcceptedNeverFails
  DepthForeseen
  TempsFresh
PROPERTIES
  ApplyEnds
CHECK_DEADLOCK FALSE
