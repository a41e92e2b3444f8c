SPECIFICATION Spec
CONSTANTS
  Container = {c1, c2}
  Elem = {1, 2, 3, 4}
  Null = 0
  Unread = Unread
  Data <- Sizes
  Foreign <- Files
  MaxSlots = 3
SYMMETRY Interchangeable
INVARIANTS
  ElementsOwned
  NoLeak
  Reloads
  Contained
