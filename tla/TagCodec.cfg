SPECIFICATION Spec
CONSTANTS
  Word = 16777216
  Types <- Formats
  Images <- HeldIn
  After <- Following
  ClientSizes <- AskedSizes
  MaxSaves = 4
  MaxDocs = 2
INVARIANTS
  Contained
  Reloads
  DocumentReloads
  DocumentSettles
PROPERTIES
  Settles
CHECK_DEADLOCK FALSE
