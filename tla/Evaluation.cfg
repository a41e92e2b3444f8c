SPECIFICATION Spec
CONSTANTS
  Unit = 4
  IndexRange = 4
  Transforms <- SomeTransforms
  Sources <- SourcesOf
  MaxPixels = 2
INVARIANTS
  Interpolates
  StagesInOrder
  ChainCarried
CHECK_DEADLOCK FALSE
