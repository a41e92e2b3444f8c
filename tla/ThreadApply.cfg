SPECIFICATION Spec
CONSTANTS
  nThreads = 3
  MaxPixels = 7
  nSrcSamples = 1
  nDstSamples = 2
  ChunkSize = 2
  Word = 1000
  SharedScratch = FALSE
  AllocOutcomes <- LoseSome
  Unwritten = Unwritten
  SpawnFails = TRUE
INVARIANTS
  Converted
  StatusHonest
  StripsBalanced
  NoStrayStrip
PROPERTIES
  WrittenOnce
  ApplyEnds
CHECK_DEADLOCK FALSE
