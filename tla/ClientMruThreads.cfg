SPECIFICATION ClientSpec
CONSTANTS
  nThreads = 2
  MaxPixels = 4
  nSrcSamples = 1
  nDstSamples = 2
  ChunkSize = 1
  Word = 1000
  SharedScratch = TRUE
  AllocOutcomes <- NoOutcome
  Unwritten = Unwritten
INVARIANT
  ClientsConvert
