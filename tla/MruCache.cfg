SPECIFICATION Spec
CONSTANTS
  p1 = p1
  p2 = p2
  p3 = p3
  p4 = p4
  r1 = r1
  r2 = r2
  r3 = r3
  Pixel <- FourPixels
  Result <- Results
  Transform <- FourTransform
  CacheSize = 3
  CanFail = FALSE
  NoPixel = NoPixel
  NoResult = NoResult
INVARIANTS
  ListSound
  NoDuplicates
  CacheCoherent
PROPERTIES
  ApplyReturns
  RefinesRecentPixels
