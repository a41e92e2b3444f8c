SPECIFICATION Spec
CONSTANTS
  Modulus = 41
  XyzIn = 2
  Lab2 = 3
  SpectralType <- MCSpectralType
  SpectralRange <- MCSpectralRange
  Pcc <- MCPcc
  File <- MCFile
  Header <- MCHeader
  Samples <- MCSamples
  Offers <- MCOffers
  Cmm <- MCCmm
  MaxObjects = 3
  CanFail = TRUE
INVARIANTS
  OneOwner
  NoDangling
  LentReturned
  ChainConnects
  ColourCarried
PROPERTIES
  RefusalKeepsProfiles
CHECK_DEADLOCK FALSE
