SPECIFICATION Spec
CONSTANTS
  Modulus = 41
  XyzIn = 2
  Lab2 = 3
  SpectralType <- MCSpectralType
  SpectralRange <- MCSpectralRange
  Pcc <- MCPcc
  File <- MCFileEnds
  Header <- MCHeader
  Samples <- MCSamples
  Offers <- MCOffersEnds
  Cmm <- MCCmmEnds
  MaxObjects = 3
  CanFail = FALSE
INVARIANTS
  StridesAgree
CHECK_DEADLOCK FALSE
