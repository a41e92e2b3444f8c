SPECIFICATION CarefulSpec
CONSTANTS
  p1 = p1
  p2 = p2
  f1 = f1
  f2 = f2
  o1 = o1
  o2 = o2
  o3 = o3
  o4 = o4
  A = A
  B = B
  C = C
  d1 = d1
  d2 = d2
  NoObj = NoObj
  NoIO = NoIO
  NoData = NoData
  NoEntry = NoEntry
  Profile <- MCProfile
  IO <- MCIO
  Target <- MCTarget
  Obj <- MCObj4
  Sig <- MCSig
  Data <- MCData
  MaxTags = 3
  TagBytes = 12
  InitFile <- MCInitFile
SYMMETRY MCSymmetry
INVARIANTS EntriesFaithful OneOwner IOOwned
CONSTRAINT AloneWhenSaved
