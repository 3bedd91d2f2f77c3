SPECIFICATION Spec
CONSTANTS
  HmapSz = 3
  StreamIds <- MCStreamIds
  Chans = {c1, c2, c3, c4}
  NoCb = NoCb
INVARIANT TypeOK
INVARIANT ProbePathOccupied
INVARIANT SearchComplete
PROPERTY ImplementsStreamTable
