SPECIFICATION FairSpec
CONSTANTS
  c1 = c1
  c2 = c2
  Chans = {c1, c2}
  HdrSz = 1
  PaySz = 1
  PipeCap = 5
  Uses <- MCUses
INVARIANT TypeOK
INVARIANT PipeAligned
INVARIANT NoDummyDelivered
 
PROPERTY ImplementsFifo
PROPERTY EventuallyDelivered
PROPERTY StopAndDestroyReturn
PROPERTY StopReleasesReader
CHECK_DEADLOCK FALSE
