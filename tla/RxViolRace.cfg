SPECIFICATION Spec
CONSTANTS
  c1 = c1
  c2 = c2
  Chans = {c1, c2}
  HdrSz = 1
  PaySz = 1
  PipeCap = 4
  Uses <- PlainUse
INVARIANT ReadsMatchSends
CHECK_DEADLOCK FALSE
