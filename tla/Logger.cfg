SPECIFICATION FairSpec
CONSTANTS
  Threads = {t1, t2}
  None = None
  BSZ = 2
  MaxEntries = 3
  MaxRotate = 2
INVARIANT TypeOK
INVARIANT EveryEntryOnce
PROPERTY CallsReturn
CHECK_DEADLOCK FALSE
