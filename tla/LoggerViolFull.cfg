SPECIFICATION FairSpec
CONSTANTS
  Threads = {t1, t2}
  None = None
  BSZ = 2
  MaxEntries = 3
  MaxRotate = 2
PROPERTY FullBufferRotates
CHECK_DEADLOCK FALSE
