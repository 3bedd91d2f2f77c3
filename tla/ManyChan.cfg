SPECIFICATION FairSpec
CONSTANTS
  N = 2
  DoSrp = {TRUE, FALSE}
  MaxIterations = 1
  PipeBound = 1
INVARIANT NobodyStartsAlone
PROPERTY BarrierOpens
 
CHECK_DEADLOCK FALSE
