SPECIFICATION TSpec
CONSTANTS
  Interval = 3
  Lead = 1
  Wake = 2
  Start = 10
  MaxTime = 16
  MaxCalls = 3
  NsInSec = 4
  AvtpMod = 5
  ClassDelay = 2
  MaxSkew = 1
INVARIANT Spacing
 
INVARIANT TimerDoesNotDrift
 
 
INVARIANT CaptureReconstructed
 
CHECK_DEADLOCK FALSE
