SPECIFICATION Spec
CONSTANTS
  Talker = t
  l1 = l1
  l2 = l2
  Listeners = {l1, l2}
  QueueBound = 2
  Uses <- StopUse
INVARIANT StoppedIsNotReady
CHECK_DEADLOCK FALSE
