SPECIFICATION WaitingSpec
CONSTANTS
  Talker = t
  l1 = l1
  l2 = l2
  Listeners = {l1, l2}
  QueueBound = 2
  Uses <- MCUses
INVARIANT QuietAgreement
 
PROPERTY LinkStaysUp
PROPERTY LinkComesUp
PROPERTY DestroyReturns
CHECK_DEADLOCK FALSE
