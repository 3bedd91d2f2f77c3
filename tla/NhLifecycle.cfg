SPECIFICATION FairSpec
CONSTANT MaxSetups = 1
 
INVARIANT CallersAreSafe
 
 
CHECK_DEADLOCK FALSE
