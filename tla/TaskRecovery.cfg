SPECIFICATION FairSpec
CONSTANTS
  MaxAttempts = 2
  MaxFaults = 2
  Disturb = FALSE
CHECK_DEADLOCK FALSE
INVARIANTS
  RecoveryInv
PROPERTIES
  
  TaskSettles
