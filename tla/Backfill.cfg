SPECIFICATION MCSpec
CONSTANTS
  p1 = p1
  p2 = p2
  w1 = w1
  w2 = w2
  Jobs = {1, 2}
  JobType <- MCBoth
  Conversations = {1, 2}
  History <- MCHistory
  Writers = {w1, w2}
  MaxInserts = 2
  Procs = {p1, p2}
  WorkerId <- MCSharedHost
  RunCap = 3
  BatchSize = 2
  MaxRetries = 1
  MaxFaults = 1
  MaxErrors = 1
CHECK_DEADLOCK FALSE
INVARIANTS
  BackfillInv
  OrdinalsFollowCreation
PROPERTIES
  OrdinalsAreImmutable
  JobsTerminate
