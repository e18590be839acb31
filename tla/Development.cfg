SPECIFICATION DevelopmentSpec
CONSTANTS
  Ticks = {"w1", "w2"}
  WorkLists <- MCWorks
  MaxJobs = 2
  MaxDepth = 1
  MaxRows = 3
  MaxUpsets = 1
  DevFiles = {"a", "b"}
  DevPlans <- MCDevPlans
  MaxActions = 3
  MaxFailures = 2
  MaxAttempts = 2
  MaxDevUpsets = 3
CHECK_DEADLOCK FALSE
INVARIANTS
  SupervisorInv
  
PROPERTIES
  CompletedByItsJob
  TicksEnd
