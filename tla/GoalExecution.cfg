CONSTANTS
  Shapes <- MCShapes
  Keys = {"k"}
  MaxAutoReplans = 1
  MaxInterventions = 3
SPECIFICATION FairSpec
CHECK_DEADLOCK FALSE

  
PROPERTIES
  
  GoalEnds
