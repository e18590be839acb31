CONSTANTS
  Agents <- MCAgents
  Requests <- MCRequests
  Asked <- MCAsked
  Groups = {"g"}
  NoGroup = "none"
  MaxLeases = 2
  MaxAttempts = 2
  MaxMoves = 1
SPECIFICATION AgentsSpec
CHECK_DEADLOCK FALSE

  
  
PROPERTIES
  StaleLeaseFreed
