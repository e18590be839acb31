SPECIFICATION HalvesSpec
CONSTANTS
  Stories <- MCStories
  RecordSessions = {s1, s2}
  MaxRecordUpsets = 1
  ProvDocs = {"d1"}
  OldClaims <- MCOldClaims
  ProvCallers = {"k1", "k2"}
  RunBatch = 2
  MaxRuns = 2
  LockAge = 1
  MaxProvUpsets = 2
CHECK_DEADLOCK FALSE
INVARIANTS
  
  FounderInv
  ProvenanceInv
PROPERTIES
  RecordSteps
  
  RunsEnd
