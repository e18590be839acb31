SPECIFICATION FairSpec
CONSTANTS
  Jobs <- MCOneJob
  Documents = {"d1", "d2"}
  Purgeable = {}
  Refs <- MCDistinctRefs
  HasPreview = {"d1", "d2"}
  HasChunks = {"d1", "d2"}
  Procs = {p1, p2}
  WorkerId <- MCSharedHost
  Requests = {r1}
  MaxRetries = 1
  MaxFaults = 2
CHECK_DEADLOCK FALSE
INVARIANTS
  OneProposalPerDocument
  ReportsAreTrue
PROPERTIES
  KeepsContract
  JobsTerminate
