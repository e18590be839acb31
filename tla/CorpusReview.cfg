SPECIFICATION Spec
CONSTANTS
  Jobs <- MCOneJob
  Documents = {"d1", "d2"}
  Purgeable = {"d2"}
  Refs <- MCRepeatedRefs
  HasPreview = {"d1"}
  HasChunks = {"d1"}
  Procs = {p1, p2}
  WorkerId <- MCSharedHost
  Requests = {r1, r2}
  MaxRetries = 1
  MaxFaults = 1
CHECK_DEADLOCK FALSE
SYMMETRY MCSymmetry
INVARIANTS
  TypeOK
  OneProposalPerRef
  SingleWriter
  CancelIsPrompt
