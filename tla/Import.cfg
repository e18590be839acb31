SPECIFICATION MCSpec
CONSTANTS
  p1 = p1
  p2 = p2
  a = a
  b = b
  wrong = wrong
  manifest = manifest
  Jobs = {1, 2, 3, 4}
  Entries <- MCEntries
  IsZip <- MCZip
  Skipped = {manifest}
  Mismatched = {wrong}
  Procs = {p1, p2}
  WorkerId <- MCHosts
  MaxAttempts = 2
  MaxCrashes = 2
  MaxLapses = 0
  MaxErrors = 2
  MaxOutages = 1
  MaxPurges = 1
CHECK_DEADLOCK FALSE
INVARIANTS
  ImportInv
PROPERTIES
  CompletionsAreTrue
  PipelineDrains
