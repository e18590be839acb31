SPECIFICATION RecordsSpec
CONSTANTS
  Stories <- FounderStories
  RecordSessions = {s1, s2}
  MaxRecordUpsets = 1
INVARIANTS
  NotesAreStored
CHECK_DEADLOCK FALSE
