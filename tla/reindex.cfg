SPECIFICATION Spec
CONSTANTS
  Ids <- MCIds
  Corpora <- MCCorpora
  Backfills <- MCBackfills
  Seeds <- MCSeeds
  Lessons = {"l"}
  MaxRuns = 2
  MaxEvents = 1
  None = None
INVARIANTS EveryDocumentOnce NothingVanishes RerunIsIdempotent AuditIsExact
PROPERTY LessonsKept
CHECK_DEADLOCK FALSE
