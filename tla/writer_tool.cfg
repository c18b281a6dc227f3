SPECIFICATION Spec
CONSTANTS
  Keys <- MCKeys
  NsOf <- MCNsOf
  Payloads <- RacePayloads
  Declarations <- ToolDeclarations
  Procs = {p1}
  PageSize = 2
  SearchMayFail = FALSE
  MaxJobs = 3
  MaxFails = 0
  None = None
INVARIANT ToolLinksApplied
CHECK_DEADLOCK FALSE
