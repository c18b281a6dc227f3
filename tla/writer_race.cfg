SPECIFICATION Spec
CONSTANTS
  Keys <- MCKeys
  NsOf <- MCNsOf
  Payloads <- SinglePayloads
  Declarations <- ToolDeclarations
  Procs = {p1, p2}
  PageSize = 1
  SearchMayFail = TRUE
  MaxJobs = 4
  MaxFails = 1
  None = None
INVARIANTS LinksDeclared DuplicatesConverge
CHECK_DEADLOCK FALSE
