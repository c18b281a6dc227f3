SPECIFICATION FairSpec
CONSTANTS
  Keys <- MCKeys
  NsOf <- MCNsOf
  Payloads <- RacePayloads
  Declarations <- NoDeclarations
  Procs = {p1, p2}
  PageSize = 2
  SearchMayFail = FALSE
  MaxJobs = 4
  MaxFails = 0
  None = None
PROPERTY VersionNeverDecreases
CHECK_DEADLOCK FALSE
