SPECIFICATION FairSpec
CONSTANTS
  Keys <- MCKeys
  NsOf <- MCNsOf
  Payloads <- PairPayloads
  Declarations <- NoDeclarations
  Procs = {p1}
  PageSize = 1
  SearchMayFail = FALSE
  MaxJobs = 4
  MaxFails = 2
  None = None
INVARIANTS DeclaredLinksApplied
PROPERTIES VersionDiscipline EventuallyRetired
CHECK_DEADLOCK FALSE
