SPECIFICATION FairSpec
CONSTANTS
  Projects <- MCProjects
  Reserved = {"guardkit"}
  Extends <- MCExtends
  Settings <- MCSettings
  MainPort = 1
  Shelves = {"shop_api", "guardkit"}
  Requests <- MCRequests
  Slots = {c1}
  None = None
INVARIANTS DoorsIsolated ContextIsOpen BlameIsRight
PROPERTY StopsTogether
CHECK_DEADLOCK FALSE
