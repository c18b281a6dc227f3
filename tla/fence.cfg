SPECIFICATION FairSpec
CONSTANTS
  Projects <- MCProjects
  Watch <- MCWatch
  Builds = {b1}
  StoreMaxAge = 0
  BuildWindow = 0
  MinBuilds = 1
  Grace = 1
  AckMaxDays = 0
  Spans = {0, 2}
  Lists <- EachCheck
  Far = 1
INVARIANTS NoFalseComfort AckIsBounded
PROPERTY SilenceIsLoud
