SPECIFICATION JobSpec
CONSTANTS
  MaxTokens = 7
  Bodies <- MCBodies
  Inputs <- MCInputs
  Rankings <- MCRankings
  Target = 3
  Overlap = 1
  MaxTexts = 3
  Lengths = {0, 4, 5, 8, 9, 13}
  CharsPerToken = 4
  Budget = 3
  MaxResults = 4
  Sizes = {0, 1, 3}
  Budgets = {0, 2, 4}
  Separator = 1
  Rows <- MCRows
  When <- MCWhen
  Prefix <- MCPrefix
  Snapshots = {"a", "b"}
  Restores = {"x", "y"}
  Rollouts <- MCRollouts
  Letters = {"1", "2", "s", "t", "x"}
  MaxVersion = 1
  Episodes <- MCEpisodes
  Others <- MCOthers
  OtherSpaces = 1
  ScanLimit = 2
  MaxNow = 2
  MaxFailures = 1
  None = None
  Count = 5
  Keys <- MCKeys
  TypeOf <- MCTypeOf
  TagsOf <- MCTagsOf
  Substantive <- MCSubstantive
  Requests <- MCRequests
  Corpora <- MCCorpora
  Scores <- MCScores
  ResultLimit = 2
  PageSize = 2
  MaxScanned = 3
  MaxChanges = 1
INVARIANTS
  ChunksFollowBody ChunksBounded ChunksLimited
  OneToOne RequestsBounded
  NothingFitsLeft RelevanceKept
  CorpusExact EveryRowSearchable RolloutsKept
  WindowCovered
  BestMatchesReturned OneState PagesBounded
PROPERTIES
  FixtureImmutable EventuallyHarvested
CHECK_DEADLOCK FALSE
