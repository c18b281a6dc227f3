SPECIFICATION Spec
CONSTANTS
  Episodes <- BadEpisodes
  Units <- BadUnits
  Defect <- BadDefect
  DefectAt <- BadDefectAt
  Outages = {"EmbedServiceError", "OtherError"}
  MaxDeliver = 2
  SlowIngest = FALSE
  PublishMayFail = FALSE
  EscapeOutcomes = {"term"}
  MaxCrashes = 0
  None = None
INVARIANT DeterministicNeverNaked
CHECK_DEADLOCK FALSE
