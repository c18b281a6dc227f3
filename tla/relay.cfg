SPECIFICATION FairSpec
CONSTANTS
  Episodes <- MCEpisodes
  Units <- MCUnits
  Defect <- MCDefect
  DefectAt <- MCDefectAt
  Outages = {"EmbedServiceError", "OtherError"}
  MaxDeliver = 2
  SlowIngest = TRUE
  PublishMayFail = TRUE
  EscapeOutcomes = {"term", "nak"}
  MaxCrashes = 1
  None = None
INVARIANTS AckedIsStored LossIsAttributable PoisonNeverNaked MarkerProgressReal
PROPERTY EventuallyClosed ImplementsDelivery
CHECK_DEADLOCK FALSE
