SPECIFICATION FairSpec
CONSTANTS
  NumModels = 5
  InjectTime <- FiveTimes
  BlockingAgeThreshold = 2
  MaxAge = 3
  NumChiplets = 3
  Chiplet <- MixedArray
  MaxUnits = 6
  KnownModels <- AllModels
  ModelWeights <- LayerWeights
  GenerateMapping <- MapWithNearestNeighbour
  ModelLayers <- FiveModels
  TimeStep = 1
  Horizon = 2
  Distance <- Line
  Metric <- SameMetric
  Allowed = {}
  PreferredStart = 0
  Whole = 192
INVARIANTS TypeOK CapacityConserved OneLifeCycle CleanFinish
PROPERTIES NoOvertakingABlockedModel EveryModelRetires
