SPECIFICATION FairSpec
CONSTANTS
  NumModels = 2
  InjectTime <- CmosTimes
  BlockingAgeThreshold = 2
  MaxAge = 3
  NumChiplets = 3
  Chiplet <- CrossbarArray
  MaxUnits = 2
  KnownModels <- AllModels
  ModelWeights <- LayerWeights
  GenerateMapping <- MapWithNearestNeighbour
  ModelLayers <- Conv1dModels
  TimeStep = 1
  Horizon = 2
  Distance <- Line
  Metric <- SameMetric
  Allowed = {}
  PreferredStart = 0
  Whole = 24
PROPERTY EveryModelRetires
