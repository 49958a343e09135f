SPECIFICATION Spec
CONSTANTS
  NumModels = 2
  InjectTime <- CmosTimes
  BlockingAgeThreshold = 2
  MaxAge = 3
  NumChiplets = 2
  Chiplet <- CmosArray
  MaxUnits = 24
  KnownModels <- AllModels
  ModelWeights <- LayerWeights
  GenerateMapping <- MapWithNearestNeighbour
  ModelLayers <- CmosModels
  TimeStep = 1
  Horizon = 2
  Distance <- Line
  Metric <- SameMetric
  Allowed = {}
  PreferredStart = 0
  Whole = 24
INVARIANT FitNowCountsAvailableCapacity
