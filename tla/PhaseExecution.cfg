SPECIFICATION FairSpec
CONSTANTS
  NumModels = 2
  NumLayers = 2
  NumInputs = 2
  Modes <- AllModes
  ComputeLatency <- UnevenLatency
  Silent <- SomeSilent
  Latencies <- SomeLatencies
  TimeStep = 2
  LastInjection = 2
  Horizon = 44
INVARIANTS TypeOK OnePhaseAtATime WeightsBeforeCompute DataflowOrder InputsInOrder RetiredWhenOver
PROPERTIES TimesStayPut SecondTimingChangesNothing AllModelsRetire
