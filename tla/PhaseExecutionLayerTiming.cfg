SPECIFICATION Spec
CONSTANTS
  NumModels = 2
  NumLayers = 2
  NumInputs = 2
  Modes <- ReliableModes
  ComputeLatency <- UnevenLatency
  Silent <- SomeSilent
  Latencies <- SomeLatencies
  TimeStep = 2
  LastInjection = 2
  Horizon = 100
INVARIANT LayerTimingSpansPhases
