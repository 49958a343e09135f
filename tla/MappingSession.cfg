SPECIFICATION SessionSpec
CONSTANTS
  NumChiplets = 5
  Chiplet <- MixedLine
  MaxUnits = 20
  Distance <- Line
  Metric <- SameMetric
  Allowed <- NotTheLast
  PreferredStart = 4
  Whole = 5760
  LayerKinds <- FewLayers
  MaxLayers = 3
INVARIANTS NothingOverbooked LayersPlacedOnce
PROPERTY SharesArePaidFor
