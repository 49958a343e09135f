CONSTANTS
    Side = 3
    NumRouters = 9
    NumCols = 3
    Connections <- Mesh
    MaxRecords = 9
    MaxFlits = 2
    Traces <- MeshTraces
    Unordered <- Across
    Threshold = 20
SPECIFICATION Spec
INVARIANTS LinkEndsAgree NoLostWakeup
PROPERTIES XYOrder ImplementsDelivery TraceCompletes
