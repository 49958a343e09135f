CONSTANTS
    Side = 4
    NumRouters = 16
    NumCols = 4
    Connections <- Ring
    MaxRecords = 16
    MaxFlits = 1
    Traces <- TwoHops
    Unordered = {}
    Threshold = 20
SPECIFICATION Spec
PROPERTIES TraceCompletes
