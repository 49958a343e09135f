CONSTANTS
    NumChiplets = 100
    Flows <- Corners
    Keys <- InLimits
    MaxFlits = 2
    MaxLatency = 2
    Requests <- OneOrTwo
SPECIFICATION Spec
INVARIANTS WholeTraceArrives EveryPhaseReported FlitsReachTheirChiplet
PROPERTIES SimulationCompletes
