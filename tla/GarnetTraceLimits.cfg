CONSTANTS
    NumChiplets = 100
    Flows <- Corners
    Keys <- PastLimits
    MaxFlits = 1
    MaxLatency = 2
    Requests <- OneOrTwo
SPECIFICATION Spec
INVARIANTS EveryPhaseReported
