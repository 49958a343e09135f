CONSTANTS
    NumChiplets = 64
    Flows <- Neighbours
    Keys <- InLimits
    MaxFlits = 1
    MaxLatency = 2
    Requests <- OneOrTwo
SPECIFICATION Spec
INVARIANTS FlitsReachTheirChiplet
