CONSTANTS
    p1 = p1
    p2 = p2
    Phases = {p1, p2}
    MaxTraffic = 3
    Requests <- TwoStages
SPECIFICATION Spec
INVARIANTS CachedTrafficIsIdentical
