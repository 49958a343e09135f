SPECIFICATION TrafficSpec
CONSTANTS
    Layers = {0, 1, 2}
    WholeLayer = 300
    Mappings <- MCMappings
    Outputs = {1, 300}
    Weights = {0, 3, 100}
    bits_per_activation = 8
    bits_per_packet = 16
    bits_per_weight <- MCBitsPerWeight
    io_chiplet_ids <- MCIoChiplets
    PathLength <- MCPathLength
INVARIANTS WeightsArriveInFull ActivationsArriveInFull
