SPECIFICATION Spec
CONSTANTS
    MaxEntries = 4
    MaxFailures = 3
    dump_threshold = 1
INVARIANTS NothingIsForgotten PowerSeesEverySimulation
