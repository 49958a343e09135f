CONSTANTS
    Types = {"CMOS_A", "CMOS_B", "IMC_A", "IO"}
    Kind <- KindOf
    Chunks <- SomeChunks
    Params = {slow, fast}
    slow = slow
    fast = fast
SPECIFICATION Spec
INVARIANTS CacheIsTransparent
