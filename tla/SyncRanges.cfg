\* A buffer of three regions, synchronised as a whole and in parts.
SPECIFICATION Spec
CONSTANTS
    Regions = {r1, r2, r3}
    MaxWrites = 3
    NULL = NULL
SYMMETRY Symmetry
INVARIANTS
    NpuSeesLatest
    CpuSeesLatest
