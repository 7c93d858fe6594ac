\* Three core devices and a file, through five probes, failed ones included.
SPECIFICATION Spec
CONSTANTS
    Devices = {d0, d1, d2}
    Files = {f1}
    MaxProbes = 5
    NULL = NULL
SYMMETRY Symmetry
INVARIANTS
    SlotsExact
    DrmWhileBound
    EntitiesReady
    NeverGateKept
CHECK_DEADLOCK FALSE
