\* Two cores and two files: one closes while the other's jobs run.
SPECIFICATION Spec
CONSTANTS
    NumCores = 2
    Files = {f1, f2}
    NULL = NULL
SYMMETRY Symmetry
INVARIANTS
    NoCircularWait
    SwitchSerialized
    OneSwitchPerCore
