\* Two cores, two jobs of one file; mask 4 names a core that does not exist.
SPECIFICATION Spec
CONSTANTS
    NumCores = 2
    Jobs = {j1, j2}
    Files = {f1}
    DomainIds = {d1}
    CoreMasks = {2, 4, 7}
    MaxForeign = 1
    NULL = NULL
SYMMETRY Symmetry
INVARIANTS
    TypeOK
    PmBalanced
    NeverGated
