\* The result of a cancelled job.
SPECIFICATION Spec
CONSTANTS
    NumCores = 1
    Jobs = {j1}
    Files = {f1}
    DomainIds = {d1}
    CoreMasks = {1}
    MaxForeign = 1
    NULL = NULL
INVARIANTS
    SubmitTruthful
