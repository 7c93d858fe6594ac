\* Liveness with a hardware that may hang.
SPECIFICATION LiveSpec
CONSTANTS
    NumCores = 1
    Jobs = {j1, j2}
    Files = {f1}
    DomainIds = {d1}
    CoreMasks = {1}
    MaxForeign = 1
    NULL = NULL
PROPERTIES
    SubmitReturns
    JobsReleased
    ResetEnds
