\* Two files share a core: the jobs of one are killed while the other's run.
SPECIFICATION Spec
CONSTANTS
    NumCores = 1
    Jobs = {j1, j2}
    Files = {f1, f2}
    DomainIds = {d1}
    CoreMasks = {1}
    MaxForeign = 1
    NULL = NULL
SYMMETRY Symmetry
INVARIANTS
    AttachedDomainLive
    JobRefExact
    RunningJobTranslated
    InFlightLive
    RunOnce
    TimeoutsBounded
PROPERTIES
    Implements
    NoSwitchUnderJob
    FinishedOnce
