\* Three buffers and a job race for the slots of one file.
SPECIFICATION Spec
CONSTANTS
    Bos = {b1, b2, b3}
    Jobs = {j1}
    Objs = {o1, o2, o3}
    MaxDomains = 2
    DomainIds <- MCDomainIds
    Aperture = {a1, a2}
    NULL = NULL
SYMMETRY Symmetry
INVARIANTS
    DomainRefExact
    OneDomainPerSlot
    MappingsDisjoint
    MappedWhileReachable
    DestroyedEmpty
