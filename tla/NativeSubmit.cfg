\* Two jobs, of one call, one file or two, and a prep_bo, on two cores.
SPECIFICATION Spec
CONSTANTS
    Bos = {b1}
    Jobs = {j1, j2}
    Files = {f1, f2}
    Calls = {t1, t2}
    Preps = {p1}
    NumCores = 2
SYMMETRY Symmetry
INVARIANTS
    BoRefsExact
    JobBosMapped
    OutputsOrdered
    PrepAfterWriters
CHECK_DEADLOCK FALSE
