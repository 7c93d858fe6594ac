\* Three calls on two buffers that are destroyed at any time.
SPECIFICATION Spec
CONSTANTS
    Bos = {b1, b2}
    Ioctls = {i1, i2, i3}
    NULL = NULL
SYMMETRY Symmetry
INVARIANTS
    BorrowedAlive
    NothingLeft
CHECK_DEADLOCK FALSE
