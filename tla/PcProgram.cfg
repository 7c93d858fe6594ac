\* Four programs on core 2; user space may stop submitting at any time.
SPECIFICATION LiveSpec
CONSTANTS
    Programs <- MCPrograms
    CoreIndex = 2
    SideBits = {0, 6}
    NULL = NULL
INVARIANTS
    StartedExact
    CompletionAfterEnd
PROPERTIES
    CompletionDelivered
CHECK_DEADLOCK FALSE
