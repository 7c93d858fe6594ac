\* Every kind of slot under every kind of mask.
SPECIFICATION RangeSpec
CONSTANTS
    Word = 16
    NumCores = 2
    Masks = {1, 2, 3, 4, 7, 15}
    Starts = {0, 1, 10, 14}
    Numbers = {0, 2, 3}
    SlotRanges <- MCSlotRanges
INVARIANTS
    RangeInside
    OwnSlot
