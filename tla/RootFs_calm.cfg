CONSTANTS
    NSlots = 3
    MaxParts = 1
    Calm = TRUE
SPECIFICATION FairSpec
INVARIANTS FatDense
PROPERTIES NoFalseDetach DeadEntryRemoved NtfsListed
