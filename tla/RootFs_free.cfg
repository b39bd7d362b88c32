CONSTANTS
    NSlots = 2
    MaxParts = 2
    Calm = FALSE
SPECIFICATION Spec
INVARIANTS TypeOK CounterInv NtfsBalanced ListingFresh
