CONSTANTS
    Type <- MCType
    Disks <- MCDisks
    Long <- MCLong
SPECIFICATION FairSpec
INVARIANTS DeletesTheRest CopiesTheRest
PROPERTIES Confined Terminates
CHECK_DEADLOCK FALSE
