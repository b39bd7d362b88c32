CONSTANTS
    Type <- MCType
    Disks <- MCDisks
    Long <- MCLong
SPECIFICATION Spec
INVARIANT SourceKept
CHECK_DEADLOCK FALSE
