CONSTANTS
    MaxLen = 5
    BSZ = 2
    U32 = 8
    U64 = 32
SPECIFICATION Spec
INVARIANT CopyWorks
CHECK_DEADLOCK FALSE
