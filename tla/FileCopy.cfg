CONSTANTS
    MaxLen = 5
    BSZ = 2
    U32 = 8
    U64 = 32
SPECIFICATION FairSpec
INVARIANTS TypeOK SuccessMeansCopied NoPartialFile Released
PROPERTY Terminates
CHECK_DEADLOCK FALSE
