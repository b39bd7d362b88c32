CONSTANTS
    Fat = {"fat0"}
    Ntfs = {"ntfs0"}
    Sys = "sys"
    Tree <- MCTwoTree
    Order <- MCOrder
    NewNames = {"b"}
    Renames = {}
    MaxHistory = 3
    MaxDirs = 6
    Disturb = FALSE
SPECIFICATION Spec
INVARIANT NoCrash
CHECK_DEADLOCK FALSE
