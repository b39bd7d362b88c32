CONSTANTS
    Fat = {}
    Ntfs = {"ntfs0"}
    Sys = "sys"
    Tree <- MCSmallTree
    Order <- MCOrder
    NewNames = {}
    Renames = {"b"}
    MaxHistory = 2
    MaxDirs = 4
    Disturb = TRUE
SPECIFICATION FairSpec
INVARIANT SelectionInv
PROPERTIES ResultShown CircleLeadsHome
CHECK_DEADLOCK FALSE
