CONSTANTS
    Fat = {"fat0"}
    Ntfs = {}
    Sys = "sys"
    Tree <- MCTree
    Order <- MCOrder
    NewNames = {"b"}
    Renames = {}
    MaxHistory = 4
    MaxDirs = 5
    Disturb = FALSE
SPECIFICATION Spec
INVARIANT HistoryInv
PROPERTIES ReturnsToOrigin ImplementsNavigation
CHECK_DEADLOCK FALSE
