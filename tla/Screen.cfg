CONSTANTS
    MaxName = 4
    MaxEntries = 4
    SizeOf <- MCSizeOf
    SizeRange = 1048576
    KBSZ = 4
    MBSZ = 16
    GBSZ = 64
    SCREEN_W = 160
    PANEL_W = 10
    PANEL_H = 4
    STATUS_H = 1
    Path <- MCPath
    NameText <- MCNameText
    Messages <- MCMessages
    LeftSettings <- MCLeft
SPECIFICATION ScreenSpec
INVARIANTS WellLinked IndexInv TotalsExact SelectionShown FrameSame TextInPanel
PROPERTY ImplementsFileList
