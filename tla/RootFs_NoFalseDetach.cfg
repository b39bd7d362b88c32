CONSTANTS
    NSlots = 2
    MaxParts = 1
    Calm = FALSE
SPECIFICATION Spec
PROPERTY NoFalseDetach
