CONSTANTS
    Entries = 2
    Chunks = 2
    Buttons = {"CIRCLE", "TRIANGLE", "SQUARE", "START", "UP"}
    PPAD_SKIP = 1
    MaxHeld = 1
    CBSIZE = 15
    Typed <- MCTyped
    StackTexts <- MCStackTexts
SPECIFICATION FairSpec
INVARIANTS TypeOK CancelHonoured BarsExact OskOutcome OskReleased
PROPERTIES Consent OncePerPress OskText Returns
CHECK_DEADLOCK FALSE
