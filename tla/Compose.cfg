SPECIFICATION ComposeFairSpec
CONSTANTS
    LastText = 2
    MaxEdits = 4
    MaxSaves = 2
    MaxSends = 2
    Impatient = FALSE
    NULL = NULL
INVARIANTS
    ComposeTypeOK
    SavedIsStored
PROPERTIES
    ClosingKeepsWriting
    GoneStaysGone
    WritingIsSaved
CHECK_DEADLOCK FALSE
