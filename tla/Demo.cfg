SPECIFICATION Spec
CONSTANTS
    Folders = {Trash}
    Trash = Trash
    MESSAGES = 3
    FIRST_ARRIVAL_UID = 4
    DEMO_UNSEEN = 1
    DEMO_REMEMBERED <- MCRemembered
    OUTBOX_LIMIT = 2
    MaxOpenings = 2
    MaxMoves = 1
    MaxBookmarks = 1
    MaxSent = 4
    NULL = NULL
CONSTRAINTS SendsApart OneWritten
INVARIANTS
    TypeOK
    ArrivalIsNew
    StartsOver
