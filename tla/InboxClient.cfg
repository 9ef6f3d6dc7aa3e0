SPECIFICATION FairSpec
CONSTANTS
    a = a
    b = b
    Accounts <- MCAccounts
    MaxUid = 2
    MaxRequests = 3
    MaxAlike = 2
    MaxChoices = 2
    NULL = NULL
INVARIANTS
    TypeOK
    LastChoiceCounts
PROPERTIES
    PageAgrees
CHECK_DEADLOCK FALSE
