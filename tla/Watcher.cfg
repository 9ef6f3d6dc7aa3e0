SPECIFICATION FairSpec
CONSTANTS
    Accounts = {a}
    Passwords = {p}
    Messages = {m1, m2}
    MaxUid = 2
    MaxValidity = 2
    MaxBack = 1
    NULL = NULL
INVARIANTS
    TypeOK
    ReportedOnce
    RestoredIsNotNews
PROPERTIES
    NewIsReported
