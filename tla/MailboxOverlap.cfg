SPECIFICATION MailboxSpec
CONSTANTS
    Devices = {d1, d2}
    Uids = {1}
    MaxValidity = 2
    Upgraded = FALSE
    Omits = FALSE
    Operations = {"mark", "remember", "move"}
    NULL = NULL
SYMMETRY DeviceSymmetry
INVARIANTS
    MailboxTypeOK
    MarkerMatchesRow
    AnswersAreCoherent
PROPERTY RememberedIsListed
