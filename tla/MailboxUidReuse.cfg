SPECIFICATION MailboxSpec
CONSTANTS
    Devices = {d1}
    Uids = {1}
    MaxValidity = 2
    Upgraded = FALSE
    Omits = FALSE
    Operations = {"mark", "remember"}
    NULL = NULL
INVARIANT MessagesAreThoseMeant
