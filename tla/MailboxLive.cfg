SPECIFICATION MailboxFairSpec
CONSTANTS
    Devices = {d1, d2}
    Uids = {1}
    MaxValidity = 3
    Upgraded = TRUE
    Omits = FALSE
    Operations = {}
    NULL = NULL
PROPERTIES
    NumberingConverges
