SPECIFICATION Spec
CONSTANTS
    Users = {u1, u2}
    Browsers = {b1}
    Mailboxes = {m}
    Requests = {r1, r2}
    Keep = 1
    MaxSignIns = 2
    MaxIds = 2
    NULL = NULL
SYMMETRY Symmetry
INVARIANTS
    TypeOK
    OneUserPerSession
    TokensBounded
PROPERTIES
    SignedOutStaysOut
    RemovedStaysRemoved
