SPECIFICATION Spec
CONSTANTS
    Devices = {d1, d2}
    m1 = m1
    m2 = m2
    Servers = {{}, {"UIDPLUS"}, {"MOVE"}}
    Messages = {m1, m2}
    Marked = {m2}
    Arrived <- TwoArrived
    FirstFree = 3
    Targets = {"archive"}
    MaxUid = 3
    MaxCopies = 5
    NULL = NULL
SYMMETRY DeviceSymmetry
INVARIANTS
    TypeOK
    NeverLost
    MarkedAreKept
    MovedIsGone
PROPERTY PlacesSpec
