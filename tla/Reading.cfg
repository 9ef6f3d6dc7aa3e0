SPECIFICATION Spec
CONSTANTS
    m1 = m1
    m2 = m2
    Messages = {m1, m2}
    Requests = {r1, r2}
    r1 = r1
    r2 = r2
    Texts = {"notes"}
    MAX_COPIES = 2
    Foreign = Foreign
    MaxForeign = 1
    MaxLeft = 1
    NULL = NULL
    AttachmentName <- MCAttachmentName
    Parts <- MCParts
    Layouts <- MCLayouts
    FOLDER_VIEW_LIMIT = 1
    Foreigns <- MCForeigns
    OtherFolders <- MCOtherFolders
    MaxFolders = 3
SYMMETRY MCSymmetry
INVARIANTS
    TypeOK
    MovedIsListed
    SavedAsListed
