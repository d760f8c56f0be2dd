SPECIFICATION LiveSpec
CONSTANTS
    f1 = f1
    f2 = f2
    Faces = {f1, f2}
    Names = {1}
    Clients = {c1, c2}
    NoUser = NoUser
    NoFace = NoFace
    Free = Free
    Ops <- GalleryOps
    InitUsers <- AlignedRecords
    Score <- MCScore
    Threshold = 45
    MaxPicturesPerUser = 2
    RecentLimit = 2
    MaxAudit = 1
    MaxSec = 0
INVARIANTS
    TypeOK
    MutexHeldByHandler
    DraftIsCurrent
    PicturesAligned
PROPERTIES
    EnrollEntryDescribesGallery
    ImplementsGallery
    RequestsAnswered
