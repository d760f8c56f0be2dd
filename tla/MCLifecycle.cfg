SPECIFICATION LiveSpec
CONSTANTS
    n1 = n1
    i1 = i1
    i2 = i1
    b1 = b1
    b2 = b2
    Names = {n1}
    Images = {i1, b1, b2}
    Large = {b1, b2}
    MaxPicturesPerUser = 2
    ThumbLimit = 5
    NoUser = NoUser
    None = None
    Clients = {c1, c2}
    InitDisks <- MCDisks
    Seconds = {1}
    Grace = 1
    MaxLog = 3
INVARIANTS
    TypeOK
    ThumbShowsItsImage
    OnlyNewFramesAreLeft
    SessionsClosedAfterUse
PROPERTIES
    DeletedStaysDeleted
    SignalEndsProcess
