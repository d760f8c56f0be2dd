SPECIFICATION UISpec
CONSTANTS
    t1 = t1
    t2 = t2
    Tabs = {t1, t2}
    Submits <- MCSubmits
    Setters = {t1}
    Warm = {"index", "recognize", "audit", "settings", "stats"}
    Inputs <- MCInputs
    NaN = NaN
    Default = 45
    NoSettings = NoSettings
    Names <- MCNames
    Faces = {f1, f2}
    f1 = f1
    f2 = f2
    MaxPicturesPerUser = 2
    NoUser = NoUser
    InitUsers <- MCInitUsers
    Base <- MCBase
    Uploads = {f1}
    NoForm = NoForm
    Passwords = {"right", "wrong"}
INVARIANT LinksLeadToTheirTargets
