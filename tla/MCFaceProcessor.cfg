SPECIFICATION LiveSpec
CHECK_DEADLOCK FALSE
CONSTANTS
    Requests = {r1, r2}
    Images <- MCImages
    Outputs = {"443", "446", "468"}
    DetInputSize = 4
    Strides <- MCStrides
    DetThreshold = 50
    NaN = NaN
    None = None
INVARIANTS
    TypeOK
    RuntimeIsExclusive
    OnlyFailedReadsLeak
    CropsBestFace
PROPERTIES
    EveryRequestEnds
