SPECIFICATION LiveSpec
CONSTANTS
    Appenders = {a1, a2}
    Callers = {c1, c2}
    Walker = c1
    Entries <- MCEntries
    Bytes <- MCBytes
    f1 = f1
    NoFace = NoFace
    TTL = 1
    PerPage = 1
    MaxUnmatched = 1
    MaxScanBytes = 2
    MaxLog = 3
INVARIANTS
    TypeOK
    MissedOnlyByLateAppends
    QueriesAgreeWithListings
PROPERTIES
    ImplementsStatistics
    EventuallyFresh
