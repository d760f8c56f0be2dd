SPECIFICATION LiveSpec
CONSTANTS
    Attempts = 3
    Requests = 4
    Skipped = 2
    Timeout = 2
INVARIANTS
    CallbackNeverStuck
    TimeIsBounded
PROPERTIES
    ReadFrameReturns
