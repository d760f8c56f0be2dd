SPECIFICATION LiveSpec
CONSTANTS
    Handlers = {h1, h2}
    QueueDepth = 1
    Retries = 1
INVARIANTS
    TypeOK
    NoLostTrigger
    NoCheckAfterStop
PROPERTIES
    TriggersAnswered
    StopReturns
    ConnectedIsListening
