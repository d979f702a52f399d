SPECIFICATION FairSpec
CONSTANTS
    Threads = {t1, t2}
    t1 = t1
    t2 = t2
    RequestQueueSize = 1
    ResponseQueueSize = 1
    MaxInputs = 1
    MaxFrames = 1
INVARIANT TypeOK
INVARIANT FinalAnswer
INVARIANT OneDetachFrame
PROPERTY ImplementsEvents
PROPERTY EveryCallReturns
PROPERTY ReaderStops
