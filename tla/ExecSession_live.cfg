SPECIFICATION FairSpec
CONSTANTS
    Threads = {t1, t2}
    t1 = t1
    t2 = t2
    RequestQueueSize = 1
    ResponseQueueSize = 1
    Tty = FALSE
    MaxInputs = 0
    MaxFrames = 1
PROPERTY EveryCallReturns
PROPERTY ReaderStops
