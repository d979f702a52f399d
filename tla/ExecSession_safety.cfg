SPECIFICATION Spec
CONSTANTS
    Threads = {t1, t2}
    t1 = t1
    t2 = t2
    RequestQueueSize = 2
    ResponseQueueSize = 1
    Tty = TRUE
    MaxInputs = 1
    MaxFrames = 2
SYMMETRY Symmetry
INVARIANT TypeOK
INVARIANT DeliveredInOrder
INVARIANT StopAfterAll
INVARIANT ClosedMeansComplete
INVARIANT FinalAnswer
INVARIANT OneCancelFrame
PROPERTY ImplementsEvents
