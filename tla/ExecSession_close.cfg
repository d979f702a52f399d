SPECIFICATION Spec
CONSTANTS
    Threads = {t1, t2}
    t1 = t1
    t2 = t2
    RequestQueueSize = 2
    ResponseQueueSize = 1
    Tty = FALSE
    MaxInputs = 1
    MaxFrames = 1
SYMMETRY Symmetry
INVARIANT ClosingCancelsRemote
