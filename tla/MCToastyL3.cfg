CONSTANTS
    U32 = 8
    NumFrames = 4
    QueueSize = 2
    BatchSize = 2
    NicSize = 2
    TxFirst = TRUE
    Signals = {}
    Options <- BusyOptions
SPECIFICATION Spec
INVARIANTS
    FramesConserved
