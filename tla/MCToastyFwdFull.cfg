\* The driver delivers although the tx ring is in use.
CONSTANTS
    U32 = 8
    NumFrames = 4
    QueueSize = 2
    BatchSize = 2
    NicSize = 2
    TxFirst = FALSE
    Signals = {}
    Options <- BusyOptions
SPECIFICATION Spec
INVARIANTS
    FramesConserved
