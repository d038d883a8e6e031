\* -W -B: all orders of the four frames come up, so nothing else varies.
CONSTANTS
    U32 = 8
    NumFrames = 4
    QueueSize = 2
    BatchSize = 2
    NicSize = 1
    TxFirst = TRUE
    Signals = {}
    Options <- WarmOptions
SPECIFICATION Spec
INVARIANTS
    FramesConserved
PROPERTIES
    ImplementsWarmPool
