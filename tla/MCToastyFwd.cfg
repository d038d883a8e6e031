\* Without -W; the driver empties the tx ring before it delivers.
CONSTANTS
    U32 = 8
    NumFrames = 4
    QueueSize = 2
    BatchSize = 2
    NicSize = 1
    TxFirst = TRUE
    Signals <- SignalOptions
    Options <- FifoOptions
SPECIFICATION FairSpec
INVARIANTS
    TypeOK
    FramesConserved
    OutstandingExact
    ReservationsNeverShort
PROPERTIES
    ImplementsWarmPool
    CompletionReturnedWithoutPoll
