\* Frames, rings and pointers small enough that all wrap, and that the driver
\* can drain the fill ring (NicSize + RxSize = NumFrames).
CONSTANTS
    U32 = 8
    NumFrames = 4
    RxSize = 2
    BatchSize = 2
    NicSize = 2
    Options <- SafeOptions
SPECIFICATION FairSpec
INVARIANTS
    TypeOK
    PointersOK
    FramesOK
    FramesConserved
    ReservationNeverShort
    WarmBatchNext
PROPERTIES
    ImplementsWarmPool
    FrameReturned
    SignalStops
