CONSTANTS
    U32 = 8
    NumFrames = 4
    RxSize = 2
    BatchSize = 2
    NicSize = 2
    Options <- WarmInterruptOptions
SPECIFICATION FairSpec
INVARIANT FramesConserved
