\* -p: with all frames in the tx and the completion ring poll reports nothing.
CONSTANTS
    U32 = 8
    NumFrames = 4
    QueueSize = 2
    BatchSize = 2
    NicSize = 2
    TxFirst = TRUE
    Signals = {}
    Options <- PollOptions
SPECIFICATION FairDriverSpec
PROPERTIES
    CompletionReturned
