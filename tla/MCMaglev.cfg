\* All hashes of three backends, with wrapping and with wider arithmetic.
CONSTANTS
    NumBackends = 3
    LookupSize = 5
    IntRange = 16
    MaxSessions = 2
    Sources <- AnySource
    Protocols <- MCProtocols
    UDP = "UDP"
    SessionHash <- MCSessionHash
SPECIFICATION FairSpec
INVARIANTS
    TypeOK
    EvenlyFilled
    SessionsPaired
PROPERTIES
    SessionsStick
    ConfigureEnds
