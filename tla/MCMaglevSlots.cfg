\* As MCMaglev.cfg; is every slot filled?
CONSTANTS
    NumBackends = 3
    LookupSize = 5
    IntRange = 16
    MaxSessions = 2
    Sources <- AnySource
    Protocols <- MCProtocols
    UDP = "UDP"
    SessionHash <- MCSessionHash
SPECIFICATION Spec
INVARIANT SlotsFilled
