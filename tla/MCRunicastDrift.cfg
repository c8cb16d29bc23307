SPECIFICATION Spec
CONSTANTS
    Dests <- OnePeer
    Peers <- OnePeer
    SeqMod = 4
    Retxs = 3
    Timing = "any"
    MaxMsgs = 2
    MaxInFlight = 2
    MaxLost = 2
PROPERTIES
    IgnoredAcksAreDuplicates
CHECK_DEADLOCK FALSE
