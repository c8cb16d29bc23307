SPECIFICATION Spec
CONSTANTS
    Dests <- TwoPeers
    Peers <- TwoPeers
    SeqMod = 4
    Retxs = 3
    Timing = "late"
    MaxMsgs = 3
    MaxInFlight = 3
    MaxLost = 2
INVARIANTS
    NoFalseAck
PROPERTIES
    IgnoredAcksAreDuplicates
CHECK_DEADLOCK FALSE
