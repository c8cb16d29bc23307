SPECIFICATION Spec
CONSTANTS
    Dests <- TwoAddresses
    Peers <- OnePeer
    SeqMod = 4
    Retxs = 3
    Timing = "quiet"
    MaxMsgs = 6
    MaxInFlight = 1
    MaxLost = 5
INVARIANTS
    NoDrift
    NoFalseAck
    TimeoutsPaidByLosses
CHECK_DEADLOCK FALSE
