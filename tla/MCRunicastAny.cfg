SPECIFICATION FairSpec
CONSTANTS
    Dests <- TwoAddresses
    Peers <- OnePeer
    SeqMod = 4
    Retxs = 3
    Timing = "any"
    MaxMsgs = 3
    MaxInFlight = 2
    MaxLost = 2
INVARIANTS
    TypeOK
    InOrder
    NeverLags
PROPERTIES
    KeepsPromise
    EveryMessageFinishes
CHECK_DEADLOCK FALSE
