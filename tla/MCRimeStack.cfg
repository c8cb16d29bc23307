SPECIFICATION Spec
CONSTANTS
    Stacks      <- McStacks
    AddrOf      <- McAddrOf
    BcChannels  <- McBc
    UcChannels  <- McUc
    RucChannels <- McRuc
    InRange     <- McInRange
    Targets     <- McTargets
    MaxMsgs     = 2
INVARIANTS
    RimeTypeOK
    DeliveredAsAddressed
    OnePortPerMessage
    AcksAnswerMessages
CHECK_DEADLOCK FALSE
