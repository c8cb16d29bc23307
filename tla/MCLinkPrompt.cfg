CONSTANTS
    IsSender = TRUE
    SeqMod = 2
    K = 2
    Prompt = TRUE
    MaxPackets = 6
SPECIFICATION LinkSpec
INVARIANTS RetransmissionsPaid OneOutstanding
PROPERTY RetransmitsUnreceived
CHECK_DEADLOCK FALSE
