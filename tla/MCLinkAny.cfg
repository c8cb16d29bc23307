CONSTANTS
    IsSender = TRUE
    SeqMod = 2
    K = 2
    Prompt = FALSE
    MaxPackets = 5
SPECIFICATION FairLinkSpec
INVARIANTS LinkTypeOK MacTypeOK ReadsRunBehind OneReceptionOnePacket BooksBalance
PROPERTY KeepsSending
CHECK_DEADLOCK FALSE
