\* A packet of one byte and one of two, one change of the rate at any moment.
SPECIFICATION RateSpec
CONSTANTS
    HeadChips = 3
    ChipsOf <- MCChipsOf
    FixedLength <- MCFixedLength
    MaxPktLen = 2
    DefaultLen = 1
    BeSize = 4
    Nibbles <- MCNibbles
    Letters <- MCLetters
    ChipNum <- MCChipNum
    Zeros = 2
    Payloads <- MCPayloads
    Noise <- MCNoise
    Cuts <- MCCuts
    MaxDisturbed = 1
    MaxRenewals = 1
INVARIANTS
    SinkTypeOK
    CountersMeet
    InBounds
    FrameAsHeard
    GoodIsIntact
    AllArrive
PROPERTY
    EveryFrameEnds
