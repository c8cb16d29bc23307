SPECIFICATION DetectorSpec
CONSTANTS
    Calls <- MCAnalyze
    Payloads <- MCPayloads
    PayloadBit <- MCPayloadBit
    Noises <- MCNoises
    NoiseAt <- MCNoiseAt
    Mapped <- MCOdd
    Entries <- MCEntries
    Fadings <- MCFadings
    IsWeak <- MCIsWeak
    Silence = 192
    Slack = 1
CHECK_DEADLOCK FALSE
INVARIANT
    PaddingFits
