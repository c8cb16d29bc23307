\* Both rates, sizes that fit and that do not, all chirps, an input that is too short.
\* The calls end.
SPECIFICATION DetectorSpec
CONSTANTS
    Calls <- MCCalls
    Payloads <- MCPayloads
    PayloadBit <- MCPayloadBit
    Noises <- MCNoises
    NoiseAt <- MCNoiseAt
    Mapped <- MCMapped
    Entries <- MCEntries
    Fadings <- MCFadings
    IsWeak <- MCIsWeak
    Silence = 1
    Slack = 1
CHECK_DEADLOCK FALSE
INVARIANTS
    CssTypeOK
    SymbolsRecovered
    RoundTrip
    HearableChirpsFound
PROPERTY
    WholeFramesReturn
