SPECIFICATION DetectorSpec
CONSTANTS
    Calls <- MCOdd
    Payloads <- MCPayloads
    PayloadBit <- MCPayloadBit
    Noises <- MCNoises
    NoiseAt <- MCNoiseAt
    Mapped <- MCOdd
    Entries = {0}
    Fadings = {0}
    IsWeak <- MCIsWeak
    Silence = 192
    Slack = 1
CHECK_DEADLOCK FALSE
INVARIANT
    HearableChirpsFound
