\* Up to six messages, one symbol lost or changed anywhere, noise before the first or not.  The last frames stay in the
\* buffer when the sender ends.
SPECIFICATION Spec
CONSTANTS
    d_len_preamble = 2
    d_phr_payload_len = 2
    d_nzeros = 1
    Blk = 3
    Kinds <- MCKinds
    LenOf <- MCLenOf
    PhaseOf <- MCPhaseOf
    Capacity = 22
    Bursts <- MCBursts
    Backlog = 0
    Idles = {0, 18}
    Lag = 4
    MaxFaults = 1
CHECK_DEADLOCK FALSE
INVARIANTS
    StreamTypeOK
    IntactIfWhole
    OnceInOrder
    NoDoubleTag
PROPERTY
    FramesArrive
