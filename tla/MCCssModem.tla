----------------------------- MODULE MCCssModem -----------------------------
EXTENDS ChirpDetector, TLC

MCCall(s, n_, f, c, m) == [slow |-> s, bytes |-> n_, nframes |-> f, chirp |-> c, missing |-> m]
\* Frames of 16, 18 and 17 chirps, the last with gaps of one length.
MCMapped == {MCCall(FALSE, 1, 2, 1, 0), MCCall(FALSE, 3, 2, 3, 0), MCCall(FALSE, 2, 2, 4, 0)}
MCCalls ==
    {MCCall(FALSE, 3, 2, c, 0) : c \in {1, 3, 5}} \cup {MCCall(FALSE, 6, 1, 2, 0), MCCall(FALSE, 3, 2, 1, 1)}
        \cup MCMapped
        \cup {MCCall(s, n_, 1, 1, 0) : s \in BOOLEAN, n_ \in {1, 2, 3, 18, 38, 130}}
\* What python/css_analyze_tx_signal.py calls, but for its 40 frames.
MCAnalyze == {MCCall(FALSE, 38, 1, 2, 0)}
\* Two frames of 17 chirps each.
MCOdd == {MCCall(FALSE, 2, 2, 1, 0)}
MCPayloads == 1 .. 2
MCPayloadBit(p, i) == IF p = 1 THEN (i \div 3 + i) % 2 ELSE (i * i + i \div 5) % 2
MCNoises == 1 .. 2
MCNoiseAt(e, i) == (i \div (e * n_sub)) % 2

\* All is well, three subchirps in a row are weak, or some here and there.
MCEntries == {0, 1, 30, 260}
MCFadings == 0 .. 2
MCIsWeak(f, o) ==
    \/ f = 1 /\ o \in 1000 .. 1100
    \/ f = 2 /\ o % (11 * n_sub) < n_sub
=============================================================================
