--------------------------- MODULE CssModemProofs ----------------------------
(***************************************************************************)
(* Proofs about CssModem and ChirpDetector: the modem returns the bits it  *)
(* was given and the detector finds the chirps it can hear, for frames of  *)
(* every size and number and for every chirp, noise and fading.  Frames,   *)
(* and the symbols of a frame in the baseband, are counted from 0.         *)
(***************************************************************************)
EXTENDS ChirpDetector, NumberLemmas, SequenceTheorems, FiniteSetTheorems, WellFoundedInduction

\* A rail of a frame: PHR, payload and zeros; its chips; the symbols of a frame and
\* the samples they take in the baseband.
RailBits == 6 + 4 * n + calc_padded_zeros(slow, n)
RailChips == (RailBits \div bits_per_symbol(slow)) * len_cw(slow)
Symbols == len_hdrs(slow) + RailChips
Length == Put(Symbols)

\* The same of frame f, first = 0 for rail I and 1 for rail Q.
Rail(f, first) == pad_zeros(EveryOther(FrameBits(f), first))
Chips(f, first) == IF slow THEN Interleaved(Codewords(Rail(f, first))) ELSE Codewords(Rail(f, first))
SymbolsOf(f) ==
    [j \in 1 .. Symbols |-> QPSK(create_frame(Chips(f, 0))[j], create_frame(Chips(f, 1))[j])]

\* Where symbol j of frame f lies.
Place(f, j) == f * Length + Put(j)

Off == {"raised", "mapped", "elsewhere"}
Modulating == {"demux", "codewords", "interleave", "mod_QPSK", "mod_DQPSK"}
Demodulating == {"demod_DQCSK", "demod_DQPSK", "decode", "mux"}

\* Frames whose symbols are in sent, in the baseband and in bits.
Cut == IF pc = "mod_DQPSK" THEN frame + 1 ELSE IF pc \in {"modulate"} \cup Modulating THEN frame ELSE call.nframes
Laid == IF pc \in {"modulate"} \cup Modulating THEN frame ELSE call.nframes
Read == IF pc \in Demodulating THEN frame ELSE IF pc = "returned" THEN call.nframes ELSE 0
-------------------------------------------------------------------------------
(* The invariant of the modem. *)

\* The stages that raise are passed only by calls whose frames come out even, and only
\* at the fast rate does a frame have the length that demodulate expects.
CallsFit ==
    /\ pc \notin Off \cup {"modulate"} => call.missing = 0
    /\ pc \in {"interleave", "mod_QPSK", "mod_DQPSK", "air", "demodulate", "returned"} \cup Demodulating =>
            RailBits % bits_per_symbol(slow) = 0
    /\ pc \in {"mod_QPSK", "mod_DQPSK", "air", "demodulate", "returned"} \cup Demodulating =>
            (slow => RailChips % 64 = 0)
    /\ pc = "interleave" => slow
    /\ pc \in {"returned"} \cup Demodulating => ~slow
    /\ pc \in {"air", "demodulate"} => frame = 0

\* What the rails hold at each stage.
RailsRight ==
    /\ pc = "codewords" => I = Rail(frame, 0) /\ Q = Rail(frame, 1)
    /\ pc = "interleave" => I = Codewords(Rail(frame, 0)) /\ Q = Codewords(Rail(frame, 1))
    /\ pc = "mod_QPSK" => I = Chips(frame, 0) /\ Q = Chips(frame, 1)
    /\ pc = "decode" => I = Codewords(Rail(frame, 0)) /\ Q = Codewords(Rail(frame, 1))
    /\ pc = "mux" => I = EveryOther(FrameBits(frame), 0) /\ Q = EveryOther(FrameBits(frame), 1)

SentRight ==
    pc \notin Off =>
        /\ Len(sent) = Cut * Symbols
        /\ \A f \in 0 .. Cut - 1 : \A j \in 1 .. Symbols : sent[f * Symbols + j] = SymbolsOf(f)[j]

\* The baseband has the subchirps of the frames at their places and no others.
LaidOut ==
    pc \notin Off =>
        /\ iq.len = Laid * Length
        /\ \A o \in DOMAIN iq.at : \E f \in 0 .. Laid - 1, j \in 0 .. Symbols - 1 : o = Place(f, j)
        /\ \A f \in 0 .. Laid - 1, j \in 0 .. Symbols - 1 :
                Place(f, j) \in DOMAIN iq.at /\ iq.at[Place(f, j)].k = j % 4

\* The phase from a symbol to the one after next is the QPSK symbol, but for noise.
Clean == pc \in {"modulate", "air"} \cup Modulating
Between(f, j) == (iq.at[Place(f, j)].phase - iq.at[Place(f, j - 2)].phase) % Turn
PhasesRight ==
    pc \notin Off =>
        \A f \in 0 .. Laid - 1 : \A j \in 2 .. Symbols - 1 :
            IF Clean
            THEN Between(f, j) = SymbolsOf(f)[j + 1]
            ELSE Same(Between(f, j), SymbolsOf(f)[j + 1])

\* A differential loop: what the delay chain holds after so many turns, first being
\* what it began with and turn j having put put[j] into it.
ChainHolds(first, turns, put) ==
    /\ chain \in [1 .. 4 -> -Turn + 1 .. Turn - 1]
    /\ chain[1] = IF turns = 0 THEN first ELSE put[turns]
    /\ chain[4] = IF turns <= 1 THEN first ELSE put[turns - 1]

LoopsRight ==
    /\ pc = "mod_DQPSK" =>
        /\ sym = SymbolsOf(frame)
        /\ \A j \in 3 .. Len(res) : res[j] = (sym[j] + res[j - 2]) % Turn
        /\ ChainHolds(Start, Len(res), res)
    /\ pc = "demod_DQPSK" =>
        /\ sym = [j \in 1 .. Symbols |-> iq.at[Place(frame, j - 1)].phase]
        /\ \A j \in 3 .. Len(res) : res[j] = (sym[j] - sym[j - 2]) % Turn
        /\ ChainHolds(-Start, Len(res), [j \in 1 .. Len(sym) |-> -sym[j]])

BitsRight == pc \notin Off => bits = [i \in 1 .. Read * 8 * n |-> PayloadBit(payload, i)]

ModemInv ==
    CssTypeOK /\ CallsFit /\ RailsRight /\ SentRight /\ LaidOut /\ PhasesRight /\ LoopsRight /\ BitsRight
-------------------------------------------------------------------------------
(* Sizes. *)

LEMMA CallTypes ==
    ASSUME call \in Calls
    PROVE  /\ slow \in BOOLEAN /\ n \in 1 .. 127 /\ chirp \in 1 .. 4
           /\ call.nframes \in Nat \ {0} /\ call.missing \in {0, 1}
<1>1. /\ call.slow \in BOOLEAN /\ call.bytes \in Nat \ {0} /\ call.chirp \in Nat
      /\ call.nframes \in Nat \ {0} /\ call.missing \in {0, 1}
  BY CallAssumption
<1>2. n \in 1 .. 127
  BY <1>1 DEF n, phy_packetsize_bytes, max_phy_packetsize_bytes
<1>3. chirp \in 1 .. 4
  BY <1>1 DEF chirp, chirp_number
<1> QED BY <1>1, <1>2, <1>3 DEF slow

LEMMA Gaps ==
    ASSUME chirp \in 1 .. 4
    PROVE  \E tau \in {0, 5, 10, 15} : time_gap_1(chirp) = 40 - 2 * tau /\ time_gap_2(chirp) = 40 + 2 * tau
<1>1. n_tau(chirp) \in {0, 5, 10, 15}
  BY DEF n_tau
<1>2. time_gap_1(chirp) = 40 - 2 * n_tau(chirp) /\ time_gap_2(chirp) = 40 + 2 * n_tau(chirp)
  BY <1>1 DEF time_gap_1, time_gap_2, n_chirp, n_sub
<1> QED BY <1>1, <1>2

\* Subchirps do not overlap, and two chirps with both gaps take 384 samples.
LEMMA PutGrows ==
    ASSUME chirp \in 1 .. 4
    PROVE  /\ Put(0) = 0
           /\ \A j \in Nat : Put(j) \in Nat /\ Put(j) >= n_sub * j
           /\ \A i, j \in Nat : i < j => Put(i) + n_sub <= Put(j)
           /\ \A k \in Nat : Put(8 * k) = 384 * k
<1>1. PICK tau \in {0, 5, 10, 15} : time_gap_1(chirp) = 40 - 2 * tau /\ time_gap_2(chirp) = 40 + 2 * tau
  BY Gaps
<1> DEFINE P(j, t) == 38 * j + (40 - 2 * t) * ((j \div 4 + 1) \div 2) + (40 + 2 * t) * ((j \div 4) \div 2)
<1>2. \A j \in Nat : Put(j) = P(j, tau)
  BY <1>1 DEF Put, n_sub
<1>3. /\ P(0, tau) = 0 /\ \A j \in Nat : P(j, tau) \in Nat /\ P(j, tau) >= 38 * j
      /\ \A i, j \in Nat : i < j => P(i, tau) + 38 <= P(j, tau)
      /\ \A k \in Nat : P(8 * k, tau) = 384 * k
  <2>1. CASE tau = 0
    BY <2>1
  <2>2. CASE tau = 5
    BY <2>2
  <2>3. CASE tau = 10
    BY <2>3
  <2>4. CASE tau = 15
    BY <2>4
  <2> QED BY <2>1, <2>2, <2>3, <2>4
<1> HIDE DEF P
<1>4. \A k \in Nat : 8 * k \in Nat
  OBVIOUS
<1>5. n_sub = 38
  BY DEF n_sub
<1> QED BY <1>2, <1>3, <1>4, <1>5

\* demod_DQCSK looks where mod_DQCSK puts.
LEMMA PosIsPut ==
    ASSUME chirp \in 1 .. 4, NEW j \in Nat
    PROVE  Pos(j) = Put(j)
<1>1. PICK tau \in {0, 5, 10, 15} : time_gap_1(chirp) = 40 - 2 * tau /\ time_gap_2(chirp) = 40 + 2 * tau
  BY Gaps
<1>2. /\ (j % 8 >= 4) => j \div 4 = 2 * (j \div 8) + 1
      /\ ~(j % 8 >= 4) => j \div 4 = 2 * (j \div 8)
  OBVIOUS
<1>3. CASE tau = 0
  BY <1>1, <1>2, <1>3 DEF Put, Pos, n_sub
<1>4. CASE tau = 5
  BY <1>1, <1>2, <1>4 DEF Put, Pos, n_sub
<1>5. CASE tau = 10
  BY <1>1, <1>2, <1>5 DEF Put, Pos, n_sub
<1>6. CASE tau = 15
  BY <1>1, <1>2, <1>6 DEF Put, Pos, n_sub
<1> QED BY <1>1, <1>3, <1>4, <1>5, <1>6

LEMMA RailSizes ==
    ASSUME call \in Calls
    PROVE  /\ calc_padded_zeros(slow, n) \in Nat /\ RailBits \in Nat /\ RailChips \in Nat
           /\ Symbols \in Nat /\ Symbols >= 48
<1>1. slow \in BOOLEAN /\ n \in 1 .. 127
  BY CallTypes
<1>2. calc_padded_zeros(slow, n) \in Nat
  <2>1. CASE slow
    BY <1>1, <2>1 DEF calc_padded_zeros
  <2>2. CASE ~slow
    BY <1>1, <2>2 DEF calc_padded_zeros
  <2> QED BY <2>1, <2>2
<1>3. RailBits \in Nat
  BY <1>1, <1>2 DEF RailBits
<1>4. RailChips \in Nat
  BY <1>3 DEF RailChips, bits_per_symbol, len_cw
<1> QED BY <1>2, <1>3, <1>4 DEF Symbols, len_hdrs

\* Both samples of a frame as the sender makes it and as the receiver expects it.
\* At the slow rate they differ for every size, so that demodulate raises.
LEMMA FrameSizes ==
    ASSUME call \in Calls, RailBits % bits_per_symbol(slow) = 0, slow => RailChips % 64 = 0
    PROVE  /\ \E k \in Nat \ {0} : Symbols = 8 * k /\ Length = 384 * k
           /\ Length \in Nat /\ nsamp_frame \in Nat /\ Length <= 2 * nsamp_frame
           /\ slow => nsamp_frame < Length
           /\ ~slow => /\ Length = nsamp_frame
                       /\ calc_padded_zeros(slow, n) = 0
                       /\ RailBits = 6 + 4 * n /\ RailChips * 3 = RailBits * 4
<1>1. slow \in BOOLEAN /\ n \in 1 .. 127 /\ chirp \in 1 .. 4
  BY CallTypes
<1>2. CASE slow
  <2>1. /\ calc_padded_zeros(slow, n) = 24 * ((2 * n + 8) \div 6) - 12 - 2 * n
        /\ bits_per_symbol(slow) = 6 /\ len_cw(slow) = 32 /\ len_hdrs(slow) = 96
    BY <1>2 DEF calc_padded_zeros, bits_per_symbol, len_cw, len_hdrs
  <2>2. RailBits = 24 * ((2 * n + 8) \div 6) + 2 * n - 6 /\ RailBits % 6 = 0
    BY <1>1, <2>1 DEF RailBits
  <2>3. n % 3 = 0
    BY <1>1, <2>2
  <2>4. PICK m \in Nat : n = 3 * m /\ m >= 1
    <3>1. n \div 3 \in Nat /\ n = 3 * (n \div 3) /\ n \div 3 >= 1
      BY <1>1, <2>3
    <3> QED BY <3>1
  <2>5. (2 * n + 8) \div 6 = m + 1
    BY <2>4
  <2>6. RailBits = 30 * m + 18
    BY <2>2, <2>4, <2>5
  <2>7. RailBits \div 6 = 5 * m + 3
    BY <2>6
  <2>8. RailChips = 160 * m + 96
    BY <2>1, <2>7 DEF RailChips
  <2>9. m % 2 = 1
    BY <1>2, <2>8
  <2>10. PICK h \in Nat : m = 2 * h + 1
    <3>1. m \div 2 \in Nat /\ m = 2 * (m \div 2) + 1
      BY <2>9
    <3> QED BY <3>1
  <2>11. Symbols = 8 * (40 * h + 44) /\ 40 * h + 44 \in Nat \ {0}
    BY <2>1, <2>8, <2>10 DEF Symbols
  <2>12. Length = 384 * (40 * h + 44)
    BY <1>1, <2>11, PutGrows DEF Length
  <2>13. calc_padded_zeros(slow, n) = 36 * h + 30 /\ n = 6 * h + 3
    BY <2>1, <2>4, <2>5, <2>10
  <2>14. calc_nsym_frame(slow, n) = 224 * h + 272
    <3>1. 12 + 8 * n + calc_padded_zeros(slow, n) = 84 * h + 66
      BY <2>13
    <3>2. ((84 * h + 66) * 8) \div 3 = 224 * h + 176
      OBVIOUS
    <3>3. calc_nsym_frame(slow, n)
              = len_hdrs(slow) + ((12 + 8 * n + calc_padded_zeros(slow, n)) * 8) \div 3
      BY <1>2 DEF calc_nsym_frame
    <3> QED BY <2>1, <3>1, <3>2, <3>3
  <2>15. calc_nsym_frame(slow, n) \div 4 = 56 * h + 68
    BY <2>14
  <2>16. nsamp_frame = (56 * h + 68) * 192
    BY <2>15 DEF nsamp_frame, calc_nsamp_frame, n_chirp
  <2> QED BY <1>2, <2>11, <2>12, <2>16
<1>3. CASE ~slow
  <2>1. /\ calc_padded_zeros(slow, n) = 6 * ((4 * n + 2) \div 3 + 2) - 8 * n - 12
        /\ bits_per_symbol(slow) = 3 /\ len_cw(slow) = 4 /\ len_hdrs(slow) = 48
    BY <1>3 DEF calc_padded_zeros, bits_per_symbol, len_cw, len_hdrs
  <2>2. RailBits = 6 + 6 * ((4 * n + 2) \div 3) - 4 * n /\ RailBits % 3 = 0
    BY <1>1, <2>1 DEF RailBits
  <2>3. n % 3 = 0
    BY <1>1, <2>2
  <2>4. PICK m \in Nat : n = 3 * m /\ m >= 1
    <3>1. n \div 3 \in Nat /\ n = 3 * (n \div 3) /\ n \div 3 >= 1
      BY <1>1, <2>3
    <3> QED BY <3>1
  <2>5. (4 * n + 2) \div 3 = 4 * m
    BY <2>4
  <2>6. calc_padded_zeros(slow, n) = 0
    BY <2>1, <2>4, <2>5
  <2>7. RailBits = 6 + 12 * m
    BY <2>2, <2>4, <2>5
  <2>8. RailChips = 16 * m + 8
    BY <2>1, <2>7 DEF RailChips
  <2>9. Symbols = 8 * (2 * m + 7) /\ 2 * m + 7 \in Nat \ {0}
    BY <2>1, <2>8 DEF Symbols
  <2>10. Length = 384 * (2 * m + 7)
    BY <1>1, <2>9, PutGrows DEF Length
  <2>11. calc_nsym_frame(slow, n) = 16 * m + 56
    BY <1>3, <2>1, <2>4, <2>6 DEF calc_nsym_frame
  <2>12. calc_nsym_frame(slow, n) \div 4 = 4 * m + 14
    BY <2>11
  <2>13. nsamp_frame = (4 * m + 14) * 192
    BY <2>12 DEF nsamp_frame, calc_nsamp_frame, n_chirp
  <2> QED BY <1>3, <2>4, <2>6, <2>7, <2>8, <2>9, <2>10, <2>13
<1> QED BY <1>1, <1>2, <1>3
-------------------------------------------------------------------------------
(* Bits, chips and symbols. *)

LEMMA SeqOfFunction ==
    ASSUME NEW S, NEW N \in Nat, NEW f \in [1 .. N -> S] PROVE f \in Seq(S) /\ Len(f) = N
  BY IsASeq

LEMMA BitType == ASSUME NEW x \in Nat, NEW b \in 0 .. 6 PROVE Bit(x, b) \in {0, 1}
<1>1. CASE b = 0
  BY <1>1 DEF Bit
<1>2. CASE b = 1
  BY <1>2 DEF Bit
<1>3. CASE b = 2
  BY <1>3 DEF Bit
<1>4. CASE b = 3
  BY <1>4 DEF Bit
<1>5. CASE b = 4
  BY <1>5 DEF Bit
<1>6. CASE b = 5
  BY <1>6 DEF Bit
<1>7. CASE b = 6
  BY <1>7 DEF Bit
<1> QED BY <1>1, <1>2, <1>3, <1>4, <1>5, <1>6, <1>7

\* The bits of frame f are those of the payload that belong to it.
LEMMA PayloadOfFrame ==
    ASSUME call \in Calls, payload \in Payloads, NEW f \in 0 .. call.nframes - 1, NEW i \in 1 .. 8 * n
    PROVE  PayloadBit(payload, f * 8 * n + i) \in {0, 1}
<1>1. n \in Nat /\ call.nframes \in Nat /\ n >= 1
  BY CallTypes
<1>2. f * (8 * n) + 8 * n <= call.nframes * (8 * n) /\ f * (8 * n) \in Nat
  BY <1>1, RowAfter
<1>3. f * 8 * n = f * (8 * n) /\ call.nframes * n * 8 = call.nframes * (8 * n)
  BY <1>1
<1>4. f * 8 * n + i \in 1 .. call.nframes * n * 8
  BY <1>1, <1>2, <1>3
<1> QED BY <1>4, PayloadAssumption DEF n

LEMMA FrameBitsType ==
    ASSUME call \in Calls, payload \in Payloads, NEW f \in 0 .. call.nframes - 1
    PROVE  FrameBits(f) \in [1 .. 12 + 8 * n -> {0, 1}]
<1>1. n \in Nat
  BY CallTypes
<1>2. ASSUME NEW i \in 1 .. 12 PROVE gen_PHR(n)[i] \in {0, 1}
  <2>1. CASE i <= 7
    <3>1. 7 - i \in 0 .. 6
      BY <2>1
    <3>2. Bit(n, 7 - i) \in {0, 1}
      BY <1>1, <3>1, BitType
    <3> QED BY <2>1, <3>2 DEF gen_PHR
  <2>2. CASE ~(i <= 7)
    BY <2>2 DEF gen_PHR
  <2> QED BY <2>1, <2>2
<1>3. ASSUME NEW i \in 1 .. 12 + 8 * n, ~(i <= 12) PROVE PayloadBit(payload, f * 8 * n + i - 12) \in {0, 1}
  <2>1. i - 12 \in 1 .. 8 * n
    BY <1>1, <1>3
  <2>2. f * 8 * n + (i - 12) = f * 8 * n + i - 12
    BY <1>1
  <2> QED BY <2>1, <2>2, PayloadOfFrame
<1>4. ASSUME NEW i \in 1 .. 12 + 8 * n PROVE i <= 12 => i \in 1 .. 12
  BY <1>1
<1> QED BY <1>2, <1>3, <1>4 DEF FrameBits

LEMMA HalfBits ==
    ASSUME call \in Calls, payload \in Payloads, NEW f \in 0 .. call.nframes - 1, NEW first \in {0, 1}
    PROVE  /\ EveryOther(FrameBits(f), first) \in [1 .. 6 + 4 * n -> {0, 1}]
           /\ \A i \in 1 .. 6 + 4 * n : EveryOther(FrameBits(f), first)[i] = FrameBits(f)[2 * i - 1 + first]
<1> DEFINE k == 6 + 4 * n
           s == FrameBits(f)
<1>1. k \in Nat /\ 12 + 8 * n = 2 * k /\ 2 * k \in Nat /\ (2 * k) \div 2 = k
  BY CallTypes
<1>2. s \in [1 .. 2 * k -> {0, 1}]
  BY <1>1, FrameBitsType
<1> HIDE DEF k, s
<1>3. Len(s) = 2 * k
  BY <1>1, <1>2, SeqOfFunction
<1>4. EveryOther(s, first) = [i \in 1 .. k |-> s[2 * i - 1 + first]]
  BY <1>1, <1>3 DEF EveryOther
<1>5. \A i \in 1 .. k : 2 * i - 1 + first \in 1 .. 2 * k
  BY <1>1
<1>6. EveryOther(s, first) \in [1 .. k -> {0, 1}]
  BY <1>2, <1>4, <1>5
<1>7. \A i \in 1 .. k : EveryOther(s, first)[i] = s[2 * i - 1 + first]
  BY <1>4
<1> QED BY <1>6, <1>7, Zenon DEF k, s

LEMMA RailType ==
    ASSUME call \in Calls, payload \in Payloads, NEW f \in 0 .. call.nframes - 1, NEW first \in {0, 1}
    PROVE  /\ Rail(f, first) \in [1 .. RailBits -> {0, 1}]
           /\ calc_padded_zeros(slow, n) = 0 => Rail(f, first) = EveryOther(FrameBits(f), first)
<1> DEFINE s == EveryOther(FrameBits(f), first)
           pad == calc_padded_zeros(slow, n)
           z == [i \in 1 .. pad |-> 0]
<1>1. n \in Nat /\ pad \in Nat
  BY CallTypes, RailSizes
<1>2. s \in [1 .. 6 + 4 * n -> {0, 1}]
  BY HalfBits
<1>3. s \in Seq({0, 1}) /\ Len(s) = 6 + 4 * n
  BY <1>1, <1>2, SeqOfFunction
<1>4. z \in [1 .. pad -> {0, 1}]
  OBVIOUS
<1>5. z \in Seq({0, 1}) /\ Len(z) = pad
  BY <1>1, <1>4, SeqOfFunction
<1>6. Rail(f, first) = s \o z
  BY DEF Rail, pad_zeros
<1> HIDE DEF s, z, pad
<1>7. s \o z \in Seq({0, 1}) /\ Len(s \o z) = 6 + 4 * n + pad
  BY <1>3, <1>5, ConcatProperties
<1>8. s \o z \in [1 .. RailBits -> {0, 1}]
  BY <1>7, LenProperties DEF RailBits, pad
<1>9. ASSUME pad = 0 PROVE s \o z = s
  <2>1. z = <<>>
    BY <1>5, <1>9, EmptySeq
  <2> QED BY <1>3, <2>1, ConcatEmptySeq
<1> QED BY <1>6, <1>8, <1>9 DEF s, pad

LEMMA CodewordsType ==
    ASSUME call \in Calls, NEW r \in [1 .. RailBits -> {0, 1}]
    PROVE  Codewords(r) \in [1 .. RailChips -> {-1, 1}]
<1>1. Len(r) = RailBits
  BY RailSizes, SeqOfFunction
<1>2. ASSUME NEW x, NEW j PROVE codewords(slow, x, j) \in {-1, 1}
  <2>1. ASSUME NEW y PROVE Walsh(y, j) \in {-1, 1} /\ -Walsh(y, j) \in {-1, 1}
    <3>1. Walsh(y, j) = 1 \/ Walsh(y, j) = -1
      BY Zenon DEF Walsh
    <3> QED BY <3>1
  <2> QED BY <2>1 DEF codewords
<1>3. Codewords(r) = [j \in 1 .. RailChips |->
                         codewords(slow, Index(r, (j - 1) \div len_cw(slow) + 1), (j - 1) % len_cw(slow))]
  BY <1>1 DEF Codewords, RailChips
<1> QED BY <1>2, <1>3

\* The interleaver moves chips within their block of 64.
LEMMA InterleavedType ==
    ASSUME NEW N \in Nat, N % 64 = 0, NEW s \in [1 .. N -> {-1, 1}]
    PROVE  Interleaved(s) \in [1 .. N -> {-1, 1}]
<1>1. Len(s) = N
  BY SeqOfFunction
<1>2. ASSUME NEW i \in 0 .. 63 PROVE intlv_seq(i) \in 0 .. 63
  <2>1. CASE (i \div 4) % 2 = 0
    BY <2>1 DEF intlv_seq
  <2>2. CASE (i \div 4) % 2 = 1
    <3>1. 12 - i \div 4 + 2 * ((i \div 4) % 4) \in 0 .. 15
      BY <2>2
    <3> QED BY <2>2, <3>1 DEF intlv_seq
  <2> QED BY <2>1, <2>2
<1>3. ASSUME NEW j \in 1 .. N
      PROVE  64 * ((j - 1) \div 64) + intlv_seq(((j - 1) % 64)) + 1 \in 1 .. N
  <2>1. (j - 1) % 64 \in 0 .. 63
    OBVIOUS
  <2>2. intlv_seq(((j - 1) % 64)) \in 0 .. 63
    BY <1>2, <2>1
  <2>3. (j - 1) \div 64 \in Nat /\ 64 * ((j - 1) \div 64) + 64 <= N
    OBVIOUS
  <2> DEFINE a == (j - 1) \div 64
             b == intlv_seq(((j - 1) % 64))
  <2> HIDE DEF a, b
  <2>4. a \in Nat /\ 64 * a + 64 <= N /\ b \in 0 .. 63
    BY <2>2, <2>3 DEF a, b
  <2>5. 64 * a + b + 1 \in 1 .. N
    BY <2>4
  <2> QED BY <2>5 DEF a, b
<1> QED BY <1>1, <1>3 DEF Interleaved

LEMMA ChipsType ==
    ASSUME call \in Calls, payload \in Payloads, NEW f \in 0 .. call.nframes - 1, NEW first \in {0, 1},
           slow => RailChips % 64 = 0
    PROVE  Chips(f, first) \in [1 .. RailChips -> {-1, 1}]
<1>1. Rail(f, first) \in [1 .. RailBits -> {0, 1}]
  BY RailType
<1>2. Codewords(Rail(f, first)) \in [1 .. RailChips -> {-1, 1}]
  BY <1>1, CodewordsType
<1>3. slow \in BOOLEAN /\ RailChips \in Nat
  BY CallTypes, RailSizes
<1>4. CASE slow
  <2>1. Interleaved(Codewords(Rail(f, first))) \in [1 .. RailChips -> {-1, 1}]
    BY <1>2, <1>3, <1>4, InterleavedType
  <2> QED BY <1>4, <2>1 DEF Chips
<1>5. CASE ~slow
  BY <1>2, <1>5 DEF Chips
<1> QED BY <1>3, <1>4, <1>5

LEMMA SymbolsType ==
    ASSUME NEW f
    PROVE  SymbolsOf(f) \in [1 .. Symbols -> {0, 4, 8, 12}]
BY DEF SymbolsOf, QPSK

\* Behind the headers of the fast rate, a frame has its chips.
LEMMA SymbolIsChips ==
    ASSUME call \in Calls, payload \in Payloads, NEW f \in 0 .. call.nframes - 1, ~slow, NEW j \in 1 .. RailChips
    PROVE  /\ Symbols = 48 + RailChips /\ RailChips \in Nat
           /\ Chips(f, 0)[j] \in {-1, 1} /\ Chips(f, 1)[j] \in {-1, 1}
           /\ SymbolsOf(f)[48 + j] = QPSK(Chips(f, 0)[j], Chips(f, 1)[j])
<1>1. RailChips \in Nat /\ Symbols = 48 + RailChips
  BY RailSizes DEF Symbols, len_hdrs
<1>2. ASSUME NEW first \in {0, 1}
      PROVE  Chips(f, first)[j] \in {-1, 1} /\ create_frame(Chips(f, first))[48 + j] = Chips(f, first)[j]
  <2> DEFINE s == Chips(f, first)
             p == preamble(slow)
             d == SFD(slow)
             S == {-1, 1}
  <2>1. s \in [1 .. RailChips -> S] /\ s[j] \in {-1, 1}
    BY ChipsType
  <2>2. \E N \in Nat : N = 32 /\ p \in [1 .. N -> S]
    BY DEF preamble
  <2>3. \E N \in Nat : N = 16 /\ d \in [1 .. N -> S]
    BY DEF SFD
  <2> HIDE DEF s, p, d, S
  <2>4. s \in Seq(S) /\ Len(s) = RailChips
    BY <1>1, <2>1, SeqOfFunction
  <2>5. p \in Seq(S) /\ Len(p) = 32
    BY <2>2, SeqOfFunction
  <2>6. d \in Seq(S) /\ Len(d) = 16
    BY <2>3, SeqOfFunction
  <2>7. p \o d \in Seq(S) /\ Len(p \o d) = 48
    <3>1. p \o d \in Seq(S) /\ Len(p \o d) = Len(p) + Len(d)
      BY <2>5, <2>6, ConcatProperties
    <3> QED BY <2>5, <2>6, <3>1
  <2>8. 48 + j \in 1 .. 48 + RailChips /\ ~(48 + j <= 48) /\ 48 + j - 48 = j
    BY <1>1
  <2>9. ((p \o d) \o s)[48 + j] = s[j]
    BY <2>4, <2>7, <2>8, ConcatProperties
  <2>10. create_frame(s) = (p \o d) \o s
    BY DEF create_frame, p, d
  <2> QED BY <2>1, <2>9, <2>10 DEF s
<1>3. 48 + j \in 1 .. Symbols
  BY <1>1
<1>4. SymbolsOf(f)[48 + j] = QPSK(create_frame(Chips(f, 0))[48 + j], create_frame(Chips(f, 1))[48 + j])
  BY <1>3 DEF SymbolsOf
<1> QED BY <1>1, <1>2, <1>4

\* The receiver's quadrants: a phase next to that of a symbol is in the symbol's own.
LEMMA Quadrants ==
    ASSUME NEW i \in {-1, 1}, NEW q \in {-1, 1}, NEW phase, Same(phase, QPSK(i, q))
    PROVE  OnI(phase) = i /\ OnQ(phase) = q
<1>1. CASE i = 1 /\ q = 1
  <2>1. phase \in {15, 0, 1}
    <3>1. \A x \in -16 .. -1 : x % 16 = 16 + x
      OBVIOUS
    <3> QED BY <1>1, <3>1 DEF Same, QPSK, Turn
  <2> QED BY <1>1, <2>1 DEF OnI, OnQ
<1>2. CASE i = -1 /\ q = 1
  <2>1. phase \in {3, 4, 5}
    BY <1>2 DEF Same, QPSK, Turn
  <2> QED BY <1>2, <2>1 DEF OnI, OnQ
<1>3. CASE i = 1 /\ q = -1
  <2>1. phase \in {11, 12, 13}
    BY <1>3 DEF Same, QPSK, Turn
  <2> QED BY <1>3, <2>1 DEF OnI, OnQ
<1>4. CASE i = -1 /\ q = -1
  <2>1. phase \in {7, 8, 9}
    BY <1>4 DEF Same, QPSK, Turn
  <2> QED BY <1>4, <2>1 DEF OnI, OnQ
<1> QED BY <1>1, <1>2, <1>3, <1>4
-------------------------------------------------------------------------------
(* The decoder. *)

\* The eight codewords of the fast rate.
LEMMA CodeTable ==
    ASSUME ~slow, NEW x \in 0 .. 7
    PROVE  /\ codewords(slow, x, 0) = IF x \in {0, 1, 2, 3} THEN 1 ELSE -1
           /\ codewords(slow, x, 1) = IF x \in {0, 2, 5, 7} THEN 1 ELSE -1
           /\ codewords(slow, x, 2) = IF x \in {0, 1, 6, 7} THEN 1 ELSE -1
           /\ codewords(slow, x, 3) = IF x \in {0, 3, 5, 6} THEN 1 ELSE -1
<1>1. \A y \in 0 .. 3 : /\ Bit(y, 0) = y % 2 /\ Bit(y, 1) = y \div 2
                        /\ Bit(y, 2) = 0 /\ Bit(y, 3) = 0 /\ Bit(y, 4) = 0
  BY DEF Bit
<1>2. ASSUME NEW y \in 0 .. 3, NEW j \in 0 .. 3
      PROVE  Walsh(y, j) = IF ((y % 2) * (j % 2) + (y \div 2) * (j \div 2)) % 2 = 0 THEN 1 ELSE -1
  <2>1. (y % 2) * (j % 2) \in Int /\ (y \div 2) * (j \div 2) \in Int
    OBVIOUS
  <2>2. Bit(y, 0) * Bit(j, 0) + Bit(y, 1) * Bit(j, 1) + Bit(y, 2) * Bit(j, 2)
          + Bit(y, 3) * Bit(j, 3) + Bit(y, 4) * Bit(j, 4) = (y % 2) * (j % 2) + (y \div 2) * (j \div 2)
    BY <1>1, <2>1
  <2> QED BY <2>2 DEF Walsh
<1>3. /\ Walsh(0, 0) = 1 /\ Walsh(0, 1) = 1 /\ Walsh(0, 2) = 1 /\ Walsh(0, 3) = 1
      /\ Walsh(1, 0) = 1 /\ Walsh(1, 1) = -1 /\ Walsh(1, 2) = 1 /\ Walsh(1, 3) = -1
      /\ Walsh(2, 0) = 1 /\ Walsh(2, 1) = 1 /\ Walsh(2, 2) = -1 /\ Walsh(2, 3) = -1
      /\ Walsh(3, 0) = 1 /\ Walsh(3, 1) = -1 /\ Walsh(3, 2) = -1 /\ Walsh(3, 3) = 1
  BY <1>2
<1>4. \A j \in 0 .. 3 : codewords(slow, x, j) = IF x < 4 THEN Walsh(x, j) ELSE -Walsh(x - 4, j)
  BY DEF codewords, len_cw
<1>5. CASE x < 4
  <2>1. /\ codewords(slow, x, 0) = Walsh(x, 0) /\ codewords(slow, x, 1) = Walsh(x, 1)
        /\ codewords(slow, x, 2) = Walsh(x, 2) /\ codewords(slow, x, 3) = Walsh(x, 3)
    BY <1>4, <1>5
  <2>2. CASE x = 0
    BY <1>3, <2>1, <2>2
  <2>3. CASE x = 1
    BY <1>3, <2>1, <2>3
  <2>4. CASE x = 2
    BY <1>3, <2>1, <2>4
  <2>5. CASE x = 3
    BY <1>3, <2>1, <2>5
  <2> QED BY <1>5, <2>2, <2>3, <2>4, <2>5
<1>6. CASE ~(x < 4)
  <2>1. /\ codewords(slow, x, 0) = -Walsh(x - 4, 0) /\ codewords(slow, x, 1) = -Walsh(x - 4, 1)
        /\ codewords(slow, x, 2) = -Walsh(x - 4, 2) /\ codewords(slow, x, 3) = -Walsh(x - 4, 3)
    BY <1>4, <1>6
  <2>2. \A w \in Int : (w = 1 => -w = -1) /\ (w = -1 => -w = 1)
    OBVIOUS
  <2>3. CASE x = 4
    <3>1. x - 4 = 0
      BY <2>3
    <3> QED BY <1>3, <2>1, <2>2, <2>3, <3>1
  <2>4. CASE x = 5
    <3>1. x - 4 = 1
      BY <2>4
    <3> QED BY <1>3, <2>1, <2>2, <2>4, <3>1
  <2>5. CASE x = 6
    <3>1. x - 4 = 2
      BY <2>5
    <3> QED BY <1>3, <2>1, <2>2, <2>5, <3>1
  <2>6. CASE x = 7
    <3>1. x - 4 = 3
      BY <2>6
    <3> QED BY <1>3, <2>1, <2>2, <2>6, <3>1
  <2> QED BY <1>6, <2>3, <2>4, <2>5, <2>6
<1> QED BY <1>5, <1>6

LEMMA CodewordsDiffer ==
    ASSUME ~slow, NEW x \in 0 .. 7, NEW y \in 0 .. 7, x # y
    PROVE  \E j \in 0 .. 3 : codewords(slow, x, j) # codewords(slow, y, j)
<1> DEFINE c(z, j) == codewords(slow, z, j)
<1> HIDE DEF c
<1> SUFFICES ASSUME \A j \in 0 .. 3 : c(x, j) = c(y, j) PROVE FALSE
  BY DEF c
<1>1. c(x, 0) = c(y, 0) /\ c(x, 1) = c(y, 1) /\ c(x, 2) = c(y, 2) /\ c(x, 3) = c(y, 3)
  OBVIOUS
<1>2. 1 # -1
  OBVIOUS
<1>3. x \in {0, 1, 2, 3} <=> y \in {0, 1, 2, 3}
  BY <1>1, <1>2, CodeTable DEF c
<1>4. x \in {0, 2, 5, 7} <=> y \in {0, 2, 5, 7}
  BY <1>1, <1>2, CodeTable DEF c
<1>5. x \in {0, 1, 6, 7} <=> y \in {0, 1, 6, 7}
  BY <1>1, <1>2, CodeTable DEF c
<1>6. x \in {0, 3, 5, 6} <=> y \in {0, 3, 5, 6}
  BY <1>1, <1>2, CodeTable DEF c
<1> QED BY <1>3, <1>4, <1>5, <1>6

\* A row of four chips that is a codeword is found, as no other is at distance 0.
LEMMA FindsCodeword ==
    ASSUME ~slow, NEW x \in 0 .. 7, NEW row, \A j \in 1 .. 4 : row[j] = codewords(slow, x, j - 1)
    PROVE  Nearest(row) = x
<1> DEFINE Wrong(y) == {j \in 1 .. 4 : row[j] # codewords(slow, y, j - 1)}
<1>1. len_cw(slow) = 4 /\ 2 * len_cw(slow) - 1 = 7
  BY DEF len_cw
<1>2. \A y : Distance(row, y) = Cardinality(Wrong(y))
  BY <1>1 DEF Distance
<1>3. Distance(row, x) = 0
  <2>1. Wrong(x) = {}
    OBVIOUS
  <2> QED BY <1>2, <2>1, FS_EmptySet
<1>4. ASSUME NEW y \in 0 .. 7, y # x PROVE Distance(row, y) \in Nat /\ Distance(row, y) > 0
  <2>1. PICK j \in 0 .. 3 : codewords(slow, x, j) # codewords(slow, y, j)
    BY <1>4, CodewordsDiffer
  <2>2. j + 1 \in 1 .. 4 /\ (j + 1) - 1 = j
    OBVIOUS
  <2>3. j + 1 \in Wrong(y)
    BY <2>1, <2>2
  <2>4. IsFiniteSet(Wrong(y))
    <3>1. PICK four \in Int : four = 4
      OBVIOUS
    <3>2. IsFiniteSet(1 .. four)
      BY FS_Interval
    <3>3. IsFiniteSet(1 .. 4)
      BY <3>1, <3>2, Zenon
    <3> QED BY <3>3, FS_Subset
  <2> HIDE DEF Wrong
  <2>5. Cardinality(Wrong(y)) \in Nat /\ Cardinality(Wrong(y)) # 0
    BY <2>3, <2>4, FS_CardinalityType, FS_EmptySet
  <2> QED BY <1>2, <2>5
<1> HIDE DEF Wrong
<1> DEFINE Best(z) == /\ \A y \in 0 .. 7 : Distance(row, z) <= Distance(row, y)
                      /\ \A y \in 0 .. z - 1 : Distance(row, z) < Distance(row, y)
<1>5. Best(x)
  <2>1. \A y \in 0 .. 7 : Distance(row, x) <= Distance(row, y)
    BY <1>3, <1>4
  <2>2. ASSUME NEW y \in 0 .. x - 1 PROVE Distance(row, x) < Distance(row, y)
    <3>1. y \in 0 .. 7 /\ y # x
      OBVIOUS
    <3> QED BY <1>3, <1>4, <3>1
  <2> QED BY <2>1, <2>2
<1>6. ASSUME NEW z \in 0 .. 7, Best(z) PROVE z = x
  BY <1>3, <1>4, <1>6
<1>7. Nearest(row) = CHOOSE z \in 0 .. 7 : Best(z)
  BY <1>1, Zenon DEF Nearest
<1> HIDE DEF Best
<1> QED BY <1>5, <1>6, <1>7

\* What the decoder makes of the chips of a rail is the rail.
LEMMA DecodesRight ==
    ASSUME call \in Calls, ~slow, RailBits % 3 = 0, NEW r \in [1 .. RailBits -> {0, 1}]
    PROVE  /\ CodewordsToBits(Codewords(r)) = r
           /\ Len(Codewords(r)) % len_cw(slow) = 0
<1> DEFINE K == RailBits \div 3
           s == Codewords(r)
<1>1. /\ K \in Nat /\ RailBits = 3 * K /\ RailChips = K * 4
      /\ len_cw(slow) = 4 /\ bits_per_symbol(slow) = 3
  <2>1. RailBits \in Nat /\ len_cw(slow) = 4 /\ bits_per_symbol(slow) = 3
    BY RailSizes DEF len_cw, bits_per_symbol
  <2>2. K \in Nat /\ RailBits = 3 * K
    BY <2>1
  <2> QED BY <2>1, <2>2 DEF RailChips
<1>2. s \in [1 .. RailChips -> {-1, 1}]
  BY CodewordsType
<1>3. Len(r) = RailBits
  BY <1>1, SeqOfFunction
<1>4. \A i \in 1 .. RailChips : s[i] = codewords(slow, Index(r, (i - 1) \div 4 + 1), (i - 1) % 4)
  BY <1>1, <1>3 DEF Codewords
<1> HIDE DEF s, K
<1>5. s \in Seq({-1, 1}) /\ Len(s) = K * 4 /\ Len(s) \div 4 = K /\ Len(s) % 4 = 0
  <2>1. s \in Seq({-1, 1}) /\ Len(s) = K * 4
    BY <1>1, <1>2, SeqOfFunction
  <2> QED BY <1>1, <2>1
<1>6. ASSUME NEW k \in 1 .. K
      PROVE  /\ Nearest(Row(s, k)) = Index(r, k)
             /\ Index(r, k) = 4 * r[3 * k - 2] + 2 * r[3 * k - 1] + r[3 * k]
             /\ r[3 * k - 2] \in {0, 1} /\ r[3 * k - 1] \in {0, 1} /\ r[3 * k] \in {0, 1}
  <2>1. 3 * k - 2 \in 1 .. RailBits /\ 3 * k - 1 \in 1 .. RailBits /\ 3 * k \in 1 .. RailBits
    BY <1>1
  <2>2. r[3 * k - 2] \in {0, 1} /\ r[3 * k - 1] \in {0, 1} /\ r[3 * k] \in {0, 1}
    BY <2>1
  <2>3. Index(r, k) = 4 * r[3 * k - 2] + 2 * r[3 * k - 1] + r[3 * k]
    BY DEF Index
  <2>4. Index(r, k) \in 0 .. 7
    BY <2>2, <2>3
  <2>5. /\ (k - 1) * 4 + 1 \in 1 .. Len(s) + 1 /\ k * 4 \in 0 .. Len(s)
        /\ k * 4 - ((k - 1) * 4 + 1) + 1 = 4
        /\ (k - 1) * 4 + 1 <= k * 4
    BY <1>1, <1>5
  <2>6. ASSUME NEW j \in 1 .. 4 PROVE Row(s, k)[j] = codewords(slow, Index(r, k), j - 1)
    <3>1. Row(s, k)[j] = s[(k - 1) * 4 + 1 + j - 1]
      BY <1>1, <1>5, <2>5, SubSeqProperties DEF Row
    <3>2. (k - 1) * 4 + 1 + j - 1 = (k - 1) * 4 + j
      OBVIOUS
    <3>3. (k - 1) * 4 + j \in 1 .. RailChips
      BY <1>1
    <3>4. ((k - 1) * 4 + j - 1) \div 4 + 1 = k /\ ((k - 1) * 4 + j - 1) % 4 = j - 1
      OBVIOUS
    <3>5. s[(k - 1) * 4 + j]
             = codewords(slow, Index(r, ((k - 1) * 4 + j - 1) \div 4 + 1), ((k - 1) * 4 + j - 1) % 4)
      BY <1>4, <3>3
    <3> QED BY <3>1, <3>2, <3>4, <3>5
  <2>7. Nearest(Row(s, k)) = Index(r, k)
    BY <2>4, <2>6, FindsCodeword
  <2> QED BY <2>2, <2>3, <2>7
<1> DEFINE words == [k \in 1 .. K |-> Nearest(Row(s, k))]
           b(i) == Bit(words[(i - 1) \div 3 + 1], 3 - 1 - ((i - 1) % 3))
<1>7. CodewordsToBits(s) = [i \in 1 .. K * 3 |-> b(i)]
  BY <1>1, <1>5 DEF CodewordsToBits
<1>8. ASSUME NEW i \in 1 .. K * 3 PROVE b(i) = r[i]
  <2> DEFINE k == (i - 1) \div 3 + 1
             t == (i - 1) % 3
  <2>1. k \in 1 .. K /\ t \in 0 .. 2 /\ i = 3 * k - 2 + t
    BY <1>1
  <2> HIDE DEF k, t
  <2>2. words[k] = 4 * r[3 * k - 2] + 2 * r[3 * k - 1] + r[3 * k]
    BY <1>6, <2>1
  <2>3. b(i) = Bit(words[k], 2 - t)
    BY DEF k, t
  <2>4. r[3 * k - 2] \in {0, 1} /\ r[3 * k - 1] \in {0, 1} /\ r[3 * k] \in {0, 1}
    BY <1>6, <2>1
  <2> HIDE DEF words, b
  <2>5. \A x \in {0, 1}, y \in {0, 1}, z \in {0, 1} :
            /\ Bit(4 * x + 2 * y + z, 2) = x /\ Bit(4 * x + 2 * y + z, 1) = y
            /\ Bit(4 * x + 2 * y + z, 0) = z
    BY DEF Bit
  <2>6. CASE t = 0
    <3>1. i = 3 * k - 2 /\ 2 - t = 2
      BY <2>1, <2>6
    <3> QED BY <2>2, <2>3, <2>4, <2>5, <3>1
  <2>7. CASE t = 1
    <3>1. i = 3 * k - 1 /\ 2 - t = 1
      BY <2>1, <2>7
    <3> QED BY <2>2, <2>3, <2>4, <2>5, <3>1
  <2>8. CASE t = 2
    <3>1. i = 3 * k /\ 2 - t = 0
      BY <2>1, <2>8
    <3> QED BY <2>2, <2>3, <2>4, <2>5, <3>1
  <2> QED BY <2>1, <2>6, <2>7, <2>8
<1> HIDE DEF b, words
<1>9. RailBits = K * 3
  BY <1>1
<1>10. [i \in 1 .. K * 3 |-> b(i)] = r
  BY <1>8, <1>9
<1> QED BY <1>1, <1>5, <1>7, <1>10 DEF s
-------------------------------------------------------------------------------
(* Places in the baseband. *)

LEMMA LengthType ==
    ASSUME call \in Calls
    PROVE  /\ Length \in Nat /\ Length > 0 /\ Length >= n_sub * Symbols
           /\ \A j \in 0 .. Symbols - 1 : Put(j) \in 0 .. Length - n_sub
<1>1. chirp \in 1 .. 4 /\ Symbols \in Nat /\ Symbols > 0
  BY CallTypes, RailSizes
<1>2. ASSUME NEW j \in 0 .. Symbols - 1 PROVE Put(j) \in 0 .. Length - n_sub
  <2>1. j \in Nat /\ j < Symbols
    BY <1>1
  <2>2. Put(j) \in Nat /\ Length \in Nat /\ Put(j) + n_sub <= Length
    BY <1>1, <2>1, PutGrows DEF Length
  <2> QED BY <2>2 DEF n_sub
<1>3. Length \in Nat /\ Length >= n_sub * Symbols
  BY <1>1, PutGrows DEF Length
<1> QED BY <1>1, <1>2, <1>3 DEF n_sub

LEMMA PlaceIsIn ==
    ASSUME call \in Calls, NEW f \in Nat, NEW d \in Nat, f < d, NEW j \in 0 .. Symbols - 1
    PROVE  Place(f, j) \in Nat /\ f * Length <= Place(f, j) /\ Place(f, j) + n_sub <= d * Length
<1>1. Length \in Nat /\ Put(j) \in 0 .. Length - n_sub
  BY LengthType
<1>2. f * Length + Length <= d * Length /\ f * Length \in Nat /\ d * Length \in Nat
  BY <1>1, RowAfter
<1> QED BY <1>1, <1>2 DEF Place, n_sub

LEMMA PlaceIsOne ==
    ASSUME call \in Calls, NEW f \in Nat, NEW g \in Nat, NEW j \in 0 .. Symbols - 1, NEW k \in 0 .. Symbols - 1,
           Place(f, j) = Place(g, k)
    PROVE  f = g /\ j = k
<1>1. Length \in Nat /\ Put(j) \in 0 .. Length - n_sub /\ Put(k) \in 0 .. Length - n_sub /\ Symbols \in Nat
  BY LengthType, RailSizes
<1>2. Put(j) + 1 \in 1 .. Length /\ Put(k) + 1 \in 1 .. Length
  BY <1>1 DEF n_sub
<1>3. f * Length \in Nat /\ g * Length \in Nat
  BY <1>1
<1>4. f * Length + (Put(j) + 1) = g * Length + (Put(k) + 1)
  BY <1>1, <1>3 DEF Place
<1>5. f = g /\ Put(j) + 1 = Put(k) + 1
  BY <1>1, <1>2, <1>4, Rows
<1>6. j = k
  <2>1. chirp \in 1 .. 4
    BY CallTypes
  <2>2. j \in Nat /\ k \in Nat
    BY <1>1
  <2>3. j < k => Put(j) + n_sub <= Put(k)
    BY <2>1, <2>2, PutGrows
  <2>4. k < j => Put(k) + n_sub <= Put(j)
    BY <2>1, <2>2, PutGrows
  <2> QED BY <1>1, <1>5, <2>2, <2>3, <2>4 DEF n_sub
<1> QED BY <1>5, <1>6

\* The receiver's windows are the places of a frame's symbols.
LEMMA WindowsAre ==
    ASSUME call \in Calls, nsamp_frame = Length
    PROVE  Windows = 0 .. Symbols - 1 /\ Cardinality(Windows) = Symbols
<1>1. chirp \in 1 .. 4 /\ Symbols \in Nat /\ Symbols > 0 /\ Length \in Nat /\ Length >= n_sub * Symbols
  BY CallTypes, RailSizes, LengthType
<1>2. ASSUME NEW j \in 0 .. Symbols - 1 PROVE j \in Windows
  <2>1. j \in Nat /\ Pos(j) = Put(j) /\ Put(j) \in 0 .. Length - n_sub
    BY <1>1, PosIsPut, LengthType
  <2>2. j \in 0 .. Length \div n_sub
    BY <1>1 DEF n_sub
  <2> QED BY <1>1, <2>1, <2>2 DEF Windows, n_sub
<1>3. ASSUME NEW j \in Windows PROVE j \in 0 .. Symbols - 1
  <2>1. j \in Nat /\ Length - Pos(j) >= n_sub
    BY <1>1 DEF Windows, n_sub
  <2>2. Put(j) \in Nat /\ Length - Put(j) >= n_sub
    BY <1>1, <2>1, PosIsPut, PutGrows
  <2>3. ASSUME j >= Symbols PROVE FALSE
    <3>1. CASE j = Symbols
      BY <1>1, <2>2, <3>1 DEF Length, n_sub
    <3>2. CASE Symbols < j
      <4>1. Put(Symbols) + n_sub <= Put(j)
        BY <1>1, <2>1, <3>2, PutGrows
      <4> QED BY <1>1, <2>2, <4>1 DEF Length, n_sub
    <3> QED BY <1>1, <2>1, <2>3, <3>1, <3>2
  <2> QED BY <1>1, <2>1, <2>3
<1>4. Windows = 0 .. Symbols - 1
  BY <1>2, <1>3
<1>5. 0 \in Int /\ Symbols - 1 \in Int /\ ~(0 > Symbols - 1) /\ Symbols - 1 - 0 + 1 = Symbols
  BY <1>1
<1> QED BY <1>4, <1>5, FS_Interval

\* The arguments stay, and all that is computed from them.
LEMMA ArgsKept ==
    ASSUME UNCHANGED args
    PROVE  /\ UNCHANGED <<n, slow, chirp, Bits, RailBits, RailChips, Symbols, Length, nsamp_frame>>
           /\ \A f : FrameBits(f)' = FrameBits(f) /\ SymbolsOf(f)' = SymbolsOf(f)
           /\ \A f, first : Rail(f, first)' = Rail(f, first) /\ Chips(f, first)' = Chips(f, first)
           /\ \A f, j : Place(f, j)' = Place(f, j)
           /\ \A s : Codewords(s)' = Codewords(s)
<1>1. call' = call /\ payload' = payload
  BY DEF args
<1>2. UNCHANGED <<n, slow, chirp>>
  BY <1>1 DEF n, slow, chirp
<1>3. UNCHANGED <<RailBits, RailChips, Symbols, Bits, nsamp_frame>>
  BY <1>1, <1>2 DEF RailBits, RailChips, Symbols, Bits, nsamp_frame
<1>4. \A j : Put(j)' = Put(j)
  BY <1>2 DEF Put
<1>5. UNCHANGED Length
  BY <1>2, <1>3 DEF Length, Put
<1>6. ASSUME NEW f, NEW j PROVE Place(f, j)' = Place(f, j)
  BY <1>2, <1>4, <1>5 DEF Place
<1>7. ASSUME NEW f PROVE FrameBits(f)' = FrameBits(f)
  BY <1>1, <1>2 DEF FrameBits
<1>8. \A s : pad_zeros(s)' = pad_zeros(s)
  BY <1>2 DEF pad_zeros
<1>9. ASSUME NEW f, NEW first PROVE Rail(f, first)' = Rail(f, first)
  BY <1>2, <1>7 DEF Rail, pad_zeros
<1>10. \A s : Codewords(s)' = Codewords(s)
  BY <1>2 DEF Codewords, Index
<1>11. ASSUME NEW f, NEW first PROVE Chips(f, first)' = Chips(f, first)
  BY <1>2, <1>9 DEF Chips, Codewords, Index
<1>12. ASSUME NEW f PROVE SymbolsOf(f)' = SymbolsOf(f)
  BY <1>2, <1>3, <1>11 DEF SymbolsOf, create_frame
<1> QED BY <1>2, <1>3, <1>5, <1>6, <1>7, <1>9, <1>10, <1>11, <1>12

LEMMA FrameKept ==
    ASSUME UNCHANGED <<args, frame>>
    PROVE  /\ SymbolsOf(frame)' = SymbolsOf(frame)
           /\ \A first : /\ Rail(frame, first)' = Rail(frame, first)
                         /\ Chips(frame, first)' = Chips(frame, first)
                         /\ EveryOther(FrameBits(frame), first)' = EveryOther(FrameBits(frame), first)
                         /\ Codewords(Rail(frame, first))' = Codewords(Rail(frame, first))
           /\ \A j : Place(frame, j)' = Place(frame, j)
<1>1. call' = call /\ payload' = payload /\ frame' = frame
  BY DEF args
<1>2. UNCHANGED <<n, slow, chirp, Symbols, Length>>
  BY ArgsKept
<1>3. FrameBits(frame)' = FrameBits(frame)
  BY <1>1, <1>2 DEF FrameBits
<1>4. ASSUME NEW first PROVE EveryOther(FrameBits(frame), first)' = EveryOther(FrameBits(frame), first)
  BY <1>3
<1>5. ASSUME NEW first PROVE Rail(frame, first)' = Rail(frame, first)
  BY <1>2, <1>4 DEF Rail, pad_zeros
<1>6. ASSUME NEW first PROVE Codewords(Rail(frame, first))' = Codewords(Rail(frame, first))
  BY <1>2, <1>5 DEF Codewords, Index
<1>7. ASSUME NEW first PROVE Chips(frame, first)' = Chips(frame, first)
  BY <1>2, <1>5 DEF Chips, Codewords, Index
<1>8. SymbolsOf(frame)' = SymbolsOf(frame)
  BY <1>2, <1>7 DEF SymbolsOf, create_frame
<1>9. ASSUME NEW j PROVE Place(frame, j)' = Place(frame, j)
  BY <1>1, <1>2 DEF Place, Put
<1> QED BY <1>4, <1>5, <1>6, <1>7, <1>8, <1>9
-------------------------------------------------------------------------------
(* What a step leaves alone. *)

LEMMA SentKept ==
    ASSUME SentRight, pc \notin Off, UNCHANGED <<args, sent, Cut>>
    PROVE  SentRight'
<1> SUFFICES /\ Len(sent') = Cut' * Symbols'
             /\ \A f \in 0 .. Cut' - 1 : \A j \in 1 .. Symbols' : sent'[f * Symbols' + j] = SymbolsOf(f)'[j]
  BY Zenon DEF SentRight
<1>1. Symbols' = Symbols /\ \A f : SymbolsOf(f)' = SymbolsOf(f)
  BY ArgsKept, Zenon
<1> QED BY <1>1 DEF SentRight

LEMMA LaidKept ==
    ASSUME LaidOut, pc \notin Off, UNCHANGED <<args, iq, Laid>>
    PROVE  LaidOut'
<1>1. Symbols' = Symbols /\ Length' = Length /\ \A f, j : Place(f, j)' = Place(f, j)
  BY ArgsKept, Zenon
<1> QED BY <1>1 DEF LaidOut

LEMMA PhasesKept ==
    ASSUME PhasesRight, pc \notin Off, UNCHANGED <<args, iq, Laid, Clean>>
    PROVE  PhasesRight'
<1>1. Symbols' = Symbols /\ \A f, j : Place(f, j)' = Place(f, j) /\ SymbolsOf(f)' = SymbolsOf(f)
  BY ArgsKept, Zenon
<1>2. \A f, j : Between(f, j)' = Between(f, j)
  BY <1>1 DEF Between
<1> QED BY <1>1, <1>2 DEF PhasesRight

LEMMA BitsKept ==
    ASSUME BitsRight, pc \notin Off, UNCHANGED <<args, bits, Read>>
    PROVE  BitsRight'
<1>1. n' = n /\ payload' = payload
  BY ArgsKept, Zenon DEF args
<1> QED BY <1>1 DEF BitsRight

\* An exception leaves everything as it is.
LEMMA RaiseStep ==
    ASSUME ModemInv, UNCHANGED <<args, frame, rails, loop, iq, bits, sent>>, pc' = "raised"
    PROVE  ModemInv'
<1>1. CssTypeOK'
  BY DEF ModemInv, CssTypeOK, args, rails, loop
<1>2. RailsRight' /\ SentRight' /\ LaidOut' /\ PhasesRight' /\ LoopsRight' /\ BitsRight'
  BY DEF RailsRight, SentRight, LaidOut, PhasesRight, LoopsRight, BitsRight, Off
<1>3. CallsFit'
  BY DEF CallsFit, Off, Demodulating
<1> QED BY <1>1, <1>2, <1>3 DEF ModemInv

LEMMA StutterStep == ASSUME ModemInv, UNCHANGED vars PROVE ModemInv'
<1>1. /\ UNCHANGED <<args, pc, frame, rails, loop, iq, bits, sent>> /\ call' = call
      /\ UNCHANGED <<I, Q, sym, chain, res>>
  BY DEF vars, rails, loop, args
<1>2. UNCHANGED <<Cut, Laid, Read, Clean>>
  BY <1>1 DEF Cut, Laid, Read, Clean
<1>3. CssTypeOK'
  BY <1>1 DEF ModemInv, CssTypeOK, args
<1>4. CallsFit' /\ RailsRight'
  BY <1>1, ArgsKept, FrameKept DEF ModemInv, CallsFit, RailsRight
<1>5. LoopsRight'
  BY <1>1, ArgsKept, FrameKept DEF ModemInv, LoopsRight, ChainHolds
<1>6. SentRight' /\ LaidOut' /\ PhasesRight' /\ BitsRight'
  <2>1. CASE pc \in Off
    BY <1>1, <2>1 DEF SentRight, LaidOut, PhasesRight, BitsRight
  <2>2. CASE pc \notin Off
    BY <1>1, <1>2, <2>2, SentKept, LaidKept, PhasesKept, BitsKept DEF ModemInv
  <2> QED BY <2>1, <2>2
<1> QED BY <1>3, <1>4, <1>5, <1>6 DEF ModemInv
-------------------------------------------------------------------------------
(* The steps of modulate. *)

LEMMA ArgsTyped ==
    ASSUME CssTypeOK
    PROVE  /\ call \in Calls /\ payload \in Payloads /\ frame \in 0 .. call.nframes - 1
           /\ slow \in BOOLEAN /\ n \in 1 .. 127 /\ call.nframes \in Nat \ {0} /\ frame \in Nat
<1>1. call \in Calls /\ payload \in Payloads /\ frame \in 0 .. call.nframes - 1
  BY DEF CssTypeOK
<1> QED BY <1>1, CallTypes

LEMMA CheckBitsStep == ASSUME ModemInv, CheckBits PROVE ModemInv'
<1>1. CASE Bits # call.nframes * n * 8
  BY <1>1, RaiseStep DEF CheckBits, Raise
<1>2. CASE Bits = call.nframes * n * 8
  <2>1. /\ pc = "modulate" /\ pc' = "demux"
        /\ UNCHANGED <<args, frame, rails, loop, iq, bits, sent>> /\ call' = call
    BY <1>2 DEF CheckBits, args
  <2>2. call.missing = 0
    <3>1. call.nframes * n * 8 \in Int /\ call.missing \in Int
      BY ArgsTyped, CallTypes DEF ModemInv
    <3> QED BY <1>2, <3>1 DEF Bits
  <2>3. UNCHANGED <<Cut, Laid, Read, Clean>>
    BY <2>1 DEF Cut, Laid, Read, Clean, Modulating, Demodulating
  <2>4. SentRight' /\ LaidOut' /\ PhasesRight' /\ BitsRight'
    BY <2>1, <2>3, SentKept, LaidKept, PhasesKept, BitsKept DEF ModemInv, Off
  <2>5. CssTypeOK'
    BY <2>1 DEF ModemInv, CssTypeOK, args, rails, loop
  <2>6. CallsFit' /\ RailsRight' /\ LoopsRight'
    BY <2>1, <2>2 DEF CallsFit, RailsRight, LoopsRight, Demodulating
  <2> QED BY <2>4, <2>5, <2>6 DEF ModemInv
<1> QED BY <1>1, <1>2

LEMMA DemuxAndPadStep == ASSUME ModemInv, DemuxAndPad PROVE ModemInv'
<1>1. /\ pc = "demux" /\ pc' = "codewords" /\ I' = Rail(frame, 0) /\ Q' = Rail(frame, 1)
      /\ UNCHANGED <<args, frame, loop, iq, bits, sent>> /\ call' = call
  BY DEF DemuxAndPad, Rail, args
<1>2. UNCHANGED <<Cut, Laid, Read, Clean>>
  BY <1>1 DEF Cut, Laid, Read, Clean, Modulating, Demodulating
<1>3. SentRight' /\ LaidOut' /\ PhasesRight' /\ BitsRight'
  BY <1>1, <1>2, SentKept, LaidKept, PhasesKept, BitsKept DEF ModemInv, Off
<1>4. ASSUME NEW first \in {0, 1} PROVE Rail(frame, first) \in Seq({0, 1}) /\ Len(Rail(frame, first)) = RailBits
  <2>1. Rail(frame, first) \in [1 .. RailBits -> {0, 1}] /\ RailBits \in Nat
    BY RailType, RailSizes, ArgsTyped DEF ModemInv
  <2> QED BY <2>1, SeqOfFunction
<1>5. I' \in Seq({0, 1}) /\ Q' \in Seq({0, 1}) /\ Len(I') = Len(Q')
  BY <1>1, <1>4
<1>6. CssTypeOK'
  BY <1>1, <1>5 DEF ModemInv, CssTypeOK, args, loop
<1>7. CallsFit' /\ RailsRight' /\ LoopsRight'
  BY <1>1, FrameKept DEF ModemInv, CallsFit, RailsRight, LoopsRight, Demodulating, Off
<1> QED BY <1>3, <1>6, <1>7 DEF ModemInv

\* Two rails of chips.
LEMMA ChipRails ==
    ASSUME call \in Calls, NEW a \in [1 .. RailChips -> {-1, 1}], NEW b \in [1 .. RailChips -> {-1, 1}]
    PROVE  a \in Seq({-1, 1}) /\ b \in Seq({-1, 1}) /\ Len(a) = RailChips /\ Len(b) = RailChips
<1>1. RailChips \in Nat
  BY RailSizes
<1> QED BY <1>1, SeqOfFunction

LEMMA BitsToCodewordsStep == ASSUME ModemInv, BitsToCodewords PROVE ModemInv'
<1>1. /\ pc = "codewords" /\ UNCHANGED <<args, frame, loop, iq, bits, sent>> /\ call' = call
      /\ I = Rail(frame, 0) /\ Q = Rail(frame, 1)
  BY DEF BitsToCodewords, args, ModemInv, RailsRight
<1>2. \A first \in {0, 1} : Rail(frame, first) \in [1 .. RailBits -> {0, 1}]
  BY RailType, ArgsTyped DEF ModemInv
<1>3. Len(I) = RailBits
  <2>1. I \in [1 .. RailBits -> {0, 1}] /\ RailBits \in Nat
    BY <1>1, <1>2, RailSizes, ArgsTyped DEF ModemInv
  <2> QED BY <2>1, SeqOfFunction
<1>4. CASE RailBits % bits_per_symbol(slow) # 0
  BY <1>1, <1>3, <1>4, RaiseStep DEF BitsToCodewords, Raise
<1>5. CASE RailBits % bits_per_symbol(slow) = 0
  <2>1. /\ pc' = IF slow THEN "interleave" ELSE "mod_QPSK"
        /\ I' = Codewords(Rail(frame, 0)) /\ Q' = Codewords(Rail(frame, 1))
    BY <1>1, <1>3, <1>5 DEF BitsToCodewords
  <2>2. UNCHANGED <<Cut, Laid, Read, Clean>>
    BY <1>1, <2>1 DEF Cut, Laid, Read, Clean, Modulating, Demodulating
  <2>3. SentRight' /\ LaidOut' /\ PhasesRight' /\ BitsRight'
    BY <1>1, <2>2, SentKept, LaidKept, PhasesKept, BitsKept DEF ModemInv, Off
  <2>4. I' \in [1 .. RailChips -> {-1, 1}] /\ Q' \in [1 .. RailChips -> {-1, 1}]
    BY <1>2, <2>1, CodewordsType, ArgsTyped DEF ModemInv
  <2>5. I' \in Seq({-1, 1}) /\ Q' \in Seq({-1, 1}) /\ Len(I') = Len(Q')
    BY <2>4, ChipRails, ArgsTyped DEF ModemInv
  <2>6. CssTypeOK'
    BY <1>1, <2>1, <2>5 DEF ModemInv, CssTypeOK, args, loop
  <2>7. CallsFit'
    <3>1. UNCHANGED <<slow, RailBits, RailChips>> /\ pc' \in {"interleave", "mod_QPSK"} /\ call.missing = 0
      BY <1>1, <2>1, ArgsKept DEF ModemInv, CallsFit, Off
    <3> QED BY <1>1, <1>5, <2>1, <3>1 DEF CallsFit, Demodulating
  <2>8. RailsRight'
    <3>1. ~slow => \A first : Chips(frame, first) = Codewords(Rail(frame, first))
      BY DEF Chips
    <3> QED BY <1>1, <2>1, <3>1, FrameKept DEF RailsRight
  <2>9. LoopsRight'
    BY <2>1 DEF LoopsRight
  <2> QED BY <2>3, <2>6, <2>7, <2>8, <2>9 DEF ModemInv
<1> QED BY <1>4, <1>5

LEMMA InterleaveStep == ASSUME ModemInv, Interleave PROVE ModemInv'
<1>1. /\ pc = "interleave" /\ UNCHANGED <<args, frame, loop, iq, bits, sent>> /\ call' = call
      /\ I = Codewords(Rail(frame, 0)) /\ Q = Codewords(Rail(frame, 1)) /\ slow
  BY DEF Interleave, args, ModemInv, RailsRight, CallsFit
<1>2. \A first \in {0, 1} : Rail(frame, first) \in [1 .. RailBits -> {0, 1}]
  BY RailType, ArgsTyped DEF ModemInv
<1>3. I \in [1 .. RailChips -> {-1, 1}] /\ Q \in [1 .. RailChips -> {-1, 1}]
  BY <1>1, <1>2, CodewordsType, ArgsTyped DEF ModemInv
<1>4. Len(I) = RailChips /\ RailChips \in Nat /\ 2 * len_cw(slow) = 64
  BY <1>1, <1>3, ChipRails, RailSizes, ArgsTyped DEF ModemInv, len_cw
<1>5. CASE RailChips % 64 # 0
  BY <1>1, <1>4, <1>5, RaiseStep DEF Interleave, Raise
<1>6. CASE RailChips % 64 = 0
  <2>1. pc' = "mod_QPSK" /\ I' = Interleaved(I) /\ Q' = Interleaved(Q)
    BY <1>4, <1>6 DEF Interleave
  <2>2. UNCHANGED <<Cut, Laid, Read, Clean>>
    BY <1>1, <2>1 DEF Cut, Laid, Read, Clean, Modulating, Demodulating
  <2>3. SentRight' /\ LaidOut' /\ PhasesRight' /\ BitsRight'
    BY <1>1, <2>2, SentKept, LaidKept, PhasesKept, BitsKept DEF ModemInv, Off
  <2>4. I' \in [1 .. RailChips -> {-1, 1}] /\ Q' \in [1 .. RailChips -> {-1, 1}]
    BY <1>3, <1>4, <1>6, <2>1, InterleavedType
  <2>5. I' \in Seq({-1, 1}) /\ Q' \in Seq({-1, 1}) /\ Len(I') = Len(Q')
    BY <2>4, ChipRails, ArgsTyped DEF ModemInv
  <2>6. CssTypeOK'
    BY <1>1, <2>1, <2>5 DEF ModemInv, CssTypeOK, args, loop
  <2>7. CallsFit'
    <3>1. UNCHANGED <<slow, RailBits, RailChips>> /\ call.missing = 0 /\ RailBits % bits_per_symbol(slow) = 0
      BY <1>1, <2>1, ArgsKept DEF ModemInv, CallsFit, Off
    <3> QED BY <1>1, <1>6, <2>1, <3>1 DEF CallsFit, Demodulating
  <2>8. RailsRight'
    <3>1. I' = Chips(frame, 0) /\ Q' = Chips(frame, 1)
      BY <1>1, <2>1 DEF Chips
    <3> QED BY <1>1, <2>1, <3>1, FrameKept DEF RailsRight
  <2>9. LoopsRight'
    BY <2>1 DEF LoopsRight
  <2> QED BY <2>3, <2>6, <2>7, <2>8, <2>9 DEF ModemInv
<1> QED BY <1>5, <1>6

LEMMA ModQPSKStep == ASSUME ModemInv, ModQPSK PROVE ModemInv'
<1>1. /\ pc = "mod_QPSK" /\ pc' = "mod_DQPSK" /\ UNCHANGED <<args, frame, rails, iq, bits>> /\ call' = call
      /\ sent' = sent \o sym' /\ chain' = <<Start, Start, Start, Start>> /\ res' = <<>>
      /\ I = Chips(frame, 0) /\ Q = Chips(frame, 1)
  BY DEF ModQPSK, args, ModemInv, RailsRight
<1>2. /\ call \in Calls /\ payload \in Payloads /\ frame \in 0 .. call.nframes - 1 /\ frame \in Nat
      /\ call.nframes \in Nat /\ Symbols \in Nat
      /\ slow => RailChips % 64 = 0
  BY <1>1, ArgsTyped, RailSizes DEF ModemInv, CallsFit
<1>3. sym' = SymbolsOf(frame)
  <2>1. I \in [1 .. RailChips -> {-1, 1}] /\ Q \in [1 .. RailChips -> {-1, 1}]
    BY <1>1, <1>2, ChipsType
  <2>2. Len(I) = RailChips
    BY <1>2, <2>1, ChipRails
  <2>3. sym' = [j \in 1 .. len_hdrs(slow) + Len(I) |-> QPSK(create_frame(I)[j], create_frame(Q)[j])]
    BY DEF ModQPSK
  <2> QED BY <1>1, <2>2, <2>3 DEF SymbolsOf, Symbols
<1>4. SymbolsOf(frame) \in Seq({0, 4, 8, 12}) /\ Len(SymbolsOf(frame)) = Symbols
  BY <1>2, SymbolsType, SeqOfFunction
<1>5. sent \in Seq({0, 4, 8, 12}) /\ Len(sent) = frame * Symbols
  BY <1>1 DEF ModemInv, CssTypeOK, SentRight, Cut, Modulating, Off
<1>6. /\ sent' \in Seq({0, 4, 8, 12}) /\ Len(sent') = Len(sent) + Symbols
      /\ \A i \in 1 .. Len(sent) + Symbols :
            sent'[i] = IF i <= Len(sent) THEN sent[i] ELSE SymbolsOf(frame)[i - Len(sent)]
  BY <1>1, <1>3, <1>4, <1>5, ConcatProperties
<1>7. frame * Symbols \in Nat /\ (frame + 1) * Symbols = frame * Symbols + Symbols
  BY <1>2, NextRow
<1>8. ASSUME NEW f \in 0 .. frame, NEW j \in 1 .. Symbols PROVE sent'[f * Symbols + j] = SymbolsOf(f)[j]
  <2>1. CASE f < frame
    <3>1. f * Symbols + Symbols <= frame * Symbols /\ f * Symbols \in Nat
      BY <1>2, <2>1, RowAfter
    <3>2. f * Symbols + j \in 1 .. Len(sent) + Symbols /\ f * Symbols + j <= Len(sent)
      BY <1>2, <1>5, <1>7, <3>1
    <3>3. sent[f * Symbols + j] = SymbolsOf(f)[j]
      <4>1. f \in 0 .. Cut - 1
        BY <1>1, <1>2, <2>1 DEF Cut, Modulating
      <4> QED BY <1>1, <4>1 DEF ModemInv, SentRight, Off
    <3> QED BY <1>6, <3>2, <3>3
  <2>2. CASE f = frame
    <3> DEFINE i == frame * Symbols + j
    <3>1. i \in 1 .. Len(sent) + Symbols /\ ~(i <= Len(sent)) /\ i - Len(sent) = j
      BY <1>2, <1>5, <1>7
    <3> HIDE DEF i
    <3>2. sent'[i] = SymbolsOf(frame)[j]
      BY <1>6, <3>1
    <3> QED BY <2>2, <3>2, Zenon DEF i
  <2> QED BY <1>2, <2>1, <2>2
<1>9. Symbols' = Symbols /\ \A f : SymbolsOf(f)' = SymbolsOf(f)
  BY <1>1, ArgsKept, Zenon
<1>10. Cut' = frame + 1 /\ UNCHANGED <<Laid, Read, Clean>>
  BY <1>1 DEF Cut, Laid, Read, Clean, Modulating, Demodulating
<1>11. SentRight'
  <2> SUFFICES /\ Len(sent') = Cut' * Symbols'
               /\ \A f \in 0 .. Cut' - 1 : \A j \in 1 .. Symbols' : sent'[f * Symbols' + j] = SymbolsOf(f)'[j]
    BY Zenon DEF SentRight
  <2>1. Cut' - 1 = frame
    BY <1>2, <1>10
  <2>2. Len(sent') = (frame + 1) * Symbols
    BY <1>5, <1>6, <1>7
  <2> QED BY <1>8, <1>9, <1>10, <2>1, <2>2, Zenon
<1>12. LaidOut' /\ PhasesRight' /\ BitsRight'
  BY <1>1, <1>10, LaidKept, PhasesKept, BitsKept DEF ModemInv, Off
<1>13. CallsFit' /\ RailsRight'
  BY <1>1, ArgsKept DEF ModemInv, CallsFit, RailsRight, Demodulating, Off
<1>14. chain' \in [1 .. 4 -> -Turn + 1 .. Turn - 1] /\ chain'[1] = Start /\ chain'[4] = Start /\ Len(res') = 0
  BY <1>1 DEF Start, Turn
<1>15. LoopsRight'
  <2>1. sym' = SymbolsOf(frame)'
    BY <1>1, <1>3, FrameKept
  <2>2. 3 .. Len(res') = {}
    BY <1>14
  <2> QED BY <1>1, <1>14, <2>1, <2>2 DEF LoopsRight, ChainHolds
<1>16. CssTypeOK'
  <2>1. sym' \in Seq(Phases)
    <3>1. {0, 4, 8, 12} \subseteq Phases
      BY DEF Phases, Turn
    <3> QED BY <1>3, <1>4, <3>1, SeqMonotonic
  <2>2. chain' \in Seq(-Turn + 1 .. Turn - 1) /\ res' \in Seq(Phases)
    <3>1. 2 \in -Turn + 1 .. Turn - 1
      BY DEF Turn
    <3> QED BY <1>1, <3>1 DEF Start
  <2>3. Len(res') <= Len(sym')
    BY <1>2, <1>3, <1>4, <1>14
  <2> QED BY <1>1, <1>6, <2>1, <2>2, <2>3 DEF ModemInv, CssTypeOK, args, rails
<1> QED BY <1>11, <1>12, <1>13, <1>15, <1>16 DEF ModemInv

\* One turn of either differential loop: what it appends, and its delay chain.
LEMMA ChainTurn ==
    ASSUME NEW first \in -Turn + 1 .. Turn - 1, NEW t \in Nat, NEW put, ChainHolds(first, t, put), NEW new, NEW put2,
           new \in -Turn + 1 .. Turn - 1, put2[t + 1] = new, t > 0 => put2[t] = put[t],
           chain' = <<new, chain[1], chain[1], chain[1]>>
    PROVE  /\ chain' \in [1 .. 4 -> -Turn + 1 .. Turn - 1] /\ chain' \in Seq(-Turn + 1 .. Turn - 1)
           /\ chain'[1] = put2[t + 1]
           /\ chain'[4] = IF t + 1 <= 1 THEN first ELSE put2[t + 1 - 1]
<1>1. chain[1] \in -Turn + 1 .. Turn - 1
  BY DEF ChainHolds
<1>2. chain' \in [1 .. 4 -> -Turn + 1 .. Turn - 1] /\ chain' \in Seq(-Turn + 1 .. Turn - 1)
  BY <1>1
<1>3. chain'[4] = IF t = 0 THEN first ELSE put[t]
  BY DEF ChainHolds
<1>4. (t + 1 <= 1) <=> t = 0
  OBVIOUS
<1>5. t + 1 - 1 = t
  OBVIOUS
<1> QED BY <1>2, <1>3, <1>4, <1>5

LEMMA ModSymbolStep == ASSUME ModemInv, ModSymbol PROVE ModemInv'
<1> DEFINE t == Len(res)
           out == (sym[t + 1] + chain[4]) % Turn
<1>1. /\ pc = "mod_DQPSK" /\ pc' = "mod_DQPSK" /\ t < Len(sym) /\ res' = Append(res, out)
      /\ chain' = <<out, chain[1], chain[1], chain[1]>>
      /\ UNCHANGED <<args, pc, frame, rails, sym, iq, bits, sent>> /\ call' = call
  BY DEF ModSymbol, args, Delayed
<1>2. /\ sym \in Seq(Phases) /\ res \in Seq(Phases) /\ t \in Nat /\ Len(sym) \in Nat
      /\ sym = SymbolsOf(frame) /\ ChainHolds(Start, t, res)
      /\ \A j \in 3 .. t : res[j] = (sym[j] + res[j - 2]) % Turn
  BY <1>1, LenProperties DEF ModemInv, CssTypeOK, LoopsRight
<1>3. out \in Phases
  <2>1. sym[t + 1] \in Phases
    BY <1>1, <1>2, ElementOfSeq
  <2>2. sym[t + 1] \in Int /\ chain[4] \in Int
    BY <1>2, <2>1 DEF ChainHolds, Phases, Turn
  <2>3. \A x, y \in Int : (x + y) % Turn \in Phases
    BY DEF Phases, Turn
  <2> QED BY <2>2, <2>3
<1> HIDE DEF out
<1>4. /\ res' \in Seq(Phases) /\ Len(res') = t + 1
      /\ \A j \in 1 .. t : res'[j] = res[j]
      /\ res'[t + 1] = out
  BY <1>1, <1>2, <1>3, AppendProperties
<1>5. /\ chain' \in [1 .. 4 -> -Turn + 1 .. Turn - 1] /\ chain' \in Seq(-Turn + 1 .. Turn - 1)
      /\ chain'[1] = res'[t + 1]
      /\ chain'[4] = IF t + 1 <= 1 THEN Start ELSE res'[t + 1 - 1]
  <2>1. Start \in -Turn + 1 .. Turn - 1 /\ out \in -Turn + 1 .. Turn - 1
    BY <1>3 DEF Start, Turn, Phases
  <2>2. t > 0 => res'[t] = res[t]
    BY <1>2, <1>4
  <2> QED BY <1>1, <1>2, <1>4, <2>1, <2>2, ChainTurn
<1>6. ASSUME NEW j \in 3 .. t + 1 PROVE res'[j] = (sym[j] + res'[j - 2]) % Turn
  <2>1. j - 2 \in 1 .. t /\ res'[j - 2] = res[j - 2]
    BY <1>2, <1>4
  <2>2. CASE j <= t
    <3>1. j \in 3 .. t /\ j \in 1 .. t
      BY <2>2
    <3>2. res'[j] = res[j]
      BY <1>4, <3>1
    <3> QED BY <1>2, <2>1, <3>1, <3>2
  <2>3. CASE j = t + 1
    <3>1. t > 1 /\ t - 1 = j - 2 /\ ~(t <= 1)
      BY <1>2, <2>3
    <3>2. chain[4] = res[j - 2]
      BY <1>2, <3>1 DEF ChainHolds
    <3> QED BY <1>4, <2>1, <2>3, <3>2 DEF out
  <2> QED BY <1>2, <2>2, <2>3
<1>7. UNCHANGED <<Cut, Laid, Read, Clean>>
  BY <1>1 DEF Cut, Laid, Read, Clean
<1>8. SentRight' /\ LaidOut' /\ PhasesRight' /\ BitsRight'
  BY <1>1, <1>7, SentKept, LaidKept, PhasesKept, BitsKept DEF ModemInv, Off
<1>9. CallsFit' /\ RailsRight'
  BY <1>1, ArgsKept, FrameKept DEF ModemInv, CallsFit, RailsRight, rails
<1>10. LoopsRight'
  <2>1. sym' = SymbolsOf(frame)' /\ sym' = sym
    BY <1>1, <1>2, FrameKept
  <2>2. t + 1 # 0
    BY <1>2
  <2>3. ChainHolds(Start, Len(res), res)'
    BY <1>4, <1>5, <2>2 DEF ChainHolds
  <2> QED BY <1>1, <1>4, <1>6, <2>1, <2>3 DEF LoopsRight
<1>11. CssTypeOK'
  <2>1. Len(res') <= Len(sym')
    BY <1>1, <1>2, <1>4
  <2> QED BY <1>1, <1>4, <1>5, <2>1 DEF ModemInv, CssTypeOK, args, rails
<1> QED BY <1>8, <1>9, <1>10, <1>11 DEF ModemInv

\* Phases taken apart again.
LEMMA PhaseBack ==
    ASSUME NEW x \in 0 .. 15, NEW y \in Int, NEW z, z = (x + y) % Turn
    PROVE  (z - y) % Turn = x
BY DEF Turn

LEMMA ModDQCSKStep == ASSUME ModemInv, ModDQCSK PROVE ModemInv'
<1>1. pc = "mod_DQPSK" /\ Len(res) = Len(sym) /\ UNCHANGED <<args, rails, loop, bits, sent>> /\ call' = call
  BY DEF ModDQCSK, args
<1>2. CASE Len(res) % 4 # 0
  BY <1>1, <1>2, RaiseStep DEF ModDQCSK, Raise
<1>3. CASE Len(res) % 4 = 0
  <2>1. /\ call \in Calls /\ payload \in Payloads /\ frame \in 0 .. call.nframes - 1 /\ frame \in Nat
        /\ call.nframes \in Nat /\ Symbols \in Nat /\ Symbols >= 48 /\ Length \in Nat
        /\ frame * Length \in Nat /\ (frame + 1) * Length = frame * Length + Length
    BY ArgsTyped, RailSizes, LengthType, NextRow DEF ModemInv
  <2>2. /\ sym = SymbolsOf(frame) /\ Len(sym) = Symbols /\ Len(res) = Symbols
        /\ \A j \in 3 .. Symbols : res[j] = (sym[j] + res[j - 2]) % Turn
        /\ \A j \in 1 .. Symbols : res[j] \in Phases /\ sym[j] \in {0, 4, 8, 12}
    <3>1. sym = SymbolsOf(frame) /\ res \in Seq(Phases)
      BY <1>1 DEF ModemInv, LoopsRight, CssTypeOK
    <3>2. sym \in [1 .. Symbols -> {0, 4, 8, 12}]
      BY <3>1, SymbolsType
    <3>3. Len(sym) = Symbols
      BY <2>1, <3>2, SeqOfFunction
    <3> QED BY <1>1, <3>1, <3>2, <3>3, ElementOfSeq DEF ModemInv, LoopsRight
  <2>3. /\ iq.len = frame * Length
        /\ \A o \in DOMAIN iq.at : \E f \in 0 .. frame - 1, j \in 0 .. Symbols - 1 : o = Place(f, j)
        /\ \A f \in 0 .. frame - 1, j \in 0 .. Symbols - 1 :
                Place(f, j) \in DOMAIN iq.at /\ iq.at[Place(f, j)].k = j % 4
        /\ \A o \in DOMAIN iq.at : iq.at[o] \in [k : 0 .. 3, phase : Phases]
    BY <1>1 DEF ModemInv, LaidOut, CssTypeOK, Laid, Modulating, Off
  <2> DEFINE starts == {iq.len + Put(j) : j \in 0 .. Len(res) - 1}
             SymbolAt(o) == CHOOSE j \in 0 .. Len(res) - 1 : iq.len + Put(j) = o
             new(o) == IF o < iq.len THEN iq.at[o]
                       ELSE [k |-> SymbolAt(o) % 4, phase |-> res[SymbolAt(o) + 1]]
  <2>4. iq' = [len |-> iq.len + Put(Len(res)), at |-> [o \in DOMAIN iq.at \cup starts |-> new(o)]]
    BY <1>3 DEF ModDQCSK
  <2>5. IF frame + 1 < call.nframes
        THEN pc' = "demux" /\ frame' = frame + 1
        ELSE pc' = "air" /\ frame' = 0
    BY <1>3 DEF ModDQCSK
  <2>6. iq'.len = (frame + 1) * Length /\ iq'.at = [o \in DOMAIN iq.at \cup starts |-> new(o)]
    BY <2>1, <2>2, <2>3, <2>4 DEF Length
  <2>7. \A j : iq.len + Put(j) = Place(frame, j)
    BY <2>3 DEF Place
  <2>8. starts = {Place(frame, j) : j \in 0 .. Symbols - 1}
    BY <2>2, <2>7
  <2>9. ASSUME NEW j \in 0 .. Symbols - 1 PROVE SymbolAt(Place(frame, j)) = j
    <3>1. \A k \in 0 .. Symbols - 1 : Place(frame, k) = Place(frame, j) => k = j
      BY <2>1, PlaceIsOne
    <3>2. SymbolAt(Place(frame, j)) = CHOOSE k \in 0 .. Symbols - 1 : Place(frame, k) = Place(frame, j)
      BY <2>2, <2>7
    <3> QED BY <3>1, <3>2
  <2> HIDE DEF starts, SymbolAt
  <2>10. ASSUME NEW j \in 0 .. Symbols - 1
         PROVE  /\ Place(frame, j) \in starts /\ Place(frame, j) \in Nat /\ Place(frame, j) < (frame + 1) * Length
                /\ iq'.at[Place(frame, j)] = [k |-> j % 4, phase |-> res[j + 1]]
    <3>1. Place(frame, j) \in Nat /\ frame * Length <= Place(frame, j) /\ Place(frame, j) + n_sub <= (frame + 1) * Length
      <4>1. frame + 1 \in Nat /\ frame < frame + 1
        BY <2>1
      <4> QED BY <2>1, <4>1, PlaceIsIn
    <3>2. Place(frame, j) \in starts
      BY <2>8
    <3>3. new(Place(frame, j)) = [k |-> j % 4, phase |-> res[j + 1]]
      <4>1. iq.len = frame * Length
        BY <2>3
      <4>2. ~(Place(frame, j) < iq.len)
        BY <2>1, <3>1, <4>1
      <4> QED BY <2>9, <4>2
    <3> QED BY <2>1, <2>6, <3>1, <3>2, <3>3 DEF n_sub
  <2>11. ASSUME NEW f \in 0 .. frame - 1, NEW j \in 0 .. Symbols - 1
         PROVE  /\ Place(f, j) \in DOMAIN iq.at /\ Place(f, j) \in Nat /\ Place(f, j) < iq.len
                /\ iq'.at[Place(f, j)] = iq.at[Place(f, j)]
    <3>1. f \in Nat /\ f < frame
      BY <2>1
    <3>2. Place(f, j) \in Nat /\ Place(f, j) + n_sub <= frame * Length
      BY <2>1, <3>1, PlaceIsIn
    <3>3. Place(f, j) < iq.len
      BY <2>1, <2>3, <3>2 DEF n_sub
    <3>4. new(Place(f, j)) = iq.at[Place(f, j)]
      BY <3>3
    <3> QED BY <2>3, <2>6, <3>2, <3>3, <3>4
  <2> HIDE DEF new
  <2>12. ASSUME NEW f \in 0 .. frame, NEW j \in 0 .. Symbols - 1
         PROVE  Place(f, j) \in DOMAIN iq'.at /\ iq'.at[Place(f, j)].k = j % 4
    <3>1. CASE f \in 0 .. frame - 1
      BY <2>3, <2>6, <2>11, <3>1
    <3>2. CASE f = frame
      <4>1. Place(frame, j) \in DOMAIN iq'.at /\ iq'.at[Place(frame, j)].k = j % 4
        <5>1. Place(frame, j) \in starts /\ iq'.at[Place(frame, j)] = [k |-> j % 4, phase |-> res[j + 1]]
          BY <2>10, Zenon
        <5>2. DOMAIN iq'.at = DOMAIN iq.at \cup starts
          BY <2>6
        <5>3. iq'.at[Place(frame, j)].k = j % 4
          BY <5>1
        <5> QED BY <5>1, <5>2, <5>3, Zenon
      <4> QED BY <3>2, <4>1, Zenon
    <3> QED BY <2>1, <3>1, <3>2
  <2>13. ASSUME NEW o \in DOMAIN iq'.at
         PROVE  \E f \in 0 .. frame, j \in 0 .. Symbols - 1 : o = Place(f, j)
    <3>1. CASE o \in DOMAIN iq.at
      <4>1. PICK f \in 0 .. frame - 1, j \in 0 .. Symbols - 1 : o = Place(f, j)
        BY <2>3, <3>1
      <4>2. f \in 0 .. frame
        BY <2>1
      <4> QED BY <4>1, <4>2
    <3>2. CASE o \in starts
      <4>1. PICK j \in 0 .. Symbols - 1 : o = Place(frame, j)
        BY <2>8, <3>2
      <4>2. frame \in 0 .. frame
        BY <2>1
      <4> QED BY <4>1, <4>2
    <3> QED BY <2>6, <3>1, <3>2
  <2>14. ASSUME NEW o \in DOMAIN iq'.at
         PROVE  o \in 0 .. iq'.len /\ iq'.at[o] \in [k : 0 .. 3, phase : Phases]
    <3>1. PICK f \in 0 .. frame, j \in 0 .. Symbols - 1 : o = Place(f, j)
      BY <2>13
    <3>2. CASE f \in 0 .. frame - 1
      <4>1. o \in DOMAIN iq.at /\ o \in Nat /\ o < iq.len /\ iq'.at[o] = iq.at[o]
        BY <2>11, <3>1, <3>2
      <4>2. o \in 0 .. iq'.len
        BY <2>1, <2>3, <2>6, <4>1
      <4> QED BY <2>3, <4>1, <4>2
    <3>3. CASE f = frame
      <4>1. iq'.at[o] = [k |-> j % 4, phase |-> res[j + 1]] /\ o \in 0 .. (frame + 1) * Length
        BY <2>1, <2>10, <3>1, <3>3
      <4>2. j % 4 \in 0 .. 3 /\ j + 1 \in 1 .. Symbols
        BY <2>1
      <4>3. res[j + 1] \in Phases
        BY <2>2, <4>2
      <4> QED BY <2>6, <4>1, <4>2, <4>3
    <3> QED BY <2>1, <3>2, <3>3
  <2>15. ASSUME NEW f \in 0 .. frame, NEW j \in 2 .. Symbols - 1
         PROVE  (iq'.at[Place(f, j)].phase - iq'.at[Place(f, j - 2)].phase) % Turn = SymbolsOf(f)[j + 1]
    <3>1. j \in 0 .. Symbols - 1 /\ j - 2 \in 0 .. Symbols - 1
      BY <2>1
    <3>2. CASE f \in 0 .. frame - 1
      <4>1. Between(f, j) = SymbolsOf(f)[j + 1]
        BY <1>1, <3>2 DEF ModemInv, PhasesRight, Clean, Laid, Modulating, Off
      <4> QED BY <2>11, <3>1, <3>2, <4>1 DEF Between
    <3>3. CASE f = frame
      <4>1. iq'.at[Place(f, j)].phase = res[j + 1] /\ iq'.at[Place(f, j - 2)].phase = res[j - 2 + 1]
        <5>1. iq'.at[Place(frame, j)].phase = res[j + 1] /\ iq'.at[Place(frame, j - 2)].phase = res[j - 2 + 1]
          <6>1. /\ iq'.at[Place(frame, j)] = [k |-> j % 4, phase |-> res[j + 1]]
                /\ iq'.at[Place(frame, j - 2)] = [k |-> (j - 2) % 4, phase |-> res[j - 2 + 1]]
            BY <2>10, <3>1, Zenon
          <6> QED BY <6>1
        <5> QED BY <3>3, <5>1, Zenon
      <4>2. /\ j + 1 \in 3 .. Symbols /\ j + 1 - 2 = j - 2 + 1 /\ j + 1 \in 1 .. Symbols
            /\ j - 2 + 1 \in 1 .. Symbols
        BY <2>1
      <4>3. res[j + 1] = (sym[j + 1] + res[j - 2 + 1]) % Turn
        BY <2>2, <4>2
      <4>4. sym[j + 1] \in 0 .. 15 /\ res[j - 2 + 1] \in Int
        <5>1. sym[j + 1] \in {0, 4, 8, 12} /\ res[j - 2 + 1] \in Phases
          BY <2>2, <4>2
        <5> QED BY <5>1 DEF Phases, Turn
      <4>5. (res[j + 1] - res[j - 2 + 1]) % Turn = sym[j + 1]
        BY <4>3, <4>4, PhaseBack
      <4> QED BY <2>2, <3>3, <4>1, <4>5
    <3> QED BY <2>1, <3>2, <3>3
  <2>16. /\ Symbols' = Symbols /\ Length' = Length
         /\ \A f, j : Place(f, j)' = Place(f, j) /\ SymbolsOf(f)' = SymbolsOf(f)
    BY <1>1, ArgsKept, Zenon
  <2>17. /\ Laid' = frame + 1 /\ Clean' /\ UNCHANGED <<Cut, Read>> /\ pc' \notin Off
    <3>1. ~(frame + 1 < call.nframes) => call.nframes = frame + 1
      BY <2>1
    <3> QED BY <1>1, <2>5, <3>1 DEF Laid, Clean, Cut, Read, Modulating, Demodulating, Off
  <2>18. Laid' = frame + 1 /\ Laid' - 1 = frame
    <3>1. Laid' = frame + 1
      BY <2>17
    <3> QED BY <2>1, <3>1
  <2>19. LaidOut'
    <3> SUFFICES /\ iq'.len = Laid' * Length'
                 /\ \A o \in DOMAIN iq'.at : \E f \in 0 .. Laid' - 1, j \in 0 .. Symbols' - 1 : o = Place(f, j)'
                 /\ \A f \in 0 .. Laid' - 1, j \in 0 .. Symbols' - 1 :
                        Place(f, j)' \in DOMAIN iq'.at /\ iq'.at[Place(f, j)'].k = j % 4
      BY Zenon DEF LaidOut
    <3>1. Laid' - 1 = frame /\ Laid' * Length' = (frame + 1) * Length
      BY <2>16, <2>18, Zenon
    <3>2. \A o \in DOMAIN iq'.at : \E f \in 0 .. Laid' - 1, j \in 0 .. Symbols' - 1 : o = Place(f, j)'
      BY <2>13, <2>16, <3>1, Zenon
    <3>3. \A f \in 0 .. Laid' - 1, j \in 0 .. Symbols' - 1 :
                        Place(f, j)' \in DOMAIN iq'.at /\ iq'.at[Place(f, j)'].k = j % 4
      BY <2>12, <2>16, <3>1, Zenon
    <3> QED BY <2>6, <3>1, <3>2, <3>3
  <2>20. PhasesRight'
    <3> SUFFICES \A f \in 0 .. Laid' - 1 : \A j \in 2 .. Symbols' - 1 : Between(f, j)' = SymbolsOf(f)'[j + 1]
      BY <2>17, Zenon DEF PhasesRight
    <3>1. Laid' - 1 = frame
      BY <2>18
    <3>2. \A f, j : Between(f, j)' = (iq'.at[Place(f, j)].phase - iq'.at[Place(f, j - 2)].phase) % Turn
      BY <2>16 DEF Between
    <3> QED BY <2>15, <2>16, <3>1, <3>2, Zenon
  <2>21. SentRight' /\ BitsRight'
    BY <1>1, <2>17, SentKept, BitsKept DEF ModemInv, Off
  <2>22. CallsFit'
    <3>1. /\ UNCHANGED <<slow, RailBits, RailChips>> /\ call.missing = 0
          /\ RailBits % bits_per_symbol(slow) = 0 /\ (slow => RailChips % 64 = 0)
      BY <1>1, ArgsKept DEF ModemInv, CallsFit, Off
    <3> QED BY <1>1, <2>5, <3>1 DEF CallsFit, Demodulating
  <2>23. RailsRight' /\ LoopsRight'
    BY <2>5 DEF RailsRight, LoopsRight
  <2>24. CssTypeOK'
    <3>1. frame' \in 0 .. call.nframes - 1 /\ iq'.len \in Nat
      BY <2>1, <2>5, <2>6
    <3>2. DOMAIN iq'.at \subseteq 0 .. iq'.len /\ \A o \in DOMAIN iq'.at : iq'.at[o] \in [k : 0 .. 3, phase : Phases]
      BY <2>14
    <3> QED BY <1>1, <2>5, <3>1, <3>2 DEF ModemInv, CssTypeOK, args, rails, loop
  <2> QED BY <2>19, <2>20, <2>21, <2>22, <2>23, <2>24 DEF ModemInv
<1> QED BY <1>2, <1>3

\* A common angle, and noise of less than a quarter of the distance of two symbols.
LEMMA NoisyPhases ==
    ASSUME NEW x \in Phases, NEW y \in Phases, NEW turn \in Phases, NEW d \in {0, 1}, NEW e \in {0, 1},
           NEW s, s = (x - y) % Turn
    PROVE  Same((((x + turn + d) % Turn) - ((y + turn + e) % Turn)) % Turn, s)
<1> DEFINE b == (((x + turn + d) % Turn) - ((y + turn + e) % Turn)) % Turn
<1>1. x \in 0 .. 15 /\ y \in 0 .. 15 /\ turn \in 0 .. 15 /\ s = (x - y) % 16 /\ s \in 0 .. 15
  BY DEF Phases, Turn
<1>2. /\ (x + turn + d) % 16 = x + turn + d - 16 * ((x + turn + d) \div 16)
      /\ (y + turn + e) % 16 = y + turn + e - 16 * ((y + turn + e) \div 16)
      /\ (x + turn + d) \div 16 \in Int /\ (y + turn + e) \div 16 \in Int
  BY <1>1
<1>3. b = (x - y + (d - e)) % 16
  BY <1>1, <1>2 DEF Turn
<1>4. b = (s + (d - e)) % 16
  BY <1>1, <1>3
<1>5. d - e \in {-1, 0, 1}
  OBVIOUS
<1> HIDE DEF b
<1>6. b \in {(s + z) % Turn : z \in {-1, 0, 1}}
  BY <1>4, <1>5 DEF Turn
<1> QED BY <1>6 DEF Same, b

LEMMA AirStep == ASSUME ModemInv, Air PROVE ModemInv'
<1>1. /\ pc = "air" /\ pc' = "demodulate" /\ UNCHANGED <<args, frame, rails, loop, bits, sent>> /\ call' = call
  BY DEF Air, args
<1>2. /\ call \in Calls /\ payload \in Payloads /\ frame \in 0 .. call.nframes - 1 /\ slow \in BOOLEAN
      /\ call.nframes \in Nat /\ Symbols \in Nat /\ Symbols >= 48 /\ Length \in Nat
      /\ RailBits % bits_per_symbol(slow) = 0 /\ (slow => RailChips % 64 = 0)
  BY <1>1, ArgsTyped, RailSizes, LengthType DEF ModemInv, CallsFit
<1>3. PICK turn \in Phases, e \in Noises :
        iq' = [len |-> iq.len,
               at  |-> [o \in DOMAIN iq.at |->
                           [iq.at[o] EXCEPT !.phase = (iq.at[o].phase + turn + NoiseAt(e, o)) % Turn]]]
  BY Zenon DEF Air
<1> DEFINE noisy(o) == [iq.at[o] EXCEPT !.phase = (iq.at[o].phase + turn + NoiseAt(e, o)) % Turn]
<1>4. iq'.len = iq.len /\ iq'.at = [o \in DOMAIN iq.at |-> noisy(o)]
  BY <1>3
<1>5. ASSUME NEW o \in DOMAIN iq.at
      PROVE  /\ iq.at[o].k \in 0 .. 3 /\ iq.at[o].phase \in Phases
             /\ noisy(o) = [k |-> iq.at[o].k, phase |-> (iq.at[o].phase + turn + NoiseAt(e, o)) % Turn]
  <2>1. iq.at[o] \in [k : 0 .. 3, phase : Phases]
    BY DEF ModemInv, CssTypeOK
  <2> QED BY <2>1
<1>6. ASSUME NEW o \in DOMAIN iq.at PROVE NoiseAt(e, o) \in {0, 1}
  <2>1. o \in 0 .. iq.len /\ iq.len = call.nframes * Length
    BY <1>1 DEF ModemInv, CssTypeOK, LaidOut, Laid, Modulating, Off
  <2>2. nsamp_frame \in Nat /\ Length <= 2 * nsamp_frame
    BY <1>2, FrameSizes
  <2>3. call.nframes * Length <= call.nframes * (2 * nsamp_frame)
    <3>1. PICK x \in Nat : 2 * nsamp_frame = Length + x
      <4>1. 2 * nsamp_frame - Length \in Nat /\ 2 * nsamp_frame = Length + (2 * nsamp_frame - Length)
        BY <1>2, <2>2
      <4> QED BY <4>1
    <3>2. call.nframes * (Length + x) = call.nframes * Length + call.nframes * x /\ call.nframes * x \in Nat
      BY <1>2
    <3> QED BY <1>2, <3>1, <3>2
  <2>4. call.nframes * (2 * nsamp_frame) = 2 * call.nframes * nsamp_frame
    BY <1>2, <2>2
  <2>5. o \in 0 .. 2 * call.nframes * nsamp_frame
    BY <1>2, <2>1, <2>2, <2>3, <2>4
  <2> QED BY <1>2, <2>5, NoiseAssumption DEF nsamp_frame, slow, n, chirp
<1>7. ASSUME NEW o \in DOMAIN iq.at
      PROVE  /\ iq'.at[o].k = iq.at[o].k
             /\ iq'.at[o].phase = (iq.at[o].phase + turn + NoiseAt(e, o)) % Turn
             /\ iq'.at[o] \in [k : 0 .. 3, phase : Phases]
  <2>1. iq'.at[o] = [k |-> iq.at[o].k, phase |-> (iq.at[o].phase + turn + NoiseAt(e, o)) % Turn]
    BY <1>4, <1>5
  <2>2. \A x, y \in Phases, z \in {0, 1} : (x + y + z) % Turn \in Phases
    BY DEF Phases, Turn
  <2>3. (iq.at[o].phase + turn + NoiseAt(e, o)) % Turn \in Phases
    BY <1>5, <1>6, <2>2
  <2> QED BY <1>5, <2>1, <2>3
<1> HIDE DEF noisy
<1>8. /\ Symbols' = Symbols /\ Length' = Length
      /\ \A f, j : Place(f, j)' = Place(f, j) /\ SymbolsOf(f)' = SymbolsOf(f)
  BY <1>1, ArgsKept, Zenon
<1>9. Laid = call.nframes /\ Laid' = call.nframes /\ UNCHANGED <<Cut, Read>> /\ pc' \notin Off /\ Clean /\ ~Clean'
  BY <1>1 DEF Laid, Cut, Read, Clean, Modulating, Demodulating, Off
<1>10. /\ iq.len = call.nframes * Length
       /\ \A o \in DOMAIN iq.at : \E f \in 0 .. call.nframes - 1, j \in 0 .. Symbols - 1 : o = Place(f, j)
       /\ \A f \in 0 .. call.nframes - 1, j \in 0 .. Symbols - 1 :
                Place(f, j) \in DOMAIN iq.at /\ iq.at[Place(f, j)].k = j % 4
  BY <1>1, <1>9 DEF ModemInv, LaidOut, Off
<1>11. LaidOut'
  <2> SUFFICES /\ iq'.len = Laid' * Length'
               /\ \A o \in DOMAIN iq'.at : \E f \in 0 .. Laid' - 1, j \in 0 .. Symbols' - 1 : o = Place(f, j)'
               /\ \A f \in 0 .. Laid' - 1, j \in 0 .. Symbols' - 1 :
                      Place(f, j)' \in DOMAIN iq'.at /\ iq'.at[Place(f, j)'].k = j % 4
    BY Zenon DEF LaidOut
  <2>1. DOMAIN iq'.at = DOMAIN iq.at
    BY <1>4
  <2>2. \A f \in 0 .. call.nframes - 1, j \in 0 .. Symbols - 1 :
            Place(f, j) \in DOMAIN iq'.at /\ iq'.at[Place(f, j)].k = j % 4
    BY <1>7, <1>10, <2>1
  <2>3. iq'.len = call.nframes * Length
    BY <1>4, <1>10
  <2> QED BY <1>8, <1>9, <1>10, <2>1, <2>2, <2>3
<1>12. ASSUME NEW f \in 0 .. call.nframes - 1, NEW j \in 2 .. Symbols - 1
       PROVE  Same((iq'.at[Place(f, j)].phase - iq'.at[Place(f, j - 2)].phase) % Turn, SymbolsOf(f)[j + 1])
  <2> DEFINE o == Place(f, j)
             p == Place(f, j - 2)
  <2>1. j \in 0 .. Symbols - 1 /\ j - 2 \in 0 .. Symbols - 1
    BY <1>2
  <2>2. o \in DOMAIN iq.at /\ p \in DOMAIN iq.at
    BY <1>10, <2>1
  <2>3. (iq.at[o].phase - iq.at[p].phase) % Turn = SymbolsOf(f)[j + 1]
    <3>1. \A g \in 0 .. call.nframes - 1 : \A i \in 2 .. Symbols - 1 : Between(g, i) = SymbolsOf(g)[i + 1]
      BY <1>1, <1>9 DEF ModemInv, PhasesRight, Off
    <3>2. Between(f, j) = SymbolsOf(f)[j + 1]
      BY <3>1
    <3> QED BY <3>2 DEF Between
  <2> HIDE DEF o, p
  <2>4. /\ iq.at[o].phase \in Phases /\ iq.at[p].phase \in Phases
        /\ NoiseAt(e, o) \in {0, 1} /\ NoiseAt(e, p) \in {0, 1}
        /\ iq'.at[o].phase = (iq.at[o].phase + turn + NoiseAt(e, o)) % Turn
        /\ iq'.at[p].phase = (iq.at[p].phase + turn + NoiseAt(e, p)) % Turn
    BY <1>5, <1>6, <1>7, <2>2
  <2>5. Same((iq'.at[o].phase - iq'.at[p].phase) % Turn, SymbolsOf(f)[j + 1])
    <3> DEFINE x == iq.at[o].phase
               y == iq.at[p].phase
               d1 == NoiseAt(e, o)
               d2 == NoiseAt(e, p)
               s == SymbolsOf(f)[j + 1]
    <3>1. x \in Phases /\ y \in Phases /\ d1 \in {0, 1} /\ d2 \in {0, 1} /\ s = (x - y) % Turn
      BY <2>3, <2>4
    <3> HIDE DEF x, y, d1, d2, s
    <3>2. Same((((x + turn + d1) % Turn) - ((y + turn + d2) % Turn)) % Turn, s)
      BY <3>1, NoisyPhases
    <3>3. iq'.at[o].phase = (x + turn + d1) % Turn /\ iq'.at[p].phase = (y + turn + d2) % Turn
      BY <2>4 DEF x, y, d1, d2
    <3> QED BY <3>2, <3>3 DEF s
  <2> QED BY <2>5 DEF o, p
<1>13. PhasesRight'
  <2> SUFFICES \A f \in 0 .. Laid' - 1 : \A j \in 2 .. Symbols' - 1 :
                   Same((iq'.at[Place(f, j)'].phase - iq'.at[Place(f, j - 2)'].phase) % Turn, SymbolsOf(f)'[j + 1])
    BY <1>9, Zenon DEF PhasesRight, Between, Same, Turn
  <2> QED BY <1>8, <1>9, <1>12
<1>14. SentRight' /\ BitsRight'
  BY <1>1, <1>9, SentKept, BitsKept DEF ModemInv, Off
<1>15. CallsFit' /\ RailsRight' /\ LoopsRight'
  BY <1>1, ArgsKept DEF ModemInv, CallsFit, RailsRight, LoopsRight, Demodulating, Off
<1>16. CssTypeOK'
  <2>1. /\ iq'.len \in Nat /\ DOMAIN iq'.at \subseteq 0 .. iq'.len
        /\ \A o \in DOMAIN iq'.at : iq'.at[o] \in [k : 0 .. 3, phase : Phases]
    BY <1>4, <1>7 DEF ModemInv, CssTypeOK
  <2> QED BY <1>1, <2>1 DEF ModemInv, CssTypeOK, args, rails, loop
<1> QED BY <1>11, <1>13, <1>14, <1>15, <1>16 DEF ModemInv
-------------------------------------------------------------------------------
(* The steps of demodulate. *)

LEMMA CheckLengthStep == ASSUME ModemInv, CheckLength PROVE ModemInv'
<1>1. /\ pc = "demodulate" /\ UNCHANGED <<args, frame, rails, loop, iq, bits, sent>> /\ call' = call
      /\ frame = 0 /\ call.missing = 0
      /\ RailBits % bits_per_symbol(slow) = 0 /\ (slow => RailChips % 64 = 0)
  BY DEF CheckLength, args, ModemInv, CallsFit, Off
<1>2. CASE iq.len # nsamp_frame * call.nframes
  BY <1>1, <1>2, RaiseStep DEF CheckLength, Raise
<1>3. CASE iq.len = nsamp_frame * call.nframes
  <2>1. pc' = "demod_DQCSK"
    BY <1>3 DEF CheckLength
  <2>2. /\ call \in Calls /\ call.nframes \in Nat \ {0} /\ Length \in Nat /\ nsamp_frame \in Nat
        /\ slow => nsamp_frame < Length
    BY <1>1, ArgsTyped, LengthType, FrameSizes DEF ModemInv
  <2>3. ~slow
    <3> SUFFICES ASSUME slow PROVE FALSE
      OBVIOUS
    <3>1. iq.len = call.nframes * Length
      BY <1>1 DEF ModemInv, LaidOut, Laid, Modulating, Off
    <3>2. PICK x \in Nat : Length = nsamp_frame + x /\ x >= 1
      <4>1. Length - nsamp_frame \in Nat /\ Length = nsamp_frame + (Length - nsamp_frame) /\ Length - nsamp_frame >= 1
        BY <2>2
      <4> QED BY <4>1
    <3>3. /\ call.nframes * (nsamp_frame + x) = call.nframes * nsamp_frame + call.nframes * x
          /\ call.nframes * x >= 1 /\ call.nframes * nsamp_frame \in Nat
          /\ call.nframes * nsamp_frame = nsamp_frame * call.nframes
      BY <2>2, <3>2
    <3>4. call.nframes * Length = call.nframes * (nsamp_frame + x)
      BY <3>2, Zenon
    <3> QED BY <1>3, <2>2, <3>1, <3>2, <3>3, <3>4
  <2>4. UNCHANGED <<Cut, Laid, Read, Clean>>
    BY <1>1, <2>1 DEF Cut, Laid, Read, Clean, Modulating, Demodulating
  <2>5. SentRight' /\ LaidOut' /\ PhasesRight' /\ BitsRight'
    BY <1>1, <2>4, SentKept, LaidKept, PhasesKept, BitsKept DEF ModemInv, Off
  <2>6. CallsFit'
    <3>1. UNCHANGED <<slow, RailBits, RailChips>>
      BY <1>1, ArgsKept
    <3> QED BY <1>1, <2>1, <2>3, <3>1 DEF CallsFit
  <2>7. RailsRight' /\ LoopsRight'
    BY <2>1 DEF RailsRight, LoopsRight
  <2>8. CssTypeOK'
    BY <1>1, <2>1 DEF ModemInv, CssTypeOK, args, rails, loop
  <2> QED BY <2>5, <2>6, <2>7, <2>8 DEF ModemInv
<1> QED BY <1>2, <1>3

\* What demodulate's stages may rely on.
LEMMA Receiving ==
    ASSUME ModemInv, pc \in Demodulating
    PROVE  /\ call \in Calls /\ payload \in Payloads /\ frame \in 0 .. call.nframes - 1 /\ frame \in Nat
           /\ call.nframes \in Nat /\ Symbols \in Nat /\ Symbols >= 48 /\ ~slow /\ call.missing = 0
           /\ RailBits % 3 = 0 /\ RailBits = 6 + 4 * n /\ calc_padded_zeros(slow, n) = 0
           /\ nsamp_frame = Length /\ Laid = call.nframes /\ ~Clean /\ pc \notin Off
           /\ \A j \in 0 .. Symbols - 1 :
                  /\ Place(frame, j) \in DOMAIN iq.at /\ iq.at[Place(frame, j)].k = j % 4
                  /\ iq.at[Place(frame, j)].phase \in Phases
<1>1. ~slow /\ call.missing = 0 /\ RailBits % bits_per_symbol(slow) = 0
  BY DEF ModemInv, CallsFit, Demodulating, Off
<1>2. /\ call \in Calls /\ payload \in Payloads /\ frame \in 0 .. call.nframes - 1 /\ frame \in Nat
      /\ call.nframes \in Nat /\ Symbols \in Nat /\ Symbols >= 48
  BY ArgsTyped, RailSizes DEF ModemInv
<1>3. RailBits = 6 + 4 * n /\ calc_padded_zeros(slow, n) = 0 /\ nsamp_frame = Length
  BY <1>1, <1>2, FrameSizes
<1>4. RailBits % 3 = 0
  BY <1>1 DEF bits_per_symbol
<1>5. Laid = call.nframes /\ ~Clean /\ pc \notin Off
  BY DEF Laid, Clean, Modulating, Demodulating, Off
<1>6. ASSUME NEW j \in 0 .. Symbols - 1
      PROVE  /\ Place(frame, j) \in DOMAIN iq.at /\ iq.at[Place(frame, j)].k = j % 4
             /\ iq.at[Place(frame, j)].phase \in Phases
  <2>1. Place(frame, j) \in DOMAIN iq.at /\ iq.at[Place(frame, j)].k = j % 4
    BY <1>2, <1>5 DEF ModemInv, LaidOut
  <2> QED BY <2>1 DEF ModemInv, CssTypeOK
<1> QED BY <1>1, <1>2, <1>3, <1>4, <1>5, <1>6

LEMMA DemodDQCSKStep == ASSUME ModemInv, DemodDQCSK PROVE ModemInv'
<1>1. /\ pc = "demod_DQCSK" /\ pc' = "demod_DQPSK" /\ chain' = <<-Start, -Start, -Start, -Start>> /\ res' = <<>>
      /\ UNCHANGED <<args, frame, rails, iq, bits, sent>> /\ call' = call
  BY DEF DemodDQCSK, args
<1>2. /\ call \in Calls /\ frame \in 0 .. call.nframes - 1 /\ frame \in Nat /\ Symbols \in Nat /\ Symbols >= 48
      /\ nsamp_frame = Length
      /\ \A j \in 0 .. Symbols - 1 :
             /\ Place(frame, j) \in DOMAIN iq.at /\ iq.at[Place(frame, j)].k = j % 4
             /\ iq.at[Place(frame, j)].phase \in Phases
  BY <1>1, Receiving DEF Demodulating
<1>3. sym' = [j \in 1 .. Symbols |-> iq.at[Place(frame, j - 1)].phase]
  <2> DEFINE o(j) == frame * nsamp_frame + Pos(j - 1)
  <2>1. PICK unclear \in Phases :
            sym' = [j \in 1 .. Cardinality(Windows) |->
                        IF o(j) \in DOMAIN iq.at /\ iq.at[o(j)].k = (j - 1) % 4 THEN iq.at[o(j)].phase ELSE unclear]
    BY Zenon DEF DemodDQCSK
  <2>2. Cardinality(Windows) = Symbols
    BY <1>2, WindowsAre
  <2>3. ASSUME NEW j \in 1 .. Symbols
        PROVE  o(j) = Place(frame, j - 1) /\ j - 1 \in 0 .. Symbols - 1
    <3>1. j - 1 \in Nat /\ j - 1 \in 0 .. Symbols - 1
      BY <1>2
    <3>2. Pos(j - 1) = Put(j - 1)
      BY <1>2, <3>1, CallTypes, PosIsPut
    <3> QED BY <1>2, <3>1, <3>2 DEF Place
  <2> HIDE DEF o
  <2>4. ASSUME NEW j \in 1 .. Symbols
        PROVE  o(j) \in DOMAIN iq.at /\ iq.at[o(j)].k = (j - 1) % 4 /\ iq.at[o(j)].phase = iq.at[Place(frame, j - 1)].phase
    BY <1>2, <2>3
  <2> QED BY <2>1, <2>2, <2>4
<1>4. sym' \in [1 .. Symbols -> Phases]
  <2>1. \A j \in 1 .. Symbols : j - 1 \in 0 .. Symbols - 1
    BY <1>2
  <2> QED BY <1>2, <1>3, <2>1
<1>5. sym' \in Seq(Phases) /\ Len(sym') = Symbols
  BY <1>2, <1>4, SeqOfFunction
<1>6. UNCHANGED <<Cut, Laid, Read, Clean>>
  BY <1>1 DEF Cut, Laid, Read, Clean, Modulating, Demodulating
<1>7. SentRight' /\ LaidOut' /\ PhasesRight' /\ BitsRight'
  BY <1>1, <1>6, SentKept, LaidKept, PhasesKept, BitsKept DEF ModemInv, Off
<1>8. CallsFit' /\ RailsRight'
  BY <1>1, ArgsKept DEF ModemInv, CallsFit, RailsRight, Demodulating, Off
<1>9. /\ chain' \in [1 .. 4 -> -Turn + 1 .. Turn - 1] /\ chain' \in Seq(-Turn + 1 .. Turn - 1)
      /\ chain'[1] = -Start /\ chain'[4] = -Start /\ Len(res') = 0 /\ res' \in Seq(Phases)
  <2>1. -Start \in -Turn + 1 .. Turn - 1
    BY DEF Start, Turn
  <2> HIDE DEF Start
  <2> QED BY <1>1, <2>1
<1>10. LoopsRight'
  <2>1. sym' = [j \in 1 .. Symbols' |-> iq'.at[Place(frame, j - 1)'].phase]
    <3>1. Symbols' = Symbols
      BY <1>1, ArgsKept
    <3>2. \A j : Place(frame, j)' = Place(frame, j)
      BY <1>1, FrameKept, Zenon
    <3> QED BY <1>1, <1>3, <3>1, <3>2
  <2>2. 3 .. Len(res') = {}
    BY <1>9
  <2>3. ChainHolds(-Start, Len(res), [j \in 1 .. Len(sym) |-> -sym[j]])'
    BY <1>9 DEF ChainHolds
  <2> QED BY <1>1, <2>1, <2>2, <2>3 DEF LoopsRight
<1>11. CssTypeOK'
  <2>1. Len(res') <= Len(sym')
    BY <1>2, <1>5, <1>9
  <2> QED BY <1>1, <1>5, <1>9, <2>1 DEF ModemInv, CssTypeOK, args, rails
<1> QED BY <1>7, <1>8, <1>10, <1>11 DEF ModemInv

LEMMA DemodSymbolStep == ASSUME ModemInv, DemodSymbol PROVE ModemInv'
<1> DEFINE t == Len(res)
           in == sym[t + 1]
           out == (in + chain[4]) % Turn
           put == [j \in 1 .. Len(sym) |-> -sym[j]]
<1>1. /\ pc = "demod_DQPSK" /\ pc' = "demod_DQPSK" /\ t < Len(sym) /\ res' = Append(res, out)
      /\ chain' = <<-in, chain[1], chain[1], chain[1]>>
      /\ UNCHANGED <<args, pc, frame, rails, sym, iq, bits, sent>> /\ call' = call
  BY DEF DemodSymbol, args, DelayedConj
<1> HIDE DEF in, put, out
<1>2. /\ sym \in Seq(Phases) /\ res \in Seq(Phases) /\ t \in Nat /\ Len(sym) \in Nat
      /\ sym = [j \in 1 .. Symbols |-> iq.at[Place(frame, j - 1)].phase] /\ ChainHolds(-Start, t, put)
      /\ \A j \in 3 .. t : res[j] = (sym[j] - sym[j - 2]) % Turn
  BY <1>1, LenProperties DEF ModemInv, CssTypeOK, LoopsRight, put
<1> DEFINE L == Len(sym)
<1>3. t \in Nat /\ L \in Nat /\ t < L
  BY <1>1, <1>2
<1> HIDE DEF L, t
<1>4. ASSUME NEW j \in 1 .. t + 1
      PROVE  sym[j] \in Phases /\ sym[j] \in Int /\ put[j] = -sym[j] /\ -sym[j] \in -Turn + 1 .. Turn - 1
  <2>1. j \in 1 .. L
    BY <1>3
  <2>2. sym[j] \in Phases /\ put[j] = -sym[j]
    BY <1>2, <2>1, ElementOfSeq DEF put, L
  <2>3. \A x \in Phases : x \in Int /\ -x \in -Turn + 1 .. Turn - 1
    BY DEF Phases, Turn
  <2> QED BY <2>2, <2>3
<1>5. t + 1 \in 1 .. t + 1
  BY <1>2
<1>6. out \in Phases
  <2>1. in \in Int /\ chain[4] \in Int
    <3>1. chain[4] \in -Turn + 1 .. Turn - 1
      BY <1>2 DEF ChainHolds
    <3>2. in \in Phases
      BY <1>4, <1>5 DEF in
    <3> QED BY <3>1, <3>2 DEF Phases, Turn
  <2>2. \A x, y \in Int : (x + y) % Turn \in Phases
    BY DEF Phases, Turn
  <2> QED BY <2>1, <2>2 DEF out
<1>7. /\ res' \in Seq(Phases) /\ Len(res') = t + 1
      /\ \A j \in 1 .. t : res'[j] = res[j]
      /\ res'[t + 1] = out
  BY <1>1, <1>2, <1>6, AppendProperties DEF t
<1>8. /\ chain' \in [1 .. 4 -> -Turn + 1 .. Turn - 1] /\ chain' \in Seq(-Turn + 1 .. Turn - 1)
      /\ chain'[1] = put[t + 1]
      /\ chain'[4] = IF t + 1 <= 1 THEN -Start ELSE put[(t + 1) - 1]
  <2>1. -Start \in -Turn + 1 .. Turn - 1
    BY DEF Start, Turn
  <2>2. put[t + 1] = -in /\ -in \in -Turn + 1 .. Turn - 1
    BY <1>4, <1>5 DEF in
  <2> DEFINE first == -Start
             new == -in
  <2>3. first \in -Turn + 1 .. Turn - 1 /\ put[t + 1] = new /\ new \in -Turn + 1 .. Turn - 1
        /\ ChainHolds(first, t, put) /\ chain' = <<new, chain[1], chain[1], chain[1]>>
    BY <1>1, <1>2, <2>1, <2>2
  <2> HIDE DEF first, new
  <2>4. /\ chain' \in [1 .. 4 -> -Turn + 1 .. Turn - 1] /\ chain' \in Seq(-Turn + 1 .. Turn - 1)
        /\ chain'[1] = put[t + 1]
        /\ chain'[4] = IF t + 1 <= 1 THEN first ELSE put[t + 1 - 1]
    BY <1>2, <2>3, ChainTurn
  <2>5. (t + 1) - 1 = t + 1 - 1
    BY <1>3
  <2> QED BY <2>4, <2>5 DEF first
<1>9. ASSUME NEW j \in 3 .. t + 1 PROVE res'[j] = (sym[j] - sym[j - 2]) % Turn
  <2>1. CASE j <= t
    <3>1. j \in 3 .. t /\ j \in 1 .. t
      BY <2>1
    <3>2. res'[j] = res[j]
      BY <1>7, <3>1
    <3> QED BY <1>2, <3>1, <3>2
  <2>2. CASE j = t + 1
    <3>1. t > 1 /\ t - 1 = j - 2 /\ ~(t <= 1) /\ t # 0 /\ j - 2 \in 1 .. t + 1
      BY <1>2, <2>2
    <3>2. chain[4] = put[j - 2]
      BY <1>2, <3>1 DEF ChainHolds
    <3>3. chain[4] = -sym[j - 2] /\ sym[j - 2] \in Int /\ sym[j] \in Int /\ in = sym[j]
      BY <1>4, <1>5, <2>2, <3>1, <3>2 DEF in
    <3>4. sym[j] + (-sym[j - 2]) = sym[j] - sym[j - 2]
      BY <3>3
    <3>5. out = (sym[j] - sym[j - 2]) % Turn
      BY <3>3, <3>4 DEF out
    <3> QED BY <1>7, <2>2, <3>5
  <2> QED BY <1>2, <2>1, <2>2
<1>10. UNCHANGED <<Cut, Laid, Read, Clean>>
  BY <1>1 DEF Cut, Laid, Read, Clean
<1>11. SentRight' /\ LaidOut' /\ PhasesRight' /\ BitsRight'
  BY <1>1, <1>10, SentKept, LaidKept, PhasesKept, BitsKept DEF ModemInv, Off
<1>12. CallsFit' /\ RailsRight'
  BY <1>1, ArgsKept, FrameKept DEF ModemInv, CallsFit, RailsRight, rails
<1>13. LoopsRight'
  <2>1. sym' = [j \in 1 .. Symbols' |-> iq'.at[Place(frame, j - 1)'].phase] /\ sym' = sym
    <3>1. Symbols' = Symbols
      BY <1>1, ArgsKept
    <3>2. \A j : Place(frame, j)' = Place(frame, j)
      BY <1>1, FrameKept, Zenon
    <3> QED BY <1>1, <1>2, <3>1, <3>2
  <2>2. t + 1 # 0
    BY <1>2
  <2>3. ChainHolds(-Start, Len(res), [j \in 1 .. Len(sym) |-> -sym[j]])'
    <3>1. [j \in 1 .. Len(sym') |-> -sym'[j]] = put
      BY <2>1 DEF put
    <3> DEFINE p == [j \in 1 .. Len(sym') |-> -sym'[j]]
    <3> HIDE DEF p
    <3> SUFFICES /\ chain' \in [1 .. 4 -> -Turn + 1 .. Turn - 1]
                 /\ chain'[1] = IF Len(res') = 0 THEN -Start ELSE p[Len(res')]
                 /\ chain'[4] = IF Len(res') <= 1 THEN -Start ELSE p[Len(res') - 1]
      BY Zenon DEF ChainHolds, p
    <3>2. p = put
      BY <3>1 DEF p
    <3>3. Len(res') = t + 1
      BY <1>7
    <3> QED BY <1>8, <2>2, <3>2, <3>3, Zenon
  <2> QED BY <1>1, <1>7, <1>9, <2>1, <2>3 DEF LoopsRight
<1>14. CssTypeOK'
  <2>1. Len(res') <= Len(sym')
    <3>1. t + 1 <= L
      BY <1>3
    <3> QED BY <1>1, <1>7, <3>1 DEF L
  <2> QED BY <1>1, <1>7, <1>8, <2>1 DEF ModemInv, CssTypeOK, args, rails
<1> QED BY <1>11, <1>12, <1>13, <1>14 DEF ModemInv

LEMMA PartIs ==
    ASSUME NEW S, NEW m \in Nat, NEW N \in Nat, NEW s, NEW w \in [1 .. N -> S], \A i \in 1 .. N : s[m + i] = w[i]
    PROVE  SubSeq(s, m + 1, m + N) = w
<1> DEFINE a == m + 1
           b == m + N
           part == SubSeq(s, a, b)
<1>1. a \in Int /\ b \in Int /\ b - a + 1 = N /\ (IF a <= b THEN b - a + 1 ELSE 0) = N
  OBVIOUS
<1>2. ASSUME NEW i \in a .. b PROVE s[i] \in S
  <2>1. i - m \in 1 .. N /\ m + (i - m) = i
    OBVIOUS
  <2>2. s[m + (i - m)] = w[i - m] /\ w[i - m] \in S
    BY <2>1
  <2> QED BY <2>1, <2>2
<1>3. ASSUME NEW i \in 1 .. N PROVE a + i - 1 = m + i
  OBVIOUS
<1> HIDE DEF a, b
<1>4. part \in Seq(S) /\ Len(part) = N /\ \A i \in 1 .. N : part[i] = s[a + i - 1]
  BY <1>1, <1>2, SubSeqProperties
<1>5. w \in Seq(S) /\ Len(w) = N
  BY SeqOfFunction
<1>6. \A i \in 1 .. N : part[i] = w[i]
  BY <1>3, <1>4
<1> HIDE DEF part
<1>7. part = w
  BY <1>4, <1>5, <1>6, SeqEqual
<1> QED BY <1>7 DEF part, a, b

\* The receiver's loop has the symbols of the frame, but for noise.
LEMMA ReceivedLoop ==
    ASSUME ModemInv, pc = "demod_DQPSK"
    PROVE  /\ Len(sym) = Symbols /\ Len(res) \in Nat /\ Len(res) <= Symbols
           /\ \A j \in 3 .. Len(res) : Same(res[j], SymbolsOf(frame)[j])
<1>1. pc \in Demodulating
  BY DEF Demodulating
<1>2. /\ frame \in 0 .. call.nframes - 1 /\ Symbols \in Nat /\ Symbols >= 48
      /\ Laid = call.nframes /\ ~Clean /\ pc \notin Off
      /\ \A j \in 0 .. Symbols - 1 : iq.at[Place(frame, j)].phase \in Phases
  BY <1>1, Receiving
<1>3. /\ sym = [j \in 1 .. Symbols |-> iq.at[Place(frame, j - 1)].phase] /\ Len(sym) = Symbols
      /\ \A j \in 3 .. Len(res) : res[j] = (sym[j] - sym[j - 2]) % Turn
  <2>1. sym = [j \in 1 .. Symbols |-> iq.at[Place(frame, j - 1)].phase]
    BY DEF ModemInv, LoopsRight
  <2>2. \A j \in 1 .. Symbols : j - 1 \in 0 .. Symbols - 1
    BY <1>2
  <2>3. sym \in [1 .. Symbols -> Phases]
    BY <1>2, <2>1, <2>2
  <2>4. Len(sym) = Symbols
    BY <1>2, <2>3, SeqOfFunction
  <2> QED BY <2>1, <2>4 DEF ModemInv, LoopsRight
<1>4. Len(res) \in Nat /\ Len(res) <= Symbols
  BY <1>3, LenProperties DEF ModemInv, CssTypeOK
<1>5. ASSUME NEW j \in 3 .. Len(res) PROVE Same(res[j], SymbolsOf(frame)[j])
  <2> DEFINE i == j - 1
  <2>1. i \in 2 .. Symbols - 1 /\ i + 1 = j /\ j \in 1 .. Symbols /\ j - 2 \in 1 .. Symbols
        /\ (j - 2) - 1 = i - 2
    BY <1>2, <1>4
  <2>2. sym[j] = iq.at[Place(frame, i)].phase /\ sym[j - 2] = iq.at[Place(frame, i - 2)].phase
    BY <1>3, <2>1
  <2> HIDE DEF i
  <2>3. res[j] = Between(frame, i)
    BY <1>3, <2>2 DEF Between
  <2>4. \A g \in 0 .. call.nframes - 1 : \A h \in 2 .. Symbols - 1 : Same(Between(g, h), SymbolsOf(g)[h + 1])
    BY <1>2 DEF ModemInv, PhasesRight
  <2>5. Same(Between(frame, i), SymbolsOf(frame)[i + 1])
    BY <1>2, <2>1, <2>4
  <2> QED BY <2>1, <2>3, <2>5
<1> QED BY <1>3, <1>4, <1>5

LEMMA DemodQPSKStep == ASSUME ModemInv, DemodQPSK PROVE ModemInv'
<1>1. /\ pc = "demod_DQPSK" /\ Len(res) = Len(sym) /\ pc \in Demodulating
      /\ UNCHANGED <<args, frame, loop, iq, bits, sent>> /\ call' = call
  BY DEF DemodQPSK, args, Demodulating
<1>2. /\ call \in Calls /\ payload \in Payloads /\ frame \in 0 .. call.nframes - 1 /\ frame \in Nat
      /\ Symbols \in Nat /\ Symbols >= 48 /\ ~slow /\ call.missing = 0
      /\ RailBits % 3 = 0 /\ Laid = call.nframes /\ ~Clean /\ pc \notin Off
      /\ \A j \in 0 .. Symbols - 1 : iq.at[Place(frame, j)].phase \in Phases
  BY <1>1, Receiving
<1>3. Len(sym) = Symbols
  BY <1>1, ReceivedLoop
<1>4. ASSUME NEW j \in 3 .. Symbols PROVE Same(res[j], SymbolsOf(frame)[j])
  BY <1>1, <1>3, ReceivedLoop
<1>5. ASSUME NEW i \in 1 .. RailChips
      PROVE  OnI(res[48 + i]) = Chips(frame, 0)[i] /\ OnQ(res[48 + i]) = Chips(frame, 1)[i]
  <2>1. /\ Symbols = 48 + RailChips /\ RailChips \in Nat
        /\ Chips(frame, 0)[i] \in {-1, 1} /\ Chips(frame, 1)[i] \in {-1, 1}
        /\ SymbolsOf(frame)[48 + i] = QPSK(Chips(frame, 0)[i], Chips(frame, 1)[i])
    BY <1>2, SymbolIsChips
  <2>2. 48 + i \in 3 .. Symbols
    BY <2>1
  <2>3. Same(res[48 + i], QPSK(Chips(frame, 0)[i], Chips(frame, 1)[i]))
    BY <1>4, <2>1, <2>2
  <2> QED BY <2>1, <2>3, Quadrants
<1>6. RailChips \in Nat /\ Symbols = 48 + RailChips /\ len_hdrs(slow) = 48
  BY <1>2, RailSizes DEF Symbols, len_hdrs
<1> DEFINE onI == [j \in 1 .. Len(res) |-> OnI(res[j])]
           onQ == [j \in 1 .. Len(res) |-> OnQ(res[j])]
<1>7. Chips(frame, 0) \in [1 .. RailChips -> {-1, 1}] /\ Chips(frame, 1) \in [1 .. RailChips -> {-1, 1}]
  BY <1>2, ChipsType
<1>8. \A i \in 1 .. RailChips : onI[48 + i] = Chips(frame, 0)[i] /\ onQ[48 + i] = Chips(frame, 1)[i]
  <2>1. \A i \in 1 .. RailChips : 48 + i \in 1 .. Len(res)
    BY <1>1, <1>3, <1>6
  <2> QED BY <1>5, <2>1
<1>9. Len(onI) = 48 + RailChips /\ Len(onQ) = 48 + RailChips
  <2>1. onI \in [1 .. 48 + RailChips -> {-1, 1}] /\ onQ \in [1 .. 48 + RailChips -> {-1, 1}]
    BY <1>1, <1>3, <1>6 DEF OnI, OnQ
  <2> QED BY <1>6, <2>1, SeqOfFunction
<1>10. pc' = "decode" /\ I' = Payload(onI) /\ Q' = Payload(onQ)
  BY <1>2, Zenon DEF DemodQPSK
<1> HIDE DEF onI, onQ
<1>11. \A first \in {0, 1} : Chips(frame, first) = Codewords(Rail(frame, first))
  BY <1>2 DEF Chips
<1>12. Payload(onI) = Chips(frame, 0) /\ Payload(onQ) = Chips(frame, 1)
  <2>1. Payload(onI) = SubSeq(onI, 48 + 1, 48 + RailChips) /\ Payload(onQ) = SubSeq(onQ, 48 + 1, 48 + RailChips)
    BY <1>6, <1>9 DEF Payload
  <2>2. PICK m \in Nat : m = 48
    OBVIOUS
  <2>3. SubSeq(onI, m + 1, m + RailChips) = Chips(frame, 0)
    BY <1>6, <1>7, <1>8, <2>2, PartIs
  <2>4. SubSeq(onQ, m + 1, m + RailChips) = Chips(frame, 1)
    BY <1>6, <1>7, <1>8, <2>2, PartIs
  <2> QED BY <2>1, <2>2, <2>3, <2>4
<1>13. I' = Codewords(Rail(frame, 0)) /\ Q' = Codewords(Rail(frame, 1))
  BY <1>10, <1>11, <1>12
<1>14. UNCHANGED <<Cut, Laid, Read, Clean>>
  BY <1>1, <1>10 DEF Cut, Laid, Read, Clean, Modulating, Demodulating
<1>15. SentRight' /\ LaidOut' /\ PhasesRight' /\ BitsRight'
  BY <1>1, <1>2, <1>14, SentKept, LaidKept, PhasesKept, BitsKept DEF ModemInv
<1>16. CallsFit' /\ RailsRight' /\ LoopsRight'
  BY <1>1, <1>2, <1>10, <1>13, ArgsKept, FrameKept DEF ModemInv, CallsFit, RailsRight, LoopsRight, Demodulating, Off
<1>17. CssTypeOK'
  <2>1. I' \in Seq({-1, 1}) /\ Q' \in Seq({-1, 1}) /\ Len(I') = Len(Q')
    BY <1>2, <1>7, <1>10, <1>12, ChipRails
  <2> QED BY <1>1, <1>10, <2>1 DEF ModemInv, CssTypeOK, args, loop
<1> QED BY <1>15, <1>16, <1>17 DEF ModemInv

LEMMA DecodeStep == ASSUME ModemInv, Decode PROVE ModemInv'
<1>1. /\ pc = "decode" /\ pc \in Demodulating /\ UNCHANGED <<args, frame, loop, iq, bits, sent>> /\ call' = call
      /\ I = Codewords(Rail(frame, 0)) /\ Q = Codewords(Rail(frame, 1))
  BY DEF Decode, args, Demodulating, ModemInv, RailsRight
<1>2. /\ call \in Calls /\ payload \in Payloads /\ frame \in 0 .. call.nframes - 1 /\ n \in Nat
      /\ ~slow /\ call.missing = 0 /\ RailBits % 3 = 0 /\ RailBits = 6 + 4 * n
      /\ calc_padded_zeros(slow, n) = 0 /\ pc \notin Off
  BY <1>1, Receiving, CallTypes
<1>3. ASSUME NEW first \in {0, 1}
      PROVE  /\ Rail(frame, first) \in [1 .. RailBits -> {0, 1}]
             /\ Rail(frame, first) = EveryOther(FrameBits(frame), first)
             /\ remove_zeropadding(CodewordsToBits(Codewords(Rail(frame, first)))) = Rail(frame, first)
             /\ Len(Codewords(Rail(frame, first))) % len_cw(slow) = 0
             /\ Rail(frame, first) \in Seq({0, 1}) /\ Len(Rail(frame, first)) = RailBits
  <2> DEFINE r == Rail(frame, first)
  <2>1. r \in [1 .. RailBits -> {0, 1}] /\ r = EveryOther(FrameBits(frame), first)
    BY <1>2, RailType
  <2> HIDE DEF r
  <2>2. CodewordsToBits(Codewords(r)) = r /\ Len(Codewords(r)) % len_cw(slow) = 0
    BY <1>2, <2>1, DecodesRight
  <2>3. r \in Seq({0, 1}) /\ Len(r) = RailBits /\ RailBits \in Nat
    BY <1>2, <2>1, SeqOfFunction
  <2>4. SubSeq(r, 1, Len(r)) = r
    <3>1. PICK m \in Nat : m = 0
      OBVIOUS
    <3>2. \A i \in 1 .. RailBits : r[m + i] = r[i]
      BY <3>1
    <3>3. SubSeq(r, m + 1, m + RailBits) = r
      BY <2>1, <2>3, <3>2, PartIs
    <3> QED BY <2>3, <3>1, <3>3
  <2>5. remove_zeropadding(r) = SubSeq(r, 1, Len(r))
    BY <1>2, <2>3 DEF remove_zeropadding
  <2> QED BY <2>1, <2>2, <2>3, <2>4, <2>5 DEF r
<1>4. pc' = "mux" /\ I' = remove_zeropadding(CodewordsToBits(I)) /\ Q' = remove_zeropadding(CodewordsToBits(Q))
  BY <1>1, <1>3 DEF Decode
<1>5. I' = EveryOther(FrameBits(frame), 0) /\ Q' = EveryOther(FrameBits(frame), 1)
  BY <1>1, <1>3, <1>4
<1>6. UNCHANGED <<Cut, Laid, Read, Clean>>
  BY <1>1, <1>4 DEF Cut, Laid, Read, Clean, Modulating, Demodulating
<1>7. SentRight' /\ LaidOut' /\ PhasesRight' /\ BitsRight'
  BY <1>1, <1>2, <1>6, SentKept, LaidKept, PhasesKept, BitsKept DEF ModemInv
<1>8. CallsFit' /\ RailsRight' /\ LoopsRight'
  BY <1>1, <1>2, <1>4, <1>5, ArgsKept, FrameKept DEF ModemInv, CallsFit, RailsRight, LoopsRight, Demodulating, Off
<1>9. CssTypeOK'
  <2>1. I' \in Seq({0, 1}) /\ Q' \in Seq({0, 1}) /\ Len(I') = Len(Q')
    BY <1>3, <1>5
  <2> QED BY <1>1, <1>4, <2>1 DEF ModemInv, CssTypeOK, args, loop
<1> QED BY <1>7, <1>8, <1>9 DEF ModemInv

\* The two rails together are the frame again.
LEMMA MuxesRight ==
    ASSUME call \in Calls, payload \in Payloads, NEW f \in 0 .. call.nframes - 1
    PROVE  /\ mux(EveryOther(FrameBits(f), 0), EveryOther(FrameBits(f), 1)) = FrameBits(f)
           /\ Len(EveryOther(FrameBits(f), 0)) = 6 + 4 * n
<1> DEFINE k == 6 + 4 * n
           b == FrameBits(f)
           s == EveryOther(FrameBits(f), 0)
           t == EveryOther(FrameBits(f), 1)
<1>1. k \in Nat /\ 12 + 8 * n = 2 * k
  BY CallTypes
<1>2. b \in [1 .. 2 * k -> {0, 1}]
  BY <1>1, FrameBitsType
<1>3. /\ s \in [1 .. k -> {0, 1}] /\ \A i \in 1 .. k : s[i] = b[2 * i - 1 + 0]
      /\ t \in [1 .. k -> {0, 1}] /\ \A i \in 1 .. k : t[i] = b[2 * i - 1 + 1]
  BY HalfBits
<1> HIDE DEF k, b, s, t
<1>4. Len(s) = k
  BY <1>1, <1>3, SeqOfFunction
<1>5. ASSUME NEW i \in 1 .. 2 * k PROVE (IF i % 2 = 1 THEN s[(i + 1) \div 2] ELSE t[i \div 2]) = b[i]
  <2>1. CASE i % 2 = 1
    <3> DEFINE h == (i + 1) \div 2
    <3>1. h \in 1 .. k /\ 2 * h - 1 + 0 = i
      BY <1>1, <2>1
    <3> HIDE DEF h
    <3>2. s[h] = b[i]
      BY <1>3, <3>1
    <3> QED BY <2>1, <3>2 DEF h
  <2>2. CASE i % 2 # 1
    <3> DEFINE h == i \div 2
    <3>1. h \in 1 .. k /\ 2 * h - 1 + 1 = i
      BY <1>1, <2>2
    <3> HIDE DEF h
    <3>2. t[h] = b[i]
      BY <1>3, <3>1
    <3> QED BY <2>2, <3>2 DEF h
  <2> QED BY <2>1, <2>2
<1>6. mux(s, t) = [i \in 1 .. 2 * k |-> IF i % 2 = 1 THEN s[(i + 1) \div 2] ELSE t[i \div 2]]
  BY <1>4 DEF mux
<1>7. mux(s, t) = b
  BY <1>2, <1>5, <1>6
<1> QED BY <1>4, <1>7 DEF k, b, s, t

LEMMA MuxStep == ASSUME ModemInv, Mux PROVE ModemInv'
<1>1. /\ pc = "mux" /\ pc \in Demodulating /\ UNCHANGED <<args, rails, loop, iq, sent>> /\ call' = call
      /\ bits' = bits \o SubSeq(mux(I, Q), 13, 2 * Len(I))
      /\ IF frame + 1 < call.nframes
         THEN pc' = "demod_DQCSK" /\ frame' = frame + 1
         ELSE pc' = "returned" /\ UNCHANGED frame
      /\ I = EveryOther(FrameBits(frame), 0) /\ Q = EveryOther(FrameBits(frame), 1)
  BY DEF Mux, args, Demodulating, ModemInv, RailsRight
<1>2. /\ call \in Calls /\ payload \in Payloads /\ frame \in 0 .. call.nframes - 1 /\ frame \in Nat
      /\ call.nframes \in Nat /\ n \in Nat /\ ~slow /\ call.missing = 0 /\ pc \notin Off
  <2>1. pc \in Demodulating
    BY <1>1
  <2> QED BY <2>1, Receiving, CallTypes
<1> DEFINE N == 8 * n
           new == [i \in 1 .. N |-> PayloadBit(payload, frame * 8 * n + i)]
<1>3. N \in Nat /\ new \in [1 .. N -> {0, 1}]
  <2>1. N \in Nat
    BY <1>2
  <2>2. \A i \in 1 .. 8 * n : PayloadBit(payload, frame * 8 * n + i) \in {0, 1}
    BY <1>2, PayloadOfFrame
  <2> QED BY <2>1, <2>2
<1>4. SubSeq(mux(I, Q), 13, 2 * Len(I)) = new
  <2>1. mux(I, Q) = FrameBits(frame) /\ 2 * Len(I) = 12 + N
    <3>1. mux(I, Q) = FrameBits(frame) /\ Len(I) = 6 + 4 * n
      <4>1. I = EveryOther(FrameBits(frame), 0) /\ Q = EveryOther(FrameBits(frame), 1)
        BY <1>1
      <4> QED BY <1>2, <4>1, MuxesRight
    <3> QED BY <1>2, <3>1
  <2>2. ASSUME NEW i \in 1 .. N PROVE FrameBits(frame)[12 + i] = new[i]
    <3>1. /\ 12 + i \in 1 .. 12 + 8 * n /\ ~(12 + i <= 12)
          /\ frame * 8 * n + (12 + i) - 12 = frame * 8 * n + i
      BY <1>2
    <3> QED BY <3>1 DEF FrameBits
  <2> HIDE DEF N, new
  <2>3. PICK m \in Nat : m = 12
    OBVIOUS
  <2>4. SubSeq(FrameBits(frame), m + 1, m + N) = new
    BY <1>3, <2>2, <2>3, PartIs
  <2> QED BY <2>1, <2>3, <2>4
<1>5. /\ bits = [i \in 1 .. frame * 8 * n |-> PayloadBit(payload, i)] /\ bits \in Seq({0, 1})
      /\ frame * 8 * n = frame * N /\ frame * N \in Nat /\ (frame + 1) * 8 * n = frame * N + N
      /\ frame * 8 * n \in Nat
  <2>1. frame * 8 * n = frame * N /\ (frame + 1) * 8 * n = (frame + 1) * N
    BY <1>2
  <2>2. frame * N \in Nat /\ (frame + 1) * N = frame * N + N
    BY <1>2, <1>3, NextRow
  <2>3. bits = [i \in 1 .. frame * 8 * n |-> PayloadBit(payload, i)] /\ bits \in Seq({0, 1})
    BY <1>1, <1>2 DEF ModemInv, BitsRight, Read, CssTypeOK
  <2> QED BY <2>1, <2>2, <2>3
<1>6. bits' = [i \in 1 .. (frame + 1) * 8 * n |-> PayloadBit(payload, i)] /\ bits' \in Seq({0, 1})
  <2>1. Len(bits) = frame * N
    <3>1. DOMAIN bits = 1 .. Len(bits) /\ Len(bits) \in Nat
      BY <1>5, LenProperties
    <3>2. bits \in [1 .. Len(bits) -> {0, 1}]
      BY <1>5, LenProperties
    <3>3. DOMAIN bits = 1 .. frame * N
      BY <1>5
    <3>4. bits \in [1 .. frame * N -> {0, 1}]
      BY <3>1, <3>2, <3>3, Zenon
    <3> QED BY <1>5, <3>4, SeqOfFunction
  <2>2. new \in Seq({0, 1}) /\ Len(new) = N
    BY <1>3, SeqOfFunction
  <2>3. /\ bits' \in Seq({0, 1}) /\ Len(bits') = frame * N + N
        /\ \A i \in 1 .. frame * N + N : bits'[i] = IF i <= frame * N THEN bits[i] ELSE new[i - frame * N]
    <3> HIDE DEF new, N
    <3>1. bits' = bits \o new
      BY <1>1, <1>4
    <3> QED BY <1>5, <2>1, <2>2, <3>1, ConcatProperties
  <2>4. ASSUME NEW i \in 1 .. frame * N + N PROVE bits'[i] = PayloadBit(payload, i)
    <3>1. CASE i <= frame * N
      <4>1. i \in 1 .. frame * 8 * n
        BY <1>5, <3>1
      <4> QED BY <1>5, <2>3, <3>1, <4>1
    <3>2. CASE ~(i <= frame * N)
      <4> DEFINE h == i - frame * N
      <4>1. h \in 1 .. N /\ frame * 8 * n + h = i
        BY <1>3, <1>5, <3>2
      <4> HIDE DEF h
      <4>2. new[h] = PayloadBit(payload, i)
        BY <4>1
      <4> QED BY <2>3, <3>2, <4>2 DEF h
    <3> QED BY <3>1, <3>2
  <2>5. bits' \in [1 .. frame * N + N -> {0, 1}]
    BY <2>3, LenProperties
  <2>6. bits' = [i \in 1 .. frame * N + N |-> PayloadBit(payload, i)]
    BY <2>4, <2>5
  <2> QED BY <1>5, <2>3, <2>6
<1> HIDE DEF N, new
<1>7. /\ pc' \notin Off /\ UNCHANGED <<Cut, Laid, Clean>> /\ Read' = frame + 1
      /\ pc' \in {"demod_DQCSK", "returned"}
  <2>1. ~(frame + 1 < call.nframes) => call.nframes = frame + 1
    BY <1>2
  <2> QED BY <1>1, <2>1 DEF Cut, Laid, Read, Clean, Modulating, Demodulating, Off
<1>8. SentRight' /\ LaidOut' /\ PhasesRight'
  BY <1>1, <1>2, <1>7, SentKept, LaidKept, PhasesKept DEF ModemInv
<1>9. BitsRight'
  <2>1. n' = n /\ payload' = payload
    BY <1>1, ArgsKept, Zenon DEF args
  <2> QED BY <1>6, <1>7, <2>1 DEF BitsRight
<1>10. CallsFit' /\ RailsRight' /\ LoopsRight'
  BY <1>1, <1>2, <1>7, ArgsKept DEF ModemInv, CallsFit, RailsRight, LoopsRight, Demodulating, Off
<1>11. CssTypeOK'
  <2>1. frame' \in 0 .. call.nframes - 1
    BY <1>1, <1>2
  <2> QED BY <1>1, <1>6, <1>7, <2>1 DEF ModemInv, CssTypeOK, args, rails, loop
<1> QED BY <1>8, <1>9, <1>10, <1>11 DEF ModemInv
-------------------------------------------------------------------------------
(* The modem, and the detector beside it. *)

LEMMA ModemInit == ASSUME Init PROVE ModemInv
<1>1. /\ call \in Calls /\ payload \in Payloads /\ pc = "modulate" /\ frame = 0 /\ I = <<>> /\ Q = <<>>
      /\ sym = <<>> /\ chain = <<>> /\ res = <<>> /\ iq = [len |-> 0, at |-> <<>>] /\ bits = <<>> /\ sent = <<>>
  BY DEF Init
<1>2. call.nframes \in Nat \ {0} /\ n \in Nat /\ Symbols \in Nat /\ Length \in Nat
  <2>1. call \in Calls
    BY <1>1
  <2> QED BY <2>1, CallTypes, RailSizes, LengthType
<1>3. iq.len = 0 /\ iq.at = <<>> /\ DOMAIN iq.at = {}
  BY <1>1
<1>4. Cut = 0 /\ Laid = 0 /\ Read = 0 /\ 0 .. 0 - 1 = {}
  BY <1>1 DEF Cut, Laid, Read, Demodulating
<1>5. CssTypeOK
  BY <1>1, <1>2, <1>3 DEF CssTypeOK
<1>6. CallsFit /\ RailsRight /\ LoopsRight
  BY <1>1 DEF CallsFit, RailsRight, LoopsRight, Demodulating
<1>7. SentRight
  BY <1>1, <1>2, <1>4 DEF SentRight
<1>8. LaidOut
  BY <1>2, <1>3, <1>4 DEF LaidOut
<1>9. PhasesRight
  BY <1>4 DEF PhasesRight
<1>10. BitsRight
  <2>1. Read * 8 * n = 0
    BY <1>2, <1>4
  <2>2. [i \in 1 .. 0 |-> PayloadBit(payload, i)] = <<>>
    OBVIOUS
  <2> QED BY <1>1, <2>1, <2>2 DEF BitsRight
<1> QED BY <1>5, <1>6, <1>7, <1>8, <1>9, <1>10 DEF ModemInv

LEMMA ModemStep == ASSUME ModemInv, Next PROVE ModemInv'
BY CheckBitsStep, DemuxAndPadStep, BitsToCodewordsStep, InterleaveStep, ModQPSKStep, ModSymbolStep, ModDQCSKStep,
   AirStep, CheckLengthStep, DemodDQCSKStep, DemodSymbolStep, DemodQPSKStep, DecodeStep, MuxStep, Zenon DEF Next

\* Once the modem has raised or the baseband goes to the detector, only types are left
\* to keep.
LEMMA OffStep ==
    ASSUME ModemInv, pc' \in Off, UNCHANGED <<args, frame, rails, loop, bits, sent>>,
           iq'.len \in Nat, DOMAIN iq'.at \subseteq 0 .. iq'.len,
           \A o \in DOMAIN iq'.at : iq'.at[o] \in [k : 0 .. 3, phase : Phases]
    PROVE  ModemInv'
<1>1. CssTypeOK'
  BY DEF ModemInv, CssTypeOK, args, rails, loop, Off
<1>2. RailsRight' /\ SentRight' /\ LaidOut' /\ PhasesRight' /\ LoopsRight' /\ BitsRight'
  BY DEF RailsRight, SentRight, LaidOut, PhasesRight, LoopsRight, BitsRight, Off
<1>3. CallsFit'
  BY DEF CallsFit, Off, Demodulating
<1> QED BY <1>1, <1>2, <1>3 DEF ModemInv

LEMMA MapperPlaces ==
    ASSUME call \in Calls, NEW N, N = calc_nsym_frame(slow, n)
    PROVE  /\ N \in Nat \ {0} /\ MapperPut(call.nframes * N) \in Nat
           /\ \A j \in 0 .. call.nframes * N - 1 : MapperPut(j) \in 0 .. MapperPut(call.nframes * N)
<1>1. /\ slow \in BOOLEAN /\ n \in 1 .. 127 /\ chirp \in 1 .. 4 /\ calc_padded_zeros(slow, n) \in Nat
      /\ call.nframes \in Nat \ {0}
  BY CallTypes, RailSizes
<1>2. N \in Nat \ {0}
  BY <1>1 DEF calc_nsym_frame, len_hdrs
<1>3. Put(N) \in Nat /\ Put(0) = 0
  BY <1>1, <1>2, PutGrows
<1>4. \A j : MapperPut(j) = (j \div N) * Put(N) + Put((j % N))
  BY Zenon DEF MapperPut
<1>5. MapperPut(call.nframes * N) = call.nframes * Put(N)
  <2>1. (call.nframes * N) % N = 0 /\ (call.nframes * N) \div N = call.nframes
    <3>1. (N * call.nframes + 0) % N = 0
      BY <1>1, <1>2, ModUnique
    <3>2. (N * call.nframes) \div N = call.nframes
      BY <1>1, <1>2, WholeRows
    <3>3. N * call.nframes + 0 = call.nframes * N /\ N * call.nframes = call.nframes * N
      BY <1>1, <1>2
    <3> QED BY <3>1, <3>2, <3>3
  <2>2. call.nframes * Put(N) \in Nat
    BY <1>1, <1>3
  <2> QED BY <1>3, <1>4, <2>1, <2>2
<1>6. ASSUME NEW j \in 0 .. call.nframes * N - 1
      PROVE  MapperPut(j) \in Nat /\ MapperPut(j) <= call.nframes * Put(N)
  <2> DEFINE q == j \div N
             r == j % N
  <2>1. q \in Nat /\ r \in 0 .. N - 1 /\ j = N * q + r
    BY <1>1, <1>2
  <2> HIDE DEF q, r
  <2>2. q < call.nframes
    <3> SUFFICES ASSUME q >= call.nframes PROVE FALSE
      BY <1>1, <2>1
    <3>1. call.nframes * N \in Nat /\ q * N \in Nat /\ q * N = N * q
      BY <1>1, <1>2, <2>1
    <3>2. call.nframes * N <= q * N
      <4>1. CASE q = call.nframes
        BY <3>1, <4>1
      <4>2. CASE call.nframes < q
        BY <1>1, <1>2, <2>1, <3>1, <4>2, RowAfter
      <4> QED BY <1>1, <2>1, <4>1, <4>2
    <3> QED BY <2>1, <3>1, <3>2
  <2>3. q * Put(N) + Put(N) <= call.nframes * Put(N) /\ q * Put(N) \in Nat
    BY <1>1, <1>3, <2>1, <2>2, RowAfter
  <2>4. Put(r) \in Nat /\ Put(r) <= Put(N)
    <3>1. r \in Nat /\ r < N
      BY <1>2, <2>1
    <3>2. Put(r) \in Nat /\ Put(r) + n_sub <= Put(N)
      BY <1>1, <1>2, <3>1, PutGrows
    <3> QED BY <1>3, <3>2 DEF n_sub
  <2>5. MapperPut(j) = q * Put(N) + Put(r)
    BY <1>4 DEF q, r
  <2> QED BY <1>1, <1>3, <2>3, <2>4, <2>5
<1>7. call.nframes * Put(N) \in Nat
  BY <1>1, <1>3
<1> QED BY <1>2, <1>5, <1>6, <1>7

LEMMA MapFramesStep == ASSUME ModemInv, MapFrames PROVE ModemInv'
<1> DEFINE N == calc_nsym_frame(slow, n)
           symbols == call.nframes * N
           starts == {MapperPut(j) : j \in 0 .. symbols - 1}
           SymbolAt(o) == CHOOSE j \in 0 .. symbols - 1 : MapperPut(j) = o
<1>1. /\ pc' = "mapped" /\ UNCHANGED <<args, frame, rails, loop, bits, sent>>
      /\ iq' = [len |-> MapperPut(symbols), at |-> [o \in starts |-> [k |-> SymbolAt(o) % 4, phase |-> 0]]]
  BY Zenon DEF MapFrames
<1>2. /\ symbols \in Nat /\ MapperPut(symbols) \in Nat
      /\ \A j \in 0 .. symbols - 1 : MapperPut(j) \in 0 .. MapperPut(symbols)
  <2>1. call \in Calls /\ call.nframes \in Nat
    BY ArgsTyped DEF ModemInv
  <2>2. /\ N \in Nat \ {0} /\ MapperPut(symbols) \in Nat
        /\ \A j \in 0 .. symbols - 1 : MapperPut(j) \in 0 .. MapperPut(symbols)
    BY <2>1, MapperPlaces
  <2> QED BY <2>1, <2>2
<1> HIDE DEF symbols, N
<1>3. ASSUME NEW o \in starts PROVE SymbolAt(o) \in 0 .. symbols - 1 /\ o \in 0 .. MapperPut(symbols)
  BY <1>2
<1> HIDE DEF starts, SymbolAt
<1>4. iq'.len = MapperPut(symbols) /\ iq'.at = [o \in starts |-> [k |-> SymbolAt(o) % 4, phase |-> 0]]
  BY <1>1
<1>5. ASSUME NEW o \in DOMAIN iq'.at
      PROVE  o \in 0 .. iq'.len /\ iq'.at[o] \in [k : 0 .. 3, phase : Phases]
  <2>1. o \in starts /\ iq'.at[o] = [k |-> SymbolAt(o) % 4, phase |-> 0]
    BY <1>4
  <2>2. SymbolAt(o) % 4 \in 0 .. 3
    BY <1>2, <1>3, <2>1
  <2>3. 0 \in Phases
    BY DEF Phases, Turn
  <2> QED BY <1>3, <1>4, <2>1, <2>2, <2>3
<1> QED BY <1>1, <1>2, <1>4, <1>5, OffStep DEF Off

LEMMA TuneStep == ASSUME ModemInv, Tune PROVE ModemInv'
<1>1. pc' = "elsewhere" /\ UNCHANGED <<args, frame, rails, loop, bits, sent>>
  BY DEF Tune
<1>2. PICK f \in Fadings :
        iq' = [len |-> iq.len + Silence, at |-> [o \in {o \in DOMAIN iq.at : ~IsWeak(f, o)} |-> iq.at[o]]]
  BY Zenon DEF Tune
<1> DEFINE heard == {o \in DOMAIN iq.at : ~IsWeak(f, o)}
<1>3. iq'.len = iq.len + Silence /\ iq'.at = [o \in heard |-> iq.at[o]]
  BY <1>2
<1>4. heard \subseteq DOMAIN iq.at
  OBVIOUS
<1> HIDE DEF heard
<1>5. iq.len \in Nat /\ Silence \in Nat /\ DOMAIN iq.at \subseteq 0 .. iq.len
  BY EntryAssumption DEF ModemInv, CssTypeOK
<1>6. ASSUME NEW o \in DOMAIN iq'.at
      PROVE  o \in 0 .. iq'.len /\ iq'.at[o] \in [k : 0 .. 3, phase : Phases]
  <2>1. o \in DOMAIN iq.at /\ iq'.at[o] = iq.at[o]
    BY <1>3, <1>4
  <2> QED BY <1>3, <1>5, <2>1 DEF ModemInv, CssTypeOK
<1> QED BY <1>1, <1>3, <1>5, <1>6, OffStep DEF Off

LEMMA DetectorStep == ASSUME ModemInv, [DetectorNext]_<<vars, detector>> PROVE ModemInv'
<1>1. ASSUME UNCHANGED vars PROVE ModemInv'
  BY <1>1, StutterStep
<1>2. CASE Next /\ UNCHANGED detector
  BY <1>2, ModemStep
<1>3. CASE MapFrames
  BY <1>3, MapFramesStep
<1>4. CASE Tune
  BY <1>4, TuneStep
<1>5. CASE SearchOn
  BY <1>1, <1>5 DEF SearchOn
<1>6. CASE SearchEnds
  BY <1>1, <1>6 DEF SearchEnds
<1>7. CASE Track
  BY <1>1, <1>7 DEF Track
<1>8. CASE LoseTrack
  BY <1>1, <1>8 DEF LoseTrack
<1>9. CASE UNCHANGED <<vars, detector>>
  BY <1>1, <1>9
<1> QED BY <1>2, <1>3, <1>4, <1>5, <1>6, <1>7, <1>8, <1>9 DEF DetectorNext

LEMMA ModemInvariant == DetectorSpec => []ModemInv
<1>1. DetectorInit => ModemInv
  BY ModemInit DEF DetectorInit
<1>2. ModemInv /\ [DetectorNext]_<<vars, detector>> => ModemInv'
  BY DetectorStep
<1> QED BY <1>1, <1>2, PTL DEF DetectorSpec
-------------------------------------------------------------------------------
(* The variables of the modem have their types. *)
THEOREM CssTypeOKHolds == DetectorSpec => []CssTypeOK
<1>1. ModemInv => CssTypeOK
  BY DEF ModemInv
<1> QED BY <1>1, ModemInvariant, PTL

(* Behind the first two symbols of each frame, demod_DQPSK's loop finds the QPSK
   symbols that mod_QPSK made of the same frame, but for the channel's noise, whatever
   angle the channel turned them by. *)
THEOREM SymbolsRecoveredHolds == DetectorSpec => []SymbolsRecovered
<1>1. ModemInv => SymbolsRecovered
  <2> SUFFICES ASSUME ModemInv, pc = "demod_DQPSK", NEW j \in 3 .. Len(res)
               PROVE  Same(res[j], sent[frame * (Len(sent) \div call.nframes) + j])
    BY Zenon DEF SymbolsRecovered
  <2>1. /\ frame \in 0 .. call.nframes - 1 /\ frame \in Nat /\ call.nframes \in Nat /\ Symbols \in Nat /\ Symbols >= 48
        /\ Laid = call.nframes /\ ~Clean /\ pc \notin Off
    <3>1. pc \in Demodulating
      BY DEF Demodulating
    <3> QED BY <3>1, Receiving
  <2>2. j \in 3 .. Symbols
    BY <2>1, ReceivedLoop
  <2>3. Same(res[j], SymbolsOf(frame)[j])
    BY <2>2, ReceivedLoop
  <2>4. Len(sent) = call.nframes * Symbols /\ sent[frame * Symbols + j] = SymbolsOf(frame)[j]
    <3>1. Cut = call.nframes
      BY DEF Cut, Modulating
    <3>2. j \in 1 .. Symbols
      BY <2>1, <2>2
    <3> QED BY <2>1, <3>1, <3>2 DEF ModemInv, SentRight
  <2>5. Len(sent) \div call.nframes = Symbols
    BY <2>1, <2>4, WholeRows
  <2> QED BY <2>3, <2>4, <2>5
<1> QED BY <1>1, ModemInvariant, PTL

(* What demodulate returns is what was given to modulate, for every rate, size and
   number of frames, every chirp, rotation and noise: at the rates and sizes for which
   the two disagree on a frame's length, demodulate raises and returns nothing. *)
THEOREM RoundTripHolds == DetectorSpec => []RoundTrip
<1>1. ModemInv => RoundTrip
  <2> SUFFICES ASSUME ModemInv, pc = "returned" PROVE bits = [i \in 1 .. Bits |-> PayloadBit(payload, i)]
    BY DEF RoundTrip
  <2>1. call.nframes \in Nat /\ n \in Nat /\ call.missing = 0
    BY ArgsTyped DEF ModemInv, CallsFit, Off
  <2>2. Bits = call.nframes * 8 * n
    BY <2>1 DEF Bits
  <2>3. bits = [i \in 1 .. call.nframes * 8 * n |-> PayloadBit(payload, i)]
    BY DEF ModemInv, BitsRight, Read, Demodulating, Off
  <2> QED BY <2>2, <2>3
<1> QED BY <1>1, ModemInvariant, PTL
-------------------------------------------------------------------------------
(* The detector. *)

\* Where chirp c lies, counted over all frames, and the gap behind it.
Chirp(c) == Put(4 * c)
GapBehind(c) == IF c % 2 = 0 THEN time_gap_1(chirp) ELSE time_gap_2(chirp)

\* The gap that the detector goes over when its counter is ctr, and whether the
\* second one is right behind chirp c.
GapFor(ctr) == IF ctr = 0 THEN time_gap_1(chirp) ELSE time_gap_2(chirp)
SecondIsRight(c) == c % 2 = 1 \/ time_gap_1(chirp) = time_gap_2(chirp)

\* The frames of dqcsk_mapper_fc keep the gaps alternating: one frame, gaps of one
\* length, or frames of an even number of chirps.
EvenFrames ==
    \A c \in Mapped :
        \/ c.nframes = 1
        \/ chirp_number(c.chirp) = 4
        \/ calc_nsym_frame(c.slow, phy_packetsize_bytes(c.bytes)) % 8 = 0

\* What the radio brings is made of chirps at their places, with subchirps missing.
ChirpsLaid ==
    pc \in {"mapped", "elsewhere"} =>
        \A o \in DOMAIN iq.at : \E c \in Nat, r \in 0 .. 3 : o = Chirp(c) + n_sub * r /\ iq.at[o].k = r

DetectorTypes ==
    /\ d_state \in {"SEARCH", "TRACKING"} /\ d_subchirp_ctr \in 0 .. 3 /\ d_chirp_ctr \in 0 .. 1
    /\ nitems_read \in Nat
    /\ d_state = "SEARCH" => d_subchirp_ctr = 0 /\ d_chirp_ctr = 0
    /\ pc # "elsewhere" => d_state = "SEARCH" /\ found = {}

\* No two symbols are detected within a subchirp's length.
FoundApart ==
    /\ found \subseteq Nat
    /\ \A x \in found : x + n_sub <= nitems_read
    /\ \A x, y \in found : x < y => x + n_sub <= y

\* The detector that tracks is at a subchirp of some chirp, or behind it by the gap it
\* believes in; the second gap it takes only where that is right.
Aligned ==
    d_state = "TRACKING" =>
        \E c \in Nat, d \in -Slack .. Slack :
            IF d_subchirp_ctr # 0
            THEN /\ nitems_read = Chirp(c) + n_sub * d_subchirp_ctr + d
                 /\ d_chirp_ctr = 1 => SecondIsRight(c)
            ELSE /\ nitems_read = Chirp(c) + 4 * n_sub + GapFor(1 - d_chirp_ctr) + d
                 /\ d_chirp_ctr = 0 => SecondIsRight(c)

\* The windows over the threshold that belong to subchirp k of the chirp at o.
Peak(o, k) == (o + n_sub * k) - Slack .. (o + n_sub * k) + Slack

\* The chirp at o is tracked from its first symbol to its last, and those of its
\* symbols that the detector has passed are found.
HeardAt(o) ==
    /\ nitems_read \in o + Slack + 1 .. o + 3 * n_sub + Slack =>
            /\ d_state = "TRACKING" /\ d_subchirp_ctr # 0
            /\ nitems_read \in Peak(o, d_subchirp_ctr)
    /\ \A k \in 0 .. 3 : o + n_sub * k + Slack < nitems_read => found \cap Peak(o, k) # {}

Heard == pc = "elsewhere" => \A o \in DOMAIN iq.at : HearableAt(o) => HeardAt(o)

DetectorInv == ChirpsLaid /\ DetectorTypes /\ FoundApart /\ Aligned /\ Heard

LEMMA SmallestIs ==
    ASSUME NEW T, T \subseteq Nat, T # {}
    PROVE  Min(T) \in T /\ \A x \in T : Min(T) <= x
<1>1. PICK m \in T : \A x \in T : ~(<<x, m>> \in OpToRel(<, Nat))
  BY NatLessThanWellFounded, WFMin, Zenon
<1>2. ASSUME NEW x \in T, x < m PROVE FALSE
  <2> DEFINE pair == <<x, m>>
  <2>1. pair \in Nat \X Nat /\ pair[1] = x /\ pair[2] = m
    OBVIOUS
  <2>2. ~(pair \in OpToRel(<, Nat))
    BY <1>1, Zenon
  <2> HIDE DEF pair
  <2>3. pair[1] < pair[2]
    BY <1>2, <2>1
  <2> QED BY <2>1, <2>2, <2>3, Zenon DEF OpToRel
<1>3. \A x \in T : m <= x
  BY <1>2
<1> QED BY <1>3 DEF Min

LEMMA ChirpPlaces ==
    ASSUME chirp \in 1 .. 4
    PROVE  /\ \A c \in Nat : /\ Chirp(c) \in Nat
                             /\ Chirp(c + 1) = Chirp(c) + 152 + GapBehind(c)
           /\ \A b, c \in Nat : b < c => Chirp(b) + 152 + GapBehind(b) <= Chirp(c)
           /\ \A j \in Nat : j \div 4 \in Nat /\ j % 4 \in 0 .. 3 /\ Put(j) = Chirp(j \div 4) + 38 * (j % 4)
<1>1. PICK tau \in {0, 5, 10, 15} : time_gap_1(chirp) = 40 - 2 * tau /\ time_gap_2(chirp) = 40 + 2 * tau
  BY Gaps
<1> DEFINE G(c, t) == IF c % 2 = 0 THEN 40 - 2 * t ELSE 40 + 2 * t
           C(c, t) == 152 * c + (40 - 2 * t) * ((c + 1) \div 2) + (40 + 2 * t) * (c \div 2)
<1>2. \A c \in Nat : GapBehind(c) = G(c, tau)
  BY <1>1 DEF GapBehind
<1>3. \A c \in Nat : Chirp(c) = C(c, tau)
  <2> TAKE c \in Nat
  <2>1. (4 * c) \div 4 = c
    OBVIOUS
  <2>2. Put(4 * c) = n_sub * (4 * c) + time_gap_1(chirp) * ((c + 1) \div 2) + time_gap_2(chirp) * (c \div 2)
    BY <2>1 DEF Put
  <2>3. n_sub * (4 * c) = 152 * c
    BY DEF n_sub
  <2> QED BY <1>1, <2>2, <2>3 DEF Chirp
<1>4. /\ \A c \in Nat : C(c, tau) \in Nat /\ C(c + 1, tau) = C(c, tau) + 152 + G(c, tau)
      /\ \A b, c \in Nat : b < c => C(b, tau) + 152 + G(b, tau) <= C(c, tau)
  <2>1. CASE tau = 0
    BY <2>1
  <2>2. CASE tau = 5
    BY <2>2
  <2>3. CASE tau = 10
    BY <2>3
  <2>4. CASE tau = 15
    BY <2>4
  <2> QED BY <2>1, <2>2, <2>3, <2>4
<1>5. ASSUME NEW j \in Nat
      PROVE  j \div 4 \in Nat /\ j % 4 \in 0 .. 3 /\ Put(j) = Chirp(j \div 4) + 38 * (j % 4)
  <2> DEFINE c == j \div 4
  <2>1. c \in Nat /\ j % 4 \in 0 .. 3 /\ j = 4 * c + (j % 4)
    OBVIOUS
  <2>2. Put(j) = n_sub * j + time_gap_1(chirp) * ((c + 1) \div 2) + time_gap_2(chirp) * (c \div 2)
    BY DEF Put
  <2> HIDE DEF c
  <2>3. n_sub * j = 152 * c + 38 * (j % 4)
    BY <2>1 DEF n_sub
  <2>4. Chirp(c) = C(c, tau)
    BY <1>3, <2>1
  <2>5. Put(j) = Chirp(c) + 38 * (j % 4)
    <3> DEFINE u == (c + 1) \div 2
               w == c \div 2
    <3>1. u \in Nat /\ w \in Nat
      BY <2>1
    <3>2. Put(j) = 152 * c + 38 * (j % 4) + (40 - 2 * tau) * u + (40 + 2 * tau) * w
      BY <1>1, <2>2, <2>3
    <3>3. Chirp(c) = 152 * c + (40 - 2 * tau) * u + (40 + 2 * tau) * w
      BY <2>4
    <3> HIDE DEF u, w
    <3>4. (40 - 2 * tau) * u \in Int /\ (40 + 2 * tau) * w \in Int
      BY <3>1
    <3> QED BY <2>1, <3>2, <3>3, <3>4
  <2> QED BY <2>1, <2>5 DEF c
<1> HIDE DEF C, G
<1>6. \A c \in Nat : c + 1 \in Nat
  OBVIOUS
<1> QED BY <1>2, <1>3, <1>4, <1>5, <1>6

LEMMA GapSizes ==
    ASSUME chirp \in 1 .. 4
    PROVE  /\ time_gap_1(chirp) \in 10 .. 40 /\ time_gap_2(chirp) \in 40 .. 70
           /\ time_gap_1(chirp) = time_gap_2(chirp) \/ time_gap_1(chirp) + 20 <= time_gap_2(chirp)
           /\ Slack \in 0 .. 9
<1>1. PICK tau \in {0, 5, 10, 15} : time_gap_1(chirp) = 40 - 2 * tau /\ time_gap_2(chirp) = 40 + 2 * tau
  BY Gaps
<1>2. Slack \in 0 .. 9
  BY SlackAssumption DEF n_sub
<1> QED BY <1>1, <1>2

\* Subchirps that are less than a subchirp's length apart are the same.
LEMMA SameSubchirp ==
    ASSUME chirp \in 1 .. 4, NEW b \in Nat, NEW c \in Nat, NEW r \in 0 .. 3, NEW s \in 0 .. 3,
           Chirp(b) + 38 * r < Chirp(c) + 38 * s + 38, Chirp(c) + 38 * s < Chirp(b) + 38 * r + 38
    PROVE  b = c /\ r = s
<1>1. Chirp(b) \in Nat /\ Chirp(c) \in Nat
  BY ChirpPlaces
<1>2. GapBehind(b) \in 10 .. 70 /\ GapBehind(c) \in 10 .. 70
  BY GapSizes DEF GapBehind
<1>3. CASE b < c
  <2>1. Chirp(b) + 152 + GapBehind(b) <= Chirp(c)
    BY <1>3, ChirpPlaces
  <2> QED BY <1>1, <1>2, <2>1
<1>4. CASE c < b
  <2>1. Chirp(c) + 152 + GapBehind(c) <= Chirp(b)
    BY <1>4, ChirpPlaces
  <2> QED BY <1>1, <1>2, <2>1
<1>5. CASE b = c
  BY <1>1, <1>5
<1> QED BY <1>3, <1>4, <1>5

\* The gaps repeat with every two chirps.
LEMMA PutOn ==
    ASSUME chirp \in 1 .. 4, NEW x \in Nat, NEW i \in Nat
    PROVE  Put(8 * x + i) = 384 * x + Put(i)
<1>1. PICK tau \in {0, 5, 10, 15} : time_gap_1(chirp) = 40 - 2 * tau /\ time_gap_2(chirp) = 40 + 2 * tau
  BY Gaps
<1> DEFINE P(h, t) == 38 * h + (40 - 2 * t) * ((h \div 4 + 1) \div 2) + (40 + 2 * t) * ((h \div 4) \div 2)
           v == i \div 4
<1>2. \A h \in Nat : Put(h) = P(h, tau)
  BY <1>1 DEF Put, n_sub
<1>3. v \in Nat /\ (8 * x + i) \div 4 = 2 * x + v
  OBVIOUS
<1> HIDE DEF v
<1>4. (2 * x + v + 1) \div 2 = x + (v + 1) \div 2 /\ (2 * x + v) \div 2 = x + v \div 2
  BY <1>3
<1>5. P(8 * x + i, tau) = 384 * x + P(i, tau)
  <2>1. CASE tau = 0
    BY <1>3, <1>4, <2>1 DEF v
  <2>2. CASE tau = 5
    BY <1>3, <1>4, <2>2 DEF v
  <2>3. CASE tau = 10
    BY <1>3, <1>4, <2>3 DEF v
  <2>4. CASE tau = 15
    BY <1>3, <1>4, <2>4 DEF v
  <2> QED BY <2>1, <2>2, <2>3, <2>4
<1> HIDE DEF P
<1>6. 8 * x + i \in Nat
  OBVIOUS
<1> QED BY <1>2, <1>5, <1>6

\* Where dqcsk_mapper_fc begins its gaps anew with a frame, they would be the same had
\* it gone on alternating.
LEMMA MapperIsPut ==
    ASSUME call \in Calls, call \in Mapped, EvenFrames,
           NEW j \in 0 .. call.nframes * calc_nsym_frame(slow, n) - 1
    PROVE  MapperPut(j) = Put(j)
<1> DEFINE N == calc_nsym_frame(slow, n)
           f == j \div N
           i == j % N
<1>1. /\ slow \in BOOLEAN /\ n \in 1 .. 127 /\ chirp \in 1 .. 4 /\ calc_padded_zeros(slow, n) \in Nat
      /\ call.nframes \in Nat \ {0}
  BY CallTypes, RailSizes
<1>2. N \in Nat \ {0} /\ N % 4 = 0
  <2>1. CASE slow
    <3> DEFINE K == (2 * n + 8) \div 6
    <3>1. K \in Nat
      BY <1>1
    <3>2. 12 + 8 * n + calc_padded_zeros(slow, n) = 24 * K + 6 * n
      BY <1>1, <2>1 DEF calc_padded_zeros
    <3> HIDE DEF K
    <3>3. ((24 * K + 6 * n) * 8) \div 3 = 64 * K + 16 * n
      BY <1>1, <3>1
    <3>4. N = len_hdrs(slow) + ((12 + 8 * n + calc_padded_zeros(slow, n)) * 8) \div 3
      BY <2>1 DEF calc_nsym_frame
    <3>5. len_hdrs(slow) = 96
      BY <2>1 DEF len_hdrs
    <3>6. N = 96 + (64 * K + 16 * n)
      BY <3>2, <3>3, <3>4, <3>5, Zenon
    <3> QED BY <1>1, <3>1, <3>6
  <2>2. CASE ~slow
    <3> DEFINE K == (4 * n + 2) \div 3
    <3>1. K \in Nat
      BY <1>1
    <3>2. 12 + 8 * n + calc_padded_zeros(slow, n) = 6 * (K + 2)
      BY <1>1, <2>2 DEF calc_padded_zeros
    <3> HIDE DEF K
    <3>3. (6 * (K + 2) * 2) \div 3 = 4 * (K + 2)
      BY <1>1, <3>1
    <3>4. N = 48 + 4 * (K + 2)
      BY <1>1, <2>2, <3>1, <3>2, <3>3 DEF calc_nsym_frame, len_hdrs
    <3> QED BY <1>1, <3>1, <3>4
  <2> QED BY <1>1, <2>1, <2>2
<1>3. call.nframes = 1 \/ chirp = 4 \/ N % 8 = 0
  BY DEF EvenFrames, chirp, slow, n
<1>4. MapperPut(j) = f * Put(N) + Put(i)
  BY Zenon DEF MapperPut
<1> HIDE DEF N
<1>5. j \in Nat /\ f \in Nat /\ i \in 0 .. N - 1 /\ j = N * f + i
  <2>1. call.nframes * N \in Nat
    BY <1>1, <1>2
  <2> QED BY <1>2, <2>1 DEF N
<1> HIDE DEF f, i
<1>6. PICK tau \in {0, 5, 10, 15} : time_gap_1(chirp) = 40 - 2 * tau /\ time_gap_2(chirp) = 40 + 2 * tau
  BY <1>1, Gaps
<1> DEFINE P(h, t) == 38 * h + (40 - 2 * t) * ((h \div 4 + 1) \div 2) + (40 + 2 * t) * ((h \div 4) \div 2)
<1>7. \A h \in Nat : Put(h) = P(h, tau)
  BY <1>6 DEF Put, n_sub
<1>8. CASE call.nframes = 1
  <2>1. j < N /\ N * f <= j /\ Put(i) \in Nat
    <3>1. j \in 0 .. N - 1
      BY <1>2, <1>8 DEF N
    <3>2. N * f \in Nat /\ i \in Nat
      BY <1>2, <1>5
    <3>3. Put(i) \in Nat
      BY <1>1, <3>2, PutGrows
    <3> QED BY <1>2, <1>5, <3>1, <3>2, <3>3
  <2>2. f = 0
    <3> SUFFICES ASSUME f >= 1 PROVE FALSE
      BY <1>5
    <3>1. CASE f = 1
      BY <1>2, <2>1, <3>1
    <3>2. CASE 1 < f
      <4>1. 1 * N + N <= f * N
        BY <1>2, <1>5, <3>2, RowAfter
      <4>2. f * N = N * f /\ f * N \in Nat
        BY <1>2, <1>5
      <4> QED BY <1>2, <1>5, <2>1, <4>1, <4>2
    <3> QED BY <1>5, <3>1, <3>2
  <2>3. i = j /\ f * Put(N) = 0
    <3>1. Put(N) \in Nat
      BY <1>1, <1>2, PutGrows
    <3>2. N * f = 0
      BY <1>2, <2>2
    <3> QED BY <1>2, <1>5, <2>2, <3>1, <3>2
  <2> QED BY <1>4, <2>1, <2>3
<1>9. CASE chirp = 4
  <2>1. tau = 0
    BY <1>6, <1>9 DEF time_gap_1, n_tau, n_chirp, n_sub
  <2>2. \A h \in Nat : Put(h) = 38 * h + 40 * (h \div 4)
    <3> TAKE h \in Nat
    <3>1. Put(h) = P(h, 0)
      BY <1>7, <2>1
    <3> QED BY <3>1
  <2>3. PICK k \in Nat : N = 4 * k
    <3>1. N \div 4 \in Nat /\ N = 4 * (N \div 4)
      BY <1>2
    <3> QED BY <3>1
  <2>4. Put(N) = 192 * k
    BY <1>2, <2>2, <2>3
  <2>5. f * Put(N) = 192 * (k * f) /\ j = 4 * (k * f) + i /\ k * f \in Nat
    BY <1>5, <2>3, <2>4
  <2>6. Put(i) = 38 * i + 40 * (i \div 4) /\ Put(j) = 38 * j + 40 * (j \div 4)
    BY <1>2, <1>5, <2>2
  <2> DEFINE x == k * f
  <2>7. x \in Nat /\ f * Put(N) = 192 * x /\ j = 4 * x + i /\ i \in Nat
    BY <1>2, <1>5, <2>5
  <2> HIDE DEF x
  <2>8. j \div 4 = x + i \div 4
    BY <2>7
  <2> QED BY <1>4, <2>6, <2>7, <2>8
<1>10. CASE N % 8 = 0
  <2>1. PICK k \in Nat : N = 8 * k
    <3>1. N \div 8 \in Nat /\ N = 8 * (N \div 8)
      BY <1>2, <1>10
    <3> QED BY <3>1
  <2>2. Put(N) = 384 * k
    BY <1>1, <2>1, PutGrows
  <2> DEFINE x == k * f
  <2>3. x \in Nat /\ f * Put(N) = 384 * x /\ j = 8 * x + i /\ i \in Nat
    BY <1>2, <1>5, <2>1, <2>2
  <2> HIDE DEF x
  <2>4. Put(8 * x + i) = 384 * x + Put(i) /\ Put(i) \in Nat
    BY <1>1, <2>3, PutOn, PutGrows
  <2> QED BY <1>4, <2>3, <2>4
<1> QED BY <1>3, <1>8, <1>9, <1>10

LEMMA ChirpsKept ==
    ASSUME UNCHANGED call
    PROVE  /\ UNCHANGED <<chirp, time_gap_1(chirp), time_gap_2(chirp)>>
           /\ \A c : Chirp(c)' = Chirp(c) /\ SecondIsRight(c)' = SecondIsRight(c)
           /\ \A a : GapFor(a)' = GapFor(a)
<1>1. UNCHANGED chirp
  BY DEF chirp
<1>2. UNCHANGED <<time_gap_1(chirp), time_gap_2(chirp)>>
  BY <1>1
<1>3. \A c : Chirp(c)' = Chirp(c)
  BY <1>2 DEF Chirp, Put
<1>4. \A c : SecondIsRight(c)' = SecondIsRight(c)
  BY <1>2 DEF SecondIsRight
<1>5. \A a : GapFor(a)' = GapFor(a)
  BY <1>2 DEF GapFor
<1> QED BY <1>1, <1>2, <1>3, <1>4, <1>5

LEMMA MapFramesLays == ASSUME ModemInv, EvenFrames, MapFrames PROVE ChirpsLaid'
<1> DEFINE symbols == call.nframes * calc_nsym_frame(slow, n)
           starts == {MapperPut(j) : j \in 0 .. symbols - 1}
           SymbolAt(o) == CHOOSE j \in 0 .. symbols - 1 : MapperPut(j) = o
<1>1. /\ call' = call /\ call \in Mapped
      /\ iq' = [len |-> MapperPut(symbols), at |-> [o \in starts |-> [k |-> SymbolAt(o) % 4, phase |-> 0]]]
  BY Zenon DEF MapFrames, args
<1>2. call \in Calls /\ chirp \in 1 .. 4
  BY ArgsTyped, CallTypes DEF ModemInv
<1>3. symbols \in Nat
  <2>1. calc_nsym_frame(slow, n) \in Nat /\ call.nframes \in Nat
    BY <1>2, MapperPlaces, CallTypes
  <2> QED BY <2>1
<1>4. \A j \in 0 .. symbols - 1 : MapperPut(j) = Put(j)
  BY <1>1, <1>2, MapperIsPut
<1>5. ASSUME NEW o \in starts PROVE SymbolAt(o) \in 0 .. symbols - 1 /\ o = MapperPut(SymbolAt(o))
  OBVIOUS
<1> HIDE DEF symbols, starts, SymbolAt
<1>6. iq'.at = [o \in starts |-> [k |-> SymbolAt(o) % 4, phase |-> 0]]
  BY <1>1
<1>7. \A c : Chirp(c)' = Chirp(c)
  BY <1>1, ChirpsKept
<1> SUFFICES ASSUME NEW o \in DOMAIN iq'.at
             PROVE  \E c \in Nat, r \in 0 .. 3 : o = Chirp(c)' + n_sub * r /\ iq'.at[o].k = r
  BY Zenon DEF ChirpsLaid
<1> DEFINE j == SymbolAt(o)
<1>8. o \in starts /\ iq'.at[o] = [k |-> j % 4, phase |-> 0]
  BY <1>6
<1>9. iq'.at[o].k = j % 4
  BY <1>8
<1>10. j \in Nat /\ o = Put(j)
  BY <1>3, <1>4, <1>5, <1>8
<1> HIDE DEF j
<1>11. j \div 4 \in Nat /\ j % 4 \in 0 .. 3 /\ o = Chirp(j \div 4) + 38 * (j % 4)
  BY <1>2, <1>10, ChirpPlaces
<1> QED BY <1>7, <1>9, <1>11 DEF n_sub

LEMMA TuneKeepsChirps == ASSUME ModemInv, ChirpsLaid, Tune PROVE ChirpsLaid'
<1>1. call' = call /\ pc \in {"air", "mapped"}
  BY DEF Tune, args
<1>2. PICK f \in Fadings :
        iq' = [len |-> iq.len + Silence, at |-> [o \in {o \in DOMAIN iq.at : ~IsWeak(f, o)} |-> iq.at[o]]]
  BY Zenon DEF Tune
<1>3. \A o \in DOMAIN iq'.at : o \in DOMAIN iq.at /\ iq'.at[o] = iq.at[o]
  <2> DEFINE strong == {o \in DOMAIN iq.at : ~IsWeak(f, o)}
  <2>1. iq'.at = [o \in strong |-> iq.at[o]]
    BY <1>2
  <2>2. strong \subseteq DOMAIN iq.at
    OBVIOUS
  <2> HIDE DEF strong
  <2> QED BY <2>1, <2>2
<1>4. \A c : Chirp(c)' = Chirp(c)
  BY <1>1, ChirpsKept
<1> SUFFICES ASSUME NEW o \in DOMAIN iq.at
             PROVE  \E c \in Nat, r \in 0 .. 3 : o = Chirp(c) + n_sub * r /\ iq.at[o].k = r
  <2>1. \A o \in DOMAIN iq'.at : \E c \in Nat, r \in 0 .. 3 : o = Chirp(c)' + n_sub * r /\ iq'.at[o].k = r
    BY <1>3, <1>4, Zenon
  <2> QED BY <2>1, Zenon DEF ChirpsLaid
<1>5. CASE pc = "mapped"
  BY <1>5 DEF ChirpsLaid
<1>6. CASE pc = "air"
  <2>1. /\ call \in Calls /\ chirp \in 1 .. 4 /\ Symbols \in Nat
        /\ RailBits % bits_per_symbol(slow) = 0 /\ (slow => RailChips % 64 = 0)
    BY <1>6, ArgsTyped, CallTypes, RailSizes DEF ModemInv, CallsFit
  <2>2. PICK k \in Nat : Length = 384 * k
    BY <2>1, FrameSizes
  <2>3. PICK g \in 0 .. Laid - 1, j \in 0 .. Symbols - 1 : o = Place(g, j) /\ iq.at[o].k = j % 4
    <3>1. pc \notin Off
      BY <1>6 DEF Off
    <3>2. /\ \A p \in DOMAIN iq.at : \E h \in 0 .. Laid - 1, i \in 0 .. Symbols - 1 : p = Place(h, i)
          /\ \A h \in 0 .. Laid - 1, i \in 0 .. Symbols - 1 : iq.at[Place(h, i)].k = i % 4
      BY <3>1, Zenon DEF ModemInv, LaidOut
    <3> QED BY <3>2
  <2>4. g \in Nat /\ j \in Nat
    <3>1. Laid \in Nat
      <4>1. call.nframes \in Nat
        BY <2>1, CallTypes
      <4>2. Laid = call.nframes
        BY <1>6 DEF Laid, Modulating
      <4> QED BY <4>1, <4>2
    <3> QED BY <2>1, <3>1
  <2> DEFINE x == k * g
             m == 8 * x + j
  <2>5. x \in Nat /\ g * Length = 384 * x
    BY <2>2, <2>4
  <2> HIDE DEF x
  <2>6. o = 384 * x + Put(j)
    BY <2>3, <2>5 DEF Place
  <2>7. m \in Nat /\ m % 4 = j % 4
    BY <2>4, <2>5
  <2>8. o = Put(m)
    BY <2>1, <2>4, <2>5, <2>6, PutOn
  <2> HIDE DEF m
  <2>9. m \div 4 \in Nat /\ m % 4 \in 0 .. 3 /\ o = Chirp(m \div 4) + 38 * (m % 4)
    BY <2>1, <2>7, <2>8, ChirpPlaces
  <2> QED BY <2>3, <2>7, <2>9 DEF n_sub
<1> QED BY <1>1, <1>5, <1>6

\* A window over the threshold is at a subchirp of the kind looked for ...
LEMMA PeakIsChirp ==
    ASSUME ChirpsLaid, pc = "elsewhere", NEW p \in Nat, OverThreshold(p), d_subchirp_ctr \in 0 .. 3
    PROVE  \E c \in Nat : p \in Peak(Chirp(c), d_subchirp_ctr)
<1>1. PICK o \in (p - Slack .. p + Slack) \cap DOMAIN iq.at : iq.at[o].k = d_subchirp_ctr
  BY Zenon DEF OverThreshold
<1>2. PICK c \in Nat, r \in 0 .. 3 : o = Chirp(c) + n_sub * r /\ iq.at[o].k = r
  BY <1>1, Zenon DEF ChirpsLaid
<1>3. o = Chirp(c) + n_sub * d_subchirp_ctr
  BY <1>1, <1>2
<1>4. o \in Int /\ Slack \in Nat /\ p - Slack <= o /\ o <= p + Slack
  BY <1>1, SlackAssumption
<1> DEFINE x == Chirp(c) + n_sub * d_subchirp_ctr
<1>5. p \in x - Slack .. x + Slack
  BY <1>3, <1>4
<1>6. p \in Peak(Chirp(c), d_subchirp_ctr)
  BY <1>5, Zenon DEF Peak
<1> QED BY <1>6

\* ... and those of a chirp that can be heard are all over it.
LEMMA PeakIsOver ==
    ASSUME NEW o \in Nat, HearableAt(o), d_subchirp_ctr \in 0 .. 3, NEW p \in Peak(o, d_subchirp_ctr)
    PROVE  OverThreshold(p)
<1> DEFINE x == o + d_subchirp_ctr * n_sub
<1>1. x \in DOMAIN iq.at /\ iq.at[x].k = d_subchirp_ctr
  BY Zenon DEF HearableAt
<1>2. x \in p - Slack .. p + Slack
  BY SlackAssumption DEF Peak, n_sub
<1> HIDE DEF x
<1> QED BY <1>1, <1>2 DEF OverThreshold

LEMMA HearableChirp ==
    ASSUME ChirpsLaid, pc = "elsewhere", call \in Calls, NEW o \in DOMAIN iq.at, HearableAt(o)
    PROVE  o \in Nat /\ \E c \in Nat : o = Chirp(c)
<1>1. PICK c \in Nat, r \in 0 .. 3 : o = Chirp(c) + n_sub * r /\ iq.at[o].k = r
  BY Zenon DEF ChirpsLaid
<1>2. chirp \in 1 .. 4
  BY CallTypes
<1>3. Chirp(c) \in Nat
  BY <1>2, ChirpPlaces
<1>4. o \in Nat
  BY <1>1, <1>3 DEF n_sub
<1>5. 0 \in 0 .. 3 /\ o + 0 * n_sub = o
  BY <1>4 DEF n_sub
<1>6. iq.at[o + 0 * n_sub].k = 0
  BY <1>5, Zenon DEF HearableAt
<1>7. r = 0
  BY <1>1, <1>5, <1>6
<1> QED BY <1>1, <1>3, <1>4, <1>7 DEF n_sub

\* A symbol is detected only where the detector may believe in its gaps.
LEMMA GapIsRight ==
    ASSUME ChirpsLaid, DetectorTypes, Aligned, pc = "elsewhere", call \in Calls, OverThreshold(nitems_read)
    PROVE  \E c \in Nat : /\ nitems_read \in Peak(Chirp(c), d_subchirp_ctr)
                          /\ d_chirp_ctr = 1 => SecondIsRight(c)
<1>1. /\ d_state \in {"SEARCH", "TRACKING"} /\ d_subchirp_ctr \in 0 .. 3 /\ d_chirp_ctr \in 0 .. 1
      /\ nitems_read \in Nat /\ (d_state = "SEARCH" => d_chirp_ctr = 0)
  BY DEF DetectorTypes
<1>2. PICK c \in Nat : nitems_read \in Peak(Chirp(c), d_subchirp_ctr)
  BY <1>1, PeakIsChirp
<1>3. chirp \in 1 .. 4 /\ Chirp(c) \in Nat
  BY CallTypes, ChirpPlaces
<1>4. /\ time_gap_1(chirp) \in 10 .. 40 /\ time_gap_2(chirp) \in 40 .. 70 /\ Slack \in 0 .. 9
      /\ time_gap_1(chirp) = time_gap_2(chirp) \/ time_gap_1(chirp) + 20 <= time_gap_2(chirp)
  BY <1>3, GapSizes
<1>5. /\ Chirp(c) + 38 * d_subchirp_ctr - Slack <= nitems_read
      /\ nitems_read <= Chirp(c) + 38 * d_subchirp_ctr + Slack
  BY <1>1, <1>2, <1>3, <1>4 DEF Peak, n_sub
<1>6. d_chirp_ctr = 1 => SecondIsRight(c)
  <2> SUFFICES ASSUME d_chirp_ctr = 1 PROVE SecondIsRight(c)
    OBVIOUS
  <2>1. d_state = "TRACKING"
    BY <1>1
  <2>2. PICK b \in Nat, d \in -Slack .. Slack :
            IF d_subchirp_ctr # 0
            THEN /\ nitems_read = Chirp(b) + n_sub * d_subchirp_ctr + d
                 /\ d_chirp_ctr = 1 => SecondIsRight(b)
            ELSE /\ nitems_read = Chirp(b) + 4 * n_sub + GapFor(1 - d_chirp_ctr) + d
                 /\ d_chirp_ctr = 0 => SecondIsRight(b)
    BY <2>1, Zenon DEF Aligned
  <2>3. Chirp(b) \in Nat /\ Chirp(b + 1) \in Nat /\ Chirp(b + 1) = Chirp(b) + 152 + GapBehind(b)
        /\ GapBehind(b) \in 10 .. 70
    <3>1. b + 1 \in Nat
      OBVIOUS
    <3>2. GapBehind(b) \in 10 .. 70
      BY <1>4 DEF GapBehind
    <3> QED BY <1>3, <3>1, <3>2, ChirpPlaces
  <2>4. CASE d_subchirp_ctr # 0
    <3>1. nitems_read = Chirp(b) + 38 * d_subchirp_ctr + d /\ SecondIsRight(b)
      BY <2>2, <2>4 DEF n_sub
    <3>2. b = c
      <4>1. /\ Chirp(b) + 38 * d_subchirp_ctr < Chirp(c) + 38 * d_subchirp_ctr + 38
            /\ Chirp(c) + 38 * d_subchirp_ctr < Chirp(b) + 38 * d_subchirp_ctr + 38
        BY <1>1, <1>3, <1>4, <1>5, <2>3, <3>1
      <4> QED BY <1>1, <1>3, <4>1, SameSubchirp
    <3> QED BY <3>1, <3>2
  <2>5. CASE d_subchirp_ctr = 0
    <3>1. nitems_read = Chirp(b) + 152 + time_gap_1(chirp) + d
      BY <2>2, <2>5 DEF n_sub, GapFor
    <3>2. Chirp(c) - Slack <= nitems_read /\ nitems_read <= Chirp(c) + Slack
      BY <1>3, <1>4, <1>5, <2>5
    <3>3. CASE SecondIsRight(b)
      <4>1. CASE time_gap_1(chirp) = time_gap_2(chirp)
        BY <4>1 DEF SecondIsRight
      <4>2. CASE b % 2 = 1 /\ time_gap_1(chirp) + 20 <= time_gap_2(chirp)
        <5>1. Chirp(b + 1) = Chirp(b) + 152 + time_gap_2(chirp)
          BY <2>3, <4>2 DEF GapBehind
        <5>2. Chirp(c) < Chirp(b + 1) /\ Chirp(b) < Chirp(c)
          BY <1>3, <1>4, <2>3, <3>1, <3>2, <4>2, <5>1
        <5>3. CASE b + 1 < c
          <6>1. b + 1 \in Nat /\ Chirp(b + 1) + 152 + GapBehind(b + 1) <= Chirp(c)
            BY <1>3, <5>3, ChirpPlaces
          <6>2. GapBehind(b + 1) \in 10 .. 70
            BY <1>4 DEF GapBehind
          <6> QED BY <1>3, <1>4, <2>3, <5>2, <6>1, <6>2
        <5>4. CASE c = b + 1
          BY <1>3, <1>4, <5>2, <5>4
        <5>5. CASE c = b
          BY <1>3, <5>2, <5>5
        <5>6. CASE c < b
          <6>1. Chirp(c) + 152 + GapBehind(c) <= Chirp(b)
            BY <1>3, <5>6, ChirpPlaces
          <6>2. GapBehind(c) \in 10 .. 70
            BY <1>4 DEF GapBehind
          <6> QED BY <1>3, <2>3, <5>2, <6>1, <6>2
        <5> QED BY <5>3, <5>4, <5>5, <5>6
      <4> QED BY <1>4, <3>3, <4>1, <4>2 DEF SecondIsRight
    <3>4. CASE ~SecondIsRight(b)
      <4>1. b % 2 = 0 /\ Chirp(b + 1) = Chirp(b) + 152 + time_gap_1(chirp)
        BY <2>3, <3>4 DEF SecondIsRight, GapBehind
      <4>2. b + 1 = c
        <5>1. Chirp(b + 1) + 38 * 0 < Chirp(c) + 38 * 0 + 38 /\ Chirp(c) + 38 * 0 < Chirp(b + 1) + 38 * 0 + 38
          BY <1>3, <1>4, <2>3, <3>1, <3>2, <4>1
        <5>2. b + 1 \in Nat /\ 0 \in 0 .. 3
          OBVIOUS
        <5> QED BY <1>3, <5>1, <5>2, SameSubchirp
      <4>3. c % 2 = 1
        BY <4>1, <4>2
      <4> QED BY <4>3 DEF SecondIsRight
    <3> QED BY <3>3, <3>4
  <2> QED BY <1>1, <2>4, <2>5
<1> QED BY <1>2, <1>6

\* A symbol is detected: counters, place and finds.
LEMMA AdvanceStep ==
    ASSUME DetectorTypes, FoundApart, call \in Calls, pc' = "elsewhere", d_state' = "TRACKING", Advance
    PROVE  /\ DetectorTypes' /\ FoundApart'
           /\ found' = found \cup {nitems_read}
           /\ d_subchirp_ctr # 3 => /\ nitems_read' = nitems_read + 38
                                    /\ d_subchirp_ctr' = d_subchirp_ctr + 1
                                    /\ d_chirp_ctr' = d_chirp_ctr
           /\ d_subchirp_ctr = 3 => /\ nitems_read' = nitems_read + 38 + GapFor(d_chirp_ctr)
                                    /\ d_subchirp_ctr' = 0
                                    /\ d_chirp_ctr' = 1 - d_chirp_ctr
<1>1. d_subchirp_ctr \in 0 .. 3 /\ d_chirp_ctr \in 0 .. 1 /\ nitems_read \in Nat
  BY DEF DetectorTypes
<1>2. time_gap_1(chirp) \in 10 .. 40 /\ time_gap_2(chirp) \in 40 .. 70
  BY CallTypes, GapSizes
<1>3. GapFor(d_chirp_ctr) \in 10 .. 70
  BY <1>2 DEF GapFor
<1>4. found' = found \cup {nitems_read}
  BY DEF Advance
<1>5. d_subchirp_ctr # 3 => /\ nitems_read' = nitems_read + 38
                            /\ d_subchirp_ctr' = d_subchirp_ctr + 1
                            /\ d_chirp_ctr' = d_chirp_ctr
  BY <1>1 DEF Advance, ToNextSubchirp, LastSubchirp, n_sub
<1>6. d_subchirp_ctr = 3 => /\ nitems_read' = nitems_read + 38 + GapFor(d_chirp_ctr)
                            /\ d_subchirp_ctr' = 0
                            /\ d_chirp_ctr' = 1 - d_chirp_ctr
  BY <1>1, <1>2 DEF Advance, ToNextSubchirp, LastSubchirp, GapFor, n_sub
<1>7. nitems_read' \in Nat /\ nitems_read + 38 <= nitems_read'
  BY <1>1, <1>3, <1>5, <1>6
<1>8. d_subchirp_ctr' \in 0 .. 3 /\ d_chirp_ctr' \in 0 .. 1
  BY <1>1, <1>5, <1>6
<1>9. DetectorTypes'
  BY <1>7, <1>8 DEF DetectorTypes
<1>10. FoundApart'
  <2> SUFFICES /\ found' \subseteq Nat
               /\ \A x \in found' : x + 38 <= nitems_read'
               /\ \A x, y \in found' : x < y => x + 38 <= y
    BY DEF FoundApart, n_sub
  <2>1. /\ found \subseteq Nat
        /\ \A x \in found : x + 38 <= nitems_read
        /\ \A x, y \in found : x < y => x + 38 <= y
    BY DEF FoundApart, n_sub
  <2>2. \A x \in found' : x \in Nat /\ x + 38 <= nitems_read'
    BY <1>1, <1>4, <1>7, <2>1
  <2>3. ASSUME NEW x \in found', NEW y \in found', x < y PROVE x + 38 <= y
    <3>1. CASE x \in found /\ y \in found
      BY <2>1, <2>3, <3>1
    <3>2. CASE x \in found /\ y = nitems_read
      BY <2>1, <3>2
    <3>3. CASE x = nitems_read /\ y \in found
      BY <1>1, <2>1, <2>3, <3>3
    <3>4. CASE x = nitems_read /\ y = nitems_read
      BY <1>1, <2>3, <3>4
    <3> QED BY <1>4, <3>1, <3>2, <3>3, <3>4
  <2> QED BY <2>2, <2>3
<1> QED BY <1>4, <1>5, <1>6, <1>9, <1>10

LEMMA AdvanceAligned ==
    ASSUME ChirpsLaid, DetectorTypes, FoundApart, Aligned, pc = "elsewhere", pc' = "elsewhere", UNCHANGED call,
           call \in Calls, OverThreshold(nitems_read), d_state' = "TRACKING", Advance
    PROVE  Aligned'
<1>1. d_subchirp_ctr \in 0 .. 3 /\ d_chirp_ctr \in 0 .. 1 /\ nitems_read \in Nat /\ Slack \in Nat
  BY SlackAssumption DEF DetectorTypes
<1>2. PICK c \in Nat : /\ nitems_read \in Peak(Chirp(c), d_subchirp_ctr)
                       /\ d_chirp_ctr = 1 => SecondIsRight(c)
  BY GapIsRight
<1>3. Chirp(c) \in Nat /\ GapFor(d_chirp_ctr) \in Nat
  <2>1. chirp \in 1 .. 4
    BY CallTypes
  <2>2. time_gap_1(chirp) \in Nat /\ time_gap_2(chirp) \in Nat
    BY <2>1, GapSizes
  <2> QED BY <2>1, <2>2, ChirpPlaces DEF GapFor
<1> DEFINE d == nitems_read - (Chirp(c) + 38 * d_subchirp_ctr)
<1>4. d \in -Slack .. Slack /\ nitems_read = Chirp(c) + 38 * d_subchirp_ctr + d
  BY <1>1, <1>2, <1>3 DEF Peak, n_sub
<1> HIDE DEF d
<1>5. /\ Chirp(c)' = Chirp(c) /\ SecondIsRight(c)' = SecondIsRight(c)
      /\ \A a : GapFor(a)' = GapFor(a)
  BY ChirpsKept, Zenon
<1> SUFFICES IF d_subchirp_ctr' # 0
             THEN /\ nitems_read' = Chirp(c) + n_sub * d_subchirp_ctr' + d
                  /\ d_chirp_ctr' = 1 => SecondIsRight(c)
             ELSE /\ nitems_read' = Chirp(c) + 4 * n_sub + GapFor(1 - d_chirp_ctr') + d
                  /\ d_chirp_ctr' = 0 => SecondIsRight(c)
  <2>1. UNCHANGED <<time_gap_1(chirp), time_gap_2(chirp)>>
    BY ChirpsKept
  <2>2. GapFor(1 - d_chirp_ctr)' = GapFor(1 - d_chirp_ctr')
    BY <2>1 DEF GapFor
  <2> QED BY <1>4, <1>5, <2>2, Zenon DEF Aligned
<1>6. CASE d_subchirp_ctr # 3
  <2>1. /\ nitems_read' = nitems_read + 38 /\ d_subchirp_ctr' = d_subchirp_ctr + 1
        /\ d_chirp_ctr' = d_chirp_ctr
    BY <1>6, AdvanceStep
  <2>2. nitems_read' = Chirp(c) + 38 * d_subchirp_ctr' + d /\ d_subchirp_ctr' # 0
    BY <1>1, <1>3, <1>4, <2>1
  <2> QED BY <1>2, <2>1, <2>2 DEF n_sub
<1>7. CASE d_subchirp_ctr = 3
  <2>1. /\ nitems_read' = nitems_read + 38 + GapFor(d_chirp_ctr) /\ d_subchirp_ctr' = 0
        /\ d_chirp_ctr' = 1 - d_chirp_ctr
    BY <1>7, AdvanceStep
  <2>2. 1 - d_chirp_ctr' = d_chirp_ctr
    BY <1>1, <2>1
  <2>3. nitems_read' = Chirp(c) + 152 + GapFor(d_chirp_ctr) + d
    BY <1>1, <1>3, <1>4, <1>7, <2>1
  <2>4. d_chirp_ctr' = 0 => SecondIsRight(c)
    BY <1>1, <1>2, <2>1
  <2>5. 4 * n_sub = 152
    BY DEF n_sub
  <2> QED BY <2>1, <2>2, <2>3, <2>4, <2>5
<1> QED BY <1>6, <1>7

\* A detector that is still in front of the chirp has it before it, ...
LEMMA NotYetHeard ==
    ASSUME NEW o \in Nat, nitems_read' \in Nat, nitems_read' <= o + Slack
    PROVE  HeardAt(o)'
<1>1. Slack \in Nat
  BY SlackAssumption
<1>2. ~(nitems_read' \in o + Slack + 1 .. o + 3 * n_sub + Slack)
  BY <1>1
<1>3. \A k \in 0 .. 3 : ~(o + n_sub * k + Slack < nitems_read')
  BY <1>1 DEF n_sub
<1> SUFFICES /\ nitems_read' \in o + Slack + 1 .. o + 3 * n_sub + Slack =>
                    /\ d_state' = "TRACKING" /\ d_subchirp_ctr' # 0
                    /\ nitems_read' \in Peak(o, d_subchirp_ctr')
             /\ \A k \in 0 .. 3 : o + n_sub * k + Slack < nitems_read' => found' \cap Peak(o, k) # {}
  BY Zenon DEF HeardAt, Peak
<1> QED BY <1>2, <1>3

\* ... and one that has passed it has found its symbols.
LEMMA StaysHeard ==
    ASSUME NEW o \in Nat, nitems_read \in Nat, HeardAt(o), o + 3 * n_sub + Slack < nitems_read,
           nitems_read' \in Nat, nitems_read < nitems_read', found \subseteq found'
    PROVE  HeardAt(o)'
<1>1. Slack \in Nat
  BY SlackAssumption
<1>2. ~(nitems_read' \in o + Slack + 1 .. o + 3 * n_sub + Slack)
  BY <1>1 DEF n_sub
<1>3. ASSUME NEW k \in 0 .. 3 PROVE found' \cap Peak(o, k) # {}
  <2>1. o + n_sub * k + Slack < nitems_read
    BY <1>1 DEF n_sub
  <2> QED BY <2>1 DEF HeardAt
<1> SUFFICES /\ nitems_read' \in o + Slack + 1 .. o + 3 * n_sub + Slack =>
                    /\ d_state' = "TRACKING" /\ d_subchirp_ctr' # 0
                    /\ nitems_read' \in Peak(o, d_subchirp_ctr')
             /\ \A k \in 0 .. 3 : o + n_sub * k + Slack < nitems_read' => found' \cap Peak(o, k) # {}
  BY Zenon DEF HeardAt, Peak
<1> QED BY <1>2, <1>3

LEMMA HearableKept ==
    ASSUME UNCHANGED <<call, iq, entry>>, NEW o
    PROVE  HearableAt(o)' <=> HearableAt(o)
<1>1. time_gap_2(chirp)' = time_gap_2(chirp)
  BY ChirpsKept
<1> QED BY <1>1 DEF HearableAt

LEMMA AdvanceHeard ==
    ASSUME ChirpsLaid, DetectorTypes, FoundApart, Aligned, Heard, pc = "elsewhere", pc' = "elsewhere",
           UNCHANGED <<call, iq, entry>>, call \in Calls, OverThreshold(nitems_read),
           d_state' = "TRACKING", Advance
    PROVE  Heard'
<1>1. /\ d_subchirp_ctr \in 0 .. 3 /\ d_chirp_ctr \in 0 .. 1 /\ nitems_read \in Nat /\ nitems_read' \in Nat
      /\ chirp \in 1 .. 4
  BY AdvanceStep, CallTypes DEF DetectorTypes
<1>2. /\ time_gap_1(chirp) \in 10 .. 40 /\ time_gap_2(chirp) \in 40 .. 70 /\ Slack \in 0 .. 9
      /\ GapFor(d_chirp_ctr) \in 10 .. 70
  <2>1. time_gap_1(chirp) \in 10 .. 40 /\ time_gap_2(chirp) \in 40 .. 70 /\ Slack \in 0 .. 9
    BY <1>1, GapSizes
  <2> QED BY <2>1 DEF GapFor
<1>3. /\ found' = found \cup {nitems_read} /\ nitems_read + 38 <= nitems_read'
      /\ d_subchirp_ctr # 3 => nitems_read' = nitems_read + 38 /\ d_subchirp_ctr' = d_subchirp_ctr + 1
      /\ d_subchirp_ctr = 3 => nitems_read' = nitems_read + 38 + GapFor(d_chirp_ctr)
  <2>1. /\ found' = found \cup {nitems_read}
        /\ d_subchirp_ctr # 3 => nitems_read' = nitems_read + 38 /\ d_subchirp_ctr' = d_subchirp_ctr + 1
        /\ d_subchirp_ctr = 3 => nitems_read' = nitems_read + 38 + GapFor(d_chirp_ctr)
    BY AdvanceStep
  <2> QED BY <1>1, <1>2, <2>1
<1> SUFFICES ASSUME NEW o \in DOMAIN iq.at, HearableAt(o) PROVE HeardAt(o)'
  BY HearableKept DEF Heard
<1>4. o \in Nat /\ HeardAt(o)
  BY HearableChirp DEF Heard
<1>5. PICK b \in Nat : o = Chirp(b)
  BY HearableChirp
\* What is to be shown when the detector is at subchirp s of this chirp.
<1>6. ASSUME nitems_read \in Peak(o, d_subchirp_ctr) PROVE HeardAt(o)'
  <2>1. nitems_read \in (o + 38 * d_subchirp_ctr) - Slack .. (o + 38 * d_subchirp_ctr) + Slack
    BY <1>6 DEF Peak, n_sub
  <2>2. nitems_read' \in o + Slack + 1 .. o + 3 * n_sub + Slack =>
            d_subchirp_ctr' # 0 /\ nitems_read' \in Peak(o, d_subchirp_ctr')
    <3>1. CASE d_subchirp_ctr # 3
      BY <1>1, <1>2, <1>3, <1>4, <2>1, <3>1 DEF Peak, n_sub
    <3>2. CASE d_subchirp_ctr = 3
      BY <1>1, <1>2, <1>3, <1>4, <2>1, <3>2 DEF n_sub
    <3> QED BY <3>1, <3>2
  <2>3. ASSUME NEW k \in 0 .. 3, o + n_sub * k + Slack < nitems_read' PROVE found' \cap Peak(o, k) # {}
    <3>1. CASE k = d_subchirp_ctr
      BY <1>3, <1>6, <3>1
    <3>2. CASE k < d_subchirp_ctr
      <4>1. o + n_sub * k + Slack < nitems_read
        BY <1>1, <1>2, <1>4, <2>1, <3>2 DEF n_sub
      <4>2. found \cap Peak(o, k) # {}
        BY <1>4, <4>1 DEF HeardAt
      <4> QED BY <1>3, <4>2
    <3>3. CASE k > d_subchirp_ctr
      <4>1. d_subchirp_ctr # 3 /\ nitems_read' = nitems_read + 38
        BY <1>1, <1>3, <3>3
      <4> QED BY <1>1, <1>2, <1>4, <2>1, <2>3, <3>3, <4>1 DEF n_sub
    <3> QED BY <1>1, <3>1, <3>2, <3>3
  <2> SUFFICES /\ nitems_read' \in o + Slack + 1 .. o + 3 * n_sub + Slack =>
                      /\ d_state' = "TRACKING" /\ d_subchirp_ctr' # 0
                      /\ nitems_read' \in Peak(o, d_subchirp_ctr')
               /\ \A k \in 0 .. 3 : o + n_sub * k + Slack < nitems_read' => found' \cap Peak(o, k) # {}
    BY Zenon DEF HeardAt, Peak
  <2> QED BY <2>2, <2>3
<1>7. CASE o + 3 * n_sub + Slack < nitems_read
  <2>1. nitems_read < nitems_read' /\ found \subseteq found'
    BY <1>1, <1>3
  <2> QED BY <1>1, <1>4, <1>7, <2>1, StaysHeard
<1>8. CASE nitems_read \in o + Slack + 1 .. o + 3 * n_sub + Slack
  BY <1>4, <1>6, <1>8 DEF HeardAt
<1>9. CASE nitems_read <= o + Slack
  <2>1. PICK c \in Nat : /\ nitems_read \in Peak(Chirp(c), d_subchirp_ctr)
                         /\ d_chirp_ctr = 1 => SecondIsRight(c)
    BY GapIsRight
  <2>2. Chirp(c) \in Nat
    BY <1>1, ChirpPlaces
  <2>3. nitems_read \in (Chirp(c) + 38 * d_subchirp_ctr) - Slack .. (Chirp(c) + 38 * d_subchirp_ctr) + Slack
    BY <2>1 DEF Peak, n_sub
  <2>4. CASE nitems_read' <= o + Slack
    BY <1>1, <1>4, <2>4, NotYetHeard
  <2>5. CASE o + Slack < nitems_read' /\ d_subchirp_ctr # 3
    <3>1. c = b /\ d_subchirp_ctr = 0
      <4>1. Chirp(c) + 38 * d_subchirp_ctr < Chirp(b) + 38 * 0 + 38
        BY <1>1, <1>2, <1>4, <1>5, <1>9, <2>2, <2>3
      <4>2. Chirp(b) + 38 * 0 < Chirp(c) + 38 * d_subchirp_ctr + 38
        BY <1>1, <1>2, <1>3, <1>4, <1>5, <2>2, <2>3, <2>5
      <4>3. 0 \in 0 .. 3
        OBVIOUS
      <4> QED BY <1>1, <4>1, <4>2, <4>3, SameSubchirp
    <3> QED BY <1>5, <1>6, <2>1, <3>1
  <2>6. CASE o + Slack < nitems_read' /\ d_subchirp_ctr = 3
    <3>1. Chirp(c) + 114 - Slack <= nitems_read /\ nitems_read <= Chirp(c) + 114 + Slack
      BY <1>1, <1>2, <2>2, <2>3, <2>6
    <3>2. c < b
      <4>1. CASE c = b
        BY <1>1, <1>2, <1>4, <1>5, <1>9, <3>1, <4>1
      <4>2. CASE b < c
        <5>1. Chirp(b) + 152 + GapBehind(b) <= Chirp(c)
          BY <1>1, <4>2, ChirpPlaces
        <5>2. GapBehind(b) \in 10 .. 70
          BY <1>2 DEF GapBehind
        <5> QED BY <1>1, <1>2, <1>4, <1>5, <1>9, <2>2, <3>1, <5>1, <5>2
      <4> QED BY <4>1, <4>2
    <3>3. Chirp(c) + 152 + GapBehind(c) <= o
      BY <1>1, <1>5, <3>2, ChirpPlaces
    <3>4. GapFor(d_chirp_ctr) <= GapBehind(c) /\ GapBehind(c) \in 10 .. 70
      <4>1. GapBehind(c) \in 10 .. 70
        BY <1>2 DEF GapBehind
      <4>2. CASE d_chirp_ctr = 0
        BY <1>2, <4>2 DEF GapFor, GapBehind
      <4>3. CASE d_chirp_ctr = 1
        BY <1>2, <2>1, <4>3 DEF GapFor, GapBehind, SecondIsRight
      <4> QED BY <1>1, <4>1, <4>2, <4>3
    <3> QED BY <1>1, <1>2, <1>3, <1>4, <2>2, <2>6, <3>1, <3>3, <3>4
  <2> QED BY <1>1, <1>2, <1>4, <2>4, <2>5, <2>6
<1> QED BY <1>1, <1>2, <1>4, <1>7, <1>8, <1>9 DEF n_sub

\* The search goes up to the next window over the threshold, or to the end.
LEMMA SearchOnStep ==
    ASSUME CssTypeOK, DetectorTypes, SearchOn
    PROVE  /\ nitems_read' \in Nat /\ nitems_read < nitems_read'
           /\ \A p \in nitems_read + 1 .. iq.len - n_sub + 1 : OverThreshold(p) => nitems_read' <= p
<1>1. nitems_read \in Nat /\ iq.len \in Nat /\ d_state = "SEARCH"
  BY DEF SearchOn, DetectorTypes, CssTypeOK
<1> DEFINE end == (iq.len - 38) + 1
           T == {p \in nitems_read + 1 .. end : OverThreshold(p) \/ p = end}
<1>2. end \in Int /\ nitems_read + 1 <= end
  <2>1. ~(iq.len - nitems_read < 38)
    BY <1>1 DEF SearchOn, Turning, Ended, required_input_items, n_sub
  <2> QED BY <1>1, <2>1
<1>3. nitems_read' = Min(T)
  <2>1. iq.len - n_sub + 1 = end
    BY <1>1 DEF n_sub
  <2>2. nitems_read' = Min({p \in nitems_read + 1 .. iq.len - n_sub + 1 :
                              OverThreshold(p) \/ p = iq.len - n_sub + 1})
    BY Zenon DEF SearchOn
  <2> QED BY <2>1, <2>2, Zenon
<1> HIDE DEF end
<1>4. T \subseteq Nat /\ end \in T
  BY <1>1, <1>2
<1>5. nitems_read' \in T /\ \A p \in T : nitems_read' <= p
  <2> HIDE DEF T
  <2> QED BY <1>3, <1>4, SmallestIs
<1>6. iq.len - n_sub + 1 = end
  BY <1>1 DEF n_sub, end
<1> QED BY <1>1, <1>2, <1>5, <1>6

LEMMA SearchOnHeard ==
    ASSUME CssTypeOK, ChirpsLaid, DetectorTypes, Heard, SearchOn, call \in Calls
    PROVE  Heard'
<1>1. /\ pc = "elsewhere" /\ UNCHANGED <<call, iq, entry, found, d_state, d_subchirp_ctr>>
      /\ d_state = "SEARCH" /\ ~OverThreshold(nitems_read)
  BY DEF SearchOn, Turning, vars, args, counters
<1>2. nitems_read \in Nat /\ nitems_read' \in Nat /\ nitems_read < nitems_read' /\ Slack \in Nat /\ d_subchirp_ctr = 0
      /\ chirp \in 1 .. 4 /\ iq.len \in Nat
  BY <1>1, SearchOnStep, SlackAssumption, CallTypes DEF DetectorTypes, CssTypeOK
<1> SUFFICES ASSUME NEW o \in DOMAIN iq.at, HearableAt(o) PROVE HeardAt(o)'
  BY <1>1, HearableKept DEF Heard
<1>3. o \in Nat /\ HeardAt(o)
  BY <1>1, HearableChirp DEF Heard
<1>4. CASE o + 3 * n_sub + Slack < nitems_read
  BY <1>1, <1>2, <1>3, <1>4, StaysHeard
<1>5. CASE nitems_read \in o + Slack + 1 .. o + 3 * n_sub + Slack
  BY <1>1, <1>3, <1>5 DEF HeardAt
<1>6. CASE nitems_read <= o + Slack
  <2>1. \A p \in o - Slack .. o + Slack : OverThreshold(p)
    <3>1. \A p \in o - Slack .. o + Slack : p \in Peak(o, d_subchirp_ctr)
      BY <1>2, <1>3 DEF Peak, n_sub
    <3> QED BY <1>2, <1>3, <3>1, PeakIsOver
  <2>2. nitems_read < o - Slack
    BY <1>1, <1>2, <1>3, <1>6, <2>1
  <2>3. o - Slack \in nitems_read + 1 .. iq.len - n_sub + 1
    <3>1. time_gap_2(chirp) \in 40 .. 70
      BY <1>2, GapSizes
    <3>2. o + 4 * n_sub + time_gap_2(chirp) + Slack <= iq.len
      BY DEF HearableAt
    <3> QED BY <1>2, <1>3, <2>2, <3>1, <3>2 DEF n_sub
  <2>4. nitems_read' <= o - Slack
    <3>1. OverThreshold(o - Slack)
      BY <1>2, <1>3, <2>1
    <3> QED BY <2>3, <3>1, SearchOnStep
  <2> QED BY <1>2, <1>3, <2>4, NotYetHeard
<1> QED BY <1>2, <1>3, <1>4, <1>5, <1>6 DEF n_sub

\* A chirp that can be heard is not lost on the way, and the detector does not miss
\* where it begins.
LEMMA LoseTrackHeard ==
    ASSUME ChirpsLaid, DetectorTypes, Aligned, Heard, LoseTrack, call \in Calls
    PROVE  Heard'
<1>1. /\ pc = "elsewhere" /\ UNCHANGED <<call, iq, entry, found>> /\ nitems_read' = nitems_read + 1
      /\ d_state = "TRACKING" /\ ~OverThreshold(nitems_read)
  BY DEF LoseTrack, Turning, vars, args
<1>2. /\ nitems_read \in Nat /\ d_subchirp_ctr \in 0 .. 3 /\ d_chirp_ctr \in 0 .. 1 /\ chirp \in 1 .. 4
      /\ nitems_read' \in Nat
  BY <1>1, CallTypes DEF DetectorTypes
<1>3. Slack \in 0 .. 9
  BY <1>2, GapSizes
<1> SUFFICES ASSUME NEW o \in DOMAIN iq.at, HearableAt(o) PROVE HeardAt(o)'
  BY <1>1, HearableKept DEF Heard
<1>4. o \in Nat /\ HeardAt(o)
  BY <1>1, HearableChirp DEF Heard
<1>5. ~(nitems_read \in Peak(o, d_subchirp_ctr))
  BY <1>1, <1>2, <1>4, PeakIsOver
<1>6. CASE o + 3 * n_sub + Slack < nitems_read
  BY <1>1, <1>2, <1>4, <1>6, StaysHeard
<1>7. CASE nitems_read \in o + Slack + 1 .. o + 3 * n_sub + Slack
  BY <1>4, <1>5, <1>7 DEF HeardAt
<1>8. CASE nitems_read < o + Slack
  BY <1>1, <1>2, <1>3, <1>4, <1>8, NotYetHeard
<1>9. CASE nitems_read = o + Slack
  <2>1. d_subchirp_ctr # 0
    BY <1>3, <1>4, <1>5, <1>9 DEF Peak, n_sub
  <2>2. PICK c \in Nat, d \in -Slack .. Slack : nitems_read = Chirp(c) + n_sub * d_subchirp_ctr + d
    BY <1>1, <2>1 DEF Aligned
  <2>3. PICK b \in Nat : o = Chirp(b)
    BY <1>1, HearableChirp
  <2>4. Chirp(c) \in Nat
    BY <1>2, ChirpPlaces
  <2>5. d_subchirp_ctr = 0
    <3>1. /\ Chirp(c) + 38 * d_subchirp_ctr < Chirp(b) + 38 * 0 + 38
          /\ Chirp(b) + 38 * 0 < Chirp(c) + 38 * d_subchirp_ctr + 38
      BY <1>2, <1>3, <1>4, <1>9, <2>2, <2>3, <2>4 DEF n_sub
    <3>2. 0 \in 0 .. 3
      OBVIOUS
    <3> QED BY <1>2, <3>1, <3>2, SameSubchirp
  <2> QED BY <2>1, <2>5
<1> QED BY <1>2, <1>3, <1>4, <1>6, <1>7, <1>8, <1>9 DEF n_sub

LEMMA TuneHeard ==
    ASSUME ModemInv, EvenFrames, DetectorInv, Tune
    PROVE  DetectorInv'
<1>1. /\ pc' = "elsewhere" /\ call' = call /\ nitems_read' \in Entries /\ entry' = nitems_read'
      /\ UNCHANGED <<d_state, d_subchirp_ctr, d_chirp_ctr, found>> /\ pc # "elsewhere"
  BY DEF Tune, args, counters
<1>2. d_state = "SEARCH" /\ found = {} /\ nitems_read' \in Nat
  BY <1>1, EntryAssumption DEF DetectorInv, DetectorTypes
<1>3. ChirpsLaid'
  BY TuneKeepsChirps DEF DetectorInv
<1>4. DetectorTypes'
  BY <1>1, <1>2 DEF DetectorInv, DetectorTypes
<1>5. FoundApart' /\ Aligned'
  BY <1>1, <1>2 DEF FoundApart, Aligned
<1>6. Heard'
  <2> SUFFICES ASSUME NEW o \in DOMAIN iq'.at, HearableAt(o)' PROVE HeardAt(o)'
    BY DEF Heard
  <2>1. o \in Nat
    <3>1. CssTypeOK'
      BY TuneStep DEF ModemInv
    <3>2. iq'.len \in Nat /\ DOMAIN iq'.at \subseteq 0 .. iq'.len
      BY <3>1 DEF CssTypeOK
    <3> QED BY <3>2
  <2>2. nitems_read' <= o - Slack /\ Slack \in Nat
    BY <1>1, SlackAssumption DEF HearableAt
  <2> QED BY <1>2, <2>1, <2>2, NotYetHeard
<1> QED BY <1>3, <1>4, <1>5, <1>6 DEF DetectorInv

\* modulate, demodulate and the mapper are at work in front of the detector.
LEMMA ModemLeavesDetector ==
    ASSUME DetectorInv, ChirpsLaid', pc # "elsewhere", pc' # "elsewhere", UNCHANGED detector
    PROVE  DetectorInv'
<1>1. d_state = "SEARCH" /\ found = {}
  BY DEF DetectorInv, DetectorTypes
<1>2. DetectorTypes' /\ FoundApart'
  BY <1>1 DEF DetectorInv, DetectorTypes, FoundApart, detector, counters
<1>3. Aligned' /\ Heard'
  BY <1>1 DEF Aligned, Heard, detector
<1> QED BY <1>2, <1>3 DEF DetectorInv

LEMMA DetectorInvStep ==
    ASSUME ModemInv, EvenFrames, DetectorInv, [DetectorNext]_<<vars, detector>>
    PROVE  DetectorInv'
<1>1. call \in Calls /\ CssTypeOK
  BY ArgsTyped DEF ModemInv
<1>2. ChirpsLaid /\ DetectorTypes /\ FoundApart /\ Aligned /\ Heard
  BY DEF DetectorInv
<1>3. ASSUME UNCHANGED vars PROVE ChirpsLaid'
  <2>1. pc' = pc /\ iq' = iq /\ call' = call
    BY <1>3 DEF vars, args
  <2>2. \A c : Chirp(c)' = Chirp(c)
    BY <2>1, ChirpsKept
  <2>3. pc \in {"mapped", "elsewhere"} =>
            \A o \in DOMAIN iq.at : \E c \in Nat, r \in 0 .. 3 : o = Chirp(c)' + n_sub * r /\ iq.at[o].k = r
    BY <1>2, <2>2, Zenon DEF ChirpsLaid
  <2> QED BY <2>1, <2>3, Zenon DEF ChirpsLaid
<1>4. CASE Next /\ UNCHANGED detector
  <2>1. pc \notin {"mapped", "elsewhere"} /\ pc' \notin {"mapped", "elsewhere"}
    BY <1>4 DEF Next, CheckBits, DemuxAndPad, BitsToCodewords, Interleave, ModQPSK, ModSymbol, ModDQCSK, Air,
        CheckLength, DemodDQCSK, DemodSymbol, DemodQPSK, Decode, Mux, Raise
  <2>2. ChirpsLaid'
    BY <2>1 DEF ChirpsLaid
  <2> QED BY <1>4, <2>1, <2>2, ModemLeavesDetector
<1>5. CASE MapFrames
  <2>1. pc # "elsewhere" /\ pc' # "elsewhere" /\ UNCHANGED detector
    BY <1>5 DEF MapFrames
  <2> QED BY <1>5, <2>1, MapFramesLays, ModemLeavesDetector
<1>6. CASE Tune
  BY <1>6, TuneHeard
<1>7. CASE SearchOn
  <2>1. /\ pc' = "elsewhere" /\ UNCHANGED vars /\ d_state = "SEARCH"
        /\ UNCHANGED <<d_state, d_subchirp_ctr, d_chirp_ctr, found>>
    BY <1>7 DEF SearchOn, Turning, vars, counters
  <2>2. nitems_read \in Nat /\ nitems_read' \in Nat /\ nitems_read < nitems_read'
    BY <1>1, <1>2, <1>7, SearchOnStep DEF DetectorTypes
  <2>3. DetectorTypes'
    BY <1>2, <2>1, <2>2 DEF DetectorTypes
  <2>4. FoundApart'
    <3>1. \A x \in found : x \in Nat /\ x + n_sub <= nitems_read'
      BY <1>2, <2>2 DEF FoundApart, n_sub
    <3> QED BY <1>2, <2>1, <3>1 DEF FoundApart
  <2>5. Aligned'
    BY <2>1 DEF Aligned
  <2>6. Heard'
    BY <1>1, <1>2, <1>7, SearchOnHeard
  <2> QED BY <1>3, <2>1, <2>3, <2>4, <2>5, <2>6 DEF DetectorInv
<1>8. CASE SearchEnds \/ Track
  <2>1. /\ pc = "elsewhere" /\ pc' = "elsewhere" /\ UNCHANGED vars /\ UNCHANGED <<call, iq, entry>>
        /\ d_state' = "TRACKING" /\ OverThreshold(nitems_read) /\ Advance
    BY <1>8 DEF SearchEnds, Track, Turning, vars, args
  <2>2. DetectorTypes' /\ FoundApart'
    BY <1>1, <1>2, <2>1, AdvanceStep
  <2>3. Aligned'
    BY <1>1, <1>2, <2>1, AdvanceAligned
  <2>4. Heard'
    BY <1>1, <1>2, <2>1, AdvanceHeard
  <2> QED BY <1>3, <2>1, <2>2, <2>3, <2>4 DEF DetectorInv
<1>9. CASE LoseTrack
  <2>1. /\ pc' = "elsewhere" /\ UNCHANGED vars /\ UNCHANGED found /\ nitems_read' = nitems_read + 1
        /\ d_state' = "SEARCH" /\ d_subchirp_ctr' = 0 /\ d_chirp_ctr' = 0
    BY <1>9 DEF LoseTrack, Turning, vars, ResetChirpCtr
  <2>2. DetectorTypes'
    BY <1>2, <2>1 DEF DetectorTypes
  <2>3. FoundApart'
    <3>1. \A x \in found : x \in Nat /\ x + n_sub <= nitems_read'
      BY <1>2, <2>1 DEF FoundApart, DetectorTypes, n_sub
    <3> QED BY <1>2, <2>1, <3>1 DEF FoundApart
  <2>4. Aligned'
    BY <2>1 DEF Aligned
  <2>5. Heard'
    BY <1>1, <1>2, <1>9, LoseTrackHeard
  <2> QED BY <1>3, <2>1, <2>2, <2>3, <2>4, <2>5 DEF DetectorInv
<1>10. CASE UNCHANGED <<vars, detector>>
  <2>1. ChirpsLaid' /\ DetectorTypes' /\ FoundApart'
    BY <1>2, <1>3, <1>10 DEF DetectorTypes, FoundApart, vars, detector, counters
  <2>2. /\ call' = call /\ iq' = iq /\ pc' = pc /\ entry' = entry /\ found' = found
        /\ d_state' = d_state /\ d_subchirp_ctr' = d_subchirp_ctr /\ d_chirp_ctr' = d_chirp_ctr
        /\ nitems_read' = nitems_read
    BY <1>10 DEF vars, args, detector, counters
  <2>3. Aligned'
    <3>1. /\ \A c : Chirp(c)' = Chirp(c) /\ SecondIsRight(c)' = SecondIsRight(c)
          /\ UNCHANGED <<time_gap_1(chirp), time_gap_2(chirp)>>
      BY <2>2, ChirpsKept
    <3>2. GapFor(1 - d_chirp_ctr)' = GapFor(1 - d_chirp_ctr)
      BY <2>2, <3>1 DEF GapFor
    <3>3. CASE d_subchirp_ctr # 0
      BY <1>2, <2>2, <3>1, <3>3 DEF Aligned
    <3>4. CASE d_subchirp_ctr = 0
      BY <1>2, <2>2, <3>1, <3>2, <3>4 DEF Aligned
    <3> QED BY <3>3, <3>4
  <2>4. Heard'
    <3> SUFFICES ASSUME pc = "elsewhere", NEW o \in DOMAIN iq.at, HearableAt(o) PROVE HeardAt(o)'
      BY <2>2, HearableKept DEF Heard
    <3>1. HeardAt(o)
      BY <1>2 DEF Heard
    <3> QED BY <2>2, <3>1 DEF HeardAt, Peak
  <2> QED BY <2>1, <2>3, <2>4 DEF DetectorInv
<1> QED BY <1>4, <1>5, <1>6, <1>7, <1>8, <1>9, <1>10 DEF DetectorNext

LEMMA DetectorInvInit == ASSUME DetectorInit PROVE DetectorInv
<1>1. /\ pc = "modulate" /\ d_state = "SEARCH" /\ d_chirp_ctr = 0 /\ d_subchirp_ctr = 0 /\ nitems_read = 0
      /\ found = {}
  BY DEF DetectorInit, Init
<1> QED BY <1>1 DEF DetectorInv, ChirpsLaid, DetectorTypes, FoundApart, Aligned, Heard

\* When the detector has come to the end, it has passed the last chirp it can hear.
LEMMA EndedBehind ==
    ASSUME CssTypeOK, DetectorInv, pc = "elsewhere", Ended, NEW o \in DOMAIN iq.at, HearableAt(o)
    PROVE  o \in Nat /\ Slack \in 0 .. 9 /\ o + 3 * n_sub + Slack < nitems_read
<1>1. /\ call \in Calls /\ chirp \in 1 .. 4 /\ iq.len \in Nat /\ nitems_read \in Nat
      /\ d_state \in {"SEARCH", "TRACKING"}
  BY ArgsTyped, CallTypes DEF DetectorInv, DetectorTypes, CssTypeOK
<1>2. /\ time_gap_1(chirp) \in 10 .. 40 /\ time_gap_2(chirp) \in 40 .. 70 /\ Slack \in 0 .. 9
  BY <1>1, GapSizes
<1>3. o \in Nat
  BY <1>1, HearableChirp DEF DetectorInv
<1>4. o + 4 * n_sub + time_gap_2(chirp) + Slack <= iq.len
  BY DEF HearableAt
<1>5. required_input_items \in Nat /\ required_input_items <= n_sub + time_gap_2(chirp)
  <2>1. CASE d_state = "SEARCH"
    BY <1>2, <2>1 DEF required_input_items, n_sub
  <2>2. CASE d_state = "TRACKING"
    <3>1. Max({time_gap_1(chirp), time_gap_2(chirp)}) = time_gap_2(chirp)
      <4> DEFINE g == time_gap_1(chirp)
                 h == time_gap_2(chirp)
      <4>1. g \in Int /\ h \in Int /\ g <= h
        BY <1>2
      <4> HIDE DEF g, h
      <4>2. h \in {g, h} /\ \A y \in {g, h} : h >= y
        BY <4>1
      <4>3. \A x \in {g, h} : (\A y \in {g, h} : x >= y) => x = h
        BY <4>1
      <4>4. Max({g, h}) = h
        BY <4>2, <4>3 DEF Max
      <4> QED BY <4>4 DEF g, h
    <3> QED BY <1>2, <2>2, <3>1 DEF required_input_items, n_sub
  <2> QED BY <1>1, <2>1, <2>2
<1> QED BY <1>1, <1>2, <1>3, <1>4, <1>5 DEF Ended, n_sub

(* Whatever chirp the calls have, wherever the receiver begins, whichever subchirps are
   too weak and however wide the correlator's peak is, up to a quarter of a subchirp:
   multiuser_chirp_detector_cc finds each of the four symbols of every chirp that it
   can hear, and finds it once.  dqcsk_mapper_fc must send even frames, as the run with
   odd ones shows. *)
THEOREM HearableChirpsFoundHolds == ASSUME EvenFrames PROVE DetectorSpec => []HearableChirpsFound
<1>1. DetectorInit => DetectorInv
  BY DetectorInvInit
<1>2. ModemInv /\ DetectorInv /\ [DetectorNext]_<<vars, detector>> => DetectorInv'
  BY DetectorInvStep
<1>3. ModemInv /\ DetectorInv => HearableChirpsFound
  <2> SUFFICES ASSUME ModemInv, DetectorInv, pc = "elsewhere", Ended,
                      NEW o \in DOMAIN iq.at, HearableAt(o), NEW k \in 0 .. 3
               PROVE  Cardinality(found \cap (o + k * n_sub - Slack .. o + k * n_sub + Slack)) = 1
    BY Zenon DEF HearableChirpsFound
  <2>1. o \in Nat /\ Slack \in 0 .. 9 /\ o + 3 * n_sub + Slack < nitems_read
    BY EndedBehind DEF ModemInv
  <2>2. HeardAt(o) /\ FoundApart /\ nitems_read \in Nat
    BY DEF DetectorInv, DetectorTypes, Heard
  <2>3. o + n_sub * k + Slack < nitems_read
    BY <2>1, <2>2 DEF n_sub
  <2>4. PICK x \in found : x \in Peak(o, k)
    BY <2>2, <2>3 DEF HeardAt
  <2>5. \A y \in found \cap Peak(o, k) : y = x
    <3> TAKE y \in found \cap Peak(o, k)
    <3>1. x \in Nat /\ y \in Nat /\ (x < y => x + 38 <= y) /\ (y < x => y + 38 <= x)
      BY <2>2, <2>4 DEF FoundApart, n_sub
    <3>2. x \in Peak(o, k) /\ y \in Peak(o, k)
      BY <2>4
    <3> QED BY <2>1, <3>1, <3>2 DEF Peak, n_sub
  <2>6. found \cap Peak(o, k) = {x}
    BY <2>4, <2>5
  <2>7. Peak(o, k) = (o + k * n_sub - Slack .. o + k * n_sub + Slack)
    BY <2>1 DEF Peak, n_sub
  <2> QED BY <2>6, <2>7, FS_Singleton
<1> QED BY <1>1, <1>2, <1>3, ModemInvariant, PTL DEF DetectorSpec
-------------------------------------------------------------------------------
(* Which calls raise. *)

\* A rail, padded for both, is whole groups of bits at these sizes alone.
LEMMA RailIsWhole ==
    ASSUME call \in Calls
    PROVE  RailBits % bits_per_symbol(slow) = 0 <=> n % 3 = 0
<1>1. slow \in BOOLEAN /\ n \in 1 .. 127
  BY CallTypes
<1>2. CASE slow
  <2>1. /\ calc_padded_zeros(slow, n) = 24 * ((2 * n + 8) \div 6) - 12 - 2 * n
        /\ bits_per_symbol(slow) = 6
    BY <1>2 DEF calc_padded_zeros, bits_per_symbol
  <2>2. RailBits = 24 * ((2 * n + 8) \div 6) + 2 * n - 6
    BY <1>1, <2>1 DEF RailBits
  <2> DEFINE x == (2 * n + 8) \div 6
  <2>3. x \in Nat /\ RailBits = 24 * x + 2 * n - 6
    BY <1>1, <2>2
  <2> HIDE DEF x
  <2>4. RailBits % 6 = 0 <=> n % 3 = 0
    BY <1>1, <2>3
  <2> QED BY <2>1, <2>4
<1>3. CASE ~slow
  <2>1. /\ calc_padded_zeros(slow, n) = 6 * ((4 * n + 2) \div 3 + 2) - 8 * n - 12
        /\ bits_per_symbol(slow) = 3
    BY <1>3 DEF calc_padded_zeros, bits_per_symbol
  <2>2. RailBits = 6 + 6 * ((4 * n + 2) \div 3) - 4 * n
    BY <1>1, <2>1 DEF RailBits
  <2> DEFINE x == (4 * n + 2) \div 3
  <2>3. x \in Nat /\ RailBits = 6 + 6 * x - 4 * n
    BY <1>1, <2>2
  <2> HIDE DEF x
  <2>4. RailBits % 3 = 0 <=> n % 3 = 0
    BY <1>1, <2>3
  <2> QED BY <2>1, <2>4
<1> QED BY <1>1, <1>2, <1>3

\* The length of what comes to bits_to_codewords, and of what comes to its inverse.
LEMMA RailLengths ==
    ASSUME ModemInv
    PROVE  /\ pc = "codewords" => Len(I) = RailBits
           /\ pc = "decode" => Len(I) = RailChips
<1>1. call \in Calls /\ payload \in Payloads /\ frame \in 0 .. call.nframes - 1
  BY ArgsTyped DEF ModemInv
<1>2. Rail(frame, 0) \in [1 .. RailBits -> {0, 1}] /\ RailBits \in Nat /\ RailChips \in Nat
  BY <1>1, RailType, RailSizes
<1>3. Codewords(Rail(frame, 0)) \in [1 .. RailChips -> {-1, 1}]
  BY <1>1, <1>2, CodewordsType
<1>4. Len(Rail(frame, 0)) = RailBits
  BY <1>2, SeqOfFunction
<1>5. Len(Codewords(Rail(frame, 0))) = RailChips
  BY <1>2, <1>3, SeqOfFunction
<1> QED BY <1>4, <1>5 DEF ModemInv, RailsRight

(* pad_zeros satisfies block boundaries, as css_mod.py:25 says, for the sizes that are
   divisible by three and for no other, at both rates: all of the sizes for which the
   run css_padding finds what it finds. *)
THEOREM PaddingFitsByThree == DetectorSpec => [](pc = "codewords" => (PaddingFits <=> n % 3 = 0))
<1>1. ASSUME ModemInv, pc = "codewords" PROVE PaddingFits <=> n % 3 = 0
  <2>1. Len(I) = RailBits
    BY <1>1, RailLengths
  <2>2. call \in Calls
    BY <1>1, ArgsTyped DEF ModemInv
  <2> QED BY <1>1, <2>1, <2>2, RailIsWhole DEF PaddingFits
<1> QED BY <1>1, ModemInvariant, PTL

\* The calls whose frames come out even at the fast rate and whose bits are all there.
FramesFit == ~slow /\ n % 3 = 0 /\ call.missing = 0

\* A frame that comes out even passes each test of modulate and demodulate.
LEMMA FitFrame ==
    ASSUME ModemInv, FramesFit
    PROVE  /\ RailBits % bits_per_symbol(slow) = 0 /\ RailChips % len_cw(slow) = 0
           /\ Symbols % 4 = 0 /\ nsamp_frame = Length
<1>1. call \in Calls /\ slow \in BOOLEAN
  BY ArgsTyped DEF ModemInv
<1>2. RailBits % bits_per_symbol(slow) = 0
  BY <1>1, RailIsWhole DEF FramesFit
<1>3. PICK k \in Nat \ {0} : Symbols = 8 * k
  BY <1>1, <1>2, FrameSizes DEF FramesFit
<1>4. nsamp_frame = Length
  BY <1>1, <1>2, FrameSizes DEF FramesFit
<1>5. RailChips % len_cw(slow) = 0
  <2>1. RailBits \in Nat
    BY <1>1, RailSizes
  <2>2. len_cw(slow) = 4 /\ bits_per_symbol(slow) = 3
    BY DEF FramesFit, len_cw, bits_per_symbol
  <2>3. RailChips = (RailBits \div 3) * 4
    BY <2>2 DEF RailChips
  <2> QED BY <2>1, <2>2, <2>3
<1> QED BY <1>2, <1>3, <1>4, <1>5

LEMMA FitStep ==
    ASSUME ModemInv, FramesFit, pc # "raised", [DetectorNext]_<<vars, detector>>
    PROVE  pc' # "raised"
<1>1. ~slow /\ call.missing = 0 /\ call.nframes \in Nat \ {0} /\ n \in Nat
  BY ArgsTyped DEF FramesFit, ModemInv
<1>2. CASE CheckBits
  <2>1. Bits = call.nframes * n * 8
    BY <1>1 DEF Bits
  <2> QED BY <1>2, <2>1 DEF CheckBits
<1>3. CASE BitsToCodewords
  <2>1. pc = "codewords" /\ Len(I) % bits_per_symbol(slow) = 0
    BY <1>3, FitFrame, RailLengths DEF BitsToCodewords
  <2> QED BY <1>1, <1>3, <2>1 DEF BitsToCodewords
<1>4. CASE Interleave
  BY <1>1, <1>4 DEF Interleave, ModemInv, CallsFit
<1>5. CASE ModDQCSK
  <2>1. /\ call \in Calls /\ payload \in Payloads /\ frame \in 0 .. call.nframes - 1
        /\ pc = "mod_DQPSK" /\ Len(res) = Len(sym) /\ sym = SymbolsOf(frame)
    BY <1>5, ArgsTyped DEF ModDQCSK, ModemInv, LoopsRight
  <2>2. sym \in [1 .. Symbols -> {0, 4, 8, 12}] /\ Symbols \in Nat
    BY <2>1, SymbolsType, RailSizes
  <2>3. Len(res) = Symbols
    BY <2>1, <2>2, SeqOfFunction
  <2> QED BY <1>5, <2>3, FitFrame DEF ModDQCSK
<1>6. CASE CheckLength
  <2>1. iq.len = call.nframes * Length
    BY <1>6 DEF CheckLength, ModemInv, LaidOut, Laid, Modulating, Off
  <2>2. Length \in Nat
    BY LengthType, ArgsTyped DEF ModemInv
  <2>3. iq.len = nsamp_frame * call.nframes
    BY <1>1, <2>1, <2>2, FitFrame
  <2> QED BY <1>6, <2>3 DEF CheckLength
<1>7. CASE DemodQPSK
  BY <1>1, <1>7, Zenon DEF DemodQPSK
<1>8. CASE Decode
  <2>1. Len(I) % len_cw(slow) = 0
    BY <1>8, FitFrame, RailLengths DEF Decode
  <2> QED BY <1>8, <2>1 DEF Decode
<1>9. CASE DemuxAndPad \/ ModQPSK \/ ModSymbol \/ Air \/ DemodDQCSK \/ DemodSymbol \/ Mux
  BY <1>9 DEF DemuxAndPad, ModQPSK, ModSymbol, Air, DemodDQCSK, DemodSymbol, Mux
<1>10. CASE MapFrames \/ Tune
  BY <1>10 DEF MapFrames, Tune
<1>11. CASE UNCHANGED vars
  BY <1>11 DEF vars
<1>12. CASE SearchOn \/ SearchEnds \/ Track \/ LoseTrack
  BY <1>11, <1>12 DEF SearchOn, SearchEnds, Track, LoseTrack
<1>13. CASE Next
  BY <1>2, <1>3, <1>4, <1>5, <1>6, <1>7, <1>8, <1>9, <1>13 DEF Next
<1> QED BY <1>10, <1>11, <1>12, <1>13 DEF DetectorNext

(* A call raises nothing if its size is divisible by three, its rate 1 Mbps and its bits
   as many as announced, and returns bits only then, for any payload and number of
   frames: what WholeFramesReturn relies on, and that at 250 kbps nothing is returned. *)
THEOREM ReturnsIfFits ==
    DetectorSpec => []((FramesFit => pc # "raised") /\ (pc = "returned" => FramesFit))
<1> DEFINE Inv == ModemInv /\ (FramesFit => pc # "raised")
<1>1. DetectorInit => Inv
  BY ModemInit DEF DetectorInit, Init
<1>2. Inv /\ [DetectorNext]_<<vars, detector>> => Inv'
  <2> SUFFICES ASSUME ModemInv, FramesFit => pc # "raised", [DetectorNext]_<<vars, detector>>, FramesFit'
               PROVE  pc' # "raised"
    BY DetectorStep
  <2>1. call' = call
    BY DEF DetectorNext, Next, CheckBits, DemuxAndPad, BitsToCodewords, Interleave, ModQPSK, ModSymbol, ModDQCSK,
        Air, CheckLength, DemodDQCSK, DemodSymbol, DemodQPSK, Decode, Mux, MapFrames, Tune, SearchOn, SearchEnds,
        Track, LoseTrack, vars, args
  <2>2. FramesFit
    BY <2>1 DEF FramesFit, slow, n
  <2> QED BY <2>2, FitStep
<1>3. ASSUME ModemInv, pc = "returned" PROVE FramesFit
  <2>1. call \in Calls
    BY <1>3, ArgsTyped DEF ModemInv
  <2>2. call.missing = 0 /\ ~slow /\ RailBits % bits_per_symbol(slow) = 0
    BY <1>3 DEF ModemInv, CallsFit, Off
  <2> QED BY <2>1, <2>2, RailIsWhole DEF FramesFit
<1>4. Inv => (FramesFit => pc # "raised") /\ (pc = "returned" => FramesFit)
  BY <1>3
<1> QED BY <1>1, <1>2, <1>4, PTL DEF DetectorSpec
===============================================================================
