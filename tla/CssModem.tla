------------------------------ MODULE CssModem ------------------------------
(***************************************************************************)
(* The CSS modem in Python: modulate of python/css_mod.py, a radio         *)
(* channel, and demodulate of python/css_demod.py, for both rates, any     *)
(* payload size and several frames in one call.  An action is a stage of   *)
(* the loop over the frames; the two differential loops, which keep a      *)
(* delay chain from symbol to symbol, take a step for each symbol.         *)
(*                                                                         *)
(* Phases are counted in steps of 22.5 degrees.  The complex baseband is   *)
(* kept as what lies at which sample: subchirp k with a phase.  The        *)
(* channel turns all phases by one angle and each by some noise of less    *)
(* than a quarter of the distance between two QPSK symbols; a window of    *)
(* the correlator that is not exactly one subchirp gives any phase.        *)
(***************************************************************************)
EXTENDS CssPhy, FiniteSets

CONSTANTS
    Calls,              \* arguments: rate, bytes, frames, chirp and length of bits
    Payloads,           \* names of payloads ...
    PayloadBit(_, _),   \* ... and their bits
    Noises,             \* names of disturbances ...
    NoiseAt(_, _)       \* ... and what they add to the phase at a sample

ASSUME CallAssumption ==
    Calls \subseteq [slow : BOOLEAN, bytes : Nat \ {0}, nframes : Nat \ {0}, chirp : Nat, missing : {0, 1}]
ASSUME PayloadAssumption ==
    \A c \in Calls, p \in Payloads :
        \A i \in 1 .. c.nframes * phy_packetsize_bytes(c.bytes) * 8 : PayloadBit(p, i) \in {0, 1}
\* modulate's frames may come out longer than calc_nsamp_frame, by less than half.
ASSUME NoiseAssumption ==
    \A c \in Calls, e \in Noises :
        \A o \in 0 .. 2 * c.nframes * calc_nsamp_frame(c.slow, phy_packetsize_bytes(c.bytes), chirp_number(c.chirp)) :
            NoiseAt(e, o) \in {0, 1}

Turn == 16                  \* phases of a full circle
Phases == 0 .. Turn - 1
Start == 2                  \* exp(1j * pi / 4)

VARIABLES
    call, payload,  \* the arguments: the constructor's, and the bits
    pc,             \* the next stage
    frame,          \* frames done by the loop at work
    I, Q,           \* the rails: bits, then chips
    sym, chain, res,\* input, delay chain and sym_out of a differential loop
    iq,             \* the complex baseband: its length and what lies in it
    bits,           \* payl_bits_total
    sent            \* history: QPSK symbols of all frames

args == <<call, payload>>
rails == <<I, Q>>
loop == <<sym, chain, res>>
vars == <<args, pc, frame, rails, loop, iq, bits, sent>>

slow == call.slow
n == phy_packetsize_bytes(call.bytes)
chirp == chirp_number(call.chirp)
Bits == call.nframes * n * 8 - call.missing     \* len(bits)

Init ==
    /\ call \in Calls
    /\ payload \in Payloads
    /\ pc = "modulate"
    /\ frame = 0
    /\ I = <<>> /\ Q = <<>>
    /\ sym = <<>> /\ chain = <<>> /\ res = <<>>
    /\ iq = [len |-> 0, at |-> <<>>]
    /\ bits = <<>>
    /\ sent = <<>>

Raise == pc' = "raised"
-----------------------------------------------------------------------------
(* modulate *)

CheckBits ==
    /\ pc = "modulate"
    /\ IF Bits # call.nframes * n * 8 THEN Raise ELSE pc' = "demux"
    /\ UNCHANGED <<args, frame, rails, loop, iq, bits, sent>>

FirstFrameBits(f) ==    \* mutant: payload_total[0]
    [i \in 1 .. 12 + 8 * n |-> IF i <= 12 THEN gen_PHR(n)[i] ELSE PayloadBit(payload, i - 12)]

\* The bits of a frame: PHR and payload.
FrameBits(f) ==
    [i \in 1 .. 12 + 8 * n |->
        IF i <= 12 THEN gen_PHR(n)[i] ELSE PayloadBit(payload, f * 8 * n + i - 12)]

EveryOtherPair(s, first) == [i \in 1 .. Len(s) \div 2 - first |-> s[2 * i - 1 + first]]    \* mutant

\* in_stream[first::2]
EveryOther(s, first) == [i \in 1 .. Len(s) \div 2 |-> s[2 * i - 1 + first]]

pad_zeros(s) == s \o [i \in 1 .. calc_padded_zeros(slow, n) |-> 0]

\* demux and pad_zeros.
DemuxAndPad ==
    /\ pc = "demux"
    /\ I' = pad_zeros(EveryOther(FrameBits(frame), 0))
    /\ Q' = pad_zeros(EveryOther(FrameBits(frame), 1))
    /\ pc' = "codewords"
    /\ UNCHANGED <<args, frame, loop, iq, bits, sent>>

\* Most significant bit first.
Index(s, k) ==
    IF slow
    THEN 32 * s[6 * k - 5] + 16 * s[6 * k - 4] + 8 * s[6 * k - 3] + 4 * s[6 * k - 2] + 2 * s[6 * k - 1] + s[6 * k]
    ELSE 4 * s[3 * k - 2] + 2 * s[3 * k - 1] + s[3 * k]

Codewords(s) ==
    [j \in 1 .. (Len(s) \div bits_per_symbol(slow)) * len_cw(slow) |->
        codewords(slow, Index(s, (j - 1) \div len_cw(slow) + 1), (j - 1) % len_cw(slow))]

\* bits_to_codewords: reshape raises when the bits do not fill the last row.
BitsToCodewords ==
    /\ pc = "codewords"
    /\ IF Len(I) % bits_per_symbol(slow) # 0
       THEN Raise /\ UNCHANGED rails
       ELSE /\ pc' = IF slow THEN "interleave" ELSE "mod_QPSK"
            /\ I' = Codewords(I)
            /\ Q' = Codewords(Q)
    /\ UNCHANGED <<args, frame, loop, iq, bits, sent>>

Interleaved(s) == [j \in 1 .. Len(s) |-> s[64 * ((j - 1) \div 64) + intlv_seq(((j - 1) % 64)) + 1]]

Interleave ==
    /\ pc = "interleave"
    /\ IF Len(I) % (2 * len_cw(slow)) # 0
       THEN Raise /\ UNCHANGED rails
       ELSE /\ pc' = "mod_QPSK"
            /\ I' = Interleaved(I)
            /\ Q' = Interleaved(Q)
    /\ UNCHANGED <<args, frame, loop, iq, bits, sent>>

create_frame(s) == preamble(slow) \o SFD(slow) \o s

QPSK(i, q) == CASE i = 1 /\ q = 1 -> 0 [] i = -1 /\ q = 1 -> 4 [] i = 1 /\ q = -1 -> 12 [] OTHER -> 8

\* create_frame and mod_QPSK; mod_DQPSK fills its delay chain.
ModQPSK ==
    /\ pc = "mod_QPSK"
    /\ sym' = [j \in 1 .. len_hdrs(slow) + Len(I) |-> QPSK(create_frame(I)[j], create_frame(Q)[j])]
    /\ sent' = sent \o sym'
    /\ chain' = <<Start, Start, Start, Start>>
    /\ res' = <<>>
    /\ pc' = "mod_DQPSK"
    /\ UNCHANGED <<args, frame, rails, iq, bits>>

DelayedAsCommented(new, c) == <<new, c[1], c[2], c[3]>>     \* mutant: a distance of 4

\* delay_chain[1::] = delay_chain[0::-1]: what stands on the right is the one
\* symbol delay_chain[0], and it goes to all three places.
Delayed(new, c) == <<new, c[1], c[1], c[1]>>

\* A turn of the loop of mod_DQPSK.
ModSymbol ==
    /\ pc = "mod_DQPSK" /\ Len(res) < Len(sym)
    /\ LET out == (sym[Len(res) + 1] + chain[4]) % Turn
       IN  /\ res' = Append(res, out)
           /\ chain' = Delayed(out, chain)
    /\ UNCHANGED <<args, pc, frame, rails, sym, iq, bits, sent>>

\* Where the j-th symbol (from 0) of a frame is put, a gap behind every four.
Put(j) ==
    LET c == j \div 4
    IN  n_sub * j + time_gap_1(chirp) * ((c + 1) \div 2) + time_gap_2(chirp) * (c \div 2)

\* mod_DQCSK, and the end of a turn of the loop over the frames.
ModDQCSK ==
    /\ pc = "mod_DQPSK" /\ Len(res) = Len(sym)
    /\ IF Len(res) % 4 # 0
       THEN Raise /\ UNCHANGED <<iq, frame>>
       ELSE LET starts == {iq.len + Put(j) : j \in 0 .. Len(res) - 1}
                SymbolAt(o) == CHOOSE j \in 0 .. Len(res) - 1 : iq.len + Put(j) = o
            IN  /\ iq' = [len |-> iq.len + Put(Len(res)),
                          at  |-> [o \in DOMAIN iq.at \cup starts |->
                                      IF o < iq.len THEN iq.at[o]
                                      ELSE [k |-> SymbolAt(o) % 4, phase |-> res[SymbolAt(o) + 1]]]]
                /\ IF frame + 1 < call.nframes
                   THEN pc' = "demux" /\ frame' = frame + 1
                   ELSE pc' = "air" /\ frame' = 0
    /\ UNCHANGED <<args, rails, loop, bits, sent>>
-----------------------------------------------------------------------------
(* The channel. *)

Air ==
    /\ pc = "air"
    /\ \E turn \in Phases, e \in Noises :
        iq' = [len |-> iq.len,
               at  |-> [o \in DOMAIN iq.at |->
                           [iq.at[o] EXCEPT !.phase = (iq.at[o].phase + turn + NoiseAt(e, o)) % Turn]]]
    /\ pc' = "demodulate"
    /\ UNCHANGED <<args, frame, rails, loop, bits, sent>>
-----------------------------------------------------------------------------
(* demodulate *)

nsamp_frame == calc_nsamp_frame(slow, n, chirp)

CheckLength ==
    /\ pc = "demodulate"
    /\ IF iq.len # nsamp_frame * call.nframes THEN Raise ELSE pc' = "demod_DQCSK"
    /\ UNCHANGED <<args, frame, rails, loop, iq, bits, sent>>

\* pos of the j-th window (from 0) of demod_DQCSK: chirp_seq_ctr selects the gap
\* it skips behind every fourth subchirp.
Pos(j) ==
    LET pairs == j \div 8
        odd == j % 8 >= 4
    IN  n_sub * j + pairs * (time_gap_1(chirp) + time_gap_2(chirp))
          + IF odd THEN time_gap_1(chirp) ELSE 0

\* while len_iq_in - pos >= n_sub
Windows == {j \in 0 .. nsamp_frame \div n_sub : nsamp_frame - Pos(j) >= n_sub}

\* demod_DQCSK; demod_DQPSK fills its delay chain with the conjugate.
DemodDQCSK ==
    /\ pc = "demod_DQCSK"
    /\ \E unclear \in Phases :
        sym' = [j \in 1 .. Cardinality(Windows) |->
                    LET o == frame * nsamp_frame + Pos(j - 1)
                    IN  IF o \in DOMAIN iq.at /\ iq.at[o].k = (j - 1) % 4
                        THEN iq.at[o].phase ELSE unclear]
    /\ chain' = <<-Start, -Start, -Start, -Start>>
    /\ res' = <<>>
    /\ pc' = "demod_DQPSK"
    /\ UNCHANGED <<args, frame, rails, iq, bits, sent>>

DelayedConj(new, c) == <<-new, c[1], c[1], c[1]>>

\* A turn of the loop of demod_DQPSK.
DemodSymbol ==
    /\ pc = "demod_DQPSK" /\ Len(res) < Len(sym)
    /\ LET in == sym[Len(res) + 1]
       IN  /\ res' = Append(res, (in + chain[4]) % Turn)
           /\ chain' = DelayedConj(in, chain)
    /\ UNCHANGED <<args, pc, frame, rails, sym, iq, bits, sent>>

\* The quadrant of a phase: up to 45, 135, 225 and 315 degrees.
OnI(phase) == IF phase \in 3 .. 10 THEN -1 ELSE 1
OnQ(phase) == IF phase \in 7 .. 14 THEN -1 ELSE 1

Deinterleaved(s) ==
    [j \in 1 .. Len(s) |->
        LET i == CHOOSE i \in 0 .. 63 : intlv_seq(i) = (j - 1) % 64
        IN  s[64 * ((j - 1) \div 64) + i + 1]]

\* separate_payload
Payload(s) == SubSeq(s, len_hdrs(slow) + 1, Len(s))

\* demod_QPSK, separate_payload and deinterleaver.
DemodQPSK ==
    /\ pc = "demod_DQPSK" /\ Len(res) = Len(sym)
    /\ LET onI == Payload([j \in 1 .. Len(res) |-> OnI(res[j])])
           onQ == Payload([j \in 1 .. Len(res) |-> OnQ(res[j])])
       IN  IF slow /\ Len(onI) % (2 * len_cw(slow)) # 0
           THEN Raise /\ UNCHANGED rails
           ELSE /\ I' = IF slow THEN Deinterleaved(onI) ELSE onI
                /\ Q' = IF slow THEN Deinterleaved(onQ) ELSE onQ
                /\ pc' = "decode"
    /\ UNCHANGED <<args, frame, loop, iq, bits, sent>>

\* The k-th row of sym_in, its distance from a codeword, the first codeword with
\* the smallest one.
Row(s, k) == SubSeq(s, (k - 1) * len_cw(slow) + 1, k * len_cw(slow))
Distance(row, x) == Cardinality({j \in 1 .. len_cw(slow) : row[j] # codewords(slow, x, j - 1)})
Nearest(row) ==
    CHOOSE x \in 0 .. 2 * len_cw(slow) - 1 :
        /\ \A y \in 0 .. 2 * len_cw(slow) - 1 : Distance(row, x) <= Distance(row, y)
        /\ \A y \in 0 .. x - 1 : Distance(row, x) < Distance(row, y)

CodewordsToBits(s) ==
    LET found == [k \in 1 .. Len(s) \div len_cw(slow) |-> Nearest(Row(s, k))]
    IN  [i \in 1 .. (Len(s) \div len_cw(slow)) * bits_per_symbol(slow) |->
            Bit(found[(i - 1) \div bits_per_symbol(slow) + 1],
                bits_per_symbol(slow) - 1 - ((i - 1) % bits_per_symbol(slow)))]

remove_zeropadding(s) == SubSeq(s, 1, Len(s) - calc_padded_zeros(slow, n))

mux(s, t) == [i \in 1 .. 2 * Len(s) |-> IF i % 2 = 1 THEN s[(i + 1) \div 2] ELSE t[i \div 2]]

\* codewords_to_bits and remove_zeropadding.
Decode ==
    /\ pc = "decode"
    /\ IF Len(I) % len_cw(slow) # 0
       THEN Raise /\ UNCHANGED rails
       ELSE /\ I' = remove_zeropadding(CodewordsToBits(I))
            /\ Q' = remove_zeropadding(CodewordsToBits(Q))
            /\ pc' = "mux"
    /\ UNCHANGED <<args, frame, loop, iq, bits, sent>>

\* mux, and the end of a turn of the loop over the frames.
Mux ==
    /\ pc = "mux"
    /\ bits' = bits \o SubSeq(mux(I, Q), 13, 2 * Len(I))
    /\ IF frame + 1 < call.nframes
       THEN pc' = "demod_DQCSK" /\ frame' = frame + 1
       ELSE pc' = "returned" /\ UNCHANGED frame
    /\ UNCHANGED <<args, rails, loop, iq, sent>>

Next ==
    \/ CheckBits
    \/ DemuxAndPad
    \/ BitsToCodewords
    \/ Interleave
    \/ ModQPSK
    \/ ModSymbol
    \/ ModDQCSK
    \/ Air
    \/ CheckLength
    \/ DemodDQCSK
    \/ DemodSymbol
    \/ DemodQPSK
    \/ Decode
    \/ Mux

Spec == Init /\ [][Next]_vars /\ WF_vars(Next)
-----------------------------------------------------------------------------
CssTypeOK ==
    /\ call \in Calls /\ payload \in Payloads
    /\ pc \in {"modulate", "demux", "codewords", "interleave", "mod_QPSK", "mod_DQPSK", "air", "demodulate",
               "demod_DQCSK", "demod_DQPSK", "decode", "mux", "returned", "raised", "mapped", "elsewhere"}
    /\ frame \in 0 .. call.nframes - 1
    /\ I \in Seq({0, 1}) \cup Seq({-1, 1}) /\ Q \in Seq({0, 1}) \cup Seq({-1, 1})
    /\ Len(I) = Len(Q)
    /\ sym \in Seq(Phases) /\ res \in Seq(Phases) /\ Len(res) <= Len(sym)
    /\ chain \in Seq(-Turn + 1 .. Turn - 1)
    /\ iq.len \in Nat
    /\ DOMAIN iq.at \subseteq 0 .. iq.len
    /\ \A o \in DOMAIN iq.at : iq.at[o] \in [k : 0 .. 3, phase : Phases]
    /\ bits \in Seq({0, 1})
    /\ sent \in Seq({0, 4, 8, 12})

Same(phase, symbol) == phase \in {(symbol + d) % Turn : d \in {-1, 0, 1}}

(* Behind the first two symbols of each frame, which belong to the preamble, the
   receiver's loop finds each symbol of each frame that the sender put into its
   own, whatever angle the channel turned them by: windows and subchirps meet
   over all gaps and frames, and the two delay chains keep the same distance. *)
SymbolsRecovered ==
    pc = "demod_DQPSK" =>
        \A j \in 3 .. Len(res) : Same(res[j], sent[frame * (Len(sent) \div call.nframes) + j])

(* Whatever demodulate returns is what was given to modulate. *)
RoundTrip == pc = "returned" => bits = [i \in 1 .. Bits |-> PayloadBit(payload, i)]

(* A payload whose frames come out even, at the fast rate, is returned, unless the
   baseband goes to another receiver. *)
WholeFramesReturn ==
    (~slow /\ n % 3 = 0 /\ call.missing = 0) => <>(pc \in {"returned", "elsewhere"})

(* css_mod.py:25 "pad payload with zeros to satisfy block boundaries": the rails
   that go to the codewords are made of whole groups of bits. *)
PaddingFits == pc = "codewords" => Len(I) % bits_per_symbol(slow) = 0
=============================================================================
