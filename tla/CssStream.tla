----------------------------- MODULE CssStream -----------------------------
(***************************************************************************)
(* Frames on the stream of the CSS flowgraph, as                           *)
(* examples/ieee802_15_4_CSS_PHY.grc wires it:                             *)
(*                                                                         *)
(*    phr_prefixer -> zeropadding_b -> coder -> preamble_sfd_prefixer_ii   *)
(*      -> radio -> preamble_tagger_cc -> frame_buffer_cc -> keep_m_in_n   *)
(*      -> decoder -> zeropadding_removal_b                                *)
(*                                                                         *)
(* Nothing on the stream says where a frame begins but the preamble: the   *)
(* sender cuts bits into frames by counting, the receiver looks for        *)
(* preambles, keeps the pieces that are long enough and counts again.      *)
(* The coder (codewords and interleaver) turns Blk bits into Blk symbols   *)
(* that give these bits back only together.  Phases of symbols are counted *)
(* in quarters of a circle.  The radio may lose symbols or change them.    *)
(***************************************************************************)
EXTENDS Integers, Sequences, FiniteSets, SequencesExt

CONSTANTS
    d_len_preamble,     \* symbols of the preamble; the SFD has one here
    d_phr_payload_len,  \* bits of PHR and payload that the flowgraph is built for
    d_nzeros,           \* bits of padding
    Blk,                \* bits coded together
    Kinds,              \* kinds of messages
    LenOf(_),           \* their bits, with the PHR
    PhaseOf(_, _),      \* the phase of the symbol of their i-th bit
    Capacity,           \* items of a stream buffer
    Bursts,             \* what is sent: sequences of kinds
    Backlog,            \* bound: bits in zeropadding_b before the next message
    Idles,              \* symbols in front of frame_buffer_cc when the sender begins
    Lag,                \* bound: symbols in front of preamble_tagger_cc
    MaxFaults           \* bound: symbols lost or changed by the radio

Hdr == d_len_preamble + 1
Body == d_phr_payload_len + d_nzeros
d_nsym_frame == Hdr + Body

ASSUME StreamAssumption ==
    /\ d_len_preamble \in Nat \ {0, 1} /\ d_phr_payload_len \in Nat \ {0} /\ d_nzeros \in Nat
    /\ Blk \in Nat \ {0}
    /\ Backlog \in Nat /\ MaxFaults \in Nat
    /\ Body % Blk = 0    \* so at 1 Mbps; not at 250 kbps, see the README
    /\ Lag \in Nat /\ Lag >= 2 * d_len_preamble
    /\ Capacity \in Nat /\ Capacity >= 3 * d_nsym_frame + 2 * d_len_preamble
    /\ Idles \subseteq 0 .. Capacity
    \* With more damaged frames in a row the buffer is full behind one tag, for ever.
    /\ Capacity >= (MaxFaults + 2) * d_nsym_frame + d_len_preamble
    /\ \A b \in Bursts : b \in Seq(Kinds)
    /\ \A k \in Kinds : LenOf(k) \in Nat /\ \A i \in 1 .. LenOf(k) + d_nzeros : PhaseOf(k, i) \in 0 .. 3

VARIABLES
    burst,      \* the messages to send, by their kind
    taken,      \* those taken by phr_prefixer
    padded,     \* d_buf of zeropadding_b
    coded,      \* symbols of the last block coded
    d_sym_ctr,  \* of preamble_sfd_prefixer_ii
    emitted,    \* history: symbols emitted
    faults,     \* symbols lost or changed
    damaged,    \* history: the frames they belonged to
    heard,      \* the input of preamble_tagger_cc
    tagged,     \* the input of frame_buffer_cc, with the number of SOF tags of each item
    rx,         \* the input of the decoder
    d_buf,      \* of zeropadding_removal_b
    published,  \* the messages published
    cut,        \* history: the sender's frames that came out of frame_buffer_cc, 0 for others
    failed      \* frame_buffer_cc has thrown

txVars == <<burst, taken, padded, coded, d_sym_ctr, emitted>>
rxVars == <<rx, d_buf, published>>
radio == <<faults, damaged>>
vars == <<txVars, radio, heard, tagged, rxVars, cut, failed>>

\* A symbol that the sender has not sent.
NoSymbol == [symbol |-> [block |-> <<>>, j |-> 0, phase |-> 0], place |-> [frame |-> 0, at |-> 0], sofs |-> 0]

\* The receiver may have been on before, and have taken noise for symbols.
Init ==
    /\ burst \in Bursts /\ taken = 0 /\ padded = <<>> /\ coded = <<>> /\ d_sym_ctr = 0 /\ emitted = 0
    /\ faults = 0 /\ damaged = {}
    /\ heard = <<>>
    /\ tagged \in {[i \in 1 .. n |-> NoSymbol] : n \in Idles}
    /\ rx = <<>> /\ d_buf = <<>> /\ published = <<>>
    /\ cut = <<>> /\ failed = FALSE
-----------------------------------------------------------------------------
(* The sender. *)

\* Bit i of message m; those behind its length are padding.
MessageBits(m, len) == [i \in 1 .. len |-> <<m, i>>]

\* prefix_phr and pad_zeros: whatever the length of the message, PHR, padding and
\* the length of a frame are those of the constructor.
PadZeros ==
    /\ taken < Len(burst) /\ Len(padded) <= Backlog
    /\ taken' = taken + 1
    /\ padded' = padded \o MessageBits(taken + 1, LenOf(burst[taken + 1]) + d_nzeros)
    /\ UNCHANGED <<burst, coded, d_sym_ctr, emitted, radio, heard, tagged, rxVars, cut, failed>>

\* The codeword mappers and interleavers.
Encode ==
    /\ coded = <<>> /\ Len(padded) >= Blk
    /\ coded' = [j \in 1 .. Blk |-> [block |-> SubSeq(padded, 1, Blk), j |-> j]]
    /\ padded' = SubSeq(padded, Blk + 1, Len(padded))
    /\ UNCHANGED <<burst, taken, d_sym_ctr, emitted, radio, heard, tagged, rxVars, cut, failed>>

\* A symbol knows its frame and its place in it, and its phase.
Shr(i) == [block |-> <<>>, j |-> 0, phase |-> IF i <= d_len_preamble THEN 0 ELSE 1]
Coded(s) == [block |-> s.block, j |-> s.j, phase |-> PhaseOf(burst[s.block[s.j][1]], s.block[s.j][2])]

Place(k) == [frame |-> (k \div d_nsym_frame) + 1, at |-> (k % d_nsym_frame) + 1]

NextCtrUnwrapped == d_sym_ctr + 1     \* mutant

NextCtr == (d_sym_ctr + 1) % d_nsym_frame

\* A turn of the loop of preamble_sfd_prefixer_ii, and the radio.  The scheduler
\* calls the block only when it has input.
Emit ==
    /\ coded # <<>>
    /\ Len(heard) < Lag
    /\ d_sym_ctr' = NextCtr
    /\ coded' = IF d_sym_ctr < Hdr THEN coded ELSE Tail(coded)
    /\ emitted' = emitted + 1
    /\ LET symbol == IF d_sym_ctr < Hdr THEN Shr(d_sym_ctr + 1) ELSE Coded(coded[1])
           sent == [symbol |-> symbol, place |-> Place(emitted), sofs |-> 0]
       IN  \/ /\ heard' = Append(heard, sent)
              /\ UNCHANGED radio
           \/ /\ faults < MaxFaults /\ faults' = faults + 1
              /\ damaged' = damaged \cup {Place(emitted).frame}
              /\ \/ UNCHANGED heard
                 \/ \E turn \in 1 .. 3 :
                      heard' = Append(heard,
                        [symbol |-> [block |-> <<>>, j |-> 0, phase |-> (symbol.phase + turn) % 4],
                         place |-> [frame |-> 0, at |-> 0], sofs |-> 0])
    /\ UNCHANGED <<burst, taken, padded, tagged, rxVars, cut, failed>>
-----------------------------------------------------------------------------
(* preamble_tagger_cc *)

\* arg(b / a) < pi / 4, without abs: also a quarter turn back.  The argument of
\* half a turn is pi or -pi, as each pair of samples has it.
Same(a, b, half) == LET d == (b - a) % 4 IN d \in {0, 3} \/ (d = 2 /\ half)
Apart(a, b) == a # b

\* ctr behind the i-th symbol of the window (from 0), and whether a tag is set.
Ctr(phase, half) ==
    LET c[i \in 0 .. 2 * d_len_preamble - 2] ==
            IF i = 0 THEN [ctr |-> 1, tag |-> FALSE]
            ELSE LET before == IF c[i - 1].tag THEN 1 ELSE c[i - 1].ctr
                     ctr == IF Same(phase[i - 1], phase[i], half[i]) THEN before + 1 ELSE 1
                 IN  [ctr |-> ctr, tag |-> ctr >= d_len_preamble /\ Apart(phase[i], phase[i + 1])]
    IN  c

AllButTheLast == 1 .. 2 * d_len_preamble - 3     \* mutant

LookedAt == 1 .. 2 * d_len_preamble - 2

\* Offsets in the window where a tag is added.
SofIn(phase, half) ==
    {i - (d_len_preamble - 1) : i \in {i \in LookedAt : Ctr(phase, half)[i].tag}}

HopOneLess == d_len_preamble - 1    \* mutant

\* A call looks at 2 * d_len_preamble symbols and passes on half of them.
Hop == d_len_preamble

Tag ==
    /\ Len(heard) >= 2 * d_len_preamble
    /\ Len(tagged) + 2 * d_len_preamble <= Capacity
    /\ \E half \in [1 .. 2 * d_len_preamble - 2 -> BOOLEAN] :
        LET phase == [i \in 0 .. 2 * d_len_preamble - 1 |-> heard[i + 1].symbol.phase]
            marked == [i \in 1 .. Len(heard) |->
                        IF i - 1 \in SofIn(phase, half) THEN [heard[i] EXCEPT !.sofs = @ + 1] ELSE heard[i]]
        IN  /\ tagged' = tagged \o SubSeq(marked, 1, Hop)
            /\ heard' = SubSeq(marked, Hop + 1, Len(heard))
    /\ UNCHANGED <<txVars, radio, rxVars, cut, failed>>
-----------------------------------------------------------------------------
(* frame_buffer_cc *)

Forecast == 3 * d_nsym_frame

\* The positions of the first and the second SOF tag in range (from 0).
Sofs == {i \in 0 .. Len(tagged) - 1 : tagged[i + 1].sofs > 0}
First == Min(Sofs)
TwoAtFirst == Sofs # {} /\ tagged[First + 1].sofs > 1
Second == IF TwoAtFirst THEN First ELSE Min(Sofs \ {First})
TwoTags == TwoAtFirst \/ Cardinality(Sofs) >= 2

Ready == ~failed /\ Len(tagged) >= Forecast /\ Len(rx) + Body <= Capacity
Consume(k) == tagged' = SubSeq(tagged, k + 1, Len(tagged))

\* Two tags at one position are the end.
BufferDrops ==
    /\ Ready /\ TwoTags /\ Second - First < d_nsym_frame
    /\ failed' = TwoAtFirst
    /\ IF TwoAtFirst THEN UNCHANGED tagged ELSE Consume(Second)
    /\ UNCHANGED <<txVars, radio, heard, rxVars, cut>>

\* The frame of the sender that a piece of the stream is, 0 if it is none.
FrameIs(piece) ==
    IF \A i \in 1 .. Len(piece) : piece[i].place = [frame |-> piece[1].place.frame, at |-> i]
    THEN piece[1].place.frame ELSE 0

BehindFirst == First     \* mutant: what is returned is not consumed

BehindFrame == First + d_nsym_frame

\* A frame leaves, and is all there: the second tag is behind it.  keep_m_in_n takes
\* preamble and SFD off.
BufferReturns ==
    /\ Ready /\ TwoTags /\ Second - First >= d_nsym_frame
    /\ LET frame == SubSeq(tagged, First + 1, First + d_nsym_frame)
       IN  /\ rx' = rx \o [i \in 1 .. Body |-> frame[Hdr + i].symbol]
           /\ cut' = Append(cut, FrameIs(frame))
    /\ Consume(BehindFrame)
    /\ UNCHANGED <<txVars, radio, heard, d_buf, published, failed>>

\* With one tag everything in front of it goes, with none everything.
BufferConsumes ==
    /\ Ready /\ ~TwoTags
    /\ Consume(IF Sofs = {} THEN Len(tagged) ELSE First)
    /\ UNCHANGED <<txVars, radio, heard, rxVars, cut, failed>>
-----------------------------------------------------------------------------
(* The end of the receiver. *)

Garbage == <<0, 0>>     \* a bit of no message

\* Symbols that are one block in order give its bits.
Bits(symbols) ==
    IF \A j \in 1 .. Blk : symbols[j].block = symbols[1].block /\ symbols[j].j = j
    THEN symbols[1].block ELSE [j \in 1 .. Blk |-> Garbage]

RestWithPadding(in) == SubSeq(in, d_phr_payload_len + 1, Len(in))    \* mutant

\* d_buf_pos = 0 behind a frame and its padding.
Rest(in) == SubSeq(in, Body + 1, Len(in))

\* Deinterleavers and demappers, and work of zeropadding_removal_b.
Decode ==
    /\ Len(rx) >= Blk
    /\ rx' = SubSeq(rx, Blk + 1, Len(rx))
    /\ LET in == d_buf \o Bits(SubSeq(rx, 1, Blk))
       IN  IF Len(in) >= Body
           THEN /\ published' = Append(published, SubSeq(in, 1, d_phr_payload_len))
                /\ d_buf' = Rest(in)
           ELSE d_buf' = in /\ UNCHANGED published
    /\ UNCHANGED <<txVars, radio, heard, tagged, cut, failed>>

Receive == BufferDrops \/ BufferReturns \/ BufferConsumes

Next ==
    \/ PadZeros
    \/ Encode
    \/ Emit
    \/ Tag
    \/ Receive
    \/ Decode

\* The scheduler calls every block that has input and room.
Spec ==
    /\ Init /\ [][Next]_vars
    /\ WF_vars(PadZeros) /\ WF_vars(Encode) /\ WF_vars(Emit) /\ WF_vars(Tag) /\ WF_vars(Receive) /\ WF_vars(Decode)
-----------------------------------------------------------------------------
StreamTypeOK ==
    /\ burst \in Bursts /\ taken \in 0 .. Len(burst)
    /\ padded \in Seq((1 .. taken) \X Nat)
    /\ padded # <<>> => \E k \in Kinds : Len(padded) <= Backlog + LenOf(k) + d_nzeros
    /\ d_sym_ctr = emitted % d_nsym_frame
    /\ Len(coded) <= Blk /\ Len(heard) <= Lag /\ Len(tagged) <= Capacity /\ Len(rx) <= Capacity
    /\ Len(d_buf) < Body
    /\ faults \in 0 .. MaxFaults /\ Cardinality(damaged) <= faults
    /\ failed \in BOOLEAN

\* The flowgraph was built for the first k messages.
Built(k) == \A m \in 1 .. k : LenOf(burst[m]) = d_phr_payload_len

Message(m) == MessageBits(m, d_phr_payload_len)

(* zeropadding_removal_b cuts by counting alone, and frames go astray in front of
   it; still, whatever was lost, changed or taken for a preamble before, a frame
   that leaves frame_buffer_cc whole is published as its message. *)
IntactIfWhole ==
    \A p \in 1 .. Len(published) :
        (cut[p] # 0 /\ Built(cut[p])) => published[p] = Message(cut[p])

(* Messages come out once and in their order: frame_buffer_cc returns no frame
   twice, over tags that it meets again in the next call. *)
OnceInOrder ==
    \A p, q \in 1 .. Len(cut) : (p < q /\ cut[p] # 0 /\ cut[q] # 0) => cut[p] < cut[q]

(* The tagger looks at every symbol in two windows and yet marks no symbol twice,
   which would end the flowgraph. *)
NoDoubleTag == ~failed /\ \A i \in 1 .. Len(tagged) : tagged[i].sofs <= 1

\* The phases of a frame and the preamble behind it.
PhasesOf(kind) ==
    [i \in 1 .. d_nsym_frame + Hdr |->
        IF i \in Hdr + 1 .. d_nsym_frame THEN PhaseOf(kind, i - Hdr)
        ELSE Shr(((i - 1) % d_nsym_frame) + 1).phase]

\* No run of d_len_preamble phases that do not go forward ends in it, but the
\* preamble.
Quiet(kind) ==
    \A i \in Hdr + 1 .. d_nsym_frame + d_len_preamble - 1 :
        Apart(PhasesOf(kind)[i], PhasesOf(kind)[i + 1]) =>
            \E j \in i - d_len_preamble + 2 .. i : ~Same(PhasesOf(kind)[j - 1], PhasesOf(kind)[j], TRUE)

\* A frame that the receiver can see, between starts that it can see.
Visible(k) == {k, k + 1} \cap damaged = {} /\ Built(k + 1) /\ Quiet(burst[k])

Frames == 1 .. Max({Len(b) : b \in Bursts}) - 1

(* A visible frame is published when three frames have been sent from its start:
   none waits for ever while frames go on coming, and none is taken for a piece. *)
FramesArrive ==
    \A k \in Frames :
        (k + 1 <= Len(burst) /\ Visible(k) /\ emitted >= (k + 2) * d_nsym_frame + d_len_preamble + MaxFaults)
            ~> (\E p \in 1 .. Len(published) : cut[p] = k)
=============================================================================
