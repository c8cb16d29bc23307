----------------------------- MODULE PacketSink -----------------------------
(***************************************************************************)
(* lib/packet_sink.cc: the receiver of the O-QPSK PHY, from sliced chips   *)
(* to frames.  One step takes one chip.  A chip that fills a symbol is     *)
(* answered by the correlator; which chips give which answer is data the   *)
(* model leaves open, so the steps take the answer as a parameter.         *)
(*                                                                         *)
(* The second nibble of the start-of-frame delimiter selects the number of *)
(* chips per symbol of the rest of the frame; `sfd' stands for d_chip_num  *)
(* and the threshold that goes with it.  Link quality, error estimates and *)
(* log files are left out, the index into the estimates is not.            *)
(***************************************************************************)
EXTENDS Integers, Sequences

CONSTANTS
    HeadChips,      \* chips of a symbol of preamble and delimiter: 64
    ChipsOf,        \* second nibble of the delimiter -> chips of a symbol
    FixedLength,    \* the nibbles with which the length byte is not used
    MaxPktLen,      \* MAX_PKT_LEN, the size of d_packet: 127
    DefaultLen,     \* the length taken for one that is not usable: 32
    BeSize,         \* the size of the array be: 256
    Nibbles         \* what a symbol may stand for

SFDs == DOMAIN ChipsOf
Invalid == 255      \* what decode_chips returns for chips close to no symbol
Answers == Nibbles \cup {Invalid}

ASSUME ChipsAssumption ==
    /\ HeadChips \in Nat \ {0}
    /\ ChipsOf \in [SFDs -> Nat \ {0}]
    /\ SFDs \subseteq 1 .. 15
    /\ FixedLength \subseteq SFDs
ASSUME SizeAssumption ==
    /\ MaxPktLen \in Nat
    /\ DefaultLen \in 1 .. MaxPktLen
    /\ BeSize \in Nat
    /\ 2 * MaxPktLen <= BeSize
ASSUME NibbleAssumption == Nibbles \subseteq 0 .. 15

VARIABLES
    state,          \* d_state
    locked,         \* d_preamble_cnt > 0: the chips of the preamble are aligned
    delimiter,      \* d_packet_byte # 0 in the search: its first nibble was found
    chipCnt,        \* d_chip_cnt
    sfd,            \* d_chip_num, 0 when it was never set
    packetByte,     \* d_packet_byte, past the search
    byteIndex,      \* d_packet_byte_index
    packetLen,      \* d_packetlen
    payloadCnt,     \* d_payload_cnt
    packet,         \* d_packet up to d_packetlen_cnt
    bct,            \* bct, the next index into be
    out,            \* history: the frame published since the last delimiter
    heard           \* history: the answers since the last delimiter

sinkVars == <<state, locked, delimiter, chipCnt, sfd, packetByte, byteIndex,
              packetLen, payloadCnt, packet, bct, out, heard>>
syncVars == <<locked, delimiter>>
byteVars == <<packetByte, byteIndex>>
frameVars == <<packetLen, payloadCnt, packet, bct, out, heard>>

Init ==
    /\ state = "SYNC_SEARCH"
    /\ locked = FALSE
    /\ delimiter = FALSE
    /\ chipCnt = 0
    /\ sfd = 0
    /\ packetByte = 0
    /\ byteIndex = 0
    /\ packetLen = 0
    /\ payloadCnt = 0
    /\ packet = <<>>
    /\ bct = 0
    /\ out = <<>>
    /\ heard = <<>>

-----------------------------------------------------------------------------
(* The transitions the code names, and the byte it puts together from two  *)
(* answers in eight bits: an invalid one fills its nibble, or all of it.   *)

EnterSearchKeepsCount ==        \* mutant: d_chip_cnt runs on
    /\ state' = "SYNC_SEARCH"
    /\ locked' = FALSE
    /\ delimiter' = FALSE
    /\ UNCHANGED chipCnt

EnterSearch ==
    /\ state' = "SYNC_SEARCH"
    /\ locked' = FALSE
    /\ delimiter' = FALSE
    /\ chipCnt' = 0

\* d_chip_cnt is not reset here: it was when the symbol was full.
EnterHaveSync ==
    /\ state' = "HAVE_SYNC"
    /\ packet' = <<>>
    /\ packetByte' = 0
    /\ byteIndex' = 0

EnterHaveHeaderMidByte(len) ==  \* mutant: d_packet_byte_index runs on
    /\ state' = "HAVE_HEADER"
    /\ packetLen' = len
    /\ payloadCnt' = 0
    /\ packetByte' = 0
    /\ UNCHANGED byteIndex

EnterHaveHeader(len) ==
    /\ state' = "HAVE_HEADER"
    /\ packetLen' = len
    /\ payloadCnt' = 0
    /\ packetByte' = 0
    /\ byteIndex' = 0

WithNibble(c) ==
    IF byteIndex = 0 THEN c
    ELSE IF packetByte = Invalid THEN Invalid ELSE packetByte + 16 * (c % 16)

FrameLenUnchecked(byte) == byte \* mutant: any length is believed

\* 16 and 4 chips a symbol take DefaultLen whatever the byte says.
FrameLen(byte) ==
    IF sfd \in FixedLength \/ byte > MaxPktLen THEN DefaultLen ELSE byte

-----------------------------------------------------------------------------
(* The chips a symbol has now, and whether the next chip is its last one.  *)
(* Before the body the count is compared with ==, in the body it is taken  *)
(* modulo: a count past its limit would be met again only there.           *)

Due == IF state = "SYNC_SEARCH" THEN HeadChips ELSE ChipsOf[sfd]

Full ==
    IF state = "HAVE_HEADER" THEN (chipCnt + 1) % Due = 0 ELSE chipCnt + 1 = Due

\* Without an aligned preamble each chip is tried as the end of a zero.
Unlocked(found) ==
    /\ state = "SYNC_SEARCH"
    /\ ~locked
    /\ locked' = found
    /\ UNCHANGED <<state, delimiter, chipCnt, sfd, byteVars, frameVars>>

\* A chip in the middle of a symbol.
Count ==
    /\ state = "SYNC_SEARCH" => locked
    /\ ~Full
    /\ chipCnt' = IF state = "HAVE_HEADER" THEN (chipCnt + 1) % Due ELSE chipCnt + 1
    /\ UNCHANGED <<state, syncVars, sfd, byteVars, frameVars>>

\* A symbol of the preamble: one more zero, the first nibble of the
\* delimiter, or something else, which starts the search anew.
PreambleSymbol(h) ==
    /\ state = "SYNC_SEARCH" /\ locked /\ ~delimiter /\ Full
    /\ \/ /\ h \in {0, 7}
          /\ delimiter' = (h = 7)
          /\ chipCnt' = 0
          /\ UNCHANGED <<state, locked>>
       \/ /\ h \notin {0, 7}
          /\ EnterSearch
    /\ UNCHANGED <<sfd, byteVars, frameVars>>

\* The second nibble of the delimiter.  Any other symbol is passed over, and
\* the sink goes on waiting for that nibble.
DelimiterSymbol(h) ==
    /\ state = "SYNC_SEARCH" /\ locked /\ delimiter /\ Full
    /\ chipCnt' = 0
    /\ \/ /\ h \in SFDs
          /\ sfd' = h
          /\ EnterHaveSync
          /\ heard' = <<>>
          /\ out' = <<>>
          /\ UNCHANGED <<syncVars, packetLen, payloadCnt, bct>>
       \/ /\ h \notin SFDs
          /\ UNCHANGED <<state, syncVars, sfd, byteVars, frameVars>>

LengthSymbolRetries(c) ==       \* mutant: reads on until a length is usable
    /\ state = "HAVE_SYNC" /\ Full
    /\ chipCnt' = 0
    /\ \/ /\ byteIndex = 0
          /\ packetByte' = WithNibble(c)
          /\ byteIndex' = 1
          /\ heard' = Append(heard, c)
          /\ UNCHANGED <<state, packetLen, payloadCnt>>
       \/ /\ byteIndex # 0
          /\ WithNibble(c) <= MaxPktLen
          /\ EnterHaveHeader(FrameLen(WithNibble(c)))
          /\ heard' = Append(heard, c)
       \/ /\ byteIndex # 0
          /\ WithNibble(c) > MaxPktLen
          /\ packetByte' = 0
          /\ byteIndex' = 0
          /\ heard' = <<>>
          /\ UNCHANGED <<state, packetLen, payloadCnt>>
    /\ UNCHANGED <<syncVars, sfd, packet, bct, out>>

\* One of the two symbols of the length byte.
LengthSymbol(c) ==
    /\ state = "HAVE_SYNC" /\ Full
    /\ chipCnt' = 0
    /\ heard' = Append(heard, c)
    /\ \/ /\ byteIndex = 0
          /\ packetByte' = WithNibble(c)
          /\ byteIndex' = 1
          /\ UNCHANGED <<state, packetLen, payloadCnt>>
       \/ /\ byteIndex # 0
          /\ EnterHaveHeader(FrameLen(WithNibble(c)))
    /\ UNCHANGED <<syncVars, sfd, packet, bct, out>>

\* A symbol that is not valid counts as 0 in the body.
BodyNibble(c) == IF c = Invalid THEN 0 ELSE c

FrameEndsKeepsEstimates(frame) ==       \* mutant: bct runs on
    /\ bct' = bct + 1
    /\ out' = frame
    /\ EnterSearch

\* receive_frame(), the message, and the search for the next frame.
FrameEnds(frame) ==
    /\ bct' = 0
    /\ out' = frame
    /\ EnterSearch

\* One symbol of the body: its estimate goes into be, each second one fills a
\* byte, and the last byte publishes the frame.
BodySymbol(c) ==
    /\ state = "HAVE_HEADER" /\ Full
    /\ heard' = Append(heard, c)
    /\ packetByte' = WithNibble(BodyNibble(c))
    /\ \/ /\ byteIndex = 0
          /\ byteIndex' = 1
          /\ chipCnt' = 0
          /\ bct' = bct + 1
          /\ UNCHANGED <<state, syncVars, payloadCnt, packet, out>>
       \/ /\ byteIndex # 0
          /\ byteIndex' = 0
          /\ packet' = Append(packet, packetByte')
          /\ payloadCnt' = payloadCnt + 1
          /\ IF payloadCnt' >= packetLen
                THEN FrameEnds(packet')
                ELSE /\ chipCnt' = 0
                     /\ bct' = bct + 1
                     /\ UNCHANGED <<state, syncVars, out>>
    /\ UNCHANGED <<sfd, packetLen>>

\* general_work has the code of BodySymbol four times; the copies for 4 and for
\* 64 chips differ from those for 32 and 16 in ChipsOf and FixedLength.
Next ==
    \/ \E found \in BOOLEAN : Unlocked(found)
    \/ Count
    \/ \E h \in Answers : PreambleSymbol(h) \/ DelimiterSymbol(h)
    \/ \E c \in Answers : LengthSymbol(c) \/ BodySymbol(c)

\* The radio delivers samples all the time, noise if nobody sends.
Spec == Init /\ [][Next]_sinkVars /\ WF_sinkVars(Next)
-----------------------------------------------------------------------------
SinkTypeOK ==
    /\ state \in {"SYNC_SEARCH", "HAVE_SYNC", "HAVE_HEADER"}
    /\ locked \in BOOLEAN
    /\ delimiter \in BOOLEAN
    /\ chipCnt \in Nat
    /\ sfd \in SFDs \cup {0}
    /\ packetByte \in 0 .. 255
    /\ byteIndex \in {0, 1}
    /\ packetLen \in 0 .. MaxPktLen
    /\ payloadCnt \in Nat
    /\ packet \in Seq(0 .. 255)
    /\ bct \in Nat
    /\ out \in Seq(0 .. 255)
    /\ heard \in Seq(Answers)

(* The chip counter is carried from state to state without a reset and
   compared with ==, against a limit that changes with the delimiter: it is
   always below the limit that is due, so it always meets it, and it never
   leaves per_chip_0_pos, which it indexes in the body.  No symbol is read
   before a delimiter has set how many chips it has. *)
CountersMeet ==
    /\ state # "SYNC_SEARCH" => sfd \in SFDs
    /\ chipCnt < Due
    /\ ~locked => chipCnt = 0

(* d_packet and be are written without a check, through indices that are reset
   in three different places, one of them only when a frame is complete.
   Whatever the correlator answers, no index passes the end of its array. *)
InBounds ==
    /\ Len(packet) <= MaxPktLen
    /\ bct <= BeSize

ByteOf(lo, hi) == BodyNibble(lo) + 16 * BodyNibble(hi)
LengthByte(lo, hi) == IF lo = Invalid THEN Invalid ELSE lo + 16 * (hi % 16)

(* The frame that goes out is made of the symbols behind its own delimiter and
   length, all of them and no others, and has the length that was asked for,
   or one byte where that was 0. *)
FrameAsHeard ==
    (state = "SYNC_SEARCH" /\ heard # <<>>) =>
        LET len == FrameLen(LengthByte(heard[1], heard[2]))
        IN  /\ Len(out) = IF len = 0 THEN 1 ELSE len
            /\ Len(heard) = 2 + 2 * Len(out)
            /\ \A i \in 1 .. Len(out) :
                    out[i] = ByteOf(heard[2 * i + 1], heard[2 * i + 2])

(* Whatever noise follows a delimiter, the sink is soon back at the search. *)
EveryFrameEnds == state # "SYNC_SEARCH" ~> state = "SYNC_SEARCH"
=============================================================================
