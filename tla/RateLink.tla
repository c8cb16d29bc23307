------------------------------ MODULE RateLink ------------------------------
(***************************************************************************)
(* The spreading length on its way through the O-QPSK transmitter, and the *)
(* packet sink (module PacketSink) that has to follow it.  The letter of a *)
(* rate is kept in a file, rec_ack, which                                  *)
(*   - lib/renew_chip_num.cc empties and writes, in two steps;             *)
(*   - lib/access_code_prefixer.cc reads when it frames a message: the     *)
(*     letter selects the second nibble of the delimiter;                  *)
(*   - lib/chunks_to_symbols_impl.cc reads again when it spreads: the      *)
(*     letter selects the chips of every symbol behind the header.         *)
(* The air carries symbols of so many chips.  A window of the receiver     *)
(* that is exactly one symbol is answered with that symbol; what any other *)
(* window looks like, and noise, is left open.                             *)
(***************************************************************************)
EXTENDS PacketSink, FiniteSets, SequencesExt

CONSTANTS
    Letters,        \* the rates in use, of "A", "B", "C", "D"
    ChipNum,        \* getChipNum: letter -> chips of a symbol on the air
    Zeros,          \* symbols of the preamble: 8
    Payloads,       \* what the MAC sends, in order: sequences of bytes
    Noise,          \* what a window that is no symbol may be taken for
    Cuts,           \* bound: sizes of a call of work() that ends inside a packet
    MaxDisturbed,   \* bound: such windows while packets are sent
    MaxRenewals     \* bound: letters that renew_chip_num writes

Other == "other"    \* a letter that is no rate
Empty == "empty"    \* the file between fopen("w+") and fclose

SfdOf(l) == CASE l = "A" -> 10 [] l = "C" -> 12 [] l = "D" -> 13 [] OTHER -> 11
SpreadOf(l) == IF l \in DOMAIN ChipNum THEN ChipNum[l] ELSE ChipNum["B"]

ASSUME RateAssumption ==
    /\ Letters \subseteq {"A", "B", "C", "D"}
    /\ "B" \in DOMAIN ChipNum
    /\ \A l \in Letters \cup {Other} :
            SfdOf(l) \in SFDs /\ ChipsOf[SfdOf(l)] = SpreadOf(l)
ASSUME PayloadAssumption ==
    /\ Payloads \in Seq(Seq(0 .. 255) \ {<<>>})
    /\ \A i \in DOMAIN Payloads : Len(Payloads[i]) < 251     \* assert(data_len < 256 - 5)
ASSUME HeaderAssumption ==
    /\ Zeros \in Nat \ {0}
    /\ {0, 7} \subseteq Nibbles
    /\ Noise \subseteq Answers
    /\ \A l \in Letters \cup {Other} : SpreadOf(l) <= HeadChips

HeaderSymbols == Zeros + 2      \* preamble and delimiter of a frame
Stale == 254                    \* a symbol read behind the end of the input

VARIABLES
    file,           \* rec_ack
    writing,        \* the letter renew_chip_num is about to write, or Empty
    renewals,       \* letters written so far
    toCome,         \* payloads the MAC still sends
    stream,         \* framed symbols on their way to chunks_to_symbols
    air,            \* spread symbols still to be heard
    chip,           \* chips of the first of them that were heard
    sent,           \* history: the payloads framed, and their delimiters
    good,           \* history: packets that started a call which held all of them
                    \* and spread them as their delimiter says
    source,         \* history: the packet whose delimiter the sink has taken, or 0
    disturbed,      \* windows that were no symbol and were taken for one
    received        \* history: the frames published while there was none

fileVars == <<file, writing, renewals>>
sendVars == <<toCome, stream, sent>>
airVars == <<air, chip>>
rxHistory == <<source, disturbed, received>>
vars == <<sinkVars, fileVars, sendVars, airVars, good, rxHistory>>

RateInit ==
    /\ Init
    /\ file \in Letters
    /\ writing = Empty
    /\ renewals = 0
    /\ toCome \in {<<>>, Payloads}
    /\ stream = <<>>
    /\ air = <<>>
    /\ chip = 0
    /\ sent = <<>>
    /\ good = {}
    /\ source = 0
    /\ disturbed = 0
    /\ received = <<>>

-----------------------------------------------------------------------------
(* The file. *)

\* fopen("w+") empties the file ...
RenewOpens(l) ==
    /\ writing = Empty /\ renewals < MaxRenewals
    /\ writing' = l
    /\ file' = Empty
    /\ renewals' = renewals + 1
    /\ UNCHANGED <<sinkVars, sendVars, airVars, good, rxHistory>>

\* ... and the letter appears at fclose.
RenewCloses ==
    /\ writing # Empty
    /\ file' = writing
    /\ writing' = Empty
    /\ UNCHANGED <<renewals, sinkVars, sendVars, airVars, good, rxHistory>>

\* fscanf leaves tmp as the stack has it when the file is empty.
ReadsFrom(f) == IF f = Empty THEN Letters \cup {Other} ELSE {f}

-----------------------------------------------------------------------------
(* The transmitter. *)

\* Low nibble first.
Symbols(bytes) ==
    [i \in 1 .. 2 * Len(bytes) |->
        IF i % 2 = 1 THEN bytes[(i + 1) \div 2] % 16 ELSE bytes[i \div 2] \div 16]

Item(nibble, packet_) == [nibble |-> nibble, of |-> packet_]

\* Preamble, delimiter, length and payload.  The delimiter carries the number of
\* its packet.
FrameOf(l, payload, p) ==
    [i \in 1 .. Zeros |-> Item(0, 0)]
        \o <<Item(7, 0), Item(SfdOf(l), p)>>
        \o [i \in 1 .. 2 + 2 * Len(payload) |->
                Item(Symbols(<<Len(payload)>> \o payload)[i], 0)]

MakeFrame(l) ==
    /\ toCome # <<>>
    /\ toCome' = Tail(toCome)
    /\ sent' = Append(sent, [payload |-> Head(toCome), sfd |-> SfdOf(l)])
    /\ stream' = stream \o FrameOf(l, Head(toCome), Len(sent) + 1)
    /\ UNCHANGED <<sinkVars, fileVars, airVars, good, rxHistory>>

\* PMT_EOF ends the block.
MakeFrameEof ==
    /\ toCome # <<>>
    /\ toCome' = <<>>
    /\ UNCHANGED <<sinkVars, fileVars, stream, sent, airVars, good, rxHistory>>

OneMoreAsHeader == Zeros + 3    \* mutant: i <= 10
OneLessAsHeader == Zeros + 1    \* mutant: i < 9

\* Symbols of a call that are spread with the header's table: i < 10.
AsHeader == Zeros + 2

Size(i, c) == IF i <= AsHeader THEN HeadChips ELSE c

\* The chips in front of the i-th symbol of a call.
Before(i, c) ==
    IF i <= AsHeader THEN HeadChips * (i - 1)
    ELSE HeadChips * AsHeader + c * (i - 1 - AsHeader)

\* What a call for n symbols puts on the air.  The scheduler passes on
\* HeadChips chips for each of them (an interpolation of 32), the loop counts
\* by the letter: where a symbol has fewer chips it reads on behind the n
\* symbols, and its last ones do not fit any more.
Spread(n, c) ==
    LET room == HeadChips * n
    IN  [i \in 1 .. Cardinality({j \in 1 .. room \div c : Before(j, c) < room}) |->
            [nibble |-> IF i <= Len(stream) /\ Before(i, c) + Size(i, c) <= room
                        THEN stream[i].nibble ELSE Stale,
             of     |-> IF i <= n THEN stream[i].of ELSE 0,
             chips  |-> Min({Size(i, c), room - Before(i, c)})]]

\* Where packets end in the stream: it holds the rest of one and whole ones.
PacketEnds ==
    {i \in 1 .. Len(stream) :
        \/ i = Len(stream)
        \/ /\ i + HeaderSymbols <= Len(stream)
           /\ stream[i + HeaderSymbols].of # 0}

\* The packet that starts the stream, 0 when the rest of another does.
FirstPacket == IF Len(stream) < HeaderSymbols THEN 0 ELSE stream[HeaderSymbols].of

\* One call of work(), for as many symbols as the scheduler likes (any number,
\* when Cuts has them all).  The packet
\* that starts the call is good when all of it is in the call and it is spread
\* as its delimiter announces.  No other packet of the call is: its header is
\* spread with the letter's table.
Work(l, n) ==
    /\ air = <<>>
    /\ n \in PacketEnds \cup Cuts
    /\ air' = Spread(n, SpreadOf(l))
    /\ stream' = SubSeq(stream, n + 1, Len(stream))
    /\ good' = IF /\ FirstPacket # 0
                  /\ \E e \in PacketEnds : e <= n
                  /\ ChipsOf[stream[HeaderSymbols].nibble] = SpreadOf(l)
               THEN good \cup {FirstPacket}
               ELSE good
    /\ UNCHANGED <<chip, toCome, sent, sinkVars, fileVars, rxHistory>>

-----------------------------------------------------------------------------
(* The receiver: one step of the sink for each chip, of a symbol or noise. *)

\* The next chip is the last one of a symbol, and the sink's window is all of
\* this symbol and nothing else.
Ends == air # <<>> /\ chip + 1 = air[1].chips
Exact(due) == Ends /\ air[1].chips = due /\ air[1].nibble # Stale

NextChip ==
    IF Ends THEN air' = Tail(air) /\ chip' = 0
    ELSE air' = air /\ chip' = IF air = <<>> THEN 0 ELSE chip + 1

\* What the window is taken for.  A radio that sends nothing may hear noise as
\* it likes, one that does only so often.
Hears(h) ==
    IF Exact(Due) THEN h = air[1].nibble /\ UNCHANGED disturbed
    ELSE \/ h = Invalid /\ UNCHANGED disturbed
         \/ /\ h \in Noise \ {Invalid}
            /\ \/ disturbed < MaxDisturbed /\ disturbed' = disturbed + 1
               \/ toCome = <<>> /\ sent = <<>> /\ UNCHANGED disturbed

\* The sender's side and the file stay as they are while a chip is heard.
Heard == NextChip /\ UNCHANGED <<fileVars, sendVars, good>>

HearUnlocked ==
    \E h \in Answers :
        /\ Hears(h)
        /\ Unlocked(h = 0)
        /\ Heard
        /\ UNCHANGED <<source, received>>

HearInside ==
    /\ Count
    /\ Heard
    /\ UNCHANGED rxHistory

HearPreamble ==
    \E h \in Answers :
        /\ Hears(h)
        /\ PreambleSymbol(h)
        /\ Heard
        /\ UNCHANGED <<source, received>>

HearDelimiter ==
    \E h \in Answers :
        /\ Hears(h)
        /\ DelimiterSymbol(h)
        /\ source' = IF h \notin SFDs THEN source
                     ELSE IF Exact(Due) THEN air[1].of ELSE 0
        /\ Heard
        /\ UNCHANGED received

HearLength ==
    \E c \in Answers :
        /\ Hears(c)
        /\ LengthSymbol(c)
        /\ Heard
        /\ UNCHANGED <<source, received>>

HearBody ==
    \E c \in Answers :
        /\ Hears(c)
        /\ BodySymbol(c)
        /\ received' = IF state' = "SYNC_SEARCH" /\ disturbed = 0 /\ sent # <<>>
                       THEN Append(received, out') ELSE received
        /\ Heard
        /\ UNCHANGED source

Hear ==
    \/ HearUnlocked
    \/ HearInside
    \/ HearPreamble
    \/ HearDelimiter
    \/ HearLength
    \/ HearBody

RateNext ==
    \/ \E l \in Letters \cup {Other} : RenewOpens(l)
    \/ RenewCloses
    \/ \E l \in ReadsFrom(file) : MakeFrame(l)
    \/ MakeFrameEof
    \/ \E l \in ReadsFrom(file), n \in 1 .. Len(stream) : Work(l, n)
    \/ Hear

\* The radio delivers samples all the time; the threads are scheduled.
RateSpec ==
    /\ RateInit
    /\ [][RateNext]_vars
    /\ WF_vars(Hear)
-----------------------------------------------------------------------------
\* The sink can take the packet whole: it has the length taken for every packet
\* with its delimiter, or one that is believed.
Fits(p) ==
    LET len == Len(sent[p].payload)
    IN  IF sent[p].sfd \in FixedLength THEN len = DefaultLen ELSE len <= MaxPktLen

(* However rec_ack changes under its two readers, wherever calls of work() end,
   and whatever went wrong with earlier packets or is noise: a frame that the
   sink publishes behind the delimiter of a good packet (one that started a call
   which held all of it and spread it as its delimiter says) is this packet. *)
GoodIsIntact ==
    (state = "SYNC_SEARCH" /\ out # <<>> /\ source \in good /\ Fits(source)) =>
        out = sent[source].payload

(* When every packet is good, so each call of work() was one whole packet and
   spread it as its delimiter says, no packet is lost or changes its place, over
   every change of the rate, as long as the correlator takes no noise for a
   symbol.  Calls that hold two packets are left out: of those only the first is
   good, the second one's header is spread with the letter's table. *)
AllArrive ==
    (disturbed = 0 /\ sent # <<>> /\ stream = <<>> /\ air = <<>> /\ \A p \in DOMAIN sent : p \in good /\ Fits(p)) =>
        received = [p \in DOMAIN sent |-> sent[p].payload]
=============================================================================
