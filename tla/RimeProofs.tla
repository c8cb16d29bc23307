------------------------------ MODULE RimeProofs ------------------------------
(***************************************************************************)
(* Proofs about RimeStack: for any stacks, addresses, channels and number  *)
(* of messages.                                                            *)
(***************************************************************************)
EXTENDS RimeStack, FiniteSetTheorems, TLAPS

-------------------------------------------------------------------------------
(* What unpack reads is what make_msgbuf wrote.                            *)

\* Three bits of a byte and its other five, one byte apart.
LEMMA SplitByte ==
    \A x, y \in Byte : /\ Uint8(Uint8(x * 32) * 8) = 0
                       /\ (Uint8(x * 32) + y \div 8) \div 32 = x % 8
                       /\ Uint8((Uint8(x * 32) + y \div 8) * 8) = (y \div 8) * 8
                       /\ Uint8(x * 32) \div 32 = x % 8
                       /\ (y \div 8) * 8 + (y % 8) = y
                       /\ Uint8(x * 32) + y \div 8 \in Byte
                       /\ Uint8(x * 32) \in Byte
<1> TAKE x, y \in Byte
<1>1. PICK a \in 0 .. 31, b \in 0 .. 7 : x = 8 * a + b
  <2>1. x \div 8 \in 0 .. 31 /\ x % 8 \in 0 .. 7 /\ x = 8 * (x \div 8) + (x % 8)
    BY DEF Byte
  <2> QED BY <2>1
<1>2. PICK c \in 0 .. 31, d \in 0 .. 7 : y = 8 * c + d
  <2>1. y \div 8 \in 0 .. 31 /\ y % 8 \in 0 .. 7 /\ y = 8 * (y \div 8) + (y % 8)
    BY DEF Byte
  <2> QED BY <2>1
<1>3. x % 8 = b /\ y \div 8 = c /\ y % 8 = d
  BY <1>1, <1>2
<1>4. Uint8(x * 32) = 32 * b
  BY <1>1 DEF Uint8
<1>5. (32 * b + c) \div 32 = b /\ (32 * b) \div 32 = b
  OBVIOUS
<1>6. ((32 * b + c) * 8) % 256 = c * 8 /\ ((32 * b) * 8) % 256 = 0
  OBVIOUS
<1> QED BY <1>2, <1>3, <1>4, <1>5, <1>6 DEF Byte, Uint8

\* The two bytes of a channel, and the channel from them.
LEMMA ChannelBytes ==
    ASSUME NEW c \in Channel
    PROVE  Low(c) \in Byte /\ High(c) \in Byte /\ c = 256 * High(c) + Low(c)
<1>1. c \in Int /\ 0 <= c /\ c <= 65535
  BY DEF Channel
<1>2. c % 256 \in 0 .. 255 /\ c = 256 * (c \div 256) + (c % 256)
  BY <1>1
<1>3. c \div 256 \in Int
  BY <1>1
<1>4. c \div 256 >= 0 /\ c \div 256 <= 255
  BY <1>1, <1>2, <1>3
<1> QED BY <1>2, <1>3, <1>4 DEF Low, High, Byte

\* The runicast header gives back the flag, the seqno and both addresses.
LEMMA RucRoundTrip ==
    ASSUME NEW c \in Channel, NEW flag \in Flag, NEW q \in 0 .. (SeqMod - 1),
           NEW src \in Address, NEW dest \in Address
    PROVE  LET h == RucHeader(c, flag, q, src, dest) IN
           /\ h \in Seq(Byte)
           /\ RucTarget(h) = dest /\ RucSender(h) = src
           /\ RucIsAck(h) <=> flag = AckFlag
           /\ RucSeqno(h) = q
<1> DEFINE h == RucHeader(c, flag, q, src, dest)
<1>1. PICK a, b \in Byte : dest = <<a, b>>
  BY DEF Address
<1>2. PICK x, y \in Byte : src = <<x, y>>
  BY DEF Address
<1>3. h = << Low(c), High(c), flag + q * 32 + a \div 8, Uint8(a * 32) + b \div 8,
             Uint8(b * 32) + x \div 8, Uint8(x * 32) + y \div 8, Uint8(y * 32) >>
  BY <1>1, <1>2 DEF RucHeader
<1>4. Low(c) \in Byte /\ High(c) \in Byte
  BY ChannelBytes
<1>5. PICK e \in 0 .. 31 : a \div 8 = e
  <2>1. a \div 8 \in 0 .. 31
    BY DEF Byte
  <2> QED BY <2>1
<1>6. /\ flag + q * 32 + a \div 8 \in Byte
      /\ Uint8((flag + q * 32 + a \div 8) * 8) = (a \div 8) * 8
      /\ flag + q * 32 + a \div 8 >= 128 <=> flag = 128
      /\ ((flag + q * 32 + a \div 8) % 128) \div 32 = q
  <2>1. q \in {0, 1, 2, 3}
    BY DEF SeqMod
  <2>2. CASE flag = 128
    <3> QED BY <2>1, <2>2, <1>5 DEF Byte, Uint8
  <2>3. CASE flag = 0
    <3> QED BY <2>1, <2>3, <1>5 DEF Byte, Uint8
  <2> QED BY <2>2, <2>3 DEF Flag, DataFlag, AckFlag
<1>7. h \in Seq(Byte)
  BY <1>3, <1>4, <1>6, SplitByte
<1>8. ByteAt(h, 3) = a /\ ByteAt(h, 4) = b /\ ByteAt(h, 5) = x /\ ByteAt(h, 6) = y
  <2>1. /\ ByteAt(h, 3) = Uint8((flag + q * 32 + a \div 8) * 8) + (Uint8(a * 32) + b \div 8) \div 32
        /\ ByteAt(h, 4) = Uint8((Uint8(a * 32) + b \div 8) * 8) + (Uint8(b * 32) + x \div 8) \div 32
        /\ ByteAt(h, 5) = Uint8((Uint8(b * 32) + x \div 8) * 8) + (Uint8(x * 32) + y \div 8) \div 32
        /\ ByteAt(h, 6) = Uint8((Uint8(x * 32) + y \div 8) * 8) + Uint8(y * 32) \div 32
    BY <1>3 DEF ByteAt
  <2>2. /\ ByteAt(h, 3) = (a \div 8) * 8 + (a % 8) /\ ByteAt(h, 4) = (b \div 8) * 8 + (b % 8)
        /\ ByteAt(h, 5) = (x \div 8) * 8 + (x % 8) /\ ByteAt(h, 6) = (y \div 8) * 8 + (y % 8)
    BY <2>1, <1>6, SplitByte
  <2> QED BY <2>2, SplitByte
<1>9. h[3] = flag + q * 32 + a \div 8
  BY <1>3
<1> HIDE DEF h
<1>10. RucTarget(h) = dest /\ RucSender(h) = src
  BY <1>1, <1>2, <1>8 DEF RucTarget, RucSender
<1>11. (RucIsAck(h) <=> flag = AckFlag) /\ RucSeqno(h) = q
  BY <1>6, <1>9 DEF RucIsAck, RucSeqno, AckFlag
<1> QED BY <1>7, <1>10, <1>11 DEF h

\* The same, for a message and for an ack.
LEMMA DataRoundTrip ==
    ASSUME NEW c \in Channel, NEW q \in 0 .. (SeqMod - 1),
           NEW src \in Address, NEW dest \in Address
    PROVE  LET h == RucHeader(c, DataFlag, q, src, dest) IN
           /\ h \in Seq(Byte) /\ RucTarget(h) = dest /\ RucSender(h) = src
           /\ ~RucIsAck(h) /\ RucSeqno(h) = q
BY RucRoundTrip DEF Flag, DataFlag, AckFlag

LEMMA AckRoundTrip ==
    ASSUME NEW c \in Channel, NEW q \in 0 .. (SeqMod - 1),
           NEW src \in Address, NEW dest \in Address
    PROVE  LET h == RucHeader(c, AckFlag, q, src, dest) IN
           /\ h \in Seq(Byte) /\ RucTarget(h) = dest /\ RucSender(h) = src
           /\ RucIsAck(h) /\ RucSeqno(h) = q
BY RucRoundTrip DEF Flag, DataFlag, AckFlag

\* So do the two plain headers.
LEMMA UcRoundTrip ==
    ASSUME NEW c \in Channel, NEW src \in Address, NEW dest \in Address
    PROVE  /\ UcHeader(c, src, dest) \in Seq(Byte)
           /\ UcTarget(UcHeader(c, src, dest)) = dest
<1>1. PICK a, b \in Byte : dest = <<a, b>>
  BY DEF Address
<1>2. PICK x, y \in Byte : src = <<x, y>>
  BY DEF Address
<1>3. Low(c) \in Byte /\ High(c) \in Byte
  BY ChannelBytes
<1> QED BY <1>1, <1>2, <1>3 DEF UcHeader, UcTarget

LEMMA BcHeaderType ==
    ASSUME NEW c \in Channel, NEW src \in Address
    PROVE  BcHeader(c, src) \in Seq(Byte)
<1>1. PICK x, y \in Byte : src = <<x, y>>
  BY DEF Address
<1>2. Low(c) \in Byte /\ High(c) \in Byte
  BY ChannelBytes
<1> QED BY <1>1, <1>2 DEF BcHeader

\* Every header starts with its channel, and only that channel matches.
LEMMA HeaderChannel ==
    ASSUME NEW c \in Channel, NEW flag, NEW q, NEW src, NEW dest
    PROVE  /\ BcHeader(c, src)[1] = Low(c) /\ BcHeader(c, src)[2] = High(c)
           /\ UcHeader(c, src, dest)[1] = Low(c) /\ UcHeader(c, src, dest)[2] = High(c)
           /\ RucHeader(c, flag, q, src, dest)[1] = Low(c)
           /\ RucHeader(c, flag, q, src, dest)[2] = High(c)
BY DEF BcHeader, UcHeader, RucHeader

LEMMA MatchesChannel ==
    ASSUME NEW c \in Channel, NEW d \in Channel, NEW h,
           h[1] = Low(d), h[2] = High(d), Matches(c, h)
    PROVE  c = d
<1>1. c = Low(d) /\ High(c) = High(d)
  BY DEF Matches
<1>2. Low(c) = c
  BY <1>1, ChannelBytes DEF Low, Byte
<1> QED BY <1>1, <1>2, ChannelBytes

-------------------------------------------------------------------------------
(* Connections, addresses, packets.                                        *)

\* add_connections makes connections of the three kinds, with 16-bit channels.
LEMMA ConnTypes ==
    ASSUME NEW s \in Stacks
    PROVE  /\ Index(s) \subseteq Nat
           /\ \A i \in Index(s) : Kind(s, i) \in {"bc", "uc", "ruc"} /\ Chan(s, i) \in Channel
<1>1. ASSUME NEW kind \in {"bc", "uc", "ruc"}, NEW channels \in Seq(Channel)
      PROVE  Typed(kind, channels) \in Seq(Conn)
  <2>1. Len(channels) \in Nat /\ \A i \in 1 .. Len(channels) : channels[i] \in Channel
    OBVIOUS
  <2>2. Typed(kind, channels) \in [1 .. Len(channels) -> Conn]
    BY <2>1 DEF Typed, Conn
  <2> QED BY <2>1, <2>2
<1>2. /\ Typed("bc", BcChannels[s]) \in Seq(Conn)
      /\ Typed("uc", UcChannels[s]) \in Seq(Conn)
      /\ Typed("ruc", RucChannels[s]) \in Seq(Conn)
  BY <1>1, ChannelAssumption
<1>3. Conns(s) \in Seq(Conn)
  BY <1>2 DEF Conns
<1>4. DOMAIN Conns(s) \subseteq Nat /\ \A i \in DOMAIN Conns(s) : Conns(s)[i] \in Conn
  BY <1>3
<1> QED BY <1>4 DEF Index, Kind, Chan, Conn

\* A port is a stack and one of its connections.
LEMMA PortPair ==
    /\ \A s \in Stacks : \A i \in Index(s) : <<s, i>> \in Ports
    /\ \A s \in Stacks : \A i \in Index(s) : Kind(s, i) = "ruc" => <<s, i>> \in RucPorts
    /\ \A p \in RucPorts : /\ p[1] \in Stacks /\ p[2] \in Index(p[1])
                           /\ p = <<p[1], p[2]>> /\ Kind(p[1], p[2]) = "ruc"
<1>1. \A s \in Stacks : \A i \in Index(s) : <<s, i>> \in Ports
  BY DEF Ports
<1>2. \A s \in Stacks : \A i \in Index(s) : Kind(s, i) = "ruc" => <<s, i>> \in RucPorts
  BY <1>1 DEF RucPorts
<1>3. \A p \in Ports : p[1] \in Stacks /\ p[2] \in Index(p[1]) /\ p = <<p[1], p[2]>>
  BY DEF Ports
<1> QED BY <1>1, <1>2, <1>3 DEF RucPorts

\* An address that rime_add_from_string accepts is a rime address.
LEMMA ValidIsAddress == \A a \in Targets : ValidAddress(a) => a \in Address
<1> SUFFICES ASSUME NEW a \in Targets, ValidAddress(a) PROVE a \in Address
  OBVIOUS
<1>1. PICK x, y \in Nat : a = <<x, y>>
  BY TargetAssumption
<1>2. x <= 255 /\ y <= 255
  BY <1>1 DEF ValidAddress
<1> QED BY <1>1, <1>2 DEF Address, Byte

\* A published packet is added to some of the boxes, nothing else is.
LEMMA PublishAdds ==
    ASSUME NEW s, NEW boxes, NEW packet, DOMAIN boxes = Stacks,
           boxes = [t \in Stacks |-> boxes[t]], Publish(s, boxes, packet)
    PROVE  /\ inbox' = [t \in Stacks |-> inbox'[t]]
           /\ \A t \in Stacks : inbox'[t] \subseteq boxes[t] \cup {packet}
BY DEF Publish

-------------------------------------------------------------------------------
(* The inductive invariant: where the packets under way come from.         *)

HeaderOf(m) ==
    IF m.kind = "bc" THEN BcHeader(m.channel, AddrOf[m.stack])
    ELSE IF m.kind = "uc" THEN UcHeader(m.channel, AddrOf[m.stack], m.dest)
    ELSE RucHeader(m.channel, DataFlag, m.seqno, AddrOf[m.stack], m.dest)

\* The packet that carries m, and the ack for m that followed the output o.
IsData(packet, m) == packet.header = HeaderOf(m) /\ packet.msg = m.msg
IsAck(packet, m, o) ==
    /\ m.kind = "ruc" /\ m.msg = o.msg /\ m.dest = AddrOf[o.stack]
    /\ packet.header = RucHeader(m.channel, AckFlag, m.seqno, AddrOf[o.stack], AddrOf[m.stack])
Origin(packet) ==
    \E m \in packed : IsData(packet, m) \/ \E o \in output : IsAck(packet, m, o)

TypeInv == RimeTypeOK /\ IsFiniteSet(packed)

\* Each message was packed on a connection of its stack, for a rime address.
PackedOK == \A m \in packed :
    /\ m.kind # "bc" => m.dest \in Address
    /\ m.conn \in Index(m.stack)
    /\ Kind(m.stack, m.conn) = m.kind /\ Chan(m.stack, m.conn) = m.channel
BoxesOK  == \A s \in Stacks : \A packet \in inbox[s] : Origin(packet)
QueuesOK == \A p \in RucPorts : \A k \in 1 .. Len(queue[p]) : \E m \in packed : IsData(queue[p][k], m)

\* What arrives at a connection comes from its own channel and kind.
LEMMA Received ==
    ASSUME TypeInv, PackedOK, BoxesOK, NEW s \in Stacks, NEW packet \in inbox[s],
           NEW i \in Index(s), Dispatch(s, i, packet.header)
    PROVE  \E m \in packed :
              /\ m.channel = Chan(s, i) /\ m.kind = Kind(s, i)
              /\ IsData(packet, m) \/ \E o \in output : IsAck(packet, m, o)
<1>1. PICK m \in packed : IsData(packet, m) \/ \E o \in output : IsAck(packet, m, o)
  BY DEF BoxesOK, Origin
<1>2. m \in Message
  BY DEF TypeInv, RimeTypeOK
<1>3. m.channel \in Channel /\ m.stack \in Stacks
  BY <1>2 DEF Message
<1>4. packet.header[1] = Low(m.channel) /\ packet.header[2] = High(m.channel)
  <2>1. CASE IsData(packet, m)
    <3>1. \/ packet.header = BcHeader(m.channel, AddrOf[m.stack])
          \/ packet.header = UcHeader(m.channel, AddrOf[m.stack], m.dest)
          \/ packet.header = RucHeader(m.channel, DataFlag, m.seqno, AddrOf[m.stack], m.dest)
      BY <2>1 DEF IsData, HeaderOf
    <3> QED BY <1>3, <3>1, HeaderChannel
  <2>2. CASE \E o \in output : IsAck(packet, m, o)
    BY <1>3, <2>2, HeaderChannel DEF IsAck
  <2> QED BY <1>1, <2>1, <2>2
<1>5. Matches(Chan(s, i), packet.header) /\ Chan(s, i) \in Channel
  BY ConnTypes DEF Dispatch, Matching
<1>6. Chan(s, i) = m.channel
  BY <1>3, <1>4, <1>5, MatchesChannel
<1> DEFINE j == m.conn
<1>7. j \in Index(m.stack) /\ Kind(m.stack, j) = m.kind /\ Chan(m.stack, j) = m.channel
  BY DEF PackedOK
<1>8. /\ <<s, i>> \in Ports /\ <<m.stack, j>> \in Ports
      /\ <<s, i>>[1] = s /\ <<s, i>>[2] = i
      /\ <<m.stack, j>>[1] = m.stack /\ <<m.stack, j>>[2] = j
  BY <1>3, <1>7, PortPair
<1>9. Kind(s, i) = m.kind
  BY <1>6, <1>7, <1>8, KindAssumption
<1> QED BY <1>1, <1>6, <1>9

\* A runicast packet for this stack is an ack to one of its messages or a
\* message to it, and is read as what it is.
LEMMA RucReceived ==
    ASSUME TypeInv, PackedOK, BoxesOK, NEW s \in Stacks, NEW packet \in inbox[s],
           NEW i \in Index(s), ForMe(s, i, packet.header)
    PROVE  \E m \in packed :
              /\ m.channel = Chan(s, i) /\ m.kind = "ruc" /\ RucSeqno(packet.header) = m.seqno
              /\ \/ /\ ~RucIsAck(packet.header) /\ IsData(packet, m)
                    /\ m.dest = AddrOf[s] /\ RucSender(packet.header) = AddrOf[m.stack]
                 \/ /\ RucIsAck(packet.header) /\ \E o \in output : IsAck(packet, m, o)
                    /\ AddrOf[m.stack] = AddrOf[s]
<1> DEFINE h == packet.header
<1>1. PICK m \in packed : /\ m.channel = Chan(s, i) /\ m.kind = Kind(s, i)
                          /\ IsData(packet, m) \/ \E o \in output : IsAck(packet, m, o)
  BY Received DEF ForMe
<1>2. m \in Message /\ m.kind = "ruc" /\ RucTarget(h) = AddrOf[s]
  BY <1>1 DEF TypeInv, RimeTypeOK, ForMe
<1>3. /\ m.channel \in Channel /\ m.seqno \in 0 .. (SeqMod - 1)
      /\ AddrOf[m.stack] \in Address /\ m.dest \in Address
  BY <1>2, AddressAssumption DEF Message, PackedOK
<1>4. CASE IsData(packet, m)
  <2>1. h = RucHeader(m.channel, DataFlag, m.seqno, AddrOf[m.stack], m.dest)
    BY <1>2, <1>4 DEF IsData, HeaderOf
  <2>2. /\ RucTarget(h) = m.dest /\ RucSender(h) = AddrOf[m.stack]
        /\ ~RucIsAck(h) /\ RucSeqno(h) = m.seqno
    BY <1>3, <2>1, DataRoundTrip
  <2> QED BY <1>1, <1>2, <1>4, <2>2
<1>5. CASE \E o \in output : IsAck(packet, m, o)
  <2>1. PICK o \in output : IsAck(packet, m, o)
    BY <1>5
  <2>2. AddrOf[o.stack] \in Address
    BY <1>3, <2>1 DEF IsAck
  <2>3. h = RucHeader(m.channel, AckFlag, m.seqno, AddrOf[o.stack], AddrOf[m.stack])
    BY <2>1 DEF IsAck
  <2>4. /\ RucTarget(h) = AddrOf[m.stack]
        /\ RucIsAck(h) /\ RucSeqno(h) = m.seqno
    BY <1>3, <2>2, <2>3, AckRoundTrip
  <2> QED BY <1>1, <1>2, <1>5, <2>4
<1> QED BY <1>1, <1>4, <1>5

-------------------------------------------------------------------------------
(* Types.                                                                  *)

\* A new message is one more message, numbered by their count.
LEMMA HandoverType ==
    ASSUME TypeInv, NEW s \in Stacks, NEW i \in Index(s), NEW dest \in Address \cup {Everybody},
           NEW q \in 0 .. (SeqMod - 1), Handover(s, i, dest, q)
    PROVE  NewMsg \in Msgs /\ packed' \subseteq Message /\ IsFiniteSet(packed')
<1>1. Cardinality(packed) \in Nat
  BY FS_CardinalityType DEF TypeInv
<1>2. NewMsg \in Msgs
  BY <1>1, MaxMsgsAssumption DEF NewMsg, Msgs, Handover
<1>3. NewMessage(s, i, dest, q) \in Message
  BY <1>2, ConnTypes DEF NewMessage, Message
<1>4. packed' = packed \cup {NewMessage(s, i, dest, q)}
  BY DEF Handover
<1>5. IsFiniteSet(packed) /\ packed \subseteq Message
  BY DEF TypeInv, RimeTypeOK
<1> QED BY <1>2, <1>3, <1>4, <1>5, FS_AddElement

\* What reaches the radio and what stays in the boxes are packets.
LEMMA PublishType ==
    ASSUME NEW s \in Stacks, NEW packet \in Packet, NEW boxes \in [Stacks -> SUBSET Packet],
           Publish(s, boxes, packet)
    PROVE  inbox' \in [Stacks -> SUBSET Packet]
BY DEF Publish

LEMMA RestType ==
    ASSUME NEW s \in Stacks, NEW packet, inbox \in [Stacks -> SUBSET Packet]
    PROVE  Rest(s, packet) \in [Stacks -> SUBSET Packet]
BY DEF Rest

\* The next seqno.
LEMMA NextSeqnoType == \A q \in 0 .. (SeqMod - 1) : NextSeqno(q) \in 0 .. (SeqMod - 1)
BY DEF NextSeqno, SeqMod

LEMMA TypeInit == Init => TypeInv
<1> SUFFICES ASSUME Init PROVE TypeInv
  OBVIOUS
<1>1. IsFiniteSet(packed)
  BY FS_EmptySet DEF Init
<1> QED BY <1>1 DEF TypeInv, RimeTypeOK, Init, SeqMod

LEMMA TypeStep == TypeInv /\ PackedOK /\ BoxesOK /\ [Next]_vars => TypeInv'
<1> SUFFICES ASSUME TypeInv, PackedOK, BoxesOK, [Next]_vars PROVE TypeInv'
  OBVIOUS
<1> USE DEF TypeInv, RimeTypeOK
<1>1. ASSUME NEW s \in Stacks, NEW i \in Index(s), BcPack(s, i) PROVE TypeInv'
  <2>1. NewMsg \in Msgs /\ packed' \subseteq Message /\ IsFiniteSet(packed')
    BY <1>1, HandoverType DEF BcPack, SeqMod
  <2>2. Chan(s, i) \in Channel /\ AddrOf[s] \in Address
    BY ConnTypes, AddressAssumption
  <2>3. [header |-> BcHeader(Chan(s, i), AddrOf[s]), msg |-> NewMsg] \in Packet
    BY <2>1, <2>2, BcHeaderType DEF Packet
  <2>4. inbox' \in [Stacks -> SUBSET Packet]
    BY <1>1, <2>3, PublishType DEF BcPack
  <2> QED BY <1>1, <2>1, <2>4 DEF BcPack, stackVars, rucVars
<1>2. ASSUME NEW s \in Stacks, NEW i \in Index(s), NEW dest \in Targets, UcPack(s, i, dest)
      PROVE  TypeInv'
  <2>1. dest \in Address
    BY <1>2, ValidIsAddress DEF UcPack
  <2>5. NewMsg \in Msgs /\ packed' \subseteq Message /\ IsFiniteSet(packed')
    BY <1>2, <2>1, HandoverType DEF UcPack, SeqMod
  <2>2. Chan(s, i) \in Channel /\ AddrOf[s] \in Address
    BY ConnTypes, AddressAssumption
  <2>3. [header |-> UcHeader(Chan(s, i), AddrOf[s], dest), msg |-> NewMsg] \in Packet
    BY <2>1, <2>2, <2>5, UcRoundTrip DEF Packet
  <2>4. inbox' \in [Stacks -> SUBSET Packet]
    BY <1>2, <2>3, PublishType DEF UcPack
  <2> QED BY <1>2, <2>4, <2>5 DEF UcPack, stackVars, rucVars
<1>3. ASSUME NEW s \in Stacks, NEW i \in Index(s), NEW dest \in Targets, RucPack(s, i, dest)
      PROVE  TypeInv'
  <2> DEFINE q == sendSeqno[<<s, i>>]
             packet == [header |-> RucHeader(Chan(s, i), DataFlag, q, AddrOf[s], dest), msg |-> NewMsg]
  <2>1. dest \in Address
    BY <1>3, ValidIsAddress DEF RucPack
  <2>2. Chan(s, i) \in Channel /\ AddrOf[s] \in Address /\ <<s, i>> \in RucPorts
    BY <1>3, ConnTypes, AddressAssumption, PortPair DEF RucPack
  <2>3. q \in 0 .. (SeqMod - 1)
    BY <2>2
  <2>8. NewMsg \in Msgs /\ packed' \subseteq Message /\ IsFiniteSet(packed')
    BY <1>3, <2>1, <2>3, HandoverType DEF RucPack
  <2>4. RucHeader(Chan(s, i), DataFlag, q, AddrOf[s], dest) \in Seq(Byte)
    BY <2>1, <2>2, <2>3, DataRoundTrip
  <2>5. packet \in Packet
    BY <2>4, <2>8 DEF Packet
  <2>6. queue' \in [RucPorts -> Seq(Packet)]
    <3>1. queue' = [queue EXCEPT ![<<s, i>>] = Append(@, packet)]
      BY <1>3 DEF RucPack
    <3> HIDE DEF packet
    <3> QED BY <2>2, <2>5, <3>1
  <2>7. sendSeqno' \in [RucPorts -> 0 .. (SeqMod - 1)]
    BY <1>3, <2>2, <2>3, NextSeqnoType DEF RucPack
  <2> QED BY <1>3, <2>6, <2>7, <2>8 DEF RucPack, stackVars
<1>4. ASSUME NEW s \in Stacks, Eof(s) \/ StopStack(s) PROVE TypeInv'
  BY <1>4 DEF Eof, StopStack, rucVars
<1>5. ASSUME NEW p \in RucPorts, Transmit(p[1], p[2]) PROVE TypeInv'
  <2>1. p[1] \in Stacks /\ <<p[1], p[2]>> \in RucPorts
    BY PortPair
  <2>2. Head(queue[<<p[1], p[2]>>]) \in Packet
    BY <1>5, <2>1 DEF Transmit
  <2>3. inbox' \in [Stacks -> SUBSET Packet]
    BY <1>5, <2>1, <2>2, PublishType DEF Transmit
  <2> QED BY <1>5, <2>3 DEF Transmit, stackVars, rucVars
<1>6. ASSUME NEW p \in RucPorts, NextMessage(p[1], p[2]) PROVE TypeInv'
  <2>1. <<p[1], p[2]>> \in RucPorts
    BY PortPair
  <2>2. queue' \in [RucPorts -> Seq(Packet)]
    BY <1>6, <2>1 DEF NextMessage
  <2>3. recvSeqno' \in [RucPorts -> 0 .. (SeqMod - 1)]
    BY <1>6, <2>1, NextSeqnoType DEF NextMessage
  <2>4. stop' \in [RucPorts -> BOOLEAN]
    BY <1>6 DEF NextMessage
  <2> QED BY <1>6, <2>2, <2>3, <2>4 DEF NextMessage, stackVars
<1>7. ASSUME NEW s \in Stacks, NEW packet \in inbox[s], Unpack(s, packet) PROVE TypeInv'
  <2>1. Rest(s, packet) \in [Stacks -> SUBSET Packet]
    BY RestType
  <2>2. packet \in Packet
    OBVIOUS
  <2>3. ASSUME Unheard(s, packet) PROVE TypeInv'
    BY <2>1, <2>3 DEF Unheard, stackVars, rucVars
  <2>4. ASSUME NEW i \in Index(s) PROVE i \in Nat
    BY ConnTypes
  <2>5. ASSUME NEW i \in Index(s), Deliver(s, i, packet)
        PROVE  output' \subseteq [stack : Stacks, conn : Nat, msg : Msgs \cup {NoMsg}]
    <3>1. [stack |-> s, conn |-> i, msg |-> packet.msg]
             \in [stack : Stacks, conn : Nat, msg : Msgs \cup {NoMsg}]
      BY <2>2, <2>4 DEF Packet
    <3> QED BY <2>5, <3>1 DEF Deliver
  <2>6. ASSUME NEW i \in Index(s), BcUnpack(s, i, packet) PROVE TypeInv'
    BY <2>1, <2>5, <2>6 DEF BcUnpack, stackVars, rucVars
  <2>7. ASSUME NEW i \in Index(s), UcUnpack(s, i, packet) PROVE TypeInv'
    <3>1. output' \subseteq [stack : Stacks, conn : Nat, msg : Msgs \cup {NoMsg}]
      BY <2>5, <2>7 DEF UcUnpack
    <3> QED BY <2>1, <2>7, <3>1 DEF UcUnpack, stackVars, rucVars
  <2>8. ASSUME NEW i \in Index(s), RucUnpackOther(s, i, packet) PROVE TypeInv'
    BY <2>1, <2>8 DEF RucUnpackOther, stackVars, rucVars
  <2>9. ASSUME NEW i \in Index(s), RucUnpackAck(s, i, packet) PROVE TypeInv'
    <3>1. <<s, i>> \in RucPorts
      BY <2>9, PortPair DEF RucUnpackAck, ForMe
    <3>2. recvSeqno[<<s, i>>] \in 0 .. (SeqMod - 1)
      BY <3>1
    <3>3. /\ stop' \in [RucPorts -> BOOLEAN]
          /\ recvSeqno' \in [RucPorts -> 0 .. (SeqMod - 1)]
          /\ confirmed' \subseteq [stack : Stacks, conn : Nat, seqno : 0 .. (SeqMod - 1)]
      <4>1. CASE FreshAck(s, i, packet.header)
        <5>1. /\ stop' = [stop EXCEPT ![<<s, i>>] = TRUE]
              /\ recvSeqno' = [recvSeqno EXCEPT ![<<s, i>>] = NextSeqno(@)]
              /\ confirmed' = confirmed \cup {[stack |-> s, conn |-> i,
                                              seqno |-> recvSeqno[<<s, i>>]]}
          BY <2>9, <4>1 DEF RucUnpackAck
        <5>2. NextSeqno(recvSeqno[<<s, i>>]) \in 0 .. (SeqMod - 1)
          BY <3>2, NextSeqnoType
        <5>3. i \in Nat
          BY <2>4
        <5>4. confirmed' \subseteq [stack : Stacks, conn : Nat, seqno : 0 .. (SeqMod - 1)]
          BY <3>2, <5>1, <5>3
        <5>5. stop' \in [RucPorts -> BOOLEAN]
          BY <5>1
        <5>6. recvSeqno' \in [RucPorts -> 0 .. (SeqMod - 1)]
          BY <5>1, <5>2
        <5> QED BY <5>4, <5>5, <5>6
      <4>2. CASE ~FreshAck(s, i, packet.header)
        BY <2>9, <4>2 DEF RucUnpackAck
      <4> QED BY <4>1, <4>2
    <3> QED BY <2>1, <2>9, <3>3 DEF RucUnpackAck, stackVars
  <2>10. ASSUME NEW i \in Index(s), RucUnpackData(s, i, packet) PROVE TypeInv'
    <3>1. [header |-> AckHeader(s, i, packet.header), msg |-> NoMsg] \in Packet
      <4>1. PICK m \in packed :
               /\ RucSeqno(packet.header) = m.seqno
               /\ RucSender(packet.header) = AddrOf[m.stack]
        BY <2>10, RucReceived DEF RucUnpackData
      <4>2. /\ Chan(s, i) \in Channel /\ m.seqno \in 0 .. (SeqMod - 1)
            /\ AddrOf[s] \in Address /\ AddrOf[m.stack] \in Address
        BY ConnTypes, AddressAssumption DEF Message
      <4>3. AckHeader(s, i, packet.header) \in Seq(Byte)
        BY <4>1, <4>2, AckRoundTrip DEF AckHeader
      <4> QED BY <4>3 DEF Packet
    <3>2. inbox' \in [Stacks -> SUBSET Packet]
      BY <2>1, <2>10, <3>1, PublishType DEF RucUnpackData
    <3> QED BY <2>5, <2>10, <3>2 DEF RucUnpackData, stackVars, rucVars
  <2> QED BY <1>7, <2>3, <2>6, <2>7, <2>8, <2>9, <2>10 DEF Unpack
<1>8. CASE UNCHANGED vars
  BY <1>8 DEF vars, stackVars, rucVars
<1> QED BY <1>1, <1>2, <1>3, <1>4, <1>5, <1>6, <1>7, <1>8 DEF Next, Application

-------------------------------------------------------------------------------
(* Where packets come from.                                                *)

\* Histories only grow.
LEMMA Grows == [Next]_vars => packed \subseteq packed' /\ output \subseteq output'
<1> SUFFICES ASSUME [Next]_vars PROVE packed \subseteq packed' /\ output \subseteq output'
  OBVIOUS
<1>1. ASSUME NEW s \in Stacks, Application(s) PROVE packed \subseteq packed' /\ output \subseteq output'
  BY <1>1 DEF Application, BcPack, UcPack, RucPack, Eof, StopStack, Handover
<1>2. ASSUME NEW p \in RucPorts, Transmit(p[1], p[2]) \/ NextMessage(p[1], p[2])
      PROVE  packed \subseteq packed' /\ output \subseteq output'
  BY <1>2 DEF Transmit, NextMessage
<1>3. ASSUME NEW s \in Stacks, NEW packet \in inbox[s], Unpack(s, packet)
      PROVE  packed \subseteq packed' /\ output \subseteq output'
  BY <1>3 DEF Unpack, Unheard, BcUnpack, UcUnpack, RucUnpackOther, RucUnpackAck, RucUnpackData, Deliver
<1>4. CASE UNCHANGED vars
  BY <1>4 DEF vars
<1> QED BY <1>1, <1>2, <1>3, <1>4 DEF Next

\* Only a handover adds a message, and it is one of its own connection.
LEMMA PackedStep == TypeInv /\ PackedOK /\ [Next]_vars => PackedOK'
<1> SUFFICES ASSUME TypeInv, PackedOK, [Next]_vars PROVE PackedOK'
  OBVIOUS
<1>1. CASE packed' = packed
  BY <1>1 DEF PackedOK
<1>2. ASSUME NEW s \in Stacks, NEW i \in Index(s), NEW dest, NEW q, Handover(s, i, dest, q),
             Kind(s, i) # "bc" => dest \in Address
      PROVE  PackedOK'
  <2>1. packed' = packed \cup {NewMessage(s, i, dest, q)}
    BY <1>2 DEF Handover
  <2>2. /\ NewMessage(s, i, dest, q).stack = s /\ NewMessage(s, i, dest, q).dest = dest
        /\ NewMessage(s, i, dest, q).conn = i
        /\ NewMessage(s, i, dest, q).kind = Kind(s, i)
        /\ NewMessage(s, i, dest, q).channel = Chan(s, i)
    BY DEF NewMessage
  <2> QED BY <1>2, <2>1, <2>2 DEF PackedOK
<1>3. ASSUME NEW s \in Stacks, Application(s) PROVE PackedOK'
  <2>1. ASSUME NEW i \in Index(s), BcPack(s, i) PROVE PackedOK'
    BY <1>2, <2>1 DEF BcPack
  <2>2. ASSUME NEW i \in Index(s), NEW dest \in Targets, UcPack(s, i, dest) PROVE PackedOK'
    BY <1>2, <2>2, ValidIsAddress DEF UcPack
  <2>3. ASSUME NEW i \in Index(s), NEW dest \in Targets, RucPack(s, i, dest) PROVE PackedOK'
    BY <1>2, <2>3, ValidIsAddress DEF RucPack
  <2>4. CASE Eof(s) \/ StopStack(s)
    BY <1>1, <2>4 DEF Eof, StopStack
  <2> QED BY <1>3, <2>1, <2>2, <2>3, <2>4 DEF Application
<1>4. ASSUME NEW p \in RucPorts, Transmit(p[1], p[2]) \/ NextMessage(p[1], p[2]) PROVE PackedOK'
  BY <1>1, <1>4 DEF Transmit, NextMessage
<1>5. ASSUME NEW s \in Stacks, NEW packet \in inbox[s], Unpack(s, packet) PROVE PackedOK'
  BY <1>1, <1>5 DEF Unpack, Unheard, BcUnpack, UcUnpack, RucUnpackOther, RucUnpackAck, RucUnpackData
<1>6. CASE UNCHANGED vars
  BY <1>1, <1>6 DEF vars
<1> QED BY <1>3, <1>4, <1>5, <1>6 DEF Next

\* The new message and the packet that carries it.
LEMMA NewData ==
    ASSUME NEW s, NEW i, NEW dest, NEW q, Handover(s, i, dest, q)
    PROVE  /\ NewMessage(s, i, dest, q) \in packed'
           /\ Kind(s, i) = "bc" =>
                IsData([header |-> BcHeader(Chan(s, i), AddrOf[s]), msg |-> NewMsg],
                       NewMessage(s, i, dest, q))
           /\ Kind(s, i) = "uc" =>
                IsData([header |-> UcHeader(Chan(s, i), AddrOf[s], dest), msg |-> NewMsg],
                       NewMessage(s, i, dest, q))
           /\ Kind(s, i) = "ruc" =>
                IsData([header |-> RucHeader(Chan(s, i), DataFlag, q, AddrOf[s], dest), msg |-> NewMsg],
                       NewMessage(s, i, dest, q))
BY DEF Handover, NewMessage, IsData, HeaderOf

\* A sender's queue holds messages of the application.
LEMMA QueuesStep == TypeInv /\ QueuesOK /\ [Next]_vars => QueuesOK'
<1> SUFFICES ASSUME TypeInv, QueuesOK, [Next]_vars PROVE QueuesOK'
  OBVIOUS
<1>1. packed \subseteq packed'
  BY Grows
<1>2. queue \in [RucPorts -> Seq(Packet)]
  BY DEF TypeInv, RimeTypeOK
<1>3. CASE queue' = queue
  BY <1>1, <1>3 DEF QueuesOK
<1>4. ASSUME NEW s \in Stacks, NEW i \in Index(s), NEW dest \in Targets, RucPack(s, i, dest)
      PROVE  QueuesOK'
  <2> DEFINE q == sendSeqno[<<s, i>>]
             packet == [header |-> RucHeader(Chan(s, i), DataFlag, q, AddrOf[s], dest), msg |-> NewMsg]
             m == NewMessage(s, i, dest, q)
  <2>1. m \in packed' /\ IsData(packet, m)
    BY <1>4, NewData DEF RucPack
  <2>2. queue' = [queue EXCEPT ![<<s, i>>] = Append(@, packet)]
    BY <1>4 DEF RucPack
  <2> HIDE DEF packet, m
  <2>3. SUFFICES ASSUME NEW p \in RucPorts, NEW k \in 1 .. Len(queue'[p])
                 PROVE  \E n \in packed' : IsData(queue'[p][k], n)
    BY DEF QueuesOK
  <2>4. CASE p = <<s, i>>
    <3>1. queue'[p] = Append(queue[p], packet) /\ queue[p] \in Seq(Packet)
      BY <1>2, <2>2, <2>4
    <3>2. CASE k \in 1 .. Len(queue[p])
      <4>1. queue'[p][k] = queue[p][k]
        BY <3>1, <3>2
      <4> QED BY <1>1, <3>2, <4>1 DEF QueuesOK
    <3>3. CASE k = Len(queue[p]) + 1
      <4>1. queue'[p][k] = packet
        BY <3>1, <3>3
      <4> QED BY <2>1, <4>1
    <3> QED BY <3>1, <3>2, <3>3
  <2>5. CASE p # <<s, i>>
    <3>1. queue'[p] = queue[p]
      BY <1>2, <2>2, <2>5
    <3> QED BY <1>1, <3>1 DEF QueuesOK
  <2> QED BY <2>4, <2>5
<1>5. ASSUME NEW p \in RucPorts, NextMessage(p[1], p[2]) PROVE QueuesOK'
  <2> SUFFICES ASSUME NEW r \in RucPorts, NEW k \in 1 .. Len(queue'[r])
               PROVE  \E n \in packed' : IsData(queue'[r][k], n)
    BY DEF QueuesOK
  <2>1. p = <<p[1], p[2]>>
    BY PortPair
  <2>2. queue' = [queue EXCEPT ![p] = Tail(@)] /\ queue[p] # <<>>
    BY <1>5, <2>1 DEF NextMessage
  <2>3. CASE r = p
    <3>1. queue'[r] = Tail(queue[r]) /\ queue[r] \in Seq(Packet) /\ queue[r] # <<>>
      BY <1>2, <2>2, <2>3
    <3>2. queue'[r][k] = queue[r][k + 1] /\ k + 1 \in 1 .. Len(queue[r])
      BY <3>1
    <3> QED BY <1>1, <3>2 DEF QueuesOK
  <2>4. CASE r # p
    <3>1. queue'[r] = queue[r]
      BY <1>2, <2>2, <2>4
    <3> QED BY <1>1, <3>1 DEF QueuesOK
  <2> QED BY <2>3, <2>4
<1>6. ASSUME NEW p \in RucPorts, Transmit(p[1], p[2]) PROVE QueuesOK'
  BY <1>3, <1>6 DEF Transmit, rucVars
<1>7. ASSUME NEW s \in Stacks, Application(s) PROVE QueuesOK'
  BY <1>3, <1>4, <1>7 DEF Application, BcPack, UcPack, Eof, StopStack, rucVars
<1>8. ASSUME NEW s \in Stacks, NEW packet \in inbox[s], Unpack(s, packet) PROVE QueuesOK'
  BY <1>3, <1>8 DEF Unpack, Unheard, BcUnpack, UcUnpack, RucUnpackOther, RucUnpackAck,
                    RucUnpackData, rucVars
<1>9. CASE UNCHANGED vars
  BY <1>3, <1>9 DEF vars, rucVars
<1> QED BY <1>5, <1>6, <1>7, <1>8, <1>9 DEF Next

\* So does the radio, except for the acks, each of which follows an output.
LEMMA BoxesStep == TypeInv /\ PackedOK /\ BoxesOK /\ QueuesOK /\ [Next]_vars => BoxesOK'
<1> SUFFICES ASSUME TypeInv, PackedOK, BoxesOK, QueuesOK, [Next]_vars PROVE BoxesOK'
  OBVIOUS
<1>1. packed \subseteq packed' /\ output \subseteq output'
  BY Grows
<1>2. inbox \in [Stacks -> SUBSET Packet]
  BY DEF TypeInv, RimeTypeOK
<1>3. ASSUME NEW t \in Stacks, NEW packet \in inbox[t]
      PROVE  \E m \in packed' : IsData(packet, m) \/ \E o \in output' : IsAck(packet, m, o)
  BY <1>1 DEF BoxesOK, Origin
<1>4. CASE \A t \in Stacks : inbox'[t] \subseteq inbox[t]
  BY <1>3, <1>4 DEF BoxesOK, Origin
<1>5. ASSUME NEW new, \A t \in Stacks : inbox'[t] \subseteq inbox[t] \cup {new},
             \E m \in packed' : IsData(new, m) \/ \E o \in output' : IsAck(new, m, o)
      PROVE  BoxesOK'
  BY <1>3, <1>5 DEF BoxesOK, Origin
<1>6. ASSUME NEW s \in Stacks, NEW i \in Index(s), BcPack(s, i) PROVE BoxesOK'
  <2> DEFINE new == [header |-> BcHeader(Chan(s, i), AddrOf[s]), msg |-> NewMsg]
  <2>1. \E m \in packed' : IsData(new, m)
    BY <1>6, NewData DEF BcPack
  <2> HIDE DEF new
  <2>2. \A t \in Stacks : inbox'[t] \subseteq inbox[t] \cup {new}
    BY <1>2, <1>6 DEF BcPack, Publish, new
  <2> QED BY <1>5, <2>1, <2>2
<1>7. ASSUME NEW s \in Stacks, NEW i \in Index(s), NEW dest \in Targets, UcPack(s, i, dest)
      PROVE  BoxesOK'
  <2> DEFINE new == [header |-> UcHeader(Chan(s, i), AddrOf[s], dest), msg |-> NewMsg]
  <2>1. \E m \in packed' : IsData(new, m)
    BY <1>7, NewData DEF UcPack
  <2> HIDE DEF new
  <2>2. \A t \in Stacks : inbox'[t] \subseteq inbox[t] \cup {new}
    BY <1>2, <1>7 DEF UcPack, Publish, new
  <2> QED BY <1>5, <2>1, <2>2
<1>8. ASSUME NEW p \in RucPorts, Transmit(p[1], p[2]) PROVE BoxesOK'
  <2> DEFINE new == Head(queue[<<p[1], p[2]>>])
  <2>1. <<p[1], p[2]>> \in RucPorts
    BY PortPair
  <2>2. queue[<<p[1], p[2]>>] \in Seq(Packet) /\ queue[<<p[1], p[2]>>] # <<>>
    BY <1>8, <2>1 DEF TypeInv, RimeTypeOK, Transmit
  <2>3. new = queue[<<p[1], p[2]>>][1] /\ 1 \in 1 .. Len(queue[<<p[1], p[2]>>])
    BY <2>2
  <2>4. \E m \in packed' : IsData(new, m)
    BY <1>1, <2>1, <2>3 DEF QueuesOK
  <2>5. \A t \in Stacks : inbox'[t] \subseteq inbox[t] \cup {new}
    BY <1>2, <1>8 DEF Transmit, Publish
  <2> QED BY <1>5, <2>4, <2>5
<1>9. ASSUME NEW s \in Stacks, NEW packet \in inbox[s], NEW i \in Index(s),
             RucUnpackData(s, i, packet)
      PROVE  BoxesOK'
  <2> DEFINE new == [header |-> AckHeader(s, i, packet.header), msg |-> NoMsg]
             o == [stack |-> s, conn |-> i, msg |-> packet.msg]
  <2>1. PICK m \in packed :
           /\ m.channel = Chan(s, i) /\ m.kind = "ruc" /\ RucSeqno(packet.header) = m.seqno
           /\ IsData(packet, m) /\ m.dest = AddrOf[s]
           /\ RucSender(packet.header) = AddrOf[m.stack]
    BY <1>9, RucReceived DEF RucUnpackData
  <2>2. o \in output' /\ m \in packed'
    BY <1>1, <1>9 DEF RucUnpackData, Deliver
  <2>3. IsAck(new, m, o)
    BY <2>1 DEF IsAck, IsData, AckHeader
  <2> HIDE DEF new, o
  <2>4. \A t \in Stacks : inbox'[t] \subseteq inbox[t] \cup {new}
    BY <1>2, <1>9 DEF RucUnpackData, Publish, Rest, new
  <2> QED BY <1>5, <2>2, <2>3, <2>4
<1>10. ASSUME NEW s \in Stacks, Application(s) PROVE BoxesOK'
  BY <1>4, <1>6, <1>7, <1>10 DEF Application, RucPack, Eof, StopStack
<1>11. ASSUME NEW p \in RucPorts, NextMessage(p[1], p[2]) PROVE BoxesOK'
  BY <1>4, <1>11 DEF NextMessage
<1>12. ASSUME NEW s \in Stacks, NEW packet \in inbox[s], Unpack(s, packet) PROVE BoxesOK'
  <2>1. CASE inbox' = Rest(s, packet)
    BY <1>2, <1>4, <2>1 DEF Rest
  <2> QED BY <1>9, <1>12, <2>1 DEF Unpack, Unheard, BcUnpack, UcUnpack, RucUnpackOther, RucUnpackAck
<1>13. CASE UNCHANGED vars
  BY <1>4, <1>13 DEF vars
<1> QED BY <1>8, <1>10, <1>11, <1>12, <1>13 DEF Next

-------------------------------------------------------------------------------
(* What comes out of the stacks.                                           *)

\* The message an output came from, and the connection it was dispatched to.
Delivery(m, o) ==
    /\ m.msg = o.msg
    /\ m.kind = Kind(o.stack, o.conn) /\ m.channel = Chan(o.stack, o.conn)
    /\ m.kind # "bc" => m.dest = AddrOf[o.stack]
    /\ Dispatch(o.stack, o.conn, HeaderOf(m))
OutputOK == \A o \in output : \E m \in packed : Delivery(m, o)

\* Messages are numbered one by one.
NumbersOK ==
    /\ \A m \in packed : m.msg <= Cardinality(packed)
    /\ \A m, n \in packed : m.msg = n.msg => m = n

Inv == TypeInv /\ PackedOK /\ QueuesOK /\ BoxesOK /\ OutputOK /\ NumbersOK /\ AcksAnswerMessages

\* A packet without the ack flag, or for a connection without acks, is a message.
LEMMA Delivered ==
    ASSUME TypeInv, PackedOK, BoxesOK, NEW s \in Stacks, NEW packet \in inbox[s],
           NEW i \in Index(s), Dispatch(s, i, packet.header),
           \/ Kind(s, i) = "bc"
           \/ Kind(s, i) = "uc" /\ UcTarget(packet.header) = AddrOf[s]
           \/ ForMe(s, i, packet.header) /\ ~RucIsAck(packet.header)
    PROVE  \E m \in packed : Delivery(m, [stack |-> s, conn |-> i, msg |-> packet.msg])
<1> DEFINE o == [stack |-> s, conn |-> i, msg |-> packet.msg]
<1>1. o.stack = s /\ o.conn = i /\ o.msg = packet.msg
  OBVIOUS
<1>2. CASE Kind(s, i) # "ruc"
  <2>1. PICK m \in packed : /\ m.channel = Chan(s, i) /\ m.kind = Kind(s, i)
                            /\ IsData(packet, m) \/ \E a \in output : IsAck(packet, m, a)
    BY Received
  <2>2. IsData(packet, m)
    BY <1>2, <2>1 DEF IsAck
  <2>3. m.msg = packet.msg /\ packet.header = HeaderOf(m)
    BY <2>2 DEF IsData
  <2>4. m.kind # "bc" => m.dest = AddrOf[s]
    <3>1. SUFFICES ASSUME m.kind = "uc" PROVE m.dest = AddrOf[s]
      BY <1>2, <2>1 DEF TypeInv, RimeTypeOK, Message
    <3>2. /\ m.channel \in Channel /\ AddrOf[m.stack] \in Address /\ m.dest \in Address
      BY <3>1, AddressAssumption DEF TypeInv, RimeTypeOK, Message, PackedOK
    <3>3. packet.header = UcHeader(m.channel, AddrOf[m.stack], m.dest)
      BY <2>3, <3>1 DEF HeaderOf
    <3>4. UcTarget(packet.header) = m.dest
      BY <3>2, <3>3, UcRoundTrip
    <3>5. UcTarget(packet.header) = AddrOf[s]
      BY <2>1, <3>1 DEF ForMe
    <3> QED BY <3>4, <3>5
  <2> HIDE DEF o
  <2>5. Delivery(m, o)
    BY <1>1, <2>1, <2>3, <2>4 DEF Delivery
  <2> QED BY <2>5 DEF o
<1>3. CASE Kind(s, i) = "ruc"
  <2>1. ForMe(s, i, packet.header) /\ ~RucIsAck(packet.header)
    BY <1>3
  <2>2. PICK m \in packed : /\ m.channel = Chan(s, i) /\ m.kind = "ruc"
                            /\ IsData(packet, m) /\ m.dest = AddrOf[s]
    BY <2>1, RucReceived
  <2>3. m.msg = packet.msg /\ packet.header = HeaderOf(m)
    BY <2>2 DEF IsData
  <2> HIDE DEF o
  <2>4. Delivery(m, o)
    BY <1>1, <1>3, <2>2, <2>3 DEF Delivery
  <2> QED BY <2>4 DEF o
<1> QED BY <1>2, <1>3

LEMMA OutputStep == TypeInv /\ PackedOK /\ BoxesOK /\ OutputOK /\ [Next]_vars => OutputOK'
<1> SUFFICES ASSUME TypeInv, PackedOK, BoxesOK, OutputOK, [Next]_vars PROVE OutputOK'
  OBVIOUS
<1>1. packed \subseteq packed'
  BY Grows
<1>2. CASE output' = output
  BY <1>1, <1>2 DEF OutputOK
<1>3. ASSUME NEW s \in Stacks, NEW packet \in inbox[s], NEW i \in Index(s),
             Deliver(s, i, packet),
             \E m \in packed : Delivery(m, [stack |-> s, conn |-> i, msg |-> packet.msg])
      PROVE  OutputOK'
  <2> DEFINE o == [stack |-> s, conn |-> i, msg |-> packet.msg]
  <2>1. output' = output \cup {o}
    BY <1>3 DEF Deliver
  <2> HIDE DEF o
  <2>2. \E m \in packed' : Delivery(m, o)
    BY <1>1, <1>3 DEF o
  <2> QED BY <1>1, <2>1, <2>2 DEF OutputOK
<1>4. ASSUME NEW s \in Stacks, NEW packet \in inbox[s], Unpack(s, packet) PROVE OutputOK'
  <2>1. ASSUME NEW i \in Index(s), BcUnpack(s, i, packet) PROVE OutputOK'
    BY <1>3, <2>1, Delivered DEF BcUnpack
  <2>2. ASSUME NEW i \in Index(s), UcUnpack(s, i, packet) PROVE OutputOK'
    <3>1. CASE UcTarget(packet.header) = AddrOf[s]
      BY <1>3, <2>2, <3>1, Delivered DEF UcUnpack
    <3>2. CASE UcTarget(packet.header) # AddrOf[s]
      BY <1>2, <2>2, <3>2 DEF UcUnpack
    <3> QED BY <3>1, <3>2
  <2>3. ASSUME NEW i \in Index(s), RucUnpackData(s, i, packet) PROVE OutputOK'
    <3>1. ForMe(s, i, packet.header) /\ ~RucIsAck(packet.header) /\ Deliver(s, i, packet)
      BY <2>3 DEF RucUnpackData
    <3>2. Dispatch(s, i, packet.header)
      BY <3>1 DEF ForMe
    <3> QED BY <1>3, <3>1, <3>2, Delivered
  <2> QED BY <1>2, <1>4, <2>1, <2>2, <2>3 DEF Unpack, Unheard, RucUnpackOther, RucUnpackAck
<1>5. ASSUME NEW s \in Stacks, Application(s) PROVE OutputOK'
  BY <1>2, <1>5 DEF Application, BcPack, UcPack, RucPack, Eof, StopStack
<1>6. ASSUME NEW p \in RucPorts, Transmit(p[1], p[2]) \/ NextMessage(p[1], p[2]) PROVE OutputOK'
  BY <1>2, <1>6 DEF Transmit, NextMessage
<1>7. CASE UNCHANGED vars
  BY <1>2, <1>7 DEF vars
<1> QED BY <1>4, <1>5, <1>6, <1>7 DEF Next

LEMMA NumbersStep == TypeInv /\ NumbersOK /\ [Next]_vars => NumbersOK'
<1> SUFFICES ASSUME TypeInv, NumbersOK, [Next]_vars PROVE NumbersOK'
  OBVIOUS
<1>1. CASE packed' = packed
  BY <1>1 DEF NumbersOK
<1>2. ASSUME NEW s, NEW i, NEW dest, NEW q, Handover(s, i, dest, q) PROVE NumbersOK'
  <2> DEFINE m == NewMessage(s, i, dest, q)
  <2>1. packed' = packed \cup {m} /\ m.msg = Cardinality(packed) + 1
    BY <1>2 DEF Handover, NewMessage, NewMsg
  <2>2. IsFiniteSet(packed) /\ Cardinality(packed) \in Nat
    BY FS_CardinalityType DEF TypeInv
  <2>3. \A n \in packed : n.msg \in Nat /\ n.msg <= Cardinality(packed)
    BY DEF TypeInv, RimeTypeOK, Message, Msgs, NumbersOK
  <2> HIDE DEF m
  <2>4. m \notin packed
    BY <2>1, <2>2, <2>3
  <2>5. Cardinality(packed') = Cardinality(packed) + 1
    BY <2>1, <2>2, <2>4, FS_AddElement
  <2> QED BY <2>1, <2>2, <2>3, <2>5 DEF NumbersOK
<1>3. ASSUME NEW s \in Stacks, Application(s) PROVE NumbersOK'
  BY <1>1, <1>2, <1>3 DEF Application, BcPack, UcPack, RucPack, Eof, StopStack
<1>4. ASSUME NEW p \in RucPorts, Transmit(p[1], p[2]) \/ NextMessage(p[1], p[2]) PROVE NumbersOK'
  BY <1>1, <1>4 DEF Transmit, NextMessage
<1>5. ASSUME NEW s \in Stacks, NEW packet \in inbox[s], Unpack(s, packet) PROVE NumbersOK'
  BY <1>1, <1>5 DEF Unpack, Unheard, BcUnpack, UcUnpack, RucUnpackOther, RucUnpackAck, RucUnpackData
<1>6. CASE UNCHANGED vars
  BY <1>1, <1>6 DEF vars
<1> QED BY <1>3, <1>4, <1>5, <1>6 DEF Next

LEMMA AcksStep ==
    TypeInv /\ PackedOK /\ BoxesOK /\ AcksAnswerMessages /\ [Next]_vars => AcksAnswerMessages'
<1> SUFFICES ASSUME TypeInv, PackedOK, BoxesOK, AcksAnswerMessages, [Next]_vars
             PROVE  AcksAnswerMessages'
  OBVIOUS
<1>1. packed \subseteq packed' /\ output \subseteq output'
  BY Grows
<1>2. CASE confirmed' = confirmed
  BY <1>1, <1>2 DEF AcksAnswerMessages
<1>3. ASSUME NEW s \in Stacks, NEW packet \in inbox[s], NEW i \in Index(s),
             RucUnpackAck(s, i, packet)
      PROVE  AcksAnswerMessages'
  <2> DEFINE a == [stack |-> s, conn |-> i, seqno |-> recvSeqno[<<s, i>>]]
  <2>1. PICK m \in packed :
           /\ m.channel = Chan(s, i) /\ m.kind = "ruc" /\ RucSeqno(packet.header) = m.seqno
           /\ AddrOf[m.stack] = AddrOf[s] /\ \E o \in output : IsAck(packet, m, o)
    BY <1>3, RucReceived DEF RucUnpackAck
  <2>2. PICK o \in output : o.msg = m.msg /\ m.dest = AddrOf[o.stack]
    BY <2>1 DEF IsAck
  <2>4. Dispatch(s, i, packet.header)
    BY <1>3 DEF RucUnpackAck, ForMe
  <2>5. <<m.stack, m.conn>> \in Rivals(s, i)
    <3>1. m.conn \in Index(m.stack) /\ Kind(m.stack, m.conn) = "ruc" /\ Chan(m.stack, m.conn) = Chan(s, i)
      BY <2>1 DEF PackedOK
    <3>2. m.stack \in Stacks
      BY DEF TypeInv, RimeTypeOK, Message
    <3> QED BY <2>1, <3>1, <3>2, PortPair DEF Rivals
  <2>6. ASSUME NEW p \in Rivals(s, i), p[1] = s PROVE i <= p[2]
    <3>1. p \in RucPorts /\ Chan(p[1], p[2]) = Chan(s, i)
      BY DEF Rivals
    <3>2. p[2] \in Index(s)
      BY <2>6, <3>1, PortPair
    <3>3. p[2] \in Matching(s, packet.header)
      BY <2>4, <2>6, <3>1, <3>2 DEF Dispatch, Matching
    <3> QED BY <2>4, <3>3 DEF Dispatch
  <2>7. CASE FreshAck(s, i, packet.header)
    <3>1. confirmed' = confirmed \cup {a}
      BY <1>3, <2>7 DEF RucUnpackAck
    <3>2. a.stack = s /\ a.conn = i /\ a.seqno = m.seqno
      BY <2>1, <2>7 DEF FreshAck
    <3> HIDE DEF a
    <3>3. m \in packed' /\ o \in output'
      BY <1>1
    <3>4. /\ m.kind = "ruc" /\ m.seqno = a.seqno
          /\ <<m.stack, m.conn>> \in Rivals(a.stack, a.conn)
          /\ o.msg = m.msg /\ m.dest = AddrOf[o.stack]
          /\ \A p \in Rivals(a.stack, a.conn) : p[1] = a.stack => a.conn <= p[2]
      BY <2>1, <2>2, <2>5, <2>6, <3>2
    <3>5. ASSUME NEW b \in confirmed
          PROVE  /\ \E n \in packed' : \E r \in output' :
                       /\ n.kind = "ruc" /\ n.seqno = b.seqno
                       /\ <<n.stack, n.conn>> \in Rivals(b.stack, b.conn)
                       /\ r.msg = n.msg /\ n.dest = AddrOf[r.stack]
                 /\ \A p \in Rivals(b.stack, b.conn) : p[1] = b.stack => b.conn <= p[2]
      BY <1>1 DEF AcksAnswerMessages
    <3> QED BY <3>1, <3>3, <3>4, <3>5 DEF AcksAnswerMessages
  <2>8. CASE ~FreshAck(s, i, packet.header)
    BY <1>2, <1>3, <2>8 DEF RucUnpackAck
  <2> QED BY <2>7, <2>8
<1>4. ASSUME NEW s \in Stacks, NEW packet \in inbox[s], Unpack(s, packet)
      PROVE  AcksAnswerMessages'
  BY <1>2, <1>3, <1>4 DEF Unpack, Unheard, BcUnpack, UcUnpack, RucUnpackOther, RucUnpackData
<1>5. ASSUME NEW s \in Stacks, Application(s) PROVE AcksAnswerMessages'
  BY <1>2, <1>5 DEF Application, BcPack, UcPack, RucPack, Eof, StopStack
<1>6. ASSUME NEW p \in RucPorts, Transmit(p[1], p[2]) \/ NextMessage(p[1], p[2])
      PROVE  AcksAnswerMessages'
  BY <1>2, <1>6 DEF Transmit, NextMessage
<1>7. CASE UNCHANGED vars
  BY <1>2, <1>7 DEF vars
<1> QED BY <1>4, <1>5, <1>6, <1>7 DEF Next

-------------------------------------------------------------------------------
LEMMA InvHolds == Spec => []Inv
<1>1. Init => Inv
  <2> SUFFICES ASSUME Init PROVE Inv
    OBVIOUS
  <2>1. TypeInv
    BY TypeInit
  <2>2. /\ packed = {} /\ output = {} /\ confirmed = {}
        /\ \A s \in Stacks : inbox[s] = {}
        /\ \A p \in RucPorts : queue[p] = <<>>
    BY DEF Init
  <2> QED BY <2>1, <2>2 DEF Inv, PackedOK, QueuesOK, BoxesOK, OutputOK, NumbersOK, AcksAnswerMessages
<1>2. Inv /\ [Next]_vars => Inv'
  BY TypeStep, PackedStep, QueuesStep, BoxesStep, OutputStep, NumbersStep, AcksStep DEF Inv
<1> QED BY <1>1, <1>2, PTL DEF Spec

\* Headers, queues and histories keep their types, for any addresses and
\* channels.
THEOREM RimeTypeCorrect == Spec => []RimeTypeOK
<1>1. Inv => RimeTypeOK
  BY DEF Inv, TypeInv
<1> QED BY <1>1, InvHolds, PTL

\* No connection hands out what was not packed for it on its channel.
THEOREM DeliveredAsAddressedHolds == Spec => []DeliveredAsAddressed
<1>1. Inv => DeliveredAsAddressed
  BY DEF Inv, OutputOK, Delivery, DeliveredAsAddressed
<1> QED BY <1>1, InvHolds, PTL

\* No message comes out of two ports of a stack, however its channels overlap.
THEOREM OnePortPerMessageHolds == Spec => []OnePortPerMessage
<1>1. Inv => OnePortPerMessage
  <2> SUFFICES ASSUME Inv, NEW o \in output, NEW r \in output, o.msg = r.msg, o.stack = r.stack
               PROVE  o.conn = r.conn
    BY DEF OnePortPerMessage
  <2>1. PICK m \in packed : Delivery(m, o)
    BY DEF Inv, OutputOK
  <2>2. PICK n \in packed : Delivery(n, r)
    BY DEF Inv, OutputOK
  <2>3. m = n
    BY <2>1, <2>2 DEF Inv, NumbersOK, Delivery
  <2>4. /\ Dispatch(o.stack, o.conn, HeaderOf(m))
        /\ Dispatch(o.stack, r.conn, HeaderOf(m))
    BY <2>1, <2>2, <2>3 DEF Delivery
  <2>5. o.conn <= r.conn /\ r.conn <= o.conn
    BY <2>4 DEF Dispatch
  <2>6. o.conn \in Nat /\ r.conn \in Nat
    BY DEF Inv, TypeInv, RimeTypeOK
  <2> QED BY <2>5, <2>6
<1> QED BY <1>1, InvHolds, PTL

\* Whatever connections the stacks have, an ack that stops a sender answers a
\* delivered message with that seqno, of this connection or of one with the same
\* channel and address, and only the first connection on a channel is stopped.
THEOREM AcksAnswerMessagesHolds == Spec => []AcksAnswerMessages
<1>1. Inv => AcksAnswerMessages
  BY DEF Inv
<1> QED BY <1>1, InvHolds, PTL

\* A message with the seqno of a, of the very connection that a stopped, which was
\* handed to its destination's application.
OwnAndDelivered(a) ==
    \E m \in packed : \E o \in output :
        /\ m.stack = a.stack /\ m.conn = a.conn /\ m.seqno = a.seqno
        /\ o.msg = m.msg /\ m.dest = AddrOf[o.stack]

\* A connection that has its channel and address for itself is stopped only by the
\* ack of a delivered message of its own, whatever the other connections send.
THEOREM OwnAcksOnly ==
    Spec => [](\A a \in confirmed : Rivals(a.stack, a.conn) = {<<a.stack, a.conn>>} => OwnAndDelivered(a))
<1>1. Inv => \A a \in confirmed : Rivals(a.stack, a.conn) = {<<a.stack, a.conn>>} => OwnAndDelivered(a)
  <2> SUFFICES ASSUME Inv, NEW a \in confirmed, Rivals(a.stack, a.conn) = {<<a.stack, a.conn>>}
               PROVE  OwnAndDelivered(a)
    OBVIOUS
  <2>1. PICK m \in packed : \E o \in output :
              /\ m.kind = "ruc" /\ m.seqno = a.seqno
              /\ <<m.stack, m.conn>> \in Rivals(a.stack, a.conn)
              /\ o.msg = m.msg /\ m.dest = AddrOf[o.stack]
    BY DEF Inv, AcksAnswerMessages
  <2>2. m.stack = a.stack /\ m.conn = a.conn
    BY <2>1
  <2> QED BY <2>1, <2>2 DEF OwnAndDelivered
<1> QED BY <1>1, InvHolds, PTL
===============================================================================
