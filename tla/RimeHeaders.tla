----------------------------- MODULE RimeHeaders -----------------------------
(***************************************************************************)
(* The headers of Rime packets: make_msgbuf of the three kinds of          *)
(* connection and what unpack reads back.  A header is a sequence of       *)
(* bytes; h[i] is buf[i - 1].  Bits that are or-ed together never overlap, *)
(* so | is +, and << and >> by k are * and \div by 2^k.                    *)
(***************************************************************************)
EXTENDS Integers, Sequences

Byte    == 0 .. 255
Channel == 0 .. 65535     \* uint16_t
Address == Byte \X Byte   \* a rime address a.b
SeqMod  == 4              \* 1 << seqno_bits

Uint8(n) == n % 256
Low(c)   == c % 256
High(c)  == c \div 256

\* channel, source
BcHeader(c, src) == <<Low(c), High(c), src[1], src[2]>>

\* channel, destination, source
UcHeader(c, src, dest) == <<Low(c), High(c), dest[1], dest[2], src[1], src[2]>>
UcTarget(h) == <<h[3], h[4]>>

\* The first bit behind the channel tells an ack from data.
DataFlag == 0
AckFlag  == 128
Flag     == {DataFlag, AckFlag}

\* channel, then in 35 bits: flag, seqno, destination, source
RucHeader(c, flag, seqno, src, dest) ==
    << Low(c), High(c),
       flag + seqno * 32 + dest[1] \div 8,
       Uint8(dest[1] * 32) + dest[2] \div 8,
       Uint8(dest[2] * 32) + src[1] \div 8,
       Uint8(src[1] * 32) + src[2] \div 8,
       Uint8(src[2] * 32) >>

\* The byte that begins behind the first five bits of h[i].
ByteAt(h, i) == Uint8(h[i] * 8) + h[i + 1] \div 32

RucTarget(h)   == <<ByteAt(h, 3), ByteAt(h, 4)>>
RucSender(h)   == <<ByteAt(h, 5), ByteAt(h, 6)>>
RucIsAck(h)    == h[3] >= AckFlag
\* Mutant: 1 + seqno_bits where 7 - seqno_bits should stand.
RucSeqnoAtWrongShift(h) == (h[3] % AckFlag) \div 8
RucSeqno(h)    == (h[3] % AckFlag) \div 32
===============================================================================
