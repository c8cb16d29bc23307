------------------------------- MODULE RimeStack -------------------------------
(***************************************************************************)
(* Rime stacks on one radio channel: the connections of                    *)
(* lib/rime_stack.cc, how they dispatch what the MAC hands up, and the     *)
(* handlers pack and unpack of lib/bc_connection.cc, lib/uc_connection.cc  *)
(* and lib/ruc_connection.cc.  The thread of a runicast connection's       *)
(* stubborn sender is cut down to what the others see of it; Runicast      *)
(* models it step by step.  The MAC and the PHY are a set of packets on    *)
(* their way to each stack.                                                *)
(***************************************************************************)
EXTENDS RimeHeaders, FiniteSets

CONSTANTS
    Stacks,
    AddrOf,      \* d_rime_add of each stack
    BcChannels, UcChannels, RucChannels,  \* the constructor's lists, by stack
    InRange,     \* the stacks that hear each stack, itself perhaps (a loopback)
    Targets,     \* addresses an application may write, as pairs of numbers
    MaxMsgs      \* bound: messages the applications hand over

\* add_connections: broadcast, unicast, runicast, each in the list's order.
Typed(kind, channels) == [i \in 1 .. Len(channels) |-> [kind |-> kind, channel |-> channels[i]]]
Conns(s) == Typed("bc", BcChannels[s]) \o Typed("uc", UcChannels[s]) \o Typed("ruc", RucChannels[s])
Conn     == [kind : {"bc", "uc", "ruc"}, channel : Channel]
Index(s) == DOMAIN Conns(s)
Kind(s, i) == Conns(s)[i].kind
Chan(s, i) == Conns(s)[i].channel
Ports    == UNION {{s} \X Index(s) : s \in Stacks}
RucPorts == {p \in Ports : Kind(p[1], p[2]) = "ruc"}

ASSUME AddressAssumption == AddrOf \in [Stacks -> Address]
ASSUME ChannelAssumption == /\ BcChannels \in [Stacks -> Seq(Channel)]
                            /\ UcChannels \in [Stacks -> Seq(Channel)]
                            /\ RucChannels \in [Stacks -> Seq(Channel)]
\* A header does not say which kind of connection wrote it: the stacks have to
\* agree on what a channel is for.
ASSUME KindAssumption ==
    \A p, q \in Ports : Chan(p[1], p[2]) = Chan(q[1], q[2]) => Kind(p[1], p[2]) = Kind(q[1], q[2])
ASSUME TargetAssumption == Targets \subseteq Nat \X Nat
ASSUME MaxMsgsAssumption == MaxMsgs \in Nat

VARIABLES
    running,    \* FALSE once a handler has called set_done, or has thrown
    macOpen,    \* FALSE once the stack has published PMT_EOF to its MAC
    inbox,      \* packets on their way to each stack
    queue,      \* of each runicast connection: the message in hand, those queued
    stop,       \* d_stop of its sender
    sendSeqno,  \* its d_send_seqno
    recvSeqno,  \* its d_recv_seqno
    packed,     \* history: what the applications handed over
    output,     \* history: payloads published on a connection's out port
    confirmed   \* history: acks taken for fresh ones

stackVars == <<running, macOpen>>
rucVars   == <<queue, stop, sendSeqno, recvSeqno>>
vars      == <<stackVars, inbox, rucVars, packed, output, confirmed>>

Msgs   == 1 .. MaxMsgs
NoMsg  == 0           \* an ack carries no payload
Everybody == <<>>     \* the destination of a broadcast
Packet == [header : Seq(Byte), msg : Msgs \cup {NoMsg}]
Message == [msg : Msgs, stack : Stacks, conn : Nat, kind : {"bc", "uc", "ruc"},
            channel : Channel, dest : Address \cup {Everybody}, seqno : 0 .. (SeqMod - 1)]

Init ==
    /\ running = [s \in Stacks |-> TRUE] /\ macOpen = [s \in Stacks |-> TRUE]
    /\ inbox = [s \in Stacks |-> {}]
    /\ queue = [p \in RucPorts |-> <<>>] /\ stop = [p \in RucPorts |-> FALSE]
    /\ sendSeqno = [p \in RucPorts |-> 0] /\ recvSeqno = [p \in RucPorts |-> 0]
    /\ packed = {} /\ output = {} /\ confirmed = {}

-------------------------------------------------------------------------------
\* rime_add_from_string: both numbers fit a byte and the address is not 0.0.
ValidAddress(a) == a[1] <= 255 /\ a[2] <= 255 /\ a # <<0, 0>>

\* A packet goes to the stacks in range; one that is never taken out again is
\* lost.  Behind an EOF the MAC takes nothing.
Publish(s, boxes, packet) ==
    inbox' = IF macOpen[s]
                THEN [t \in Stacks |-> boxes[t] \cup (IF t \in InRange[s] THEN {packet} ELSE {})]
                ELSE boxes

NewMsg == Cardinality(packed) + 1
NewMessage(s, i, dest, q) == [msg |-> NewMsg, stack |-> s, conn |-> i, kind |-> Kind(s, i),
                              channel |-> Chan(s, i), dest |-> dest, seqno |-> q]
Handover(s, i, dest, q) ==
    /\ running[s] /\ Cardinality(packed) < MaxMsgs
    /\ packed' = packed \cup {NewMessage(s, i, dest, q)}

\* bc_connection::pack
BcPack(s, i) ==
    /\ Kind(s, i) = "bc"
    /\ Handover(s, i, Everybody, 0)
    /\ Publish(s, inbox, [header |-> BcHeader(Chan(s, i), AddrOf[s]), msg |-> NewMsg])
    /\ UNCHANGED <<stackVars, rucVars, output, confirmed>>

\* uc_connection::pack; a message for an invalid address is not sent.
UcPack(s, i, dest) ==
    /\ Kind(s, i) = "uc" /\ ValidAddress(dest)
    /\ Handover(s, i, dest, 0)
    /\ Publish(s, inbox, [header |-> UcHeader(Chan(s, i), AddrOf[s], dest), msg |-> NewMsg])
    /\ UNCHANGED <<stackVars, rucVars, output, confirmed>>

NextSeqno(q) == (q + 1) % SeqMod

\* ruc_connection::pack; the same check of the address.
RucPack(s, i, dest) ==
    /\ Kind(s, i) = "ruc" /\ ValidAddress(dest)
    /\ LET q == sendSeqno[<<s, i>>] IN
         /\ Handover(s, i, dest, q)
         /\ queue' = [queue EXCEPT ![<<s, i>>] = Append(@,
              [header |-> RucHeader(Chan(s, i), DataFlag, q, AddrOf[s], dest), msg |-> NewMsg])]
         /\ sendSeqno' = [sendSeqno EXCEPT ![<<s, i>>] = NextSeqno(q)]
    /\ UNCHANGED <<stackVars, inbox, stop, recvSeqno, output, confirmed>>

\* pack of PMT_EOF on any connection: it ends the MAC and the whole stack.
Eof(s) ==
    /\ running[s]
    /\ running' = [running EXCEPT ![s] = FALSE] /\ macOpen' = [macOpen EXCEPT ![s] = FALSE]
    /\ UNCHANGED <<inbox, rucVars, packed, output, confirmed>>

\* A unicast or runicast text that ends with its address: at(npos) throws out
\* of the handler and the block's thread ends; so it does at the MAC's EOF.
StopStack(s) ==
    /\ running[s]
    /\ running' = [running EXCEPT ![s] = FALSE]
    /\ UNCHANGED <<macOpen, inbox, rucVars, packed, output, confirmed>>

-------------------------------------------------------------------------------
(* thread_func of a stubborn sender.                                       *)

\* One of the transmissions of the message in hand.
Transmit(s, i) ==
    /\ queue[<<s, i>>] # <<>>
    /\ Publish(s, inbox, Head(queue[<<s, i>>]))
    /\ UNCHANGED <<stackVars, rucVars, packed, output, confirmed>>

\* Stopped by an ack, or given up; inc_recv_seqno when it gives up.
NextMessage(s, i) ==
    /\ queue[<<s, i>>] # <<>>
    /\ queue' = [queue EXCEPT ![<<s, i>>] = Tail(@)]
    /\ stop' = [stop EXCEPT ![<<s, i>>] = FALSE]
    /\ recvSeqno' = IF stop[<<s, i>>] THEN recvSeqno
                    ELSE [recvSeqno EXCEPT ![<<s, i>>] = NextSeqno(@)]
    /\ UNCHANGED <<stackVars, inbox, sendSeqno, packed, output, confirmed>>

-------------------------------------------------------------------------------
(* rime_stack::unpack and the connections' unpack.                         *)

\* The test of the dispatch.  channel() is 16 bits wide and is compared as a
\* whole with the low byte: no channel above 255 ever matches.
MatchesLowByte(c, h) == Low(c) = h[1]  \* mutant: channels are one byte
Matches(c, h) == c = h[1] /\ High(c) = h[2]

Matching(s, h) == {i \in Index(s) : Matches(Chan(s, i), h)}
EveryMatch(s, i, h) == i \in Matching(s, h)  \* mutant: the return in the loop is left out
\* The first connection that matches, and no other, gets the packet.
Dispatch(s, i, h) == i \in Matching(s, h) /\ \A j \in Matching(s, h) : i <= j

Rest(s, packet) == [inbox EXCEPT ![s] = @ \ {packet}]
Deliver(s, i, packet) ==
    output' = output \cup {[stack |-> s, conn |-> i, msg |-> packet.msg]}

\* No connection of the stack has the channel.
Unheard(s, packet) ==
    /\ Matching(s, packet.header) = {}
    /\ inbox' = Rest(s, packet)
    /\ UNCHANGED <<stackVars, rucVars, packed, output, confirmed>>

BcUnpack(s, i, packet) ==
    /\ Dispatch(s, i, packet.header) /\ Kind(s, i) = "bc"
    /\ inbox' = Rest(s, packet)
    /\ Deliver(s, i, packet)
    /\ UNCHANGED <<stackVars, rucVars, packed, confirmed>>

UcUnpack(s, i, packet) ==
    /\ Dispatch(s, i, packet.header) /\ Kind(s, i) = "uc"
    /\ inbox' = Rest(s, packet)
    /\ IF UcTarget(packet.header) = AddrOf[s] THEN Deliver(s, i, packet) ELSE UNCHANGED output
    /\ UNCHANGED <<stackVars, rucVars, packed, confirmed>>

\* A runicast packet for another stack is discarded.
RucUnpackOther(s, i, packet) ==
    /\ Dispatch(s, i, packet.header) /\ Kind(s, i) = "ruc"
    /\ RucTarget(packet.header) # AddrOf[s]
    /\ inbox' = Rest(s, packet)
    /\ UNCHANGED <<stackVars, rucVars, packed, output, confirmed>>

ForMe(s, i, h) == Dispatch(s, i, h) /\ Kind(s, i) = "ruc" /\ RucTarget(h) = AddrOf[s]

\* A fresh ack stops the sender and moves the expected seqno; another one is
\* taken for a duplicate.
AckFromAnyTime(s, i, h) == TRUE  \* mutant: the seqno is not compared
FreshAck(s, i, h) == RucSeqno(h) = recvSeqno[<<s, i>>]

RucUnpackAck(s, i, packet) ==
    LET h == packet.header IN
    /\ ForMe(s, i, h) /\ RucIsAck(h)
    /\ inbox' = Rest(s, packet)
    /\ IF FreshAck(s, i, h)
          THEN /\ stop' = [stop EXCEPT ![<<s, i>>] = TRUE]
               /\ recvSeqno' = [recvSeqno EXCEPT ![<<s, i>>] = NextSeqno(@)]
               /\ confirmed' = confirmed \cup {[stack |-> s, conn |-> i,
                                               seqno |-> recvSeqno[<<s, i>>]]}
          ELSE UNCHANGED <<stop, recvSeqno, confirmed>>
    /\ UNCHANGED <<stackVars, queue, sendSeqno, packed, output>>

\* A data packet goes to the application and is acknowledged with its seqno.
AckHeader(s, i, h) == RucHeader(Chan(s, i), AckFlag, RucSeqno(h), AddrOf[s], RucSender(h))
RucUnpackData(s, i, packet) ==
    LET h == packet.header IN
    /\ ForMe(s, i, h) /\ ~RucIsAck(h)
    /\ Deliver(s, i, packet)
    /\ Publish(s, Rest(s, packet), [header |-> AckHeader(s, i, h), msg |-> NoMsg])
    /\ UNCHANGED <<stackVars, rucVars, packed, confirmed>>

-------------------------------------------------------------------------------
Unpack(s, packet) ==
    \/ Unheard(s, packet)
    \/ \E i \in Index(s) : \/ BcUnpack(s, i, packet)
                           \/ UcUnpack(s, i, packet)
                           \/ RucUnpackOther(s, i, packet)
                           \/ RucUnpackAck(s, i, packet)
                           \/ RucUnpackData(s, i, packet)

Application(s) ==
    \/ \E i \in Index(s) : BcPack(s, i) \/ \E dest \in Targets : UcPack(s, i, dest) \/ RucPack(s, i, dest)
    \/ Eof(s)
    \/ StopStack(s)

Next == \/ \E s \in Stacks : Application(s)
        \/ \E p \in RucPorts : Transmit(p[1], p[2]) \/ NextMessage(p[1], p[2])
        \/ \E s \in Stacks : running[s] /\ \E packet \in inbox[s] : Unpack(s, packet)

Spec == Init /\ [][Next]_vars
-------------------------------------------------------------------------------
(* Properties.                                                             *)

\* Every variable keeps its type: headers are bytes, whatever is shifted.
RimeTypeOK ==
    /\ running \in [Stacks -> BOOLEAN] /\ macOpen \in [Stacks -> BOOLEAN]
    /\ inbox \in [Stacks -> SUBSET Packet]
    /\ queue \in [RucPorts -> Seq(Packet)] /\ stop \in [RucPorts -> BOOLEAN]
    /\ sendSeqno \in [RucPorts -> 0 .. (SeqMod - 1)]
    /\ recvSeqno \in [RucPorts -> 0 .. (SeqMod - 1)]
    /\ packed \subseteq Message
    /\ output \subseteq [stack : Stacks, conn : Nat, msg : Msgs \cup {NoMsg}]
    /\ confirmed \subseteq [stack : Stacks, conn : Nat, seqno : 0 .. (SeqMod - 1)]

\* What a connection hands to its application was packed, with that payload,
\* on a connection of its own kind and channel, and for its own stack unless
\* it was broadcast: no header is misread and no channel taken for another.
DeliveredAsAddressed ==
    \A o \in output : \E m \in packed :
        /\ m.msg = o.msg
        /\ m.kind = Kind(o.stack, o.conn) /\ m.channel = Chan(o.stack, o.conn)
        /\ m.kind # "bc" => m.dest = AddrOf[o.stack]

\* Of the connections of a stack on one channel only the first is ever served:
\* a message never comes out of two ports of a stack.
OnePortPerMessage ==
    \A o, r \in output : o.msg = r.msg /\ o.stack = r.stack => o.conn = r.conn

\* The runicast connections that no header tells from connection i of stack s:
\* on its channel, behind its address.
Rivals(s, i) == {p \in RucPorts : Chan(p[1], p[2]) = Chan(s, i) /\ AddrOf[p[1]] = AddrOf[s]}

\* An ack that stops the sender of a connection answers a message with that
\* seqno which its destination has handed to its application, and which this
\* connection or a rival of it packed.  A connection without rivals takes no
\* other connection's acks.  Of several on one channel the first takes the acks
\* of all (rime_stack.cc:150-153) and counts its own message as confirmed,
\* delivered or not; the others are never confirmed.
AcksAnswerMessages ==
    \A a \in confirmed :
        /\ \E m \in packed : \E o \in output :
              /\ m.kind = "ruc" /\ m.seqno = a.seqno
              /\ <<m.stack, m.conn>> \in Rivals(a.stack, a.conn)
              /\ o.msg = m.msg /\ m.dest = AddrOf[o.stack]
        /\ \A p \in Rivals(a.stack, a.conn) : p[1] = a.stack => a.conn <= p[2]
===============================================================================
