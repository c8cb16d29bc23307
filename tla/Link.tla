--------------------------------- MODULE Link ---------------------------------
(***************************************************************************)
(* The adaptive link: the loop of examples/work.py main() over one         *)
(* flowgraph, whose message generator, MAC and PHY send packets from       *)
(* station 1 to station 2.  The driver learns from the file seq_1 how many *)
(* packets station 2's side of the MAC has taken, and restarts the         *)
(* flowgraph to send another one: after a reception, or when K polls have  *)
(* passed.                                                                 *)
(***************************************************************************)
EXTENDS Mac

CONSTANTS
    K,           \* k, the polls after which a packet counts as lost
    Prompt,      \* TRUE: a packet's way to the driver takes less than K polls
    MaxPackets   \* bound: packets sent

ASSUME LinkAssumption == /\ K \in Nat \ {0}
                         /\ Prompt \in BOOLEAN
                         /\ MaxPackets \in Nat

VARIABLES
    isFirst,  \* isFirst: 1 until the first packet is sent
    prevSeq,  \* prev_seq
    seq,      \* seq, as last read
    t,        \* t
    drv,      \* where the loop stands: before its tests or before the read
    pacNum,   \* pac_num
    resent,   \* history: those of pac_num printed as "retransmit"
    pending,  \* messages between the generator and app_in
    air,      \* frames between the MAC and itself, through both radios
    lost      \* history: frames lost or dropped by mac_in

driver   == <<isFirst, prevSeq, seq, t, drv, pacNum, resent>>
channel  == <<pending, air, lost>>
linkVars == <<macVars, driver, channel>>

LinkInit ==
    /\ MacInit
    /\ isFirst = 1 /\ prevSeq = 0 /\ seq = 0 /\ t = K
    /\ drv = "turn" /\ pacNum = 0 /\ resent = 0
    /\ pending = 0 /\ air = <<>> /\ lost = 0

-------------------------------------------------------------------------------
(* The driver.                                                             *)

\* A start of the flowgraph runs message_generator::start, whose thread
\* publishes one message.  A restart first waits for the handlers to return.
StartFlowgraph ==
    /\ pacNum < MaxPackets
    /\ pacNum' = pacNum + 1
    /\ pending' = pending + 1
    /\ macPc = "idle"

First ==
    /\ drv = "turn" /\ drv' = "poll"
    /\ isFirst = 1 /\ isFirst' = 0
    /\ StartFlowgraph
    /\ t' = K - 1
    /\ UNCHANGED <<prevSeq, seq, resent, air, lost, macVars>>

\* Exactly one reception since the last packet was sent.
NoReception  == prevSeq = seq  \* mutant: off by one
NewReception == prevSeq = seq - 1

\* Mutant of SendNext: prev_seq = seq is left out.
SendNextForgets ==
    /\ drv = "turn" /\ drv' = "poll"
    /\ isFirst = 0 /\ NewReception
    /\ StartFlowgraph
    /\ t' = K - 1
    /\ UNCHANGED <<prevSeq, isFirst, seq, resent, air, lost, macVars>>

SendNext ==
    /\ drv = "turn" /\ drv' = "poll"
    /\ isFirst = 0 /\ NewReception
    /\ StartFlowgraph
    /\ prevSeq' = seq
    /\ t' = K - 1
    /\ UNCHANGED <<isFirst, seq, resent, air, lost, macVars>>

\* All that was sent has been counted, or lost, and read.
Settled == pending = 0 /\ air = <<>> /\ macPc = "idle" /\ seq = count

\* Mutant of Retransmit: t = k is left out.
RetransmitKeepsT ==
    /\ drv = "turn" /\ drv' = "poll"
    /\ isFirst = 0 /\ ~NewReception /\ t = 0
    /\ Prompt => Settled
    /\ StartFlowgraph
    /\ resent' = resent + 1
    /\ prevSeq' = seq
    /\ t' = t - 1
    /\ UNCHANGED <<isFirst, seq, air, lost, macVars>>

RetransmitNever == FALSE  \* mutant: no timer

Retransmit ==
    /\ drv = "turn" /\ drv' = "poll"
    /\ isFirst = 0 /\ ~NewReception /\ t = 0
    /\ Prompt => Settled
    /\ StartFlowgraph
    /\ resent' = resent + 1
    /\ prevSeq' = seq
    /\ t' = K - 1
    /\ UNCHANGED <<isFirst, seq, air, lost, macVars>>

Wait ==
    /\ drv = "turn" /\ drv' = "poll"
    /\ isFirst = 0 /\ ~NewReception /\ t # 0
    /\ t' = t - 1
    /\ UNCHANGED <<isFirst, prevSeq, seq, pacNum, resent, channel, macVars>>

\* The read of seq_1; an empty string leaves seq as it is.
PollBlindly == seq' = IF countFile = Empty THEN 0 ELSE countFile  \* mutant: no test of the string
ReadCount   == seq' = IF countFile = Empty THEN seq ELSE countFile

Poll ==
    /\ drv = "poll" /\ drv' = "turn"
    /\ ReadCount
    /\ UNCHANGED <<isFirst, prevSeq, t, pacNum, resent, channel, macVars>>

-------------------------------------------------------------------------------
(* The flowgraph.                                                          *)

\* The message reaches app_in, the frame leaves for the radio.
Transmit ==
    /\ pending > 0 /\ pending' = pending - 1
    /\ AppIn
    /\ air' = Append(air, Generated)
    /\ UNCHANGED <<lost, driver>>

\* A frame reaches mac_in.
Receive ==
    /\ air # <<>> /\ air' = Tail(air)
    /\ \/ MacIn(Head(air)) /\ UNCHANGED lost
       \/ MacDrop(Head(air)) /\ lost' = lost + 1
    /\ UNCHANGED <<pending, driver>>

\* The file is written while the driver goes on.
WriteFile == (OpenCount \/ WriteCount) /\ UNCHANGED <<driver, channel>>

\* By the radio, or in the buffers of a flowgraph that is restarted.
LoseFrame ==
    /\ air # <<>> /\ air' = Tail(air)
    /\ lost' = lost + 1
    /\ UNCHANGED <<pending, driver, macVars>>

\* Bytes change on the way: the payload's, the address's or the length.
Corrupt ==
    /\ air # <<>> /\ Head(air).ok
    /\ \E f \in MacFrame : /\ ~f.ok /\ f.seq = Head(air).seq
                          /\ air' = [air EXCEPT ![1] = f]
    /\ UNCHANGED <<pending, lost, driver, macVars>>

Driver    == First \/ SendNext \/ Retransmit \/ Wait \/ Poll
Flowgraph == Transmit \/ Receive \/ WriteFile
LinkNext  == Driver \/ Flowgraph \/ LoseFrame \/ Corrupt

LinkSpec == LinkInit /\ [][LinkNext]_linkVars

\* Python's loop and the scheduler's threads run; a frame on the air arrives.
LinkFairness == WF_linkVars(Driver) /\ WF_linkVars(Flowgraph)
FairLinkSpec == LinkSpec /\ LinkFairness

-------------------------------------------------------------------------------
\* The variables of the driver and the channel keep their types; t never
\* passes 0, where the only test for it is t == 0.
LinkTypeOK ==
    /\ isFirst \in {0, 1} /\ drv \in {"turn", "poll"}
    /\ prevSeq \in Nat /\ seq \in Nat /\ t \in 0 .. K
    /\ pacNum \in 0 .. MaxPackets /\ resent \in Nat
    /\ pending \in Nat /\ lost \in Nat
    /\ air \in Seq(MacFrame)

\* What the driver has read runs behind what the MAC has counted, at every
\* moment of the file: prev_seq, seq, the file's number and seq1_num are in
\* that order, and no packet is counted that was not sent.
ReadsRunBehind ==
    /\ prevSeq <= seq /\ seq <= count
    /\ countFile # Empty => seq <= countFile /\ countFile <= count
    /\ count + Len(air) + pending + lost = pacNum

\* A packet is sent for the first start, for a reception of its own, or as a
\* retransmission: one reception never releases two packets.
OneReceptionOnePacket == isFirst = 0 => pacNum <= 1 + prevSeq + resent

\* A retransmission is paid for by a frame that was lost, when the way of a
\* packet to the driver takes less than k polls.
RetransmissionsPaid == resent <= lost

\* Under the same assumption the link is stop-and-wait: of the packets under
\* way and the receptions not yet answered with a packet there is one at most.
OneOutstanding == pending + Len(air) + (count - prevSeq) <= 1

\* What the driver prints as "retransmit" repeats a packet it has seen no
\* reception for.
RetransmitsUnreceived == [][Retransmit => seq = prevSeq]_linkVars

\* The driver sends on for ever: no loss, no late frame and no read of a
\* half-written file leaves the link silent.
KeepsSending == \A n \in 0 .. (MaxPackets - 1) : pacNum = n ~> pacNum > n
===============================================================================
