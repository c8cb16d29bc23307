---------------------------- MODULE RunicastProofs ----------------------------
(***************************************************************************)
(* Proofs about Runicast, for every value of its constants.                *)
(***************************************************************************)
EXTENDS Runicast, NumberLemmas, SequenceTheorems, FiniteSetTheorems

\* The retry counter: below Retxs + 1 while thread_func still sends, at least
\* 1 once it has left the loop, and all of Retxs + 1 when it left without stop.
TryInRange ==
    /\ pc \in Sending \cup {"loop"} => try <= Retxs
    /\ pc = "decide" => try >= 1 /\ (~stop => try = Retxs + 1)

-------------------------------------------------------------------------------
\* pack and inc_recv_seqno keep their seqnos below 1 << seqno_bits.
LEMMA NextSeqnoType == \A s \in Seqno : NextSeqno(s) \in Seqno
<1> TAKE s \in Seqno
<1>1. s + 1 \in Nat
  BY SeqModAssumption DEF Seqno
<1>2. (s + 1) % SeqMod \in 0 .. (SeqMod - 1)
  BY <1>1, SeqModAssumption, ModRange
<1> QED BY <1>2 DEF NextSeqno, Seqno

\* Appending to one of a family of sequences keeps its type.
LEMMA AppendAt == ASSUME NEW S, NEW T, NEW f \in [S -> Seq(T)], NEW x \in S, NEW e \in T
                  PROVE  [f EXCEPT ![x] = Append(@, e)] \in [S -> Seq(T)]
OBVIOUS

\* So does taking the first element of one.
LEMMA TailAt == ASSUME NEW S, NEW T, NEW f \in [S -> Seq(T)], NEW x \in S, f[x] # <<>>
                PROVE  /\ [f EXCEPT ![x] = Tail(@)] \in [S -> Seq(T)]
                       /\ Head(f[x]) \in T
OBVIOUS

LEMMA TypeInit == Init => TypeOK /\ TryInRange
<1> SUFFICES ASSUME Init PROVE TypeOK /\ TryInRange
  OBVIOUS
<1>1. 0 \in Seqno /\ 0 \in 0 .. MaxMsgs /\ 0 \in 0 .. (Retxs + 1)
  BY SeqModAssumption, BoundsAssumption DEF Seqno
<1>2. air \in [Dests -> Seq(Frame)] /\ acks \in [Peers -> Seq(Ack)]
  BY DEF Init, NoAir, NoAcks
<1>3. pc = "reset" /\ pc \notin Holding /\ TryInRange
  BY DEF Init, TryInRange, Holding, Sending
<1>4. open \in BOOLEAN /\ stop \in BOOLEAN
  BY DEF Init
<1>5. queue \in Seq(Frame) /\ outcome \in Seq({"stopped", "timeout"})
  BY DEF Init
<1>6. delivered \subseteq Msgs /\ acked \subseteq Msgs /\ toSend = NoFrame
  BY DEF Init
<1>7. sendSeqno = 0 /\ recvSeqno = 0 /\ try = 0 /\ accepted = 0 /\ incs = 0 /\ lost = 0
  BY DEF Init
<1>8. hpc = "idle" /\ ackMsg = 0
  BY DEF Init
<1> QED BY <1>1, <1>2, <1>3, <1>4, <1>5, <1>6, <1>7, <1>8 DEF TypeOK

LEMMA TypeStep == TypeOK /\ TryInRange /\ [Next]_vars => TypeOK' /\ TryInRange'
<1> SUFFICES ASSUME TypeOK, TryInRange, [Next]_vars
             PROVE  TypeOK' /\ TryInRange'
  OBVIOUS
<1> USE SeqModAssumption, BoundsAssumption, PeersAssumption DEF TypeOK, TryInRange, Holding, Sending
<1>1. ASSUME NEW d \in Dests, Pack(d) PROVE TypeOK' /\ TryInRange'
  <2>1. [msg |-> accepted + 1, seqno |-> sendSeqno, dest |-> d] \in Frame
    BY <1>1 DEF Pack, Frame, Msgs
  <2> QED BY <1>1, <2>1, NextSeqnoType DEF Pack, thread, handler, network, seqnos
<1>2. CASE Eof
  BY <1>2 DEF Eof, thread, handler, network, seqnos
<1>3. ASSUME NEW p \in Peers, UnpackAck(p) PROVE TypeOK' /\ TryInRange'
  <2>1. acks[p] \in Seq(Ack) /\ Head(acks[p]) \in Ack /\ Tail(acks[p]) \in Seq(Ack)
    BY <1>3 DEF UnpackAck
  <2>2. Head(acks[p]).msg \in Msgs
    BY <2>1 DEF Ack
  <2> QED BY <1>3, <2>1, <2>2 DEF UnpackAck, conn, thread, handler, seqnos
<1>4. CASE StopStore
  BY <1>4 DEF StopStore, conn, thread, network, seqnos
<1>5. CASE StopNotify
  BY <1>5 DEF StopNotify, conn, network, seqnos
<1>6. CASE AckInc
  BY <1>6, NextSeqnoType DEF AckInc, IncRecvSeqno, conn, thread, network
<1>7. CASE Reset
  BY <1>7 DEF Reset, conn, handler, network, seqnos
<1>8. CASE Pop
  BY <1>8 DEF Pop, handler, network, seqnos
<1>9. CASE Publish
  <2>1. toSend \in Frame /\ toSend.dest \in Dests
    BY <1>9 DEF Publish, Frame
  <2>2. air' \in [Dests -> Seq(Frame)]
    <3>1. air' = air \/ air' = [air EXCEPT ![toSend.dest] = Append(@, toSend)]
      BY <1>9, Zenon DEF Publish
    <3>2. air \in [Dests -> Seq(Frame)]
      OBVIOUS
    <3> HIDE DEF TypeOK, TryInRange
    <3>3. [air EXCEPT ![toSend.dest] = Append(@, toSend)] \in [Dests -> Seq(Frame)]
      BY <2>1, <3>2, AppendAt
    <3> QED BY <3>1, <3>2, <3>3
  <2>3. lost' = lost \/ lost' = lost + 1
    BY <1>9, Zenon DEF Publish
  <2> QED BY <1>9, <2>1, <2>2, <2>3 DEF Publish, conn, handler, seqnos
<1>10. CASE BeginWait
  BY <1>10 DEF BeginWait, conn, handler, network, seqnos
<1>11. CASE WaitEnds
  BY <1>11 DEF WaitEnds, conn, handler, network, seqnos
<1>12. CASE Loop
  BY <1>12 DEF Loop, MayRetry, conn, handler, network, seqnos
<1>13. CASE Decide
  <2>1. \/ pc' = "reset" /\ outcome' = Append(outcome, "stopped")
        \/ pc' = "inc" /\ outcome' = Append(outcome, "timeout")
    BY <1>13, Zenon DEF Decide
  <2>2. outcome' \in Seq({"stopped", "timeout"})
    <3>1. outcome \in Seq({"stopped", "timeout"})
      OBVIOUS
    <3> HIDE DEF TypeOK, TryInRange
    <3> QED BY <2>1, <3>1
  <2> QED BY <1>13, <2>1, <2>2 DEF Decide, conn, handler, network, seqnos
<1>14. CASE TimeoutInc
  BY <1>14, NextSeqnoType DEF TimeoutInc, IncRecvSeqno, conn, handler, network
<1>15. ASSUME NEW p \in Peers, UnpackData(p) PROVE TypeOK' /\ TryInRange'
  <2>1. air[p] \in Seq(Frame) /\ Head(air[p]) \in Frame /\ Tail(air[p]) \in Seq(Frame)
    BY <1>15 DEF UnpackData
  <2>2. /\ Head(air[p]).msg \in Msgs
        /\ [msg |-> Head(air[p]).msg, seqno |-> Head(air[p]).seqno] \in Ack
    BY <2>1 DEF Frame, Ack
  <2> QED BY <1>15, <2>1, <2>2 DEF UnpackData, conn, thread, handler, seqnos
<1>16. ASSUME NEW d \in Dests, air[d] # <<>>, air' = [air EXCEPT ![d] = Tail(@)],
              lost' = lost + 1, UNCHANGED <<conn, thread, handler, acks, delivered, seqnos, stop>>
       PROVE  TypeOK' /\ TryInRange'
  BY <1>16 DEF conn, thread, handler, seqnos
<1>17. ASSUME NEW p \in Peers, LoseAck(p) PROVE TypeOK' /\ TryInRange'
  BY <1>17 DEF LoseAck, conn, thread, handler, seqnos
<1>18. CASE UNCHANGED vars
  BY <1>18 DEF vars, conn, thread, handler, network, seqnos
<1> HIDE DEF TypeOK, TryInRange
<1> QED
  BY <1>1, <1>2, <1>3, <1>4, <1>5, <1>6, <1>7, <1>8, <1>9, <1>10, <1>11, <1>12, <1>13,
     <1>14, <1>15, <1>16, <1>17, <1>18
  DEF Next, Application, AckHandler, Sender, Radio, LoseFrame, WrongReceiver

\* Type correctness of the connection, and with it pack's assertion that
\* d_send_seqno < (1 << seqno_bits).
THEOREM TypeCorrect == Spec => []TypeOK
<1>1. Init => TypeOK /\ TryInRange
  BY TypeInit
<1>2. TypeOK /\ TryInRange /\ [Next]_vars => (TypeOK /\ TryInRange)'
  BY TypeStep
<1> QED BY <1>1, <1>2, PTL DEF Spec

-------------------------------------------------------------------------------
\* The seqno after the one of message m is the one of message m + 1.
LEMMA NextSeqnoOf == \A m \in Nat \ {0} : NextSeqno(SeqnoOf(m)) = SeqnoOf(m + 1)
<1> TAKE m \in Nat \ {0}
<1>1. m - 1 \in Nat /\ (m - 1) + 1 = m /\ (m + 1) - 1 = m
  OBVIOUS
<1>2. (((m - 1) % SeqMod) + 1) % SeqMod = m % SeqMod
  BY <1>1, SeqModAssumption, ModSucc
<1> QED BY <1>1, <1>2 DEF NextSeqno, SeqnoOf

LEMMA OrderInit == Init => InOrder
<1> SUFFICES ASSUME Init PROVE InOrder
  OBVIOUS
<1>1. Len(queue) = 0 /\ Finished = 0 /\ InHand = 0 /\ accepted = 0
  BY DEF Init, Finished, InHand, Holding
<1>2. sendSeqno = SeqnoOf(accepted + 1)
  BY SeqModAssumption, ModSmall DEF Init, SeqnoOf
<1>3. QueueInOrder
  BY <1>1, <1>2 DEF QueueInOrder
<1>4. UnderWayInOrder
  BY DEF Init, UnderWayInOrder, NoAir, NoAcks
<1> QED BY <1>3, <1>4 DEF InOrder

\* The messages before those still queued only move on: Pop takes one more in
\* hand, Decide finishes the one in hand, no other step changes their number.
LEMMA PlacesStep ==
    ASSUME TypeOK, [Next]_vars
    PROVE  /\ Finished \in Nat /\ InHand \in {0, 1}
           /\ Finished' \in Nat /\ InHand' \in {0, 1}
           /\ \/ Pop /\ Finished' = Finished /\ InHand = 0 /\ InHand' = 1
              \/ /\ Decide /\ Finished' = Finished + 1 /\ InHand = 1 /\ InHand' = 0
                 /\ UNCHANGED <<queue, accepted, toSend>>
              \/ UNCHANGED <<outcome, Finished, InHand, toSend>>
<1>1. outcome \in Seq({"stopped", "timeout"}) /\ Finished \in Nat /\ InHand \in {0, 1} /\ InHand' \in {0, 1}
  BY DEF TypeOK, Finished, InHand
<1>2. ASSUME UNCHANGED outcome, UNCHANGED toSend, UNCHANGED pc
      PROVE  UNCHANGED <<outcome, Finished, InHand, toSend>>
  BY <1>2 DEF Finished, InHand
<1>3. ASSUME NEW d \in Dests, Pack(d) PROVE UNCHANGED <<outcome, Finished, InHand, toSend>>
  BY <1>3, <1>2 DEF Pack, thread
<1>4. CASE Eof
  BY <1>4, <1>2, <1>1 DEF Eof, thread
<1>5. ASSUME NEW p \in Peers, UnpackAck(p) PROVE UNCHANGED <<outcome, Finished, InHand, toSend>>
  BY <1>5, <1>2 DEF UnpackAck, thread
<1>6. CASE StopStore
  BY <1>6, <1>2, <1>1 DEF StopStore, thread
<1>7. CASE StopNotify
  BY <1>7, <1>1 DEF StopNotify, Finished, InHand, Holding
<1>8. CASE AckInc
  BY <1>8, <1>2, <1>1 DEF AckInc, thread
<1>9. CASE Reset
  BY <1>9, <1>1 DEF Reset, Finished, InHand, Holding
<1>10. CASE Pop
  BY <1>10, <1>1 DEF Pop, Finished, InHand, Holding
<1>11. CASE Publish
  BY <1>11, <1>1 DEF Publish, Finished, InHand, Holding
<1>12. CASE BeginWait
  BY <1>12, <1>1 DEF BeginWait, Finished, InHand, Holding
<1>13. CASE WaitEnds
  BY <1>13, <1>1 DEF WaitEnds, Finished, InHand, Holding
<1>14. CASE Loop
  BY <1>14, <1>1 DEF Loop, Finished, InHand, Holding
<1>15. CASE Decide
  <2>1. /\ pc = "decide" /\ pc' \in {"reset", "inc"}
        /\ outcome' = Append(outcome, "stopped") \/ outcome' = Append(outcome, "timeout")
        /\ UNCHANGED <<queue, accepted, toSend>>
    BY <1>15, Zenon DEF Decide, conn
  <2>2. Finished' = Finished + 1
    BY <1>1, <2>1 DEF Finished
  <2>3. InHand = 1 /\ InHand' = 0
    BY <2>1 DEF InHand, Holding
  <2> QED BY <1>1, <1>15, <2>1, <2>2, <2>3
<1>16. CASE TimeoutInc
  BY <1>16, <1>1 DEF TimeoutInc, Finished, InHand, Holding
<1>17. ASSUME UNCHANGED thread PROVE UNCHANGED <<outcome, Finished, InHand, toSend>>
  BY <1>17, <1>2 DEF thread
<1>18. CASE UNCHANGED vars
  BY <1>18, <1>17, <1>1 DEF vars
<1>19. ASSUME Radio PROVE UNCHANGED <<outcome, Finished, InHand, toSend>>
  BY <1>19, <1>17 DEF Radio, UnpackData, LoseFrame, LoseAck, WrongReceiver
<1>20. CASE UNCHANGED <<outcome, Finished, InHand, toSend>>
  BY <1>1, <1>20
<1> QED
  BY <1>3, <1>4, <1>5, <1>6, <1>7, <1>8, <1>9, <1>10, <1>11, <1>12, <1>13, <1>14, <1>15, <1>16,
     <1>18, <1>19, <1>20
  DEF Next, Application, AckHandler, Sender

LEMMA QueueOrderStep == TypeOK /\ QueueInOrder /\ [Next]_vars => QueueInOrder'
<1> SUFFICES ASSUME TypeOK, QueueInOrder, [Next]_vars PROVE QueueInOrder'
  OBVIOUS
<1>1. /\ Finished \in Nat /\ InHand \in {0, 1} /\ Finished' \in Nat /\ InHand' \in {0, 1}
      /\ queue \in Seq(Frame) /\ accepted \in Nat
  BY PlacesStep, BoundsAssumption DEF TypeOK
<1>2. ASSUME UNCHANGED <<sendSeqno, queue, accepted>>, UNCHANGED <<outcome, Finished, InHand, toSend>>
      PROVE  QueueInOrder'
  BY <1>2 DEF QueueInOrder
<1>3. ASSUME NEW d \in Dests, Pack(d) PROVE QueueInOrder'
  <2> DEFINE f == [msg |-> accepted + 1, seqno |-> sendSeqno, dest |-> d]
  <2>1. /\ queue' = Append(queue, f)
        /\ sendSeqno' = NextSeqno(sendSeqno) /\ accepted' = accepted + 1
        /\ UNCHANGED <<outcome, pc, toSend>>
    BY <1>3 DEF Pack, thread
  <2>2. UNCHANGED <<Finished, InHand>>
    BY <2>1 DEF Finished, InHand
  <2>3. f.msg = accepted + 1 /\ f.seqno = sendSeqno
    OBVIOUS
  <2> HIDE DEF f
  <2>4. /\ Len(queue') = Len(queue) + 1
        /\ \A k \in 1 .. Len(queue) : queue'[k] = queue[k]
        /\ queue'[Len(queue) + 1] = f
    BY <1>1, <2>1
  <2>5. sendSeqno' = SeqnoOf(accepted' + 1)
    BY <1>1, <2>1, NextSeqnoOf DEF QueueInOrder
  <2>6. accepted' = Finished' + InHand' + Len(queue')
    BY <1>1, <2>1, <2>2, <2>4 DEF QueueInOrder
  <2>7. ASSUME NEW k \in 1 .. Len(queue')
        PROVE  /\ queue'[k].msg = Finished' + InHand' + k
               /\ queue'[k].seqno = SeqnoOf(queue'[k].msg)
    <3>1. CASE k \in 1 .. Len(queue)
      BY <3>1, <1>1, <2>2, <2>4 DEF QueueInOrder
    <3>2. CASE k = Len(queue) + 1
      BY <3>2, <1>1, <2>2, <2>3, <2>4 DEF QueueInOrder
    <3> QED BY <3>1, <3>2, <1>1, <2>4
  <2>8. InHand' = 1 => toSend'.msg = Finished' + 1 /\ toSend'.seqno = SeqnoOf(Finished' + 1)
    BY <2>1, <2>2 DEF QueueInOrder
  <2> QED BY <2>5, <2>6, <2>7, <2>8 DEF QueueInOrder
<1>4. CASE Pop
  <2>1. /\ queue # <<>> /\ toSend' = Head(queue) /\ queue' = Tail(queue)
        /\ UNCHANGED <<sendSeqno, accepted, outcome>>
        /\ InHand = 0 /\ InHand' = 1
    BY <1>4 DEF Pop, InHand, Holding
  <2>2. Finished' = Finished
    BY <2>1 DEF Finished
  <2>3. /\ Len(queue') = Len(queue) - 1 /\ toSend' = queue[1] /\ 1 \in 1 .. Len(queue)
        /\ \A k \in 1 .. Len(queue') : queue'[k] = queue[k + 1] /\ k + 1 \in 1 .. Len(queue)
    BY <1>1, <2>1
  <2>4. toSend'.msg = Finished' + 1 /\ toSend'.seqno = SeqnoOf(Finished' + 1)
    BY <1>1, <2>1, <2>2, <2>3 DEF QueueInOrder
  <2>5. \A k \in 1 .. Len(queue') : /\ queue'[k].msg = Finished' + InHand' + k
                                     /\ queue'[k].seqno = SeqnoOf(queue'[k].msg)
    BY <1>1, <2>1, <2>2, <2>3 DEF QueueInOrder
  <2>6. accepted' = Finished' + InHand' + Len(queue') /\ sendSeqno' = SeqnoOf(accepted' + 1)
    BY <1>1, <2>1, <2>2, <2>3 DEF QueueInOrder
  <2> QED BY <2>4, <2>5, <2>6 DEF QueueInOrder
<1>5. ASSUME Decide, Finished' = Finished + 1, InHand = 1, InHand' = 0
      PROVE  QueueInOrder'
  <2>1. UNCHANGED <<sendSeqno, queue, accepted>>
    BY <1>5 DEF Decide, conn
  <2> QED BY <1>1, <1>5, <2>1 DEF QueueInOrder
<1>6. CASE UNCHANGED <<sendSeqno, queue, accepted>>
  BY <1>1, <1>2, <1>4, <1>5, <1>6, PlacesStep
<1> QED
  BY <1>3, <1>4, <1>6
  DEF Next, Application, AckHandler, Sender, Radio, Eof, UnpackAck, StopStore, StopNotify, AckInc,
      Reset, Publish, BeginWait, WaitEnds, Loop, Decide, TimeoutInc,
      UnpackData, LoseFrame, LoseAck, WrongReceiver, conn, vars

LEMMA TailElements == ASSUME NEW T, NEW s \in Seq(T), s # <<>>
                      PROVE  /\ Tail(s) \in Seq(T) /\ Len(Tail(s)) = Len(s) - 1
                             /\ Head(s) = s[1] /\ 1 \in 1 .. Len(s)
                             /\ \A k \in 1 .. Len(Tail(s)) : /\ k + 1 \in 1 .. Len(s)
                                                            /\ Tail(s)[k] = s[k + 1]
OBVIOUS

LEMMA AppendElements == ASSUME NEW T, NEW s \in Seq(T), NEW e \in T
                        PROVE  /\ Append(s, e) \in Seq(T) /\ Len(Append(s, e)) = Len(s) + 1
                               /\ \A k \in 1 .. Len(Append(s, e)) :
                                     \/ k \in 1 .. Len(s) /\ Append(s, e)[k] = s[k]
                                     \/ Append(s, e)[k] = e
<1>1. Append(s, e) \in Seq(T) /\ Len(Append(s, e)) = Len(s) + 1
  OBVIOUS
<1>2. ASSUME NEW k \in 1 .. Len(s) PROVE Append(s, e)[k] = s[k]
  OBVIOUS
<1>3. Append(s, e)[Len(s) + 1] = e
  OBVIOUS
<1>4. Len(s) \in Nat
  OBVIOUS
<1> QED BY <1>1, <1>2, <1>3, <1>4

LEMMA UnderWayStep == TypeOK /\ InOrder /\ [Next]_vars => UnderWayInOrder'
<1> SUFFICES ASSUME TypeOK, QueueInOrder, UnderWayInOrder, [Next]_vars PROVE UnderWayInOrder'
  BY DEF InOrder
<1> DEFINE AirOK(s, n) == \A k \in 1 .. Len(s) : s[k].msg <= n /\ s[k].seqno = SeqnoOf(s[k].msg)
           AcksOK(s, D) == \A k \in 1 .. Len(s) : s[k].msg \in D /\ s[k].seqno = SeqnoOf(s[k].msg)
<1>1. /\ \A d \in Dests : air[d] \in Seq(Frame) /\ AirOK(air[d], Finished + InHand)
      /\ \A p \in Peers : acks[p] \in Seq(Ack) /\ AcksOK(acks[p], delivered)
      /\ air \in [Dests -> Seq(Frame)] /\ acks \in [Peers -> Seq(Ack)]
  BY DEF UnderWayInOrder, TypeOK
<1>2. /\ Finished + InHand \in Nat /\ Finished' + InHand' \in Nat
      /\ Finished + InHand <= Finished' + InHand'
  BY PlacesStep
<1>3. ASSUME NEW d \in Dests, NEW k \in 1 .. Len(air[d]) PROVE air[d][k].msg \in Nat
  <2>1. air[d][k] \in Frame
    BY <1>1
  <2> QED BY <2>1 DEF Frame, Msgs
<1>4. \A d \in Dests : AirOK(air[d], Finished' + InHand')
  BY <1>1, <1>2, <1>3
<1>5. SUFFICES /\ \A d \in Dests : AirOK(air'[d], Finished' + InHand')
               /\ \A p \in Peers : AcksOK(acks'[p], delivered')
  BY DEF UnderWayInOrder
<1>6. CASE UNCHANGED <<air, acks, delivered>>
  BY <1>1, <1>4, <1>6
<1>7. ASSUME NEW p \in Peers, acks[p] # <<>>, acks' = [acks EXCEPT ![p] = Tail(@)],
             UNCHANGED <<air, delivered>>
      PROVE  /\ \A d \in Dests : AirOK(air'[d], Finished' + InHand')
             /\ \A q \in Peers : AcksOK(acks'[q], delivered')
  <2>1. AcksOK(Tail(acks[p]), delivered)
    BY <1>1, <1>7, TailElements
  <2>2. \A q \in Peers : acks'[q] = IF q = p THEN Tail(acks[p]) ELSE acks[q]
    BY <1>1, <1>7
  <2> QED BY <1>1, <1>4, <1>7, <2>1, <2>2
<1>8. ASSUME NEW d \in Dests, air[d] # <<>>, air' = [air EXCEPT ![d] = Tail(@)]
      PROVE  \A e \in Dests : AirOK(air'[e], Finished' + InHand')
  <2>1. AirOK(Tail(air[d]), Finished' + InHand')
    BY <1>1, <1>4, <1>8, TailElements
  <2>2. \A e \in Dests : air'[e] = IF e = d THEN Tail(air[d]) ELSE air[e]
    BY <1>1, <1>8
  <2> QED BY <1>4, <2>1, <2>2
<1>9. ASSUME NEW p \in Peers, UnpackData(p)
      PROVE  /\ \A d \in Dests : AirOK(air'[d], Finished' + InHand')
             /\ \A q \in Peers : AcksOK(acks'[q], delivered')
  <2> DEFINE f == Head(air[p])
             a == [msg |-> f.msg, seqno |-> f.seqno]
  <2>1. /\ p \in Dests /\ air[p] # <<>> /\ air' = [air EXCEPT ![p] = Tail(@)]
        /\ delivered' = delivered \cup {f.msg}
        /\ acks' = [acks EXCEPT ![p] = Append(@, a)]
    BY <1>9, PeersAssumption DEF UnpackData
  <2>2. \A d \in Dests : AirOK(air'[d], Finished' + InHand')
    BY <1>8, <2>1
  <2>3. f \in Frame /\ f.seqno = SeqnoOf(f.msg)
    BY <1>1, <2>1, TailElements
  <2>4. a \in Ack /\ a.msg \in delivered' /\ a.seqno = SeqnoOf(a.msg)
    BY <2>1, <2>3 DEF Frame, Ack
  <2> HIDE DEF f, a
  <2>5. \A q \in Peers : AcksOK(acks[q], delivered')
    BY <1>1, <2>1
  <2>6. AcksOK(Append(acks[p], a), delivered')
    BY <1>1, <2>4, <2>5, AppendElements
  <2>7. \A q \in Peers : acks'[q] = IF q = p THEN Append(acks[p], a) ELSE acks[q]
    BY <1>1, <2>1
  <2> QED BY <2>2, <2>5, <2>6, <2>7
<1>10. CASE Publish
  <2>1. /\ pc = "publish" /\ UNCHANGED <<acks, delivered>>
        /\ air' = air \/ air' = [air EXCEPT ![toSend.dest] = Append(@, toSend)]
    BY <1>10, Zenon DEF Publish
  <2>2. toSend \in Frame /\ InHand = 1 /\ Finished \in Nat
    BY <2>1, PlacesStep DEF TypeOK, Holding, InHand
  <2>3. toSend.msg = Finished + InHand /\ toSend.seqno = SeqnoOf(toSend.msg) /\ toSend.dest \in Dests
    BY <2>2 DEF QueueInOrder, Frame
  <2>4. toSend.msg <= Finished' + InHand'
    BY <1>2, <2>3
  <2>5. AirOK(Append(air[toSend.dest], toSend), Finished' + InHand')
    BY <1>1, <1>4, <2>2, <2>3, <2>4, AppendElements
  <2>6. CASE air' = [air EXCEPT ![toSend.dest] = Append(@, toSend)]
    <3>1. \A d \in Dests : air'[d] = IF d = toSend.dest THEN Append(air[d], toSend) ELSE air[d]
      BY <1>1, <2>3, <2>6
    <3> QED BY <1>1, <1>4, <2>1, <2>5, <3>1
  <2> QED BY <1>6, <2>1, <2>6
<1>11. ASSUME NEW d \in Dests, LoseFrame(d) \/ WrongReceiver(d)
       PROVE  /\ \A e \in Dests : AirOK(air'[e], Finished' + InHand')
              /\ \A q \in Peers : AcksOK(acks'[q], delivered')
  <2>1. air[d] # <<>> /\ air' = [air EXCEPT ![d] = Tail(@)] /\ UNCHANGED <<acks, delivered>>
    BY <1>11 DEF LoseFrame, WrongReceiver
  <2> QED BY <1>1, <1>8, <2>1
<1>12. CASE Radio
  <2>1. ASSUME NEW p \in Peers, LoseAck(p)
        PROVE  acks[p] # <<>> /\ acks' = [acks EXCEPT ![p] = Tail(@)] /\ UNCHANGED <<air, delivered>>
    BY <2>1 DEF LoseAck
  <2> QED BY <1>12, <1>7, <1>9, <1>11, <2>1, PeersAssumption DEF Radio
<1>13. ASSUME NEW p \in Peers, UnpackAck(p)
       PROVE  acks[p] # <<>> /\ acks' = [acks EXCEPT ![p] = Tail(@)] /\ UNCHANGED <<air, delivered>>
  BY <1>13 DEF UnpackAck
<1>14. CASE \E p \in Peers : UnpackAck(p)
  BY <1>7, <1>13, <1>14
<1>15. CASE UNCHANGED network
  BY <1>6, <1>15 DEF network
<1> HIDE DEF AirOK, AcksOK
<1> QED
  BY <1>10, <1>12, <1>14, <1>15
  DEF Next, Application, AckHandler, Sender, Pack, Eof, StopStore, StopNotify, AckInc,
      Reset, Pop, BeginWait, WaitEnds, Loop, Decide, TimeoutInc, vars

\* Messages leave in the order pack took them, each with the seqno of its place,
\* for every interleaving of the block's thread and the sender's.
THEOREM InOrderHolds == Spec => []InOrder
<1>1. Init => TypeOK /\ TryInRange /\ InOrder
  BY TypeInit, OrderInit
<1>2. TypeOK /\ TryInRange /\ InOrder /\ [Next]_vars => (TypeOK /\ TryInRange /\ InOrder)'
  BY TypeStep, QueueOrderStep, UnderWayStep DEF InOrder
<1> QED BY <1>1, <1>2, PTL DEF Spec

-------------------------------------------------------------------------------
\* d_recv_seqno counts the calls of inc_recv_seqno modulo 1 << seqno_bits.
CountsIncs == recvSeqno = incs % SeqMod

LEMMA CountsIncsStep == TypeOK /\ CountsIncs /\ [Next]_vars => CountsIncs'
<1> SUFFICES ASSUME TypeOK, CountsIncs, [Next]_vars PROVE CountsIncs'
  OBVIOUS
<1>1. CASE UNCHANGED seqnos
  BY <1>1 DEF CountsIncs, seqnos
<1>2. CASE IncRecvSeqno
  <2>1. recvSeqno' = ((incs % SeqMod) + 1) % SeqMod /\ incs' = incs + 1 /\ incs \in Nat
    BY <1>2 DEF IncRecvSeqno, NextSeqno, CountsIncs, TypeOK
  <2>2. ((incs % SeqMod) + 1) % SeqMod = (incs + 1) % SeqMod
    BY <2>1, SeqModAssumption, ModSucc
  <2> QED BY <2>1, <2>2 DEF CountsIncs
<1> QED
  BY <1>1, <1>2
  DEF Next, Application, AckHandler, Sender, Radio, Pack, Eof, UnpackAck, StopStore, StopNotify,
      AckInc, Reset, Pop, Publish, BeginWait, WaitEnds, Loop, Decide, TimeoutInc,
      UnpackData, LoseFrame, LoseAck, WrongReceiver, vars

LEMMA NeverLagsInit == Init => NeverLags
  BY SeqModAssumption, ModSmall DEF Init, NeverLags, Done, Credit, Finished

\* What a step does to the two sides of the account: only stop() and Decide
\* write into it, the increments move an entry from promised to made.
LEMMA AccountStep ==
    ASSUME TypeOK, [Next]_vars
    PROVE  /\ Done \in Nat /\ Credit \in Nat
           /\ \/ /\ StopStore /\ Credit' = Credit + 1
                 /\ (stop \/ pc \in {"inc", "reset"}) => Done' = Done
                 /\ ~(stop \/ pc \in {"inc", "reset"}) => Done' = Done + 1
              \/ Decide /\ Credit' = Credit + 1 /\ Done' = Done + 1
              \/ Credit' = Credit /\ Done' = Done
<1> DEFINE H(h) == IF h \in {"notify", "inc"} THEN 1 ELSE 0
           P(p) == IF p = "inc" THEN 1 ELSE 0
           D(b, p) == IF b /\ p \notin {"inc", "reset"} THEN 1 ELSE 0
<1>1. /\ Credit = incs + H(hpc) + P(pc) /\ Credit' = incs' + H(hpc') + P(pc')
      /\ Done = Finished + D(stop, pc) /\ Done' = Finished' + D(stop', pc')
  BY DEF Credit, Done
<1>2. Finished \in Nat /\ incs \in Nat /\ stop \in BOOLEAN
  BY PlacesStep DEF TypeOK
<1>3. Done \in Nat /\ Credit \in Nat
  BY <1>1, <1>2
<1>4. ASSUME UNCHANGED <<incs, hpc, pc, outcome, stop>> PROVE Credit' = Credit /\ Done' = Done
  BY <1>4 DEF Credit, Done, Finished
<1>5. CASE StopStore
  <2>1. hpc = "store" /\ hpc' = "notify" /\ stop' = TRUE /\ UNCHANGED <<incs, pc, outcome>>
    BY <1>5 DEF StopStore, thread, seqnos
  <2>2. H(hpc) = 0 /\ H(hpc') = 1 /\ Finished' = Finished
    BY <2>1 DEF Finished
  <2>3. Credit' = Credit + 1
    BY <1>1, <1>2, <2>1, <2>2
  <2>4. ASSUME stop \/ pc \in {"inc", "reset"} PROVE Done' = Done
    BY <1>2, <2>1, <2>2, <2>4 DEF Done
  <2>5. ASSUME ~(stop \/ pc \in {"inc", "reset"}) PROVE Done' = Done + 1
    <3>1. Done = Finished /\ Done' = Finished' + 1
      BY <1>2, <2>1, <2>2, <2>5 DEF Done
    <3> QED BY <2>2, <3>1
  <2> QED BY <1>3, <1>5, <2>3, <2>4, <2>5, Zenon
<1>6. CASE StopNotify
  <2>1. /\ hpc = "notify" /\ hpc' = "inc" /\ UNCHANGED <<incs, stop, outcome>>
        /\ pc' = pc \/ (pc = "wait" /\ pc' = "loop")
    BY <1>6 DEF StopNotify, thread, seqnos
  <2>2. H(hpc) = 1 /\ H(hpc') = 1 /\ P(pc') = P(pc) /\ D(stop', pc') = D(stop, pc) /\ Finished' = Finished
    BY <2>1 DEF Finished
  <2> HIDE DEF H, P, D
  <2> QED BY <1>1, <1>2, <1>3, <2>1, <2>2
<1>7. CASE AckInc
  <2>1. hpc = "inc" /\ hpc' = "idle" /\ incs' = incs + 1 /\ UNCHANGED <<pc, stop, outcome>>
    BY <1>7 DEF AckInc, IncRecvSeqno, thread
  <2>2. H(hpc) = 1 /\ H(hpc') = 0 /\ P(pc') = P(pc) /\ D(stop', pc') = D(stop, pc) /\ Finished' = Finished
    BY <2>1 DEF Finished
  <2> HIDE DEF H, P, D
  <2> QED BY <1>1, <1>2, <1>3, <2>1, <2>2
<1>8. CASE Reset
  <2>1. pc = "reset" /\ pc' = "pop" /\ stop' = FALSE /\ UNCHANGED <<incs, hpc, outcome>>
    BY <1>8 DEF Reset, handler, seqnos
  <2>2. H(hpc') = H(hpc) /\ P(pc') = P(pc) /\ D(stop', pc') = D(stop, pc) /\ Finished' = Finished
    BY <2>1 DEF Finished
  <2> HIDE DEF H, P, D
  <2> QED BY <1>1, <1>2, <1>3, <2>1, <2>2
<1>9. CASE Decide
  <2>1. pc = "decide" /\ UNCHANGED <<incs, hpc, stop>>
    BY <1>9 DEF Decide, handler, seqnos
  <2>2. (stop /\ pc' = "reset") \/ (~stop /\ pc' = "inc")
    BY <1>9, Zenon DEF Decide
  <2>3. Finished' = Finished + 1
    <3>1. outcome' = Append(outcome, "stopped") \/ outcome' = Append(outcome, "timeout")
      BY <1>9, Zenon DEF Decide
    <3>2. outcome \in Seq({"stopped", "timeout"})
      BY DEF TypeOK
    <3> QED BY <3>1, <3>2 DEF Finished
  <2>4. H(hpc') = H(hpc) /\ P(pc) = 0
    BY <2>1
  <2>5. CASE stop /\ pc' = "reset"
    <3>1. P(pc') = 0 /\ Done = Finished + 1 /\ Done' = Finished'
      BY <1>2, <2>1, <2>3, <2>5 DEF Done
    <3>2. Credit' = Credit
      BY <1>1, <2>1, <2>4, <3>1
    <3> QED BY <1>3, <2>3, <3>1, <3>2
  <2>6. CASE ~stop /\ pc' = "inc"
    <3>1. P(pc') = 1 /\ Done = Finished /\ Done' = Finished'
      BY <1>2, <2>1, <2>3, <2>6 DEF Done
    <3>2. Credit' = Credit + 1
      BY <1>1, <1>2, <2>1, <2>4, <3>1
    <3>3. Done' = Done + 1
      BY <2>3, <3>1
    <3> QED BY <1>3, <1>9, <3>2, <3>3, Zenon
  <2> QED BY <2>2, <2>5, <2>6
<1>10. CASE TimeoutInc
  <2>1. pc = "inc" /\ pc' = "reset" /\ incs' = incs + 1 /\ UNCHANGED <<hpc, stop, outcome>>
    BY <1>10 DEF TimeoutInc, IncRecvSeqno, handler
  <2>2. Done' = Done
    BY <2>1 DEF Done, Finished
  <2>3. H(hpc') = H(hpc) /\ P(pc) = 1 /\ P(pc') = 0
    BY <2>1
  <2>4. Credit' = Credit
    BY <1>1, <1>2, <2>1, <2>3
  <2> QED BY <1>3, <2>2, <2>4
<1>11. ASSUME pc \notin {"inc", "reset"}, pc' \notin {"inc", "reset"}, UNCHANGED <<incs, hpc, stop, outcome>>
       PROVE  Credit' = Credit /\ Done' = Done
  BY <1>11 DEF Credit, Done, Finished
<1>12. ASSUME NEW p \in Peers, UnpackAck(p) PROVE Credit' = Credit /\ Done' = Done
  <2>1. hpc = "idle" /\ hpc' \in {"idle", "store"} /\ UNCHANGED <<incs, pc, outcome, stop>>
    BY <1>12 DEF UnpackAck, thread, handler, seqnos
  <2> QED BY <2>1 DEF Credit, Done, Finished
<1>13. CASE Pop \/ Publish \/ BeginWait \/ WaitEnds \/ Loop
  <2>1. /\ pc \notin {"inc", "reset"} /\ pc' \notin {"inc", "reset"}
        /\ UNCHANGED <<incs, hpc, stop, outcome>>
    BY <1>13 DEF Pop, Publish, BeginWait, WaitEnds, Loop, handler, seqnos
  <2> QED BY <1>3, <1>11, <2>1
<1>14. CASE Application \/ Radio \/ UNCHANGED vars
  <2>1. UNCHANGED <<incs, hpc, pc, outcome, stop>>
    BY <1>14 DEF Application, Radio, Pack, Eof, UnpackData, LoseFrame, LoseAck, WrongReceiver,
                 thread, handler, seqnos, vars
  <2> QED BY <1>3, <1>4, <2>1
<1> QED
  BY <1>3, <1>5, <1>6, <1>7, <1>8, <1>9, <1>10, <1>12, <1>13, <1>14 DEF Next, AckHandler, Sender

\* Whatever the timing, recv_seqno() is never behind the messages done with: an
\* ack is not refused because an inc_recv_seqno() was forgotten.
THEOREM NeverLagsHolds == Spec => []NeverLags
<1>1. Init => TypeOK /\ TryInRange /\ NeverLags
  BY TypeInit, NeverLagsInit
<1>2. TypeOK /\ NeverLags /\ [Next]_vars => NeverLags'
  <2> SUFFICES ASSUME TypeOK, NeverLags, [Next]_vars PROVE NeverLags'
    OBVIOUS
  <2>1. CountsIncs'
    BY CountsIncsStep DEF NeverLags, CountsIncs
  <2>2. Done <= Credit
    BY DEF NeverLags
  <2>3. /\ Done \in Nat /\ Credit \in Nat
        /\ \/ Credit' = Credit + 1 /\ (Done' = Done \/ Done' = Done + 1)
           \/ Credit' = Credit /\ Done' = Done
    BY AccountStep, Zenon
  <2>4. Done' <= Credit'
    BY <2>2, <2>3
  <2> QED BY <2>1, <2>4 DEF NeverLags, CountsIncs
<1>3. TypeOK /\ TryInRange /\ NeverLags /\ [Next]_vars => (TypeOK /\ TryInRange /\ NeverLags)'
  BY <1>2, TypeStep
<1> QED BY <1>1, <1>3, PTL DEF Spec

-------------------------------------------------------------------------------
(* What Trusty adds.  An ack that unpack is about to act on is for the     *)
(* message in hand, and d_stop is set only for that message: so every      *)
(* message moves the expected seqno exactly once.                          *)

\* Only messages already taken from the queue have been delivered.
DeliveredInOrder == \A m \in delivered : m <= Finished + InHand

StoreForHand ==
    hpc = "store" => /\ pc \in Sending \cup {"loop"} /\ ~stop
                     /\ ackMsg = toSend.msg /\ ackMsg \in delivered \cap acked

StopForHand ==
    stop => \/ pc = "reset"
            \/ pc \in Holding /\ toSend.msg \in delivered \cap acked

\* With Timing = "late" the handler of an ack and the sender's decision exclude
\* each other.
HandlerExcludesDecision == hpc # "idle" => pc \in Sending \cup {"loop"}

\* With Timing = "quiet" the connection is stop-and-wait: one frame or ack is
\* under way, while the sender waits for it, or none.
NothingUnderWay == air = NoAir /\ acks = NoAcks
FrameUnderWay   == air = [NoAir EXCEPT ![toSend.dest] = <<toSend>>] /\ acks = NoAcks
AckUnderWay ==
    /\ air = NoAir
    /\ toSend.dest \in Peers /\ toSend.msg \in delivered
    /\ acks = [NoAcks EXCEPT ![toSend.dest] = <<[msg |-> toSend.msg, seqno |-> toSend.seqno]>>]

StopAndWait ==
    /\ \/ NothingUnderWay
       \/ pc \in {"lock", "wait"} /\ ~stop /\ hpc \in {"idle", "inc"} /\ (FrameUnderWay \/ AckUnderWay)
    /\ hpc \in {"store", "notify"} => pc \in {"lock", "wait"}
    /\ hpc = "notify" => stop
    /\ pc \in {"loop", "decide"} => stop \/ hpc = "idle"
    /\ pc = "inc" => hpc = "idle"
    /\ pc \in {"pop", "publish"} => ~stop

TrustInv ==
    /\ NoDrift /\ NoFalseAck
    /\ DeliveredInOrder /\ StoreForHand /\ StopForHand
    /\ Timing = "late" => HandlerExcludesDecision
    /\ Timing = "quiet" => StopAndWait

LEMMA DeliveredStep == TypeOK /\ InOrder /\ DeliveredInOrder /\ [Next]_vars => DeliveredInOrder'
<1> SUFFICES ASSUME TypeOK, InOrder, DeliveredInOrder, [Next]_vars PROVE DeliveredInOrder'
  OBVIOUS
<1>1. /\ Finished + InHand \in Nat /\ Finished' + InHand' \in Nat
      /\ Finished + InHand <= Finished' + InHand'
      /\ delivered \subseteq Nat
  BY PlacesStep DEF TypeOK, Msgs
<1>2. \A m \in delivered : m <= Finished' + InHand'
  BY <1>1 DEF DeliveredInOrder
<1>3. ASSUME NEW p \in Peers, UnpackData(p) PROVE DeliveredInOrder'
  <2>1. /\ p \in Dests /\ air[p] \in Seq(Frame) /\ air[p] # <<>>
        /\ delivered' = delivered \cup {Head(air[p]).msg}
    BY <1>3, PeersAssumption DEF UnpackData, TypeOK
  <2>2. Head(air[p]) = air[p][1] /\ 1 \in 1 .. Len(air[p]) /\ air[p][1] \in Frame
    BY <2>1
  <2>3. Head(air[p]).msg <= Finished + InHand /\ Head(air[p]).msg \in Nat
    BY <2>1, <2>2 DEF InOrder, UnderWayInOrder, Frame, Msgs
  <2> QED BY <1>1, <1>2, <2>1, <2>3 DEF DeliveredInOrder
<1>4. CASE UNCHANGED delivered
  BY <1>2, <1>4 DEF DeliveredInOrder
<1> QED
  BY <1>3, <1>4
  DEF Next, Application, AckHandler, Sender, Radio, Pack, Eof, UnpackAck, StopStore, StopNotify,
      AckInc, Reset, Pop, Publish, BeginWait, WaitEnds, Loop, Decide, TimeoutInc,
      LoseFrame, LoseAck, WrongReceiver, network, vars

\* In the stop-and-wait regime, what is under way belongs to the message in hand.
LEMMA QuietUnderWay ==
    ASSUME TypeOK, StopAndWait
    PROVE  /\ \A p \in Peers : acks[p] # <<>> =>
                /\ pc \in {"lock", "wait"} /\ ~stop /\ toSend.msg \in delivered
                /\ AckUnderWay /\ p = toSend.dest
                /\ acks[p] = <<[msg |-> toSend.msg, seqno |-> toSend.seqno]>>
           /\ \A d \in Dests : air[d] # <<>> =>
                /\ pc \in {"lock", "wait"} /\ ~stop
                /\ FrameUnderWay /\ d = toSend.dest /\ air[d] = <<toSend>>
<1>1. ASSUME NEW p \in Peers, acks[p] # <<>>
      PROVE  /\ pc \in {"lock", "wait"} /\ ~stop /\ toSend.msg \in delivered
             /\ AckUnderWay /\ p = toSend.dest
             /\ acks[p] = <<[msg |-> toSend.msg, seqno |-> toSend.seqno]>>
  <2>1. acks # NoAcks
    BY <1>1 DEF NoAcks
  <2>2. pc \in {"lock", "wait"} /\ ~stop /\ AckUnderWay
    BY <2>1 DEF StopAndWait, NothingUnderWay, FrameUnderWay
  <2>3. p = toSend.dest /\ acks[p] = <<[msg |-> toSend.msg, seqno |-> toSend.seqno]>>
    BY <1>1, <2>2 DEF AckUnderWay, NoAcks
  <2> QED BY <2>2, <2>3 DEF AckUnderWay
<1>2. ASSUME NEW d \in Dests, air[d] # <<>>
      PROVE  /\ pc \in {"lock", "wait"} /\ ~stop
             /\ FrameUnderWay /\ d = toSend.dest /\ air[d] = <<toSend>>
  <2>1. air # NoAir
    BY <1>2 DEF NoAir
  <2>2. pc \in {"lock", "wait"} /\ ~stop /\ FrameUnderWay
    BY <2>1 DEF StopAndWait, NothingUnderWay, AckUnderWay
  <2>3. d = toSend.dest /\ air[d] = <<toSend>>
    BY <1>2, <2>2 DEF FrameUnderWay, NoAir
  <2> QED BY <2>2, <2>3
<1> QED BY <1>1, <1>2

\* An ack whose seqno is the expected one is the ack of the message in hand.
LEMMA MatchIsForHand ==
    ASSUME Trusty, TypeOK, InOrder, TrustInv, NEW p \in Peers, UnpackAck(p)
    PROVE  /\ Head(acks[p]).msg \in delivered
           /\ Head(acks[p]).seqno = recvSeqno =>
                 pc \in Sending /\ ~stop /\ Head(acks[p]).msg = toSend.msg
           /\ Head(acks[p]).seqno # recvSeqno =>
                 \/ Head(acks[p]).msg \in 1 .. Finished
                 \/ stop /\ InHand = 1 /\ Head(acks[p]).msg = toSend.msg
<1> DEFINE a == Head(acks[p])
<1>1. /\ hpc = "idle" /\ acks[p] # <<>> /\ acks[p] \in Seq(Ack)
      /\ Timing = "late" => pc \notin Deciding
  BY DEF UnpackAck, TypeOK
<1>2. a = acks[p][1] /\ 1 \in 1 .. Len(acks[p]) /\ a \in Ack
  BY <1>1, TailElements
<1>3. a.msg \in delivered /\ a.seqno = SeqnoOf(a.msg) /\ a.msg \in Nat \ {0}
  BY <1>2 DEF InOrder, UnderWayInOrder, Ack, Msgs
<1>4. /\ Finished \in Nat /\ InHand \in {0, 1} /\ incs \in Nat /\ stop \in BOOLEAN
      /\ a.msg <= Finished + InHand /\ recvSeqno = incs % SeqMod
  BY <1>3 DEF TrustInv, DeliveredInOrder, NoDrift, TypeOK, Finished, InHand
<1>5. InHand = 1 => toSend.msg = Finished + 1
  BY DEF InOrder, QueueInOrder
<1> HIDE DEF a
<1>6. CASE Timing = "quiet"
  <2>1. /\ pc \in {"lock", "wait"} /\ ~stop
        /\ acks[p] = <<[msg |-> toSend.msg, seqno |-> toSend.seqno]>>
    BY <1>1, <1>6, QuietUnderWay DEF TrustInv
  <2>2. a.msg = toSend.msg
    BY <2>1 DEF a
  <2>3. pc \in Sending /\ InHand = 1 /\ pc # "inc"
    BY <2>1 DEF Sending, InHand, Holding
  <2>4. incs = Finished
    BY <1>1, <1>4, <2>1, <2>3 DEF TrustInv, NoDrift, Credit, Done
  <2>5. recvSeqno = a.seqno
    BY <1>3, <1>4, <1>5, <2>2, <2>3, <2>4 DEF SeqnoOf
  <2> QED BY <1>3, <2>1, <2>2, <2>3, <2>5 DEF a
<1>7. CASE Timing = "late" /\ MaxMsgs < SeqMod
  <2>1. pc \notin Deciding /\ pc # "inc" /\ pc # "reset"
    BY <1>1, <1>7 DEF Deciding
  <2>2. stop => InHand = 1
    BY <2>1 DEF TrustInv, StopForHand, InHand
  <2>3. CASE stop
    <3>1. incs = Finished + 1 /\ InHand = 1
      BY <1>1, <1>4, <2>1, <2>2, <2>3 DEF TrustInv, NoDrift, Credit, Done
    <3>2. Finished + 1 <= MaxMsgs /\ MaxMsgs \in Nat
      BY <1>4, <3>1, BoundsAssumption DEF InOrder, QueueInOrder, TypeOK
    <3>3. recvSeqno = Finished + 1 /\ SeqnoOf(a.msg) = a.msg - 1
      BY <1>3, <1>4, <1>7, <3>1, <3>2, SeqModAssumption, ModSmall DEF SeqnoOf
    <3>4. a.seqno # recvSeqno /\ a.msg <= Finished + 1
      BY <1>3, <1>4, <3>1, <3>3
    <3>5. a.msg \in 1 .. Finished \/ a.msg = toSend.msg
      BY <1>3, <1>4, <1>5, <3>1, <3>4
    <3> QED BY <1>3, <2>3, <3>1, <3>4, <3>5 DEF a
  <2>4. CASE ~stop
    <3>1. incs = Finished
      BY <1>1, <1>4, <2>1, <2>4 DEF TrustInv, NoDrift, Credit, Done
    <3>2. Finished + InHand <= MaxMsgs /\ MaxMsgs \in Nat
      BY <1>4, BoundsAssumption DEF InOrder, QueueInOrder, TypeOK
    <3>3. recvSeqno = Finished /\ SeqnoOf(a.msg) = a.msg - 1
      BY <1>3, <1>4, <1>7, <3>1, <3>2, SeqModAssumption, ModSmall DEF SeqnoOf
    <3>4. CASE a.seqno = recvSeqno
      <4>1. a.msg = Finished + 1 /\ InHand = 1
        BY <1>3, <1>4, <3>3, <3>4
      <4>2. pc \in Sending
        BY <2>1, <4>1 DEF InHand, Holding, Deciding, Sending
      <4> QED BY <1>3, <1>5, <2>4, <3>4, <4>1, <4>2 DEF a
    <3>5. CASE a.seqno # recvSeqno
      <4>1. a.msg \in 1 .. Finished
        BY <1>3, <1>4, <3>3, <3>5
      <4> QED BY <1>3, <3>5, <4>1 DEF a
    <3> QED BY <3>4, <3>5
  <2> QED BY <1>4, <2>3, <2>4
<1> QED BY <1>6, <1>7 DEF Trusty

LEMMA TrustInit == Init => TrustInv
<1> SUFFICES ASSUME Init PROVE TrustInv
  OBVIOUS
<1>1. /\ pc = "reset" /\ hpc = "idle" /\ outcome = <<>> /\ delivered = {}
      /\ incs = 0 /\ recvSeqno = 0 /\ air = NoAir /\ acks = NoAcks
  BY DEF Init
<1>2. ~stop
  BY DEF Init
<1>3. NoDrift
  BY <1>1, SeqModAssumption, ModSmall DEF NoDrift, Done, Credit, Finished
<1>4. NoFalseAck /\ DeliveredInOrder /\ StoreForHand /\ HandlerExcludesDecision
  BY <1>1 DEF NoFalseAck, DeliveredInOrder, StoreForHand, HandlerExcludesDecision, Finished
<1>5. StopForHand /\ StopAndWait
  BY <1>1, <1>2 DEF StopForHand, StopAndWait, NothingUnderWay
<1> QED BY <1>3, <1>4, <1>5 DEF TrustInv

\* Every message moves the expected seqno exactly once.
LEMMA NoDriftStep ==
    ASSUME TypeOK, TrustInv, [Next]_vars
    PROVE  NoDrift'
<1>1. CountsIncs'
  BY CountsIncsStep DEF TrustInv, NoDrift, CountsIncs
<1>2. Credit = Done /\ Done \in Nat /\ Credit \in Nat
  BY AccountStep DEF TrustInv, NoDrift
<1>3. StopStore => ~(stop \/ pc \in {"inc", "reset"})
  BY DEF StopStore, TrustInv, StoreForHand, Sending
<1>4. Credit' = Done'
  <2>1. \/ Credit' = Credit + 1 /\ Done' = Done + 1
        \/ Credit' = Credit /\ Done' = Done
    BY <1>3, AccountStep, Zenon
  <2> QED BY <1>2, <2>1
<1> QED BY <1>1, <1>4 DEF NoDrift, CountsIncs

\* How d_stop and the message in hand change together.
LEMMA StopForHandStep ==
    ASSUME TypeOK, TrustInv, [Next]_vars
    PROVE  StopForHand'
<1>1. StopForHand /\ StoreForHand /\ delivered \subseteq delivered' /\ acked \subseteq acked'
  BY DEF TrustInv, Next, Application, AckHandler, Sender, Radio, Pack, Eof, UnpackAck, StopStore,
         StopNotify, AckInc, Reset, Pop, Publish, BeginWait, WaitEnds, Loop, Decide, TimeoutInc,
         UnpackData, LoseFrame, LoseAck, WrongReceiver, handler, network, vars
<1>2. ASSUME UNCHANGED <<stop, toSend>>, pc' = pc \/ (pc \in Holding /\ pc' \in Holding)
      PROVE  StopForHand'
  BY <1>1, <1>2 DEF StopForHand, Holding
<1>3. CASE StopStore
  <2>1. hpc = "store" /\ UNCHANGED <<pc, toSend, delivered, acked>>
    BY <1>3 DEF StopStore, thread, network
  <2>2. pc' \in Holding /\ toSend'.msg \in delivered' \cap acked'
    BY <1>1, <2>1 DEF StoreForHand, Sending, Holding
  <2> QED BY <2>2 DEF StopForHand
<1>4. CASE Reset
  <2>1. ~stop'
    BY <1>4 DEF Reset
  <2> QED BY <2>1 DEF StopForHand
<1>5. CASE Pop
  <2>1. ~stop
    BY <1>1, <1>5 DEF Pop, StopForHand, Holding
  <2>2. ~stop'
    BY <1>5, <2>1 DEF Pop
  <2> QED BY <2>2 DEF StopForHand
<1>6. CASE Decide
  <2>1. pc' = "reset" \/ ~stop'
    <3>1. UNCHANGED stop
      BY <1>6 DEF Decide
    <3>2. pc' = "reset" \/ ~stop
      BY <1>6, Zenon DEF Decide
    <3> QED BY <3>1, <3>2
  <2> QED BY <2>1 DEF StopForHand
<1>7. CASE TimeoutInc
  <2>1. pc' = "reset"
    BY <1>7 DEF TimeoutInc
  <2> QED BY <2>1 DEF StopForHand
<1>8. CASE Publish \/ BeginWait \/ WaitEnds \/ Loop \/ StopNotify
  <2>1. UNCHANGED <<stop, toSend>> /\ (pc' = pc \/ (pc \in Holding /\ pc' \in Holding))
    BY <1>8 DEF Publish, BeginWait, WaitEnds, Loop, StopNotify, Holding
  <2> QED BY <1>2, <2>1
<1>9. ASSUME UNCHANGED <<stop, thread>> PROVE StopForHand'
  BY <1>2, <1>9 DEF thread
<1>10. CASE Application \/ Radio \/ AckInc \/ (\E p \in Peers : UnpackAck(p)) \/ UNCHANGED vars
  <2>1. UNCHANGED <<stop, thread>>
    BY <1>10 DEF Application, Radio, Pack, Eof, UnpackAck, AckInc, UnpackData, LoseFrame, LoseAck,
                 WrongReceiver, vars
  <2> QED BY <1>9, <2>1
<1> QED BY <1>3, <1>4, <1>5, <1>6, <1>7, <1>8, <1>10 DEF Next, AckHandler, Sender

LEMMA NoFalseAckStep ==
    ASSUME TypeOK, InOrder, TrustInv, [Next]_vars
    PROVE  NoFalseAck'
<1>1. NoFalseAck /\ delivered \subseteq delivered'
  BY DEF TrustInv, Next, Application, AckHandler, Sender, Radio, Pack, Eof, UnpackAck, StopStore,
         StopNotify, AckInc, Reset, Pop, Publish, BeginWait, WaitEnds, Loop, Decide, TimeoutInc,
         UnpackData, LoseFrame, LoseAck, WrongReceiver, network, vars
<1>2. CASE UNCHANGED outcome
  BY <1>1, <1>2 DEF NoFalseAck, Finished
<1>3. CASE Decide
  <2>1. /\ \/ stop /\ outcome' = Append(outcome, "stopped")
           \/ outcome' = Append(outcome, "timeout")
        /\ pc = "decide" /\ UNCHANGED delivered
    BY <1>3, Zenon DEF Decide, network
  <2>2. outcome \in Seq({"stopped", "timeout"})
    BY DEF TypeOK
  <2>3. /\ Finished' = Finished + 1 /\ Finished \in Nat
        /\ \A m \in 1 .. Finished : outcome'[m] = outcome[m]
    BY <2>1, <2>2 DEF Finished
  <2>4. toSend.msg = Finished + 1
    BY <2>1 DEF InOrder, QueueInOrder, InHand, Holding
  <2>5. outcome'[Finished + 1] = "stopped" => Finished + 1 \in delivered
    <3>1. CASE stop
      BY <2>1, <2>4, <3>1 DEF TrustInv, StopForHand
    <3>2. CASE outcome' = Append(outcome, "timeout")
      BY <2>2, <3>2 DEF Finished
    <3> QED BY <2>1, <3>1, <3>2
  <2>6. ASSUME NEW m \in 1 .. Finished', outcome'[m] = "stopped" PROVE m \in delivered'
    <3>1. CASE m \in 1 .. Finished
      BY <1>1, <2>1, <2>3, <2>6, <3>1 DEF NoFalseAck
    <3>2. CASE m = Finished + 1
      BY <2>1, <2>5, <2>6, <3>2
    <3> QED BY <2>3, <3>1, <3>2
  <2> QED BY <2>6 DEF NoFalseAck
<1> QED
  BY <1>2, <1>3, PlacesStep DEF Pop

LEMMA StoreForHandStep ==
    ASSUME Trusty, TypeOK, InOrder, TrustInv, [Next]_vars
    PROVE  StoreForHand'
<1>1. StoreForHand /\ delivered \subseteq delivered' /\ acked \subseteq acked'
  BY DEF TrustInv, Next, Application, AckHandler, Sender, Radio, Pack, Eof, UnpackAck, StopStore,
         StopNotify, AckInc, Reset, Pop, Publish, BeginWait, WaitEnds, Loop, Decide, TimeoutInc,
         UnpackData, LoseFrame, LoseAck, WrongReceiver, handler, network, vars
<1>2. ASSUME hpc' # "store" PROVE StoreForHand'
  BY <1>2 DEF StoreForHand
<1>3. ASSUME UNCHANGED <<hpc, ackMsg, stop, toSend>>,
             pc' = pc \/ pc \in {"pop", "reset", "decide", "inc"} \/ pc' \in Sending \cup {"loop"}
      PROVE  StoreForHand'
  BY <1>1, <1>3 DEF StoreForHand, Sending
<1>4. ASSUME NEW p \in Peers, UnpackAck(p) PROVE StoreForHand'
  <2>1. CASE Head(acks[p]).seqno = recvSeqno
    <3>1. /\ ackMsg' = Head(acks[p]).msg /\ acked' = acked \cup {Head(acks[p]).msg}
          /\ UNCHANGED <<stop, pc, toSend, delivered>>
      BY <1>4, <2>1 DEF UnpackAck, ExpectedAck, thread
    <3>2. /\ pc \in Sending /\ ~stop /\ Head(acks[p]).msg = toSend.msg
          /\ Head(acks[p]).msg \in delivered
      BY <1>4, <2>1, MatchIsForHand
    <3>3. ~stop'
      BY <3>1, <3>2
    <3> QED BY <3>1, <3>2, <3>3 DEF StoreForHand
  <2>2. CASE Head(acks[p]).seqno # recvSeqno
    <3>1. hpc' # "store"
      BY <1>4, <2>2 DEF UnpackAck, ExpectedAck, handler
    <3> QED BY <1>2, <3>1
  <2> QED BY <2>1, <2>2
<1>5. CASE StopStore \/ StopNotify \/ AckInc
  <2>1. hpc' # "store"
    BY <1>5 DEF StopStore, StopNotify, AckInc
  <2> QED BY <1>2, <2>1
<1>6. CASE Reset \/ Pop \/ Decide \/ TimeoutInc
  <2>1. hpc' = hpc /\ pc \notin Sending \cup {"loop"}
    BY <1>6 DEF Reset, Pop, Decide, TimeoutInc, handler, Sending
  <2>2. hpc' # "store"
    BY <1>1, <2>1 DEF StoreForHand
  <2> QED BY <1>2, <2>2
<1>7. CASE Publish \/ BeginWait \/ WaitEnds
  <2>1. UNCHANGED <<hpc, ackMsg, stop, toSend>> /\ pc' \in Sending \cup {"loop"}
    BY <1>7 DEF Publish, BeginWait, WaitEnds, handler, Sending
  <2> QED BY <1>3, <2>1
<1>8. CASE Loop
  <2>1. pc = "loop" /\ MayDecide /\ hpc' = hpc
    BY <1>8 DEF Loop, handler
  <2>2. hpc # "store"
    <3>1. CASE Timing = "late"
      BY <2>1, <3>1 DEF MayDecide
    <3>2. CASE Timing = "quiet"
      BY <2>1, <3>2 DEF TrustInv, StopAndWait
    <3> QED BY <3>1, <3>2 DEF Trusty
  <2> QED BY <1>2, <2>1, <2>2
<1>9. CASE Application \/ Radio \/ UNCHANGED vars
  <2>1. UNCHANGED <<hpc, ackMsg, stop, toSend, pc>>
    BY <1>9 DEF Application, Radio, Pack, Eof, UnpackData, LoseFrame, LoseAck,
                 WrongReceiver, thread, handler, vars
  <2> QED BY <1>3, <2>1
<1> QED BY <1>4, <1>5, <1>6, <1>7, <1>8, <1>9 DEF Next, AckHandler, Sender

LEMMA ExclusionStep ==
    ASSUME Timing = "late", Trusty, TypeOK, InOrder, TrustInv, [Next]_vars
    PROVE  HandlerExcludesDecision'
<1>1. HandlerExcludesDecision
  BY DEF TrustInv
<1>2. ASSUME hpc' = hpc \/ hpc # "idle", pc' = pc \/ pc' \in Sending \cup {"loop"}
      PROVE  HandlerExcludesDecision'
  BY <1>1, <1>2 DEF HandlerExcludesDecision
<1>3. ASSUME hpc' = "idle" PROVE HandlerExcludesDecision'
  BY <1>3 DEF HandlerExcludesDecision
<1>4. ASSUME NEW p \in Peers, UnpackAck(p) PROVE HandlerExcludesDecision'
  <2>1. UNCHANGED pc /\ (Head(acks[p]).seqno # recvSeqno => hpc' = hpc)
    BY <1>4 DEF UnpackAck, ExpectedAck, thread, handler
  <2>2. Head(acks[p]).seqno = recvSeqno => pc \in Sending
    BY <1>4, MatchIsForHand
  <2> QED BY <1>2, <2>1, <2>2 DEF HandlerExcludesDecision
<1>5. CASE StopStore \/ StopNotify \/ Publish \/ BeginWait \/ WaitEnds
  <2>1. (hpc' = hpc \/ hpc # "idle") /\ (pc' = pc \/ pc' \in Sending \cup {"loop"})
    BY <1>5 DEF StopStore, StopNotify, Publish, BeginWait, WaitEnds, thread, handler, Sending
  <2> QED BY <1>2, <2>1
<1>6. CASE AckInc
  BY <1>3, <1>6 DEF AckInc
<1>7. CASE Reset \/ Pop \/ Loop \/ Decide \/ TimeoutInc
  <2>1. hpc' = hpc /\ hpc = "idle"
    BY <1>1, <1>7 DEF Reset, Pop, Loop, Decide, TimeoutInc, MayDecide, handler,
                       HandlerExcludesDecision, Sending
  <2> QED BY <1>3, <2>1
<1>8. CASE Application \/ Radio \/ UNCHANGED vars
  <2>1. UNCHANGED <<hpc, pc>>
    BY <1>8 DEF Application, Radio, Pack, Eof, UnpackData, LoseFrame, LoseAck,
                 WrongReceiver, thread, handler, vars
  <2> QED BY <1>2, <2>1
<1> QED BY <1>4, <1>5, <1>6, <1>7, <1>8 DEF Next, AckHandler, Sender

\* Stop-and-wait is kept: a frame is published only when nothing is under way,
\* its ack replaces it, and the sender goes on only when both are gone.
LEMMA StopAndWaitStep ==
    ASSUME Timing = "quiet", TypeOK, InOrder, TrustInv, [Next]_vars
    PROVE  StopAndWait'
<1>1. StopAndWait /\ stop \in BOOLEAN
  BY DEF TrustInv, TypeOK
<1>2. /\ air \in [Dests -> Seq(Frame)] /\ acks \in [Peers -> Seq(Ack)]
      /\ hpc \in {"idle", "store", "notify", "inc"}
  BY DEF TypeOK
<1>3. ASSUME UNCHANGED <<air, acks, pc, hpc, stop, toSend>>, delivered \subseteq delivered'
      PROVE  StopAndWait'
  BY <1>1, <1>3 DEF StopAndWait, NothingUnderWay, FrameUnderWay, AckUnderWay
<1>4. ASSUME NothingUnderWay', UNCHANGED <<pc, hpc, stop>> PROVE StopAndWait'
  BY <1>1, <1>4 DEF StopAndWait
<1>5. CASE Application \/ UNCHANGED vars
  <2>1. UNCHANGED <<air, acks, pc, hpc, stop, toSend, delivered>>
    BY <1>5 DEF Application, Pack, Eof, thread, handler, network, vars
  <2> QED BY <1>3, <2>1
<1>6. ASSUME NEW p \in Peers, acks[p] # <<>>, acks' = [acks EXCEPT ![p] = Tail(@)], UNCHANGED air
      PROVE  NothingUnderWay' /\ pc \in {"lock", "wait"} /\ ~stop
  <2>1. /\ pc \in {"lock", "wait"} /\ ~stop /\ AckUnderWay /\ p = toSend.dest
        /\ acks[p] = <<[msg |-> toSend.msg, seqno |-> toSend.seqno]>>
    BY <1>1, <1>6, QuietUnderWay
  <2>2. Tail(acks[p]) = <<>>
    BY <2>1
  <2>3. acks' = NoAcks
    BY <1>6, <2>1, <2>2 DEF AckUnderWay, NoAcks
  <2> QED BY <1>6, <2>1, <2>3 DEF NothingUnderWay, AckUnderWay
<1>7. ASSUME NEW d \in Dests, air[d] # <<>>, air' = [air EXCEPT ![d] = Tail(@)]
      PROVE  /\ air' = NoAir /\ acks = NoAcks /\ d = toSend.dest /\ Head(air[d]) = toSend
             /\ pc \in {"lock", "wait"} /\ ~stop
  <2>1. /\ pc \in {"lock", "wait"} /\ ~stop
        /\ FrameUnderWay /\ d = toSend.dest /\ air[d] = <<toSend>>
    BY <1>1, <1>7, QuietUnderWay
  <2>2. Tail(air[d]) = <<>> /\ Head(air[d]) = toSend
    BY <2>1
  <2>3. air' = NoAir
    BY <1>7, <2>1, <2>2 DEF FrameUnderWay, NoAir
  <2> QED BY <2>1, <2>2, <2>3 DEF FrameUnderWay
<1>8. ASSUME NEW p \in Peers, UnpackAck(p) PROVE StopAndWait'
  <2>1. /\ acks[p] # <<>> /\ acks' = [acks EXCEPT ![p] = Tail(@)]
        /\ UNCHANGED <<air, pc, stop>> /\ hpc = "idle" /\ hpc' \in {"idle", "store"}
    BY <1>8 DEF UnpackAck, thread, handler
  <2>2. NothingUnderWay' /\ pc' \in {"lock", "wait"}
    BY <1>6, <2>1
  <2> QED BY <2>1, <2>2 DEF StopAndWait
<1>9. CASE StopStore
  <2>1. hpc = "store" /\ hpc' = "notify" /\ stop' /\ UNCHANGED <<air, acks, pc>>
    BY <1>9 DEF StopStore, thread, network
  <2>2. NothingUnderWay' /\ pc' \in {"lock", "wait"}
    BY <1>1, <2>1 DEF StopAndWait, NothingUnderWay
  <2> QED BY <2>1, <2>2 DEF StopAndWait
<1>10. CASE StopNotify
  <2>1. /\ hpc = "notify" /\ hpc' = "inc" /\ UNCHANGED <<air, acks, stop>>
        /\ pc' = pc \/ pc' = "loop"
    BY <1>10 DEF StopNotify, network
  <2>2. NothingUnderWay' /\ stop' /\ pc \in {"lock", "wait"}
    BY <1>1, <2>1 DEF StopAndWait, NothingUnderWay
  <2> QED BY <2>1, <2>2 DEF StopAndWait
<1>11. CASE AckInc
  <2>1. hpc = "inc" /\ hpc' = "idle" /\ UNCHANGED <<air, acks, delivered, pc, stop, toSend>>
    BY <1>11 DEF AckInc, thread, network
  <2> QED BY <1>1, <2>1 DEF StopAndWait, NothingUnderWay, FrameUnderWay, AckUnderWay
<1>12. CASE Reset
  <2>1. pc = "reset" /\ pc' = "pop" /\ ~stop' /\ UNCHANGED <<air, acks, hpc>>
    BY <1>12 DEF Reset, handler, network
  <2> QED BY <1>1, <2>1 DEF StopAndWait, NothingUnderWay
<1>13. CASE Pop
  <2>1. pc = "pop" /\ pc' = "publish" /\ UNCHANGED <<air, acks, hpc, stop>>
    BY <1>13 DEF Pop, handler, network
  <2> QED BY <1>1, <2>1 DEF StopAndWait, NothingUnderWay
<1>14. CASE Publish
  <2>1. /\ pc = "publish" /\ pc' = "lock" /\ UNCHANGED <<acks, hpc, stop, toSend>>
        /\ air' = air \/ air' = [air EXCEPT ![toSend.dest] = Append(@, toSend)]
    BY <1>14, Zenon DEF Publish, handler
  <2>2. NothingUnderWay /\ ~stop /\ hpc \in {"idle", "inc"}
    BY <1>1, <1>2, <2>1 DEF StopAndWait
  <2>3. toSend \in Frame /\ toSend.dest \in Dests
    BY <2>1 DEF TypeOK, Holding, Frame
  <2>4. NoAir[toSend.dest] = <<>> /\ Append(<<>>, toSend) = <<toSend>>
    BY <2>3 DEF NoAir
  <2>5. NothingUnderWay' \/ FrameUnderWay'
    BY <2>1, <2>2, <2>3, <2>4 DEF NothingUnderWay, FrameUnderWay
  <2>6. ~stop' /\ hpc' \in {"idle", "inc"}
    BY <2>1, <2>2
  <2> QED BY <2>1, <2>5, <2>6 DEF StopAndWait
<1>15. CASE BeginWait
  <2>1. pc = "lock" /\ pc' = "wait" /\ UNCHANGED <<air, acks, delivered, hpc, stop, toSend>>
    BY <1>15 DEF BeginWait, handler, network
  <2> QED BY <1>1, <2>1 DEF StopAndWait, NothingUnderWay, FrameUnderWay, AckUnderWay
<1>16. CASE WaitEnds
  <2>1. pc' = "loop" /\ Quiet /\ UNCHANGED <<air, acks, hpc>>
    BY <1>16 DEF WaitEnds, handler, network
  <2> QED BY <2>1 DEF StopAndWait, NothingUnderWay, Quiet
<1>17. CASE Loop
  <2>1. pc = "loop" /\ UNCHANGED <<air, acks, hpc, stop>>
    BY <1>17 DEF Loop, handler, network
  <2>2. (pc' = "publish" /\ ~stop) \/ pc' = "decide"
    BY <1>17 DEF Loop, MayRetry
  <2> QED BY <1>1, <2>1, <2>2 DEF StopAndWait, NothingUnderWay
<1>18. CASE Decide
  <2>1. pc = "decide" /\ UNCHANGED <<air, acks, hpc, stop>>
    BY <1>18 DEF Decide, handler, network
  <2>2. pc' = "reset" \/ (pc' = "inc" /\ ~stop)
    BY <1>18, Zenon DEF Decide
  <2> QED BY <1>1, <2>1, <2>2 DEF StopAndWait, NothingUnderWay
<1>19. CASE TimeoutInc
  <2>1. pc = "inc" /\ pc' = "reset" /\ UNCHANGED <<air, acks, hpc>>
    BY <1>19 DEF TimeoutInc, handler, network
  <2> QED BY <1>1, <2>1 DEF StopAndWait, NothingUnderWay
<1>20. ASSUME NEW p \in Peers, UnpackData(p) PROVE StopAndWait'
  <2> DEFINE a == [msg |-> Head(air[p]).msg, seqno |-> Head(air[p]).seqno]
  <2>1. /\ p \in Dests /\ air[p] # <<>> /\ air' = [air EXCEPT ![p] = Tail(@)]
        /\ delivered' = delivered \cup {Head(air[p]).msg}
        /\ acks' = [acks EXCEPT ![p] = Append(@, a)]
        /\ UNCHANGED <<pc, hpc, stop, toSend>>
    BY <1>20, PeersAssumption DEF UnpackData, thread, handler
  <2>2. /\ air' = NoAir /\ acks = NoAcks /\ p = toSend.dest /\ Head(air[p]) = toSend
        /\ pc \in {"lock", "wait"} /\ ~stop
    BY <1>7, <2>1
  <2>3. a = [msg |-> toSend.msg, seqno |-> toSend.seqno]
    BY <2>2
  <2> HIDE DEF a
  <2>4. NoAcks[p] = <<>> /\ Append(<<>>, a) = <<a>>
    BY DEF NoAcks
  <2>5. acks' = [NoAcks EXCEPT ![p] = <<a>>]
    BY <2>1, <2>2, <2>4
  <2>6. AckUnderWay'
    BY <2>1, <2>2, <2>3, <2>5 DEF AckUnderWay
  <2>7. hpc \in {"idle", "inc"}
    <3>1. air # NoAir
      BY <2>1 DEF NoAir
    <3> QED BY <1>1, <3>1 DEF StopAndWait, NothingUnderWay
  <2>8. pc' \in {"lock", "wait"} /\ ~stop' /\ hpc' \in {"idle", "inc"}
    BY <2>1, <2>2, <2>7
  <2> QED BY <2>6, <2>8 DEF StopAndWait
<1>21. ASSUME NEW d \in Dests, LoseFrame(d) \/ WrongReceiver(d) PROVE StopAndWait'
  <2>1. air[d] # <<>> /\ air' = [air EXCEPT ![d] = Tail(@)] /\ UNCHANGED <<acks, pc, hpc, stop>>
    BY <1>21 DEF LoseFrame, WrongReceiver, thread, handler
  <2>2. NothingUnderWay'
    BY <1>7, <2>1 DEF NothingUnderWay
  <2> QED BY <1>4, <2>1, <2>2
<1>22. ASSUME NEW p \in Peers, LoseAck(p) PROVE StopAndWait'
  <2>1. acks[p] # <<>> /\ acks' = [acks EXCEPT ![p] = Tail(@)] /\ UNCHANGED <<air, pc, hpc, stop>>
    BY <1>22 DEF LoseAck, thread, handler
  <2> QED BY <1>4, <1>6, <2>1
<1>23. CASE AckHandler
  BY <1>8, <1>9, <1>10, <1>11, <1>23 DEF AckHandler
<1>24. CASE Sender
  BY <1>12, <1>13, <1>14, <1>15, <1>16, <1>17, <1>18, <1>19, <1>24 DEF Sender
<1>25. CASE Radio
  BY <1>20, <1>21, <1>22, <1>25, PeersAssumption DEF Radio
<1> QED BY <1>5, <1>23, <1>24, <1>25 DEF Next

LEMMA TrustStep ==
    ASSUME Trusty, TypeOK, InOrder, TrustInv, [Next]_vars
    PROVE  TrustInv'
<1>1. NoDrift' /\ NoFalseAck' /\ StoreForHand' /\ StopForHand'
  BY NoDriftStep, NoFalseAckStep, StoreForHandStep, StopForHandStep
<1>2. DeliveredInOrder'
  BY DeliveredStep DEF TrustInv
<1>3. /\ Timing = "late" => HandlerExcludesDecision'
      /\ Timing = "quiet" => StopAndWait'
  BY ExclusionStep, StopAndWaitStep
<1> QED BY <1>1, <1>2, <1>3 DEF TrustInv

LEMMA TrustHolds == ASSUME Trusty PROVE Spec => [](TypeOK /\ TryInRange /\ InOrder /\ TrustInv)
<1> DEFINE Inv == TypeOK /\ TryInRange /\ InOrder /\ TrustInv
<1>1. Init => Inv
  BY TypeInit, OrderInit, TrustInit
<1>2. Inv /\ [Next]_vars => Inv'
  BY TypeStep, QueueOrderStep, UnderWayStep, TrustStep DEF InOrder
<1> QED BY <1>1, <1>2, PTL DEF Spec

\* inc_recv_seqno runs exactly once for each message, from the ack handler or
\* from the sender, when the timer does not race the ack.
THEOREM NoDriftHolds == ASSUME Trusty PROVE Spec => []NoDrift
<1>1. TrustInv => NoDrift
  BY DEF TrustInv
<1> QED BY <1>1, TrustHolds, PTL

\* A message counted as acknowledged has reached its destination, when the
\* timer does not race the ack.
THEOREM NoFalseAckHolds == ASSUME Trusty PROVE Spec => []NoFalseAck
<1>1. TrustInv => NoFalseAck
  BY DEF TrustInv
<1> QED BY <1>1, TrustHolds, PTL

\* unpack refuses an ack only for a message already acknowledged or done with.
IgnoresDuplicates ==
    \A p \in Peers : UnpackAck(p) /\ hpc' = "idle" =>
        Head(acks[p]).msg \in acked \cup 1 .. Finished

THEOREM IgnoredAcksHold == ASSUME Trusty PROVE Spec => IgnoredAcksAreDuplicates
<1>1. TypeOK /\ TryInRange /\ InOrder /\ TrustInv /\ [Next]_vars => [IgnoresDuplicates]_vars
  <2> SUFFICES ASSUME TypeOK, InOrder, TrustInv, NEW p \in Peers, UnpackAck(p), hpc' = "idle"
               PROVE  Head(acks[p]).msg \in acked \cup 1 .. Finished
    BY DEF IgnoresDuplicates
  <2>1. Head(acks[p]).seqno # recvSeqno
    BY DEF UnpackAck, ExpectedAck
  <2>2. \/ Head(acks[p]).msg \in 1 .. Finished
        \/ stop /\ InHand = 1 /\ Head(acks[p]).msg = toSend.msg
    BY <2>1, MatchIsForHand
  <2>3. CASE stop /\ InHand = 1 /\ Head(acks[p]).msg = toSend.msg
    <3>1. pc # "reset"
      BY <2>3 DEF InHand, Holding
    <3> QED BY <2>3, <3>1 DEF TrustInv, StopForHand
  <2> QED BY <2>2, <2>3
<1> QED BY <1>1, TrustHolds, PTL DEF Spec, IgnoredAcksAreDuplicates, IgnoresDuplicates

-------------------------------------------------------------------------------
(* The losses pay for the timeouts.  The account also holds what the       *)
(* message in hand has cost so far: each of its transmissions, less the    *)
(* one under way, is lost; once its ack has come it owes nothing.          *)

Timeouts(s) == {m \in 1 .. Len(s) : s[m] = "timeout"}
OneUnderWay == IF NothingUnderWay THEN 0 ELSE 1
HandLosses  == IF stop \/ hpc = "store" THEN 0 ELSE Tries - OneUnderWay
Paid        == (Retxs + 1) * Cardinality(Timeouts(outcome)) + HandLosses <= lost

LEMMA TimeoutsFinite ==
    ASSUME NEW s \in Seq({"stopped", "timeout"})
    PROVE  IsFiniteSet(Timeouts(s)) /\ Cardinality(Timeouts(s)) \in Nat
<1>1. IsFiniteSet(1 .. Len(s))
  BY FS_Interval
<1> QED BY <1>1, FS_Subset, FS_CardinalityType DEF Timeouts

LEMMA TimeoutsAppend ==
    ASSUME NEW s \in Seq({"stopped", "timeout"})
    PROVE  /\ Cardinality(Timeouts(Append(s, "stopped"))) = Cardinality(Timeouts(s))
           /\ Cardinality(Timeouts(Append(s, "timeout"))) = Cardinality(Timeouts(s)) + 1
<1>1. ASSUME NEW e \in {"stopped", "timeout"}
      PROVE  /\ Len(Append(s, e)) = Len(s) + 1 /\ Len(s) \in Nat /\ Append(s, e)[Len(s) + 1] = e
             /\ \A i \in 1 .. Len(s) : Append(s, e)[i] = s[i]
  OBVIOUS
<1>2. Timeouts(Append(s, "stopped")) = Timeouts(s)
  BY <1>1 DEF Timeouts
<1>3. /\ Timeouts(Append(s, "timeout")) = Timeouts(s) \cup {Len(s) + 1}
      /\ Len(s) + 1 \notin Timeouts(s)
  BY <1>1 DEF Timeouts
<1> QED BY <1>2, <1>3, TimeoutsFinite, FS_AddElement

LEMMA PaidInit == Init => Paid
<1> SUFFICES ASSUME Init PROVE Paid
  OBVIOUS
<1>1. Timeouts(outcome) = {} /\ Tries = 0 /\ OneUnderWay = 0 /\ lost = 0
  BY DEF Init, Timeouts, Tries, OneUnderWay, NothingUnderWay
<1> QED BY <1>1, FS_EmptySet, BoundsAssumption DEF Paid, HandLosses

LEMMA OneMore == ASSUME NEW a \in Nat, NEW b \in Nat, NEW l \in Nat, b <= a + 1
                 PROVE  b + l <= a + (l + 1)
OBVIOUS

LEMMA StillPaid == ASSUME NEW k \in Nat, NEW a \in Nat, NEW b \in Nat, NEW l \in Nat, NEW m \in Nat,
                          k + a <= l, b + l <= a + m
                   PROVE  k + b <= m
OBVIOUS

LEMMA HandLossesNat == ASSUME TypeOK, StopAndWait PROVE HandLosses \in Nat
<1>1. Tries \in Nat
  BY DEF TypeOK, Tries
<1>2. ~NothingUnderWay => Tries >= 1
  BY DEF StopAndWait, Tries, TypeOK
<1> QED BY <1>1, <1>2 DEF HandLosses, OneUnderWay

LEMMA HandLossesNatNext == ASSUME TypeOK', StopAndWait' PROVE HandLosses' \in Nat
<1>1. Tries' \in Nat
  BY DEF TypeOK, Tries
<1>2. ~NothingUnderWay' => Tries' >= 1
  BY DEF StopAndWait, Tries, TypeOK
<1>3. OneUnderWay' = 0 \/ (OneUnderWay' = 1 /\ Tries' >= 1)
  BY <1>2, Zenon DEF OneUnderWay
<1>4. Tries' - OneUnderWay' \in Nat
  <2> DEFINE t == Tries'
             u == OneUnderWay'
  <2>1. t \in Nat /\ (u = 0 \/ (u = 1 /\ t >= 1))
    BY <1>1, <1>3
  <2> HIDE DEF t, u
  <2>2. t - u \in Nat
    BY <2>1
  <2> QED BY <2>2 DEF t, u
<1> QED BY <1>4 DEF HandLosses

\* What a step does to the account of the message in hand: it grows with the
\* losses only, and is closed when the message is decided about.
LEMMA HandStep ==
    ASSUME Timing = "quiet", TypeOK, TryInRange, InOrder, TrustInv, [Next]_vars
    PROVE  \/ UNCHANGED outcome /\ HandLosses' + lost <= HandLosses + lost'
           \/ outcome' = Append(outcome, "stopped") /\ HandLosses' = 0 /\ lost' = lost
           \/ /\ outcome' = Append(outcome, "timeout") /\ lost' = lost
              /\ HandLosses' = 0 /\ HandLosses = Retxs + 1
<1> DEFINE Grows == UNCHANGED outcome /\ HandLosses' + lost <= HandLosses + lost'
<1>1. /\ StopAndWait /\ StopAndWait' /\ TypeOK' /\ stop \in BOOLEAN /\ lost \in Nat /\ lost' \in Nat
      /\ Tries \in Nat /\ try \in Nat
  BY StopAndWaitStep, TypeStep DEF TrustInv, TypeOK, Tries
<1>2. HandLosses \in Nat /\ HandLosses' \in Nat
  BY <1>1, HandLossesNat, HandLossesNatNext
<1>3. ASSUME UNCHANGED <<stop, hpc, OneUnderWay, Tries, outcome, lost>> PROVE Grows
  BY <1>1, <1>2, <1>3 DEF HandLosses
<1>4. ASSUME HandLosses' = 0, UNCHANGED <<outcome, lost>> PROVE Grows
  BY <1>1, <1>2, <1>4
<1>5. ASSUME ~NothingUnderWay, NothingUnderWay', lost' = lost + 1, UNCHANGED <<stop, hpc, pc, try, outcome>>
      PROVE  Grows
  <2>1. Tries' = Tries /\ OneUnderWay = 1 /\ OneUnderWay' = 0
    BY <1>5 DEF Tries, OneUnderWay
  <2>2. HandLosses' <= HandLosses + 1
    BY <1>1, <1>5, <2>1 DEF HandLosses
  <2>3. HandLosses' + lost <= HandLosses + lost'
    <3>1. HandLosses \in Nat /\ HandLosses' \in Nat /\ lost \in Nat /\ lost' = lost + 1
      BY <1>1, <1>2, <1>5
    <3>2. HandLosses' + lost <= HandLosses + (lost + 1)
      BY <2>2, <3>1, OneMore
    <3> QED BY <3>1, <3>2, Zenon
  <2> QED BY <1>5, <2>3
<1>6. CASE Application \/ UNCHANGED vars
  <2>1. UNCHANGED <<stop, hpc, pc, try, air, acks, outcome, lost>>
    BY <1>6 DEF Application, Pack, Eof, thread, handler, network, vars
  <2> QED BY <1>3, <2>1 DEF OneUnderWay, NothingUnderWay, Tries
<1>7. ASSUME NEW p \in Peers, UnpackAck(p) PROVE Grows
  <2>1. acks[p] # <<>> /\ UNCHANGED <<stop, pc, try, outcome, lost>>
    BY <1>7 DEF UnpackAck, thread
  <2>2. /\ pc \in {"lock", "wait"} /\ ~stop /\ Head(acks[p]).msg = toSend.msg
    BY <1>1, <2>1, QuietUnderWay
  <2>3. InHand = 1 /\ toSend.msg = Finished + 1 /\ Finished \in Nat
    BY <2>2, PlacesStep DEF InHand, Holding, InOrder, QueueInOrder
  <2>4. Head(acks[p]).seqno = recvSeqno
    BY <1>7, <2>2, <2>3, MatchIsForHand DEF Trusty
  <2>5. hpc' = "store"
    BY <1>7, <2>4 DEF UnpackAck, ExpectedAck
  <2> QED BY <1>4, <2>1, <2>5 DEF HandLosses
<1>8. CASE StopStore
  <2>1. stop' /\ UNCHANGED <<outcome, lost>>
    BY <1>8 DEF StopStore, thread, network
  <2> QED BY <1>4, <2>1 DEF HandLosses
<1>9. CASE StopNotify
  <2>1. hpc = "notify" /\ UNCHANGED <<stop, outcome, lost>>
    BY <1>9 DEF StopNotify, network
  <2>2. stop'
    BY <1>1, <2>1 DEF StopAndWait
  <2> QED BY <1>4, <2>1, <2>2 DEF HandLosses
<1>10. CASE AckInc
  <2>1. /\ hpc = "inc" /\ hpc' = "idle" /\ UNCHANGED <<stop, outcome, lost>>
        /\ Tries' = Tries /\ OneUnderWay' = OneUnderWay
    BY <1>10 DEF AckInc, thread, network, Tries, OneUnderWay, NothingUnderWay
  <2>2. HandLosses' = HandLosses
    BY <1>1, <2>1 DEF HandLosses
  <2> QED BY <1>1, <1>2, <2>1, <2>2
<1>11. CASE Reset \/ TimeoutInc
  <2>1. pc' \in {"pop", "reset"} /\ UNCHANGED <<outcome, lost>>
    BY <1>11 DEF Reset, TimeoutInc, network
  <2>2. Tries' = 0 /\ OneUnderWay' = 0
    BY <1>1, <2>1 DEF StopAndWait, Tries, OneUnderWay
  <2>3. HandLosses' = 0
    BY <2>2 DEF HandLosses
  <2> QED BY <1>4, <2>1, <2>3
<1>12. CASE Pop
  <2>1. pc' = "publish" /\ try' = 0 /\ UNCHANGED <<outcome, lost>>
    BY <1>12 DEF Pop, network
  <2>2. Tries' = 0 /\ OneUnderWay' = 0
    BY <1>1, <2>1 DEF StopAndWait, Tries, OneUnderWay
  <2>3. HandLosses' = 0
    BY <2>2 DEF HandLosses
  <2> QED BY <1>4, <2>1, <2>3
<1>13. CASE Publish
  <2>1. /\ pc = "publish" /\ pc' = "lock" /\ UNCHANGED <<stop, hpc, try, outcome, acks>>
        /\ lost' = lost \/ (lost' = lost + 1 /\ air' = air)
    BY <1>13, Zenon DEF Publish, handler
  <2>2. NothingUnderWay /\ Tries = try /\ Tries' = try + 1
    BY <1>1, <2>1 DEF StopAndWait, Tries
  <2>3. CASE lost' = lost + 1 /\ air' = air
    <3>1. OneUnderWay = 0 /\ OneUnderWay' = 0
      BY <2>1, <2>2, <2>3 DEF OneUnderWay, NothingUnderWay
    <3>2. HandLosses' <= HandLosses + 1
      BY <1>1, <2>1, <2>2, <3>1 DEF HandLosses
    <3>3. HandLosses' + lost <= HandLosses + lost'
      <4>1. HandLosses' + lost <= HandLosses + (lost + 1)
        BY <1>1, <1>2, <3>2, OneMore
      <4> QED BY <2>3, <4>1, Zenon
    <3> QED BY <2>1, <3>3
  <2>4. CASE lost' = lost
    <3>1. ~NothingUnderWay'
      <4>1. open
        BY <1>1, <1>13, <2>4 DEF Publish
      <4>2. air' = [air EXCEPT ![toSend.dest] = Append(@, toSend)] /\ air \in [Dests -> Seq(Frame)]
            /\ toSend \in Frame
        BY <1>13, <2>1, <4>1 DEF Publish, TypeOK, Holding
      <4>3. toSend.dest \in Dests /\ air'[toSend.dest] = Append(air[toSend.dest], toSend)
        BY <4>2 DEF Frame
      <4>4. Append(air[toSend.dest], toSend) # <<>>
        <5>1. air[toSend.dest] \in Seq(Frame) /\ toSend \in Frame
          BY <4>2, <4>3
        <5> QED BY <5>1
      <4> QED BY <4>3, <4>4 DEF NothingUnderWay, NoAir
    <3>2. OneUnderWay = 0 /\ OneUnderWay' = 1
      BY <2>2, <3>1 DEF OneUnderWay
    <3>3. HandLosses' = HandLosses
      BY <1>1, <2>1, <2>2, <3>2 DEF HandLosses
    <3> QED BY <1>1, <1>2, <2>1, <2>4, <3>3
  <2> QED BY <2>1, <2>3, <2>4
<1>14. CASE BeginWait \/ WaitEnds
  <2>1. /\ pc \in {"lock", "wait"} /\ pc' \in {"wait", "loop"}
        /\ UNCHANGED <<stop, hpc, try, air, acks, outcome, lost>>
    BY <1>14 DEF BeginWait, WaitEnds, handler, network
  <2>2. Tries' = Tries /\ OneUnderWay' = OneUnderWay
    BY <2>1 DEF Tries, OneUnderWay, NothingUnderWay
  <2> QED BY <1>3, <2>1, <2>2
<1>15. CASE Loop
  <2>1. /\ pc = "loop" /\ pc' \in {"publish", "decide"} /\ try' = try + 1
        /\ UNCHANGED <<stop, hpc, air, acks, outcome, lost>>
    BY <1>15 DEF Loop, handler, network
  <2>2. Tries' = Tries /\ OneUnderWay' = OneUnderWay
    BY <2>1 DEF Tries, OneUnderWay, NothingUnderWay
  <2> QED BY <1>3, <2>1, <2>2
<1>16. CASE Decide
  <2>1. pc = "decide" /\ pc' \in {"reset", "inc"} /\ UNCHANGED <<hpc, lost, stop>>
    BY <1>16, Zenon DEF Decide, handler, network
  <2>2. Tries' = 0 /\ OneUnderWay = 0 /\ OneUnderWay' = 0
    BY <1>1, <2>1 DEF StopAndWait, Tries, OneUnderWay
  <2>3. HandLosses' = 0
    BY <2>2 DEF HandLosses
  <2>4. CASE stop /\ outcome' = Append(outcome, "stopped")
    BY <2>1, <2>3, <2>4
  <2>5. CASE ~stop /\ outcome' = Append(outcome, "timeout")
    <3>1. hpc = "idle" /\ try = Retxs + 1
      BY <1>1, <2>1, <2>5 DEF StopAndWait, TryInRange
    <3>2. HandLosses = Retxs + 1
      BY <2>1, <2>2, <2>5, <3>1, BoundsAssumption DEF HandLosses, Tries
    <3> QED BY <2>1, <2>3, <2>5, <3>2
  <2>6. (stop /\ outcome' = Append(outcome, "stopped")) \/ (~stop /\ outcome' = Append(outcome, "timeout"))
    BY <1>16, Zenon DEF Decide
  <2> QED BY <2>4, <2>5, <2>6
<1>17. ASSUME NEW p \in Peers, UnpackData(p) PROVE Grows
  <2>1. /\ air[p] # <<>> /\ UNCHANGED <<stop, hpc, pc, try, outcome, lost>>
        /\ acks' = [acks EXCEPT ![p] = Append(@, [msg |-> Head(air[p]).msg, seqno |-> Head(air[p]).seqno])]
    BY <1>17 DEF UnpackData, thread, handler
  <2>2. /\ acks \in [Peers -> Seq(Ack)] /\ air[p] \in Seq(Frame) /\ Head(air[p]) \in Frame
    BY <2>1, PeersAssumption DEF TypeOK
  <2>3. acks'[p] # <<>>
    BY <2>1, <2>2 DEF Frame, Ack
  <2>4. ~NothingUnderWay /\ ~NothingUnderWay'
    BY <2>1, <2>3, PeersAssumption DEF NothingUnderWay, NoAir, NoAcks
  <2> QED BY <1>3, <2>1, <2>4 DEF OneUnderWay, Tries
<1>18. ASSUME NEW d \in Dests, LoseFrame(d) \/ WrongReceiver(d) PROVE Grows
  <2>1. /\ air[d] # <<>> /\ air' = [air EXCEPT ![d] = Tail(@)] /\ lost' = lost + 1
        /\ UNCHANGED <<acks, stop, hpc, pc, try, outcome>>
    BY <1>18 DEF LoseFrame, WrongReceiver, thread, handler
  <2>2. FrameUnderWay /\ d = toSend.dest /\ air[d] = <<toSend>> /\ ~NothingUnderWay
    BY <1>1, <2>1, QuietUnderWay DEF NothingUnderWay, NoAir
  <2>3. Tail(air[d]) = <<>>
    BY <2>2
  <2>4. NothingUnderWay'
    BY <2>1, <2>2, <2>3 DEF NothingUnderWay, FrameUnderWay, NoAir
  <2> QED BY <1>5, <2>1, <2>2, <2>4
<1>19. ASSUME NEW p \in Peers, LoseAck(p) PROVE Grows
  <2>1. /\ acks[p] # <<>> /\ acks' = [acks EXCEPT ![p] = Tail(@)] /\ lost' = lost + 1
        /\ UNCHANGED <<air, stop, hpc, pc, try, outcome>>
    BY <1>19 DEF LoseAck, thread, handler
  <2>2. /\ AckUnderWay /\ p = toSend.dest /\ ~NothingUnderWay
        /\ acks[p] = <<[msg |-> toSend.msg, seqno |-> toSend.seqno]>>
    BY <1>1, <2>1, QuietUnderWay DEF NothingUnderWay, NoAcks
  <2>3. Tail(acks[p]) = <<>>
    BY <2>2
  <2>4. NothingUnderWay'
    BY <2>1, <2>2, <2>3 DEF NothingUnderWay, AckUnderWay, NoAcks
  <2> QED BY <1>5, <2>1, <2>2, <2>4
<1>20. CASE Radio
  BY <1>17, <1>18, <1>19, <1>20, PeersAssumption DEF Radio
<1>21. CASE AckHandler
  BY <1>7, <1>8, <1>9, <1>10, <1>21 DEF AckHandler
<1> QED
  BY <1>6, <1>11, <1>12, <1>13, <1>14, <1>15, <1>16, <1>20, <1>21 DEF Next, Sender

LEMMA PaidStep ==
    ASSUME Timing = "quiet", TypeOK, TryInRange, InOrder, TrustInv, Paid, [Next]_vars
    PROVE  Paid'
<1> DEFINE T == Cardinality(Timeouts(outcome))
           K == Retxs + 1
<1>1. /\ outcome \in Seq({"stopped", "timeout"}) /\ lost \in Nat /\ lost' \in Nat
      /\ HandLosses \in Nat /\ HandLosses' \in Nat /\ K \in Nat /\ T \in Nat
  <2>1. StopAndWait /\ StopAndWait' /\ TypeOK'
    BY TypeStep, StopAndWaitStep DEF TrustInv
  <2>2. outcome \in Seq({"stopped", "timeout"}) /\ lost \in Nat /\ lost' \in Nat
    BY <2>1 DEF TypeOK
  <2> QED BY <2>1, <2>2, HandLossesNat, HandLossesNatNext, TimeoutsFinite, BoundsAssumption
<1>2. K * T \in Nat /\ K * (T + 1) = K * T + K
  <2> HIDE DEF T, K
  <2> QED BY <1>1
<1>3. K * T + HandLosses <= lost
  BY DEF Paid
<1>4. SUFFICES K * Cardinality(Timeouts(outcome')) + HandLosses' <= lost'
  BY DEF Paid
<1> HIDE DEF K
<1>5. CASE UNCHANGED outcome /\ HandLosses' + lost <= HandLosses + lost'
  <2>1. Cardinality(Timeouts(outcome')) = T
    BY <1>5
  <2> DEFINE P == K * T
  <2>2. K * Cardinality(Timeouts(outcome')) = P /\ P \in Nat /\ P + HandLosses <= lost
    BY <1>2, <1>3, <2>1
  <2> HIDE DEF P
  <2>3. P + HandLosses' <= lost'
    BY <1>1, <1>5, <2>2, StillPaid
  <2> QED BY <2>2, <2>3
<1>6. CASE outcome' = Append(outcome, "stopped") /\ HandLosses' = 0 /\ lost' = lost
  <2>1. Cardinality(Timeouts(outcome')) = T
    BY <1>1, <1>6, TimeoutsAppend
  <2> HIDE DEF T
  <2> QED BY <1>1, <1>2, <1>3, <1>6, <2>1
<1>7. CASE /\ outcome' = Append(outcome, "timeout") /\ lost' = lost
           /\ HandLosses' = 0 /\ HandLosses = Retxs + 1
  <2>1. Cardinality(Timeouts(outcome')) = T + 1
    BY <1>1, <1>7, TimeoutsAppend
  <2>2. HandLosses = K
    BY <1>7 DEF K
  <2> HIDE DEF T
  <2> QED BY <1>1, <1>2, <1>3, <1>7, <2>1, <2>2
<1> QED BY <1>5, <1>6, <1>7, HandStep

\* A message is given up only when each of its Retxs + 1 transmissions or the
\* ack to it was lost, when the timer does not race the ack.
THEOREM TimeoutsPaidHolds == ASSUME Timing = "quiet" PROVE Spec => []TimeoutsPaidByLosses
<1> DEFINE Inv == TypeOK /\ TryInRange /\ InOrder /\ TrustInv
<1>1. Spec => []Inv
  BY TrustHolds DEF Trusty
<1>2. Init => Paid
  BY PaidInit
<1>3. Inv /\ Paid /\ [Next]_vars => Paid'
  BY PaidStep
<1>4. Inv /\ Paid => TimeoutsPaidByLosses
  <2> SUFFICES ASSUME Inv, Paid PROVE TimeoutsPaidByLosses
    OBVIOUS
  <2> DEFINE N == (Retxs + 1) * Cardinality(Timeouts(outcome))
  <2>1. HandLosses \in Nat /\ lost \in Nat /\ Cardinality(Timeouts(outcome)) \in Nat
    BY HandLossesNat, TimeoutsFinite DEF TrustInv, TypeOK
  <2>2. N \in Nat
    BY <2>1, BoundsAssumption
  <2>3. N + HandLosses <= lost
    BY DEF Paid
  <2> HIDE DEF N
  <2>4. N <= lost
    BY <2>1, <2>2, <2>3
  <2> QED BY <2>4 DEF N, TimeoutsPaidByLosses, Timeouts, Finished
<1> QED BY <1>1, <1>2, <1>3, <1>4, PTL DEF Spec
-----------------------------------------------------------------------------
(***************************************************************************)
(* Runicast implements StubbornDelivery: every step of the two threads, of *)
(* the radio and of the peers is a step of the promise or a stutter.       *)
(***************************************************************************)

\* The messages transmitted at least once.
Sent == Finished + (IF Tries > 0 THEN 1 ELSE 0)

AirWithinSent == \A d \in Dests : \A k \in 1 .. Len(air[d]) : air[d][k].msg <= Sent

LEMMA TriesType == ASSUME TypeOK, TryInRange
                   PROVE  /\ Tries \in Nat /\ Finished \in Nat /\ Sent \in Nat
                          /\ Tries > 0 => InHand = 1
<1>1. try \in Nat /\ Finished \in Nat
  BY BoundsAssumption DEF TypeOK, Finished
<1>2. Tries \in Nat
  BY <1>1 DEF Tries
<1>3. Tries > 0 => pc \in Holding
  BY DEF Tries, Holding
<1> QED BY <1>1, <1>2, <1>3 DEF Sent, InHand

\* How a step moves the transmissions of the message in hand.
LEMMA TriesStep ==
    ASSUME TypeOK, TryInRange, [Next]_vars
    PROVE  /\ Publish => /\ InHand = 1 /\ Tries < Retxs + 1 /\ Tries' = Tries + 1
                         /\ UNCHANGED <<accepted, outcome, delivered>>
           /\ Decide => /\ InHand = 1 /\ Tries > 0 /\ Tries' = 0 /\ (~stop => Tries = Retxs + 1)
                        /\ UNCHANGED <<accepted, delivered>>
           /\ ~Publish /\ ~Decide => UNCHANGED <<Tries, outcome>>
<1>1. try \in Nat /\ Retxs \in Nat
  BY BoundsAssumption DEF TypeOK
<1>2. ASSUME UNCHANGED <<pc, try>> PROVE UNCHANGED Tries
  BY <1>2 DEF Tries
<1>3. CASE Publish
  <2>1. /\ pc = "publish" /\ pc' = "lock" /\ try' = try
        /\ UNCHANGED <<accepted, outcome, delivered>>
    BY <1>3 DEF Publish, conn
  <2>2. try <= Retxs
    BY <2>1 DEF TryInRange, Sending
  <2>3. Tries = try /\ Tries' = try + 1 /\ InHand = 1
    BY <2>1 DEF Tries, InHand, Holding
  <2>4. ~Decide
    BY <2>1 DEF Decide
  <2> QED BY <1>1, <1>3, <2>1, <2>2, <2>3, <2>4
<1>4. CASE Decide
  <2>1. pc = "decide" /\ pc' \in {"reset", "inc"} /\ UNCHANGED <<accepted, delivered>>
    BY <1>4, Zenon DEF Decide, conn, network
  <2>2. Tries = try /\ Tries' = 0 /\ InHand = 1
    BY <2>1 DEF Tries, InHand, Holding
  <2>3. try >= 1 /\ (~stop => try = Retxs + 1)
    BY <2>1 DEF TryInRange
  <2>4. ~Publish
    BY <2>1 DEF Publish
  <2> QED BY <1>1, <1>4, <2>1, <2>2, <2>3, <2>4
<1>5. ASSUME Reset \/ Pop \/ BeginWait \/ WaitEnds \/ Loop \/ TimeoutInc \/ StopNotify
      PROVE  UNCHANGED <<Tries, outcome>>
  <2>1. UNCHANGED outcome
    BY <1>5 DEF Reset, Pop, BeginWait, WaitEnds, Loop, TimeoutInc, StopNotify
  <2>2. UNCHANGED Tries
    BY <1>1, <1>5 DEF Reset, Pop, BeginWait, WaitEnds, Loop, TimeoutInc, StopNotify, Tries
  <2> QED BY <2>1, <2>2
<1>6. ASSUME UNCHANGED thread PROVE UNCHANGED <<Tries, outcome>>
  BY <1>2, <1>6 DEF thread
<1>7. ASSUME Application \/ Radio \/ AckInc \/ StopStore \/ (\E p \in Peers : UnpackAck(p)) \/ UNCHANGED vars
      PROVE  UNCHANGED thread
  BY <1>7 DEF Application, Radio, Pack, Eof, UnpackAck, AckInc, StopStore, UnpackData, LoseFrame,
              LoseAck, WrongReceiver, vars
<1> QED
  BY <1>3, <1>4, <1>5, <1>6, <1>7 DEF Next, AckHandler, Sender

LEMMA AirStep ==
    ASSUME TypeOK, TryInRange, InOrder, AirWithinSent, [Next]_vars
    PROVE  AirWithinSent'
<1> DEFINE Within(s, n) == \A k \in 1 .. Len(s) : s[k].msg <= n
<1>1. /\ \A d \in Dests : air[d] \in Seq(Frame) /\ Within(air[d], Sent)
      /\ air \in [Dests -> Seq(Frame)]
  BY DEF AirWithinSent, TypeOK
<1>2. Sent \in Nat /\ Sent' \in Nat /\ Finished \in Nat /\ Tries \in Nat
  <2>1. try' \in Nat /\ Finished' \in Nat
    BY TypeStep, BoundsAssumption DEF TypeOK, Finished
  <2>2. Tries' \in Nat
    BY <2>1 DEF Tries
  <2>3. Sent' = Finished' + (IF Tries' > 0 THEN 1 ELSE 0)
    BY DEF Sent
  <2>4. Sent' \in Nat
    <3>1. \A a, b \in Nat : a + (IF b > 0 THEN 1 ELSE 0) \in Nat
      OBVIOUS
    <3> QED BY <2>1, <2>2, <2>3, <3>1
  <2> QED BY <2>4, TriesType
<1>3. Sent <= Sent'
  <2>1. CASE Publish
    <3>1. Tries' = Tries + 1 /\ UNCHANGED Finished
      BY <2>1, TriesStep DEF Finished
    <3> QED BY <1>2, <3>1 DEF Sent
  <2>2. CASE Decide
    <3>1. Tries > 0 /\ Tries' = 0
      BY <2>2, TriesStep
    <3>2. Finished' = Finished + 1
      BY <2>2, PlacesStep DEF Pop, Decide
    <3> QED BY <1>2, <3>1, <3>2 DEF Sent
  <2>3. CASE ~Publish /\ ~Decide
    <3>1. UNCHANGED <<Tries, Finished>>
      BY <2>3, TriesStep DEF Finished
    <3> QED BY <1>2, <3>1 DEF Sent
  <2> QED BY <2>1, <2>2, <2>3
<1>4. ASSUME NEW d \in Dests, NEW k \in 1 .. Len(air[d]) PROVE air[d][k].msg \in Nat
  <2>1. air[d][k] \in Frame
    BY <1>1
  <2> QED BY <2>1 DEF Frame, Msgs
<1>5. \A d \in Dests : Within(air[d], Sent')
  BY <1>1, <1>2, <1>3, <1>4
<1>6. SUFFICES \A d \in Dests : Within(air'[d], Sent')
  BY DEF AirWithinSent
<1>7. CASE UNCHANGED air
  BY <1>5, <1>7
<1>8. ASSUME NEW d \in Dests, air[d] # <<>>, air' = [air EXCEPT ![d] = Tail(@)]
      PROVE  \A e \in Dests : Within(air'[e], Sent')
  <2>1. Within(Tail(air[d]), Sent')
    BY <1>1, <1>5, <1>8, TailElements
  <2>2. \A e \in Dests : air'[e] = IF e = d THEN Tail(air[d]) ELSE air[e]
    BY <1>1, <1>8
  <2> QED BY <1>5, <2>1, <2>2
<1>9. CASE Publish
  <2>1. /\ pc = "publish"
        /\ air' = air \/ air' = [air EXCEPT ![toSend.dest] = Append(@, toSend)]
    BY <1>9, Zenon DEF Publish
  <2>2. toSend \in Frame /\ toSend.dest \in Dests /\ toSend.msg = Finished + 1
    BY <2>1 DEF TypeOK, Holding, Frame, InOrder, QueueInOrder, InHand
  <2>3. Sent' = Finished + 1
    <3>1. Tries' = Tries + 1 /\ UNCHANGED Finished
      BY <1>9, TriesStep DEF Finished
    <3> QED BY <1>2, <3>1 DEF Sent
  <2>4. Within(Append(air[toSend.dest], toSend), Sent')
    <3>1. toSend.msg <= Sent'
      BY <1>2, <2>2, <2>3
    <3> QED BY <1>1, <1>5, <2>2, <3>1, AppendElements
  <2>5. CASE air' = [air EXCEPT ![toSend.dest] = Append(@, toSend)]
    <3>1. \A d \in Dests : air'[d] = IF d = toSend.dest THEN Append(air[d], toSend) ELSE air[d]
      BY <1>1, <2>2, <2>5
    <3> QED BY <1>5, <2>4, <3>1
  <2> QED BY <1>7, <2>1, <2>5
<1>10. CASE Radio
  <2>1. ASSUME NEW d \in Dests, UnpackData(d) \/ LoseFrame(d) \/ WrongReceiver(d)
        PROVE  \A e \in Dests : Within(air'[e], Sent')
    BY <1>8, <2>1 DEF UnpackData, LoseFrame, WrongReceiver
  <2>2. ASSUME NEW p \in Peers, LoseAck(p) PROVE UNCHANGED air
    BY <2>2 DEF LoseAck
  <2> QED BY <1>7, <1>10, <2>1, <2>2, PeersAssumption DEF Radio
<1> HIDE DEF Within
<1> QED
  BY <1>7, <1>9, <1>10
  DEF Next, Application, AckHandler, Sender, Pack, Eof, UnpackAck, StopStore, StopNotify, AckInc,
      Reset, Pop, BeginWait, WaitEnds, Loop, Decide, TimeoutInc, network, vars

LEMMA PromiseInit == Init => Promise!Init
BY DEF Init, Promise!Init, Tries

LEMMA PromiseStep ==
    ASSUME TypeOK, TryInRange, InOrder, AirWithinSent, Trusty => TrustInv, [Next]_vars
    PROVE  [Promise!Next]_Promise!vars
<1>1. Finished \in Nat /\ Tries \in Nat /\ accepted \in Nat /\ Promise!Current = Finished + 1
  BY TriesType DEF TypeOK, Promise!Current, Finished
<1>2. accepted >= Finished + InHand /\ (InHand = 1 => toSend.msg = Finished + 1)
  <2>1. Len(queue) \in Nat /\ InHand \in {0, 1}
    BY DEF TypeOK, InHand
  <2> QED BY <1>1, <2>1 DEF InOrder, QueueInOrder
<1>3. CASE Publish
  <2>1. Promise!Transmit
    BY <1>1, <1>2, <1>3, TriesStep DEF Promise!Transmit
  <2> QED BY <2>1 DEF Promise!Next
<1>4. CASE Decide
  <2>1. /\ InHand = 1 /\ Tries > 0 /\ Tries' = 0 /\ (~stop => Tries = Retxs + 1)
        /\ UNCHANGED <<accepted, delivered>>
    BY <1>4, TriesStep
  <2>2. /\ \/ stop /\ outcome' = Append(outcome, "stopped")
           \/ ~stop /\ outcome' = Append(outcome, "timeout")
        /\ pc = "decide"
    BY <1>4, Zenon DEF Decide
  <2>3. CASE stop /\ outcome' = Append(outcome, "stopped")
    <3>1. Trusty => Promise!Current \in delivered
      BY <1>1, <1>2, <2>1, <2>2, <2>3 DEF TrustInv, StopForHand
    <3>2. Promise!Confirm
      BY <2>1, <2>3, <3>1 DEF Promise!Confirm
    <3> QED BY <3>2 DEF Promise!Next
  <2>4. CASE ~stop /\ outcome' = Append(outcome, "timeout")
    <3>1. Promise!GiveUp
      BY <2>1, <2>4 DEF Promise!GiveUp
    <3> QED BY <3>1 DEF Promise!Next
  <2> QED BY <2>2, <2>3, <2>4
<1>5. ASSUME UNCHANGED <<Tries, outcome>>, UNCHANGED <<accepted, delivered>>
      PROVE  [Promise!Next]_Promise!vars
  BY <1>5 DEF Promise!vars
<1>6. ASSUME ~Publish, ~Decide PROVE UNCHANGED <<Tries, outcome>>
  BY <1>6, TriesStep
<1>7. ASSUME NEW d \in Dests, Pack(d), UNCHANGED <<Tries, outcome>> PROVE [Promise!Next]_Promise!vars
  <2>1. Promise!Accept
    BY <1>7 DEF Pack, network, Promise!Accept
  <2> QED BY <2>1 DEF Promise!Next
<1>8. ASSUME NEW p \in Peers, UnpackData(p), UNCHANGED <<Tries, outcome>> PROVE [Promise!Next]_Promise!vars
  <2> DEFINE m == Head(air[p]).msg
  <2>1. p \in Dests /\ air[p] \in Seq(Frame) /\ air[p] # <<>>
        /\ delivered' = delivered \cup {m} /\ UNCHANGED accepted
    BY <1>8, PeersAssumption DEF UnpackData, TypeOK, conn
  <2>2. Head(air[p]) = air[p][1] /\ 1 \in 1 .. Len(air[p]) /\ air[p][1] \in Frame
    BY <2>1
  <2>3. m <= Sent /\ m \in Nat \ {0}
    BY <2>1, <2>2 DEF AirWithinSent, Frame, Msgs
  <2> HIDE DEF m
  <2>4. m \in 1 .. accepted
    <3>1. InHand \in {0, 1} /\ (Tries > 0 => InHand = 1)
      BY TriesType DEF InHand
    <3>2. Sent <= Finished + InHand /\ Sent \in Nat
      BY <1>1, <3>1 DEF Sent
    <3> QED BY <1>1, <1>2, <2>3, <3>1, <3>2
  <2>5. Promise!Deliver(m)
    BY <1>1, <1>8, <2>1, <2>3 DEF Sent, Promise!Deliver
  <2> QED BY <2>4, <2>5 DEF Promise!Next
<1>9. ASSUME \/ Eof \/ AckHandler \/ Reset \/ Pop \/ BeginWait \/ WaitEnds \/ Loop \/ TimeoutInc
             \/ (\E p \in Peers : LoseFrame(p) \/ LoseAck(p))
             \/ (\E d \in Dests : WrongReceiver(d)) \/ UNCHANGED vars
      PROVE  UNCHANGED <<accepted, delivered>>
  BY <1>9 DEF Eof, AckHandler, UnpackAck, StopStore, StopNotify, AckInc, Reset, Pop, BeginWait,
      WaitEnds, Loop, TimeoutInc, LoseFrame, LoseAck, WrongReceiver, conn, network, vars
<1> QED
  BY <1>3, <1>4, <1>5, <1>6, <1>7, <1>8, <1>9 DEF Next, Application, Sender, Radio

\* Whatever the timing, the connection sends in order, one message at a time and
\* at most Retxs + 1 times, and gives up only after all of them; in the trusty
\* regimes a confirmed message has been delivered.
THEOREM KeepsPromiseHolds == Spec => KeepsPromise
<1> DEFINE Inv == TypeOK /\ TryInRange /\ InOrder /\ AirWithinSent /\ (Trusty => TrustInv)
<1>1. Init => Inv /\ Promise!Init
  <2> SUFFICES ASSUME Init PROVE AirWithinSent
    BY TypeInit, OrderInit, TrustInit, PromiseInit
  <2>1. \A d \in Dests : Len(air[d]) = 0
    BY DEF Init, NoAir
  <2> QED BY <2>1 DEF AirWithinSent
<1>2. Inv /\ [Next]_vars => Inv'
  BY TypeStep, QueueOrderStep, UnderWayStep, AirStep, TrustStep DEF InOrder
<1>3. Inv /\ [Next]_vars => [Promise!Next]_Promise!vars
  BY PromiseStep
<1> QED BY <1>1, <1>2, <1>3, PTL DEF Spec, KeepsPromise, Promise!Spec
===============================================================================
