------------------------------- MODULE Runicast -------------------------------
(***************************************************************************)
(* The sending half of a runicast ("reliable unicast") connection:         *)
(* lib/ruc_connection.cc, lib/stubborn_sender.cc, and the stateless        *)
(* data half of the peers' ruc_connection::unpack.                         *)
(*                                                                         *)
(* Two threads share the connection.  The GNU Radio thread of the          *)
(* rime_stack block runs the handlers pack and unpack one after the other; *)
(* the detached thread of the stubborn_sender runs thread_func.  Each step *)
(* below is one access to what they share: d_stop, d_recv_seqno, the       *)
(* queue, the condition variable d_ack_received.                           *)
(***************************************************************************)
EXTENDS Integers, Sequences, FiniteSets

CONSTANTS
    Dests,        \* rime addresses an application may name
    Peers,        \* those that belong to a stack in range
    SeqMod,       \* 1 << seqno_bits
    Retxs,        \* d_retxs, the retries after the first transmission
    Timing,       \* when the timer expires and how the two threads interleave
    MaxMsgs,      \* bound: messages handed over by the application
    MaxInFlight,  \* bound: frames and acks under way when a frame is published
    MaxLost       \* bound: frames and acks lost by the radio

(* "any":   no assumption.                                                  *)
(* "quiet": the 1 s timer expires only when no frame, ack or handler of the *)
(*          connection is under way; the threads interleave freely.         *)
(* "late":  acks may come after the timer; the few instructions with which  *)
(*          the sender leaves a message and those with which the handler    *)
(*          takes an ack do not overlap.                                    *)
Timings == {"any", "quiet", "late"}

ASSUME SeqModAssumption == SeqMod \in Nat \ {0}
ASSUME BoundsAssumption == /\ Retxs \in Nat
                           /\ MaxMsgs \in Nat
                           /\ MaxInFlight \in Nat
                           /\ MaxLost \in Nat
ASSUME TimingAssumption == Timing \in Timings
ASSUME PeersAssumption  == Peers \subseteq Dests

VARIABLES
    sendSeqno,  \* d_send_seqno
    recvSeqno,  \* d_recv_seqno, the seqno the next ack should carry
    open,       \* FALSE once PMT_EOF has stopped the stack and the MAC
    queue,      \* d_msg_queue
    stop,       \* d_stop
    pc,         \* where thread_func stands
    toSend,     \* its local to_send
    try,        \* its local i
    hpc,        \* where unpack stands in the handling of an ack
    ackMsg,     \* history: the message that ack was for
    air,        \* data frames on their way to each destination
    acks,       \* acks on their way back
    accepted,   \* history: messages taken by pack, numbered 1, 2, ...
    delivered,  \* history: messages some peer has passed to its application
    acked,      \* history: messages whose ack unpack took for a fresh one
    outcome,    \* history: "stopped" or "timeout" for messages 1, 2, ...
    incs,       \* history: calls of inc_recv_seqno
    lost        \* history: frames and acks that led to nothing

conn    == <<sendSeqno, open, queue, accepted>>
thread  == <<pc, toSend, try, outcome>>
handler == <<hpc, ackMsg, acked>>
network == <<air, acks, delivered, lost>>
seqnos  == <<recvSeqno, incs>>
vars    == <<conn, thread, handler, network, seqnos, stop>>

-------------------------------------------------------------------------------
Msgs  == 1 .. MaxMsgs
Seqno == 0 .. (SeqMod - 1)
Frame == [msg : Msgs, seqno : Seqno, dest : Dests]
Ack   == [msg : Msgs, seqno : Seqno]

SeqnoWithoutWrap(s) == s + 1  \* mutant: the modulus is left out
NextSeqno(s) == (s + 1) % SeqMod
SeqnoOf(m)   == (m - 1) % SeqMod
NoAir        == [d \in Dests |-> <<>>]
NoAcks       == [p \in Peers |-> <<>>]

\* to_send before the first message: never read.
NoFrame == [msg |-> 0, seqno |-> 0, dest |-> CHOOSE d \in Dests : TRUE]

\* What the path to d and back holds.
InFlight(d) == Len(air[d]) + (IF d \in Peers THEN Len(acks[d]) ELSE 0)
Quiet       == air = NoAir /\ acks = NoAcks /\ hpc = "idle"

\* The states in which thread_func decides what became of a message.
Deciding == {"loop", "decide", "inc", "reset"}
\* The states in which it holds a message it has not yet decided about.
Holding  == {"publish", "lock", "wait", "loop", "decide"}
Sending  == {"publish", "lock", "wait"}

Finished == Len(outcome)
InHand   == IF pc \in Holding THEN 1 ELSE 0

Init ==
    /\ sendSeqno = 0 /\ recvSeqno = 0
    /\ open = TRUE
    /\ queue = <<>> /\ stop = FALSE
    /\ pc = "reset" /\ try = 0
    /\ toSend = NoFrame
    /\ hpc = "idle" /\ ackMsg = 0
    /\ air = NoAir /\ acks = NoAcks
    /\ accepted = 0 /\ delivered = {} /\ acked = {} /\ outcome = <<>>
    /\ incs = 0 /\ lost = 0

-------------------------------------------------------------------------------
(* The block thread: pack, and the ack half of unpack.                     *)

\* Mutant of Pack: d_send_seqno is not incremented.
PackKeepsSeqno(d) ==
    /\ open /\ hpc = "idle" /\ accepted < MaxMsgs
    /\ queue' = Append(queue, [msg |-> accepted + 1, seqno |-> sendSeqno, dest |-> d])
    /\ accepted' = accepted + 1
    /\ UNCHANGED <<sendSeqno, open, thread, handler, network, seqnos, stop>>

\* pack: a message for d with the current seqno goes into the queue.  An
\* address that does not parse leaves everything unchanged.
Pack(d) ==
    /\ open /\ hpc = "idle" /\ accepted < MaxMsgs
    /\ queue' = Append(queue, [msg |-> accepted + 1, seqno |-> sendSeqno, dest |-> d])
    /\ sendSeqno' = NextSeqno(sendSeqno)
    /\ accepted' = accepted + 1
    /\ UNCHANGED <<open, thread, handler, network, seqnos, stop>>

\* pack of PMT_EOF: the MAC takes the EOF and ends behind the frames already
\* published; the stack's own handlers never run again, the sender's thread
\* goes on with what is queued.
Eof ==
    /\ open /\ hpc = "idle"
    /\ open' = FALSE
    /\ UNCHANGED <<sendSeqno, queue, accepted, thread, handler, network, seqnos, stop>>

KeepRecvSeqno == UNCHANGED seqnos  \* mutant: the increment is forgotten
IncRecvSeqno ==
    /\ recvSeqno' = NextSeqno(recvSeqno)
    /\ incs' = incs + 1

\* The test on an ack: its seqno against recv_seqno().  Which peer sent it is
\* not compared with anything.
AnyAck(a)      == TRUE  \* mutant: the test is left out
ExpectedAck(a) == a.seqno = recvSeqno

\* unpack of an ack: ignored unless it has the expected seqno.
UnpackAck(p) ==
    /\ open /\ hpc = "idle" /\ acks[p] # <<>>
    /\ Timing = "late" => pc \notin Deciding
    /\ acks' = [acks EXCEPT ![p] = Tail(@)]
    /\ IF ExpectedAck(Head(acks[p]))
          THEN /\ hpc' = "store"
               /\ ackMsg' = Head(acks[p]).msg
               /\ acked' = acked \cup {Head(acks[p]).msg}
          ELSE UNCHANGED handler
    /\ UNCHANGED <<conn, thread, air, delivered, lost, seqnos, stop>>

\* stop(): d_stop.store(true), then notify_one without the mutex, which only
\* a thread that is already waiting hears.
StopStore ==
    /\ hpc = "store" /\ hpc' = "notify"
    /\ stop' = TRUE
    /\ UNCHANGED <<conn, thread, ackMsg, acked, network, seqnos>>

StopNotify ==
    /\ hpc = "notify" /\ hpc' = "inc"
    /\ pc' = IF pc = "wait" THEN "loop" ELSE pc
    /\ UNCHANGED <<conn, toSend, try, outcome, ackMsg, acked, network, seqnos, stop>>

\* unpack after stop(): the next ack should carry the next seqno.
AckInc ==
    /\ hpc = "inc" /\ hpc' = "idle"
    /\ IncRecvSeqno
    /\ UNCHANGED <<conn, thread, ackMsg, acked, network, stop>>

-------------------------------------------------------------------------------
(* thread_func of the stubborn sender.                                     *)

MayDecide == Timing = "late" => hpc = "idle"

\* Mutant of Reset: d_stop.store(false) is left out.
ResetKeepsStop ==
    /\ pc = "reset" /\ pc' = "pop"
    /\ MayDecide
    /\ UNCHANGED <<conn, toSend, try, outcome, handler, network, seqnos, stop>>

\* d_stop.store(false) for the next message.
Reset ==
    /\ pc = "reset" /\ pc' = "pop"
    /\ MayDecide
    /\ stop' = FALSE
    /\ UNCHANGED <<conn, toSend, try, outcome, handler, network, seqnos>>

\* queue_pop(): waits in a loop on the queue's condition, under the mutex.
Pop ==
    /\ pc = "pop" /\ pc' = "publish"
    /\ queue # <<>>
    /\ toSend' = Head(queue) /\ queue' = Tail(queue)
    /\ try' = 0
    /\ UNCHANGED <<sendSeqno, open, accepted, outcome, handler, network, seqnos, stop>>

\* message_port_pub of the frame; behind an EOF the MAC is gone.
Publish ==
    /\ pc = "publish" /\ pc' = "lock"
    /\ IF open
          THEN /\ InFlight(toSend.dest) < MaxInFlight
               /\ air' = [air EXCEPT ![toSend.dest] = Append(@, toSend)]
               /\ UNCHANGED lost
          ELSE lost' = lost + 1 /\ UNCHANGED air
    /\ UNCHANGED <<conn, toSend, try, outcome, handler, acks, delivered, seqnos, stop>>

\* From here on the thread hears d_ack_received.
BeginWait ==
    /\ pc = "lock" /\ pc' = "wait"
    /\ UNCHANGED <<conn, toSend, try, outcome, handler, network, seqnos, stop>>

\* Mutant of WaitEnds: wait instead of timed_wait.
WaitForever == FALSE

\* timed_wait returns without a notification: the time is over (or the wait
\* ended spuriously, which the code does not tell apart).
WaitEnds ==
    /\ pc = "wait" /\ pc' = "loop"
    /\ Timing = "quiet" => Quiet
    /\ UNCHANGED <<conn, toSend, try, outcome, handler, network, seqnos, stop>>

\* The condition of the do loop: i++ < d_retxs && !d_stop.
OneRetryMore == try <= Retxs /\ ~stop     \* mutant: <= for <
OneRetryLess == try + 1 < Retxs /\ ~stop  \* mutant: ++i for i++
MayRetry     == try < Retxs /\ ~stop

Loop ==
    /\ pc = "loop"
    /\ MayDecide
    /\ pc' = IF MayRetry THEN "publish" ELSE "decide"
    /\ try' = try + 1
    /\ UNCHANGED <<conn, toSend, outcome, handler, network, seqnos, stop>>

\* if(!d_stop): "timeout" and inc_recv_seqno() next, otherwise "stopped".
Decide ==
    /\ pc = "decide"
    /\ MayDecide
    /\ \/ stop /\ pc' = "reset" /\ outcome' = Append(outcome, "stopped")
       \/ ~stop /\ pc' = "inc" /\ outcome' = Append(outcome, "timeout")
    /\ UNCHANGED <<conn, toSend, try, handler, network, seqnos, stop>>

TimeoutInc ==
    /\ pc = "inc" /\ pc' = "reset"
    /\ MayDecide
    /\ IncRecvSeqno
    /\ UNCHANGED <<conn, toSend, try, outcome, handler, network, stop>>

-------------------------------------------------------------------------------
(* The peers and the radio.                                                *)

\* unpack of a data frame at its destination: the payload goes to the
\* application, also when it came before, and an ack with its seqno goes back.
UnpackData(p) ==
    /\ air[p] # <<>>
    /\ LET f == Head(air[p]) IN
         /\ air' = [air EXCEPT ![p] = Tail(@)]
         /\ delivered' = delivered \cup {f.msg}
         /\ acks' = [acks EXCEPT ![p] = Append(@, [msg |-> f.msg, seqno |-> f.seqno])]
    /\ UNCHANGED <<conn, thread, handler, lost, seqnos, stop>>

\* No stack in range has the address: every one discards the frame.
WrongReceiver(d) ==
    /\ air[d] # <<>>
    /\ air' = [air EXCEPT ![d] = Tail(@)]
    /\ lost' = lost + 1
    /\ UNCHANGED <<conn, thread, handler, acks, delivered, seqnos, stop>>

LoseFrame(p) ==
    /\ air[p] # <<>> /\ lost < MaxLost
    /\ air' = [air EXCEPT ![p] = Tail(@)]
    /\ lost' = lost + 1
    /\ UNCHANGED <<conn, thread, handler, acks, delivered, seqnos, stop>>

\* Lost by the radio, or behind the EOF where no handler takes it.
LoseAck(p) ==
    /\ acks[p] # <<>> /\ (lost < MaxLost \/ ~open)
    /\ acks' = [acks EXCEPT ![p] = Tail(@)]
    /\ lost' = lost + 1
    /\ UNCHANGED <<conn, thread, handler, air, delivered, seqnos, stop>>

-------------------------------------------------------------------------------
Application == Eof \/ \E d \in Dests : Pack(d)
AckHandler  == (\E p \in Peers : UnpackAck(p)) \/ StopStore \/ StopNotify \/ AckInc
Sender      == Reset \/ Pop \/ Publish \/ BeginWait \/ WaitEnds \/ Loop \/ Decide \/ TimeoutInc
Radio       == \/ \E p \in Peers : UnpackData(p) \/ LoseFrame(p) \/ LoseAck(p)
               \/ \E d \in Dests \ Peers : WrongReceiver(d)

Next == Application \/ AckHandler \/ Sender \/ Radio

Spec == Init /\ [][Next]_vars

\* The operating system runs both threads, the timer of timed_wait expires,
\* and a frame under way arrives or is lost.  The application owes nothing.
Fairness ==
    /\ WF_vars(Sender)
    /\ WF_vars(AckHandler)
    /\ \A d \in Dests : WF_vars(IF d \in Peers THEN UnpackData(d) \/ LoseFrame(d)
                                               ELSE WrongReceiver(d))
    /\ \A p \in Peers : WF_vars(~open /\ LoseAck(p))

FairSpec == Spec /\ Fairness
-------------------------------------------------------------------------------
(* Properties.                                                             *)

\* Every variable keeps its type; the seqnos stay below 1 << seqno_bits, as
\* pack asserts of d_send_seqno.
TypeOK ==
    /\ sendSeqno \in Seqno /\ recvSeqno \in Seqno
    /\ open \in BOOLEAN /\ stop \in BOOLEAN
    /\ queue \in Seq(Frame)
    /\ pc \in {"reset", "pop", "publish", "lock", "wait", "loop", "decide", "inc"}
    /\ toSend \in Frame \cup {NoFrame} /\ (pc \in Holding => toSend \in Frame)
    /\ try \in 0 .. (Retxs + 1)
    /\ hpc \in {"idle", "store", "notify", "inc"}
    /\ ackMsg \in Msgs \cup {0}
    /\ air \in [Dests -> Seq(Frame)] /\ acks \in [Peers -> Seq(Ack)]
    /\ accepted \in 0 .. MaxMsgs
    /\ delivered \subseteq Msgs /\ acked \subseteq Msgs
    /\ outcome \in Seq({"stopped", "timeout"})
    /\ incs \in Nat /\ lost \in Nat

\* Messages leave in the order pack took them and each keeps the seqno of its
\* place, whatever the two threads do: the finished messages, the one in hand
\* and those queued are consecutive, and frames and acks under way belong to
\* finished messages or to the one in hand.
QueueInOrder ==
    /\ accepted = Finished + InHand + Len(queue)
    /\ sendSeqno = SeqnoOf(accepted + 1)
    /\ \A k \in 1 .. Len(queue) : queue[k].msg = Finished + InHand + k
    /\ \A k \in 1 .. Len(queue) : queue[k].seqno = SeqnoOf(queue[k].msg)
    /\ InHand = 1 => toSend.msg = Finished + 1 /\ toSend.seqno = SeqnoOf(Finished + 1)

UnderWayInOrder ==
    /\ \A d \in Dests : \A k \in 1 .. Len(air[d]) :
          /\ air[d][k].msg <= Finished + InHand
          /\ air[d][k].seqno = SeqnoOf(air[d][k].msg)
    /\ \A p \in Peers : \A k \in 1 .. Len(acks[p]) :
          /\ acks[p][k].msg \in delivered
          /\ acks[p][k].seqno = SeqnoOf(acks[p][k].msg)

InOrder == QueueInOrder /\ UnderWayInOrder

\* Steps towards the expected seqno made or promised: incremented, about to
\* be by unpack after stop(), about to be by the sender after a timeout.
Credit == incs + (IF hpc \in {"notify", "inc"} THEN 1 ELSE 0)
               + (IF pc = "inc" THEN 1 ELSE 0)

\* Messages done with, counting the one in hand once stop() was called for it.
Done == Finished + (IF stop /\ pc \notin {"inc", "reset"} THEN 1 ELSE 0)

\* The expected seqno never falls behind the messages done with, whatever the
\* timing: an ack is never refused because inc_recv_seqno was not called.
NeverLags == recvSeqno = incs % SeqMod /\ Done <= Credit

\* The expected seqno is the one of the first message not done with: every
\* message moves it once, by the ack or by the timeout.
NoDrift == recvSeqno = incs % SeqMod /\ Credit = Done

\* A message the sender counts as acknowledged ("stopped") was received by
\* its destination: what makes the unicast channel reliable.
NoFalseAck == \A m \in 1 .. Finished : outcome[m] = "stopped" => m \in delivered

\* A message is given up only when each of its Retxs + 1 transmissions, or the
\* ack to it, was lost: the losses pay for every timeout.
TimeoutsPaidByLosses ==
    (Retxs + 1) * Cardinality({m \in 1 .. Finished : outcome[m] = "timeout"}) <= lost

\* unpack ignores an ack only as a duplicate ("ignore duplicate packets"): its
\* message was acknowledged before or is no longer waited for.
IgnoredAcksAreDuplicates ==
    [][\A p \in Peers : UnpackAck(p) /\ hpc' = "idle" =>
          Head(acks[p]).msg \in acked \cup 1 .. Finished]_vars

\* Every message the application hands over is decided about: no lost
\* notification, lost ack or refused ack blocks the sender's thread.
EveryMessageFinishes == \A m \in Msgs : accepted >= m ~> Finished >= m

-------------------------------------------------------------------------------
(* Refinement: the connection implements StubbornDelivery.  Confirmations  *)
(* are honest when the timer never expires early, or when the threads do   *)
(* not overlap and an ack is never so old that the seqnos wrapped.         *)
Trusty == Timing = "quiet" \/ (Timing = "late" /\ MaxMsgs < SeqMod)

Tries == CASE pc \in {"lock", "wait", "loop"} -> try + 1
           [] pc \in {"publish", "decide"}    -> try
           [] OTHER                           -> 0

Promise == INSTANCE StubbornDelivery
             WITH MaxTries <- Retxs + 1, Honest <- Trusty, tries <- Tries

\* The connection sends in order, one message at a time, Retxs + 1 times at
\* most, and gives up only after all of them.
KeepsPromise == Promise!Spec
===============================================================================
