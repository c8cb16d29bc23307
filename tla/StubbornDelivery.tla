--------------------------- MODULE StubbornDelivery ---------------------------
(***************************************************************************)
(* What a "reliable unicast" connection promises its application: messages *)
(* are sent in the order they were handed over, one at a time, each one    *)
(* transmitted at least once and at most MaxTries times; a message leaves  *)
(* the connection confirmed or given up, and it is given up only after     *)
(* MaxTries transmissions.  With Honest, a confirmed message has reached   *)
(* its destination.                                                        *)
(***************************************************************************)
EXTENDS Naturals, Sequences

CONSTANTS MaxTries,   \* transmissions of one message: the first and the retries
          Honest      \* TRUE: a confirmation means the message was delivered

VARIABLES accepted,   \* messages handed over so far; they are numbered 1, 2, ...
          tries,      \* transmissions of message Len(outcome) + 1
          outcome,    \* what became of messages 1 .. Len(outcome)
          delivered   \* messages some peer has received

vars == <<accepted, tries, outcome, delivered>>

Current == Len(outcome) + 1

Init == accepted = 0 /\ tries = 0 /\ outcome = <<>> /\ delivered = {}

Accept == accepted' = accepted + 1 /\ UNCHANGED <<tries, outcome, delivered>>

Transmit ==
    /\ Current <= accepted /\ tries < MaxTries
    /\ tries' = tries + 1
    /\ UNCHANGED <<accepted, outcome, delivered>>

\* A copy may arrive late, when its message has been confirmed or given up.
Deliver(m) ==
    /\ m < Current \/ (m = Current /\ tries > 0)
    /\ delivered' = delivered \cup {m}
    /\ UNCHANGED <<accepted, tries, outcome>>

Confirm ==
    /\ tries > 0
    /\ Honest => Current \in delivered
    /\ outcome' = Append(outcome, "stopped")
    /\ tries' = 0
    /\ UNCHANGED <<accepted, delivered>>

GiveUp ==
    /\ tries = MaxTries
    /\ outcome' = Append(outcome, "timeout")
    /\ tries' = 0
    /\ UNCHANGED <<accepted, delivered>>

Next == Accept \/ Transmit \/ (\E m \in 1 .. accepted : Deliver(m)) \/ Confirm \/ GiveUp

Spec == Init /\ [][Next]_vars
===============================================================================
