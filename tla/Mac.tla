--------------------------------- MODULE Mac ----------------------------------
(***************************************************************************)
(* The MAC block, lib/mac.cc: app_in turns a payload into a frame, mac_in  *)
(* passes the payload of a received frame up and counts it in a file that  *)
(* the link driver polls.  GNU Radio runs the two handlers one after the   *)
(* other; the file's readers see the moment between fopen and fclose.      *)
(*                                                                         *)
(* The actions leave what surrounds the block to Link, which uses them;    *)
(* MacSpec lets any frame arrive at any time, and Link implements it.      *)
(***************************************************************************)
EXTENDS Integers, Sequences, FiniteSets

CONSTANTS
    IsSender,    \* d_is_sender: the direction this block serves
    SeqMod       \* 256, the values of the uint8_t d_seq_nr

ASSUME MacAssumption == IsSender \in BOOLEAN /\ SeqMod \in Nat \ {0}

\* Bytes 9 to 14 of a frame: station 2 ("29:43:...", where the direction
\* is_sender leads), station 1 ("cd:ab:..."), or neither.
Addresses == {"station2", "station1", "other"}

VARIABLES
    seqNr,       \* d_seq_nr
    received,    \* d_num_packets_received
    errors,      \* d_num_packet_errors
    ackNum,      \* ack_num, and the file acknum
    count,       \* seq1_num if is_sender, else seq2_num
    countFile,   \* the file seq_1 or seq_2
    results,     \* the file mrz, one entry per accepted frame
    up,          \* history: the frames whose payload went to "app out"
    macPc,       \* where mac_in stands
    done         \* set_done(true) was called

macVars == <<seqNr, received, errors, ackNum, count, countFile, results, up, macPc, done>>

-------------------------------------------------------------------------------
\* A frame: its destination, its number, whether its crc comes out right and
\* whether it has the 17 bytes of header and crc.
MacFrame == [to : Addresses, seq : 0 .. (SeqMod - 1), ok : BOOLEAN, long : BOOLEAN]

Empty == -1  \* the content of a file just truncated: no number
NrWithoutWrap(n) == n + 1  \* mutant: more than a byte
NextNr(n) == (n + 1) % SeqMod

\* What generate_mac makes of the next payload.
Generated == [to |-> IF IsSender THEN "station2" ELSE "station1",
              seq |-> seqNr, ok |-> TRUE, long |-> TRUE]

\* The frames mac_in takes: of its own direction.
Accepted(f) == f.long /\ f.to = IF IsSender THEN "station2" ELSE "station1"

\* The driver writes "0" to the files before the block starts.
MacInit ==
    /\ seqNr = 0 /\ received = 0 /\ errors = 0 /\ ackNum = 0
    /\ count = 0 /\ countFile = 0
    /\ results = <<>> /\ up = <<>>
    /\ macPc = "idle" /\ done = FALSE

\* app_in: a payload becomes the frame Generated, published on "pdu out".
AppIn ==
    /\ ~done /\ macPc = "idle"
    /\ seqNr' = NextNr(seqNr)
    /\ UNCHANGED <<received, errors, ackNum, count, countFile, results, up, macPc, done>>

\* app_in of PMT_EOF.
AppEof ==
    /\ ~done /\ macPc = "idle"
    /\ done' = TRUE
    /\ UNCHANGED <<seqNr, received, errors, ackNum, count, countFile, results, up, macPc>>

\* mac_in: too short, or for somebody else: dropped.
MacDrop(f) ==
    /\ ~done /\ macPc = "idle"
    /\ ~Accepted(f)
    /\ UNCHANGED macVars

\* mac_in of an accepted frame, up to the loop that opens the file.  A wrong
\* crc is counted and saved, and the payload goes up all the same: the return
\* is commented out.
MacIn(f) ==
    /\ ~done /\ macPc = "idle"
    /\ Accepted(f)
    /\ received' = received + 1
    /\ errors' = IF f.ok THEN errors ELSE errors + 1
    /\ results' = Append(results, f.ok)
    /\ up' = Append(up, f)
    /\ ackNum' = IF IsSender THEN ackNum + 1 ELSE ackNum
    /\ count' = count + 1
    /\ macPc' = "open"
    /\ UNCHANGED <<seqNr, countFile, done>>

\* fopen(.., "w+") truncates the file; when it fails the loop tries again.
OpenCount ==
    /\ macPc = "open" /\ macPc' = "write"
    /\ countFile' = Empty
    /\ UNCHANGED <<seqNr, received, errors, ackNum, count, results, up, done>>

\* fprintf and fclose: the number is in the file when fclose flushes it.
StaleCount == count - 1  \* mutant: the number is printed before it is incremented
CountText  == count

WriteCount ==
    /\ macPc = "write" /\ macPc' = "idle"
    /\ countFile' = CountText
    /\ UNCHANGED <<seqNr, received, errors, ackNum, count, results, up, done>>

-------------------------------------------------------------------------------
MacNext ==
    \/ AppIn
    \/ AppEof
    \/ \E f \in MacFrame : MacIn(f) \/ MacDrop(f)
    \/ OpenCount
    \/ WriteCount

MacSpec == MacInit /\ [][MacNext]_macVars

-------------------------------------------------------------------------------
\* Every variable keeps its type; d_seq_nr stays in its byte.
MacTypeOK ==
    /\ seqNr \in 0 .. (SeqMod - 1)
    /\ received \in Nat /\ errors \in Nat /\ ackNum \in Nat /\ count \in Nat
    /\ countFile \in Nat \cup {Empty}
    /\ results \in Seq(BOOLEAN)
    /\ up \in Seq(MacFrame)
    /\ macPc \in {"idle", "open", "write"}
    /\ done \in BOOLEAN

\* The books agree whenever the handler is not at work on the file, also when
\* an EOF comes in between: the counters, the result file behind the packet
\* error ratio, the number the driver reads and what the application got.
BooksBalance ==
    /\ received = Len(up) /\ received = Len(results)
    /\ errors = Cardinality({i \in 1 .. Len(up) : ~up[i].ok})
    /\ \A i \in 1 .. Len(up) : results[i] = up[i].ok
    /\ count = received /\ ackNum = (IF IsSender THEN received ELSE 0)
    /\ macPc = "idle" => countFile = count
===============================================================================
