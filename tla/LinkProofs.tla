------------------------------ MODULE LinkProofs ------------------------------
(***************************************************************************)
(* Proofs about Link, for every K, every width of d_seq_nr and any number  *)
(* of packets.                                                             *)
(***************************************************************************)
EXTENDS Link, FiniteSetTheorems, TLAPS

\* Nothing is sent, received or lost before the first start.
NothingBeforeFirst == isFirst = 1 => pacNum = 0 /\ resent = 0 /\ prevSeq = 0

LinkInv ==
    /\ LinkTypeOK /\ MacTypeOK
    /\ ReadsRunBehind /\ NothingBeforeFirst /\ OneReceptionOnePacket

\* With Prompt every packet but the first has its reception or its loss.
Paired    == isFirst = 0 => pacNum = 1 + prevSeq + resent
PromptInv == Paired /\ OneOutstanding /\ RetransmissionsPaid

-------------------------------------------------------------------------------
LEMMA HeadOfAir == ASSUME LinkTypeOK, air # <<>>
                   PROVE  /\ Head(air) \in MacFrame /\ Tail(air) \in Seq(MacFrame)
                          /\ Len(air) \in Nat /\ Len(Tail(air)) = Len(air) - 1
BY DEF LinkTypeOK

\* The link uses the MAC through the MAC's own actions.
LEMMA LinkStepIsMacStep == ASSUME LinkTypeOK, [LinkNext]_linkVars PROVE [MacNext]_macVars
<1>1. CASE Transmit
  BY <1>1 DEF Transmit, MacNext
<1>2. CASE Receive
  <2>1. Head(air) \in MacFrame /\ (MacIn(Head(air)) \/ MacDrop(Head(air)))
    BY <1>2, HeadOfAir DEF Receive
  <2> QED BY <2>1, Zenon DEF MacNext
<1>3. CASE WriteFile
  BY <1>3 DEF WriteFile, MacNext
<1> QED
  BY <1>1, <1>2, <1>3
  DEF LinkNext, Driver, Flowgraph, First, SendNext, Retransmit, Wait, Poll, LoseFrame, Corrupt, linkVars

LEMMA MacTypeInit == MacInit => MacTypeOK
<1> SUFFICES ASSUME MacInit PROVE MacTypeOK
  OBVIOUS
<1>1. done \in BOOLEAN
  BY Zenon DEF MacInit
<1>2. seqNr \in 0 .. (SeqMod - 1)
  BY MacAssumption DEF MacInit
<1>3. results \in Seq(BOOLEAN) /\ up \in Seq(MacFrame)
  BY DEF MacInit
<1> QED BY <1>1, <1>2, <1>3 DEF MacInit, MacTypeOK

LEMMA MacTypeStep == ASSUME MacTypeOK, [MacNext]_macVars PROVE MacTypeOK'
<1>1. ASSUME AppIn PROVE MacTypeOK'
  BY <1>1, MacAssumption DEF AppIn, MacTypeOK, NextNr
<1>2. ASSUME NEW f \in MacFrame, MacIn(f) PROVE MacTypeOK'
  <2>1. f.ok \in BOOLEAN
    BY DEF MacFrame
  <2>2. results' \in Seq(BOOLEAN) /\ up' \in Seq(MacFrame)
    BY <1>2, <2>1 DEF MacIn, MacTypeOK
  <2>3. /\ UNCHANGED <<seqNr, countFile, done>> /\ macPc' = "open"
        /\ received' \in Nat /\ errors' \in Nat /\ ackNum' \in Nat /\ count' \in Nat
    BY <1>2 DEF MacIn, MacTypeOK
  <2> QED BY <2>2, <2>3 DEF MacTypeOK
<1>3. CASE OpenCount \/ WriteCount
  BY <1>3 DEF OpenCount, WriteCount, CountText, MacTypeOK
<1>4. CASE AppEof
  <2>1. done' \in BOOLEAN /\ UNCHANGED <<seqNr, received, errors, ackNum, count, countFile, results, up, macPc>>
    BY <1>4, Zenon DEF AppEof
  <2> QED BY <2>1 DEF MacTypeOK
<1>5. CASE UNCHANGED macVars
  BY <1>5 DEF macVars, MacTypeOK
<1> QED BY <1>1, <1>2, <1>3, <1>4, <1>5 DEF MacNext, MacDrop

\* The frames among the first that went up whose crc was wrong.
Wrong(s) == {i \in 1 .. Len(s) : ~s[i].ok}

LEMMA WrongFinite == ASSUME NEW s \in Seq(MacFrame)
                     PROVE  IsFiniteSet(Wrong(s)) /\ Cardinality(Wrong(s)) \in Nat
<1>1. IsFiniteSet(1 .. Len(s))
  BY FS_Interval
<1> QED BY <1>1, FS_Subset, FS_CardinalityType DEF Wrong

LEMMA WrongAppend ==
    ASSUME NEW s \in Seq(MacFrame), NEW f \in MacFrame
    PROVE  Cardinality(Wrong(Append(s, f))) = IF f.ok THEN Cardinality(Wrong(s)) ELSE Cardinality(Wrong(s)) + 1
<1> DEFINE more == Append(s, f)
<1>1. /\ Len(more) = Len(s) + 1 /\ Len(s) \in Nat /\ more[Len(s) + 1] = f
      /\ \A i \in 1 .. Len(s) : more[i] = s[i]
  OBVIOUS
<1> HIDE DEF more
<1>2. CASE f.ok
  <2>1. Wrong(more) = Wrong(s)
    BY <1>1, <1>2 DEF Wrong
  <2> QED BY <1>2, <2>1 DEF more
<1>3. CASE ~f.ok
  <2>1. Wrong(more) = Wrong(s) \cup {Len(s) + 1} /\ Len(s) + 1 \notin Wrong(s)
    BY <1>1, <1>3 DEF Wrong
  <2> QED BY <1>3, <2>1, WrongFinite, FS_AddElement DEF more
<1> QED BY <1>2, <1>3

LEMMA Appended ==
    ASSUME NEW S, NEW s \in Seq(S), NEW e \in S
    PROVE  /\ Len(Append(s, e)) = Len(s) + 1 /\ Len(s) \in Nat
           /\ Append(s, e)[Len(s) + 1] = e
           /\ \A i \in 1 .. Len(s) : Append(s, e)[i] = s[i]
OBVIOUS

LEMMA BooksInit == MacInit => BooksBalance
<1> SUFFICES ASSUME MacInit PROVE BooksBalance
  OBVIOUS
<1>1. {i \in 1 .. Len(up) : ~up[i].ok} = {}
  BY DEF MacInit
<1> QED BY <1>1, FS_EmptySet DEF MacInit, BooksBalance

LEMMA BooksStep == ASSUME MacTypeOK, BooksBalance, [MacNext]_macVars PROVE BooksBalance'
<1>1. ASSUME NEW f \in MacFrame, MacIn(f) PROVE BooksBalance'
  <2>1. /\ received' = received + 1 /\ count' = count + 1 /\ macPc' = "open"
        /\ errors' = IF f.ok THEN errors ELSE errors + 1
        /\ results' = Append(results, f.ok) /\ up' = Append(up, f)
        /\ ackNum' = IF IsSender THEN ackNum + 1 ELSE ackNum
    BY <1>1 DEF MacIn
  <2>2. /\ up \in Seq(MacFrame) /\ results \in Seq(BOOLEAN) /\ f.ok \in BOOLEAN
        /\ received \in Nat /\ errors \in Nat /\ ackNum \in Nat /\ count \in Nat
    BY DEF MacTypeOK, MacFrame
  <2>3. errors' = Cardinality(Wrong(up'))
    BY <2>1, <2>2, WrongAppend DEF BooksBalance, Wrong
  <2> DEFINE ok == f.ok
  <2>a. /\ Len(results') = Len(results) + 1 /\ Len(results) \in Nat
        /\ results'[Len(results) + 1] = ok
        /\ \A i \in 1 .. Len(results) : results'[i] = results[i]
    <3> HIDE DEF ok
    <3>1. results' = Append(results, ok) /\ results \in Seq(BOOLEAN) /\ ok \in BOOLEAN
      BY <2>1, <2>2, Zenon DEF ok
    <3>2. /\ Len(Append(results, ok)) = Len(results) + 1 /\ Len(results) \in Nat
          /\ Append(results, ok)[Len(results) + 1] = ok
          /\ \A i \in 1 .. Len(results) : Append(results, ok)[i] = results[i]
      BY <3>1, Appended
    <3> QED BY <3>1, <3>2, Zenon
  <2>b. /\ Len(up') = Len(up) + 1 /\ Len(up) \in Nat /\ up'[Len(up) + 1] = f
        /\ \A i \in 1 .. Len(up) : up'[i] = up[i]
    BY <2>1, <2>2
  <2>c. Len(results) = Len(up)
    BY DEF BooksBalance
  <2>4. /\ received' = Len(up') /\ received' = Len(results') /\ count' = received'
        /\ ackNum' = (IF IsSender THEN received' ELSE 0)
    <3>1. received' = received + 1 /\ count' = count + 1 /\ ackNum' = IF IsSender THEN ackNum + 1 ELSE ackNum
      BY <2>1
    <3>2. received = Len(up) /\ count = received /\ ackNum = (IF IsSender THEN received ELSE 0)
      BY DEF BooksBalance
    <3> QED BY <3>1, <3>2, <2>a, <2>b, <2>c, MacAssumption
  <2>5. \A i \in 1 .. Len(up') : results'[i] = up'[i].ok
    <3> SUFFICES ASSUME NEW i \in 1 .. Len(up') PROVE results'[i] = up'[i].ok
      OBVIOUS
    <3>1. CASE i = Len(up) + 1
      <4>1. up'[i] = f /\ results'[i] = f.ok
        BY <2>a, <2>b, <2>c, <3>1, Zenon
      <4> QED BY <4>1, Zenon
    <3>2. CASE i \in 1 .. Len(up)
      <4>1. up'[i] = up[i] /\ results'[i] = results[i]
        BY <2>a, <2>b, <2>c, <3>2, Zenon
      <4>2. results[i] = up[i].ok
        BY <3>2, Zenon DEF BooksBalance
      <4> QED BY <4>1, <4>2, Zenon
    <3>3. i = Len(up) + 1 \/ i \in 1 .. Len(up)
      BY <2>b
    <3> QED BY <3>1, <3>2, <3>3
  <2>6. macPc' # "idle"
    BY <2>1
  <2> QED BY <2>3, <2>4, <2>5, <2>6 DEF BooksBalance, Wrong
<1>2. CASE OpenCount \/ WriteCount
  BY <1>2 DEF OpenCount, WriteCount, CountText, BooksBalance
<1>3. CASE AppIn \/ AppEof \/ UNCHANGED macVars
  BY <1>3 DEF AppIn, AppEof, macVars, BooksBalance
<1> QED BY <1>1, <1>2, <1>3 DEF MacNext, MacDrop

LEMMA GeneratedType == MacTypeOK => Generated \in MacFrame
BY DEF MacTypeOK, Generated, MacFrame, Addresses

LEMMA LinkTypeStep == ASSUME LinkTypeOK, MacTypeOK, [LinkNext]_linkVars PROVE LinkTypeOK'
<1>1. CASE First \/ SendNext \/ Retransmit \/ Wait \/ Poll
  <2>1. air' = air /\ air \in Seq(MacFrame)
    BY <1>1 DEF First, SendNext, Retransmit, Wait, Poll, channel, LinkTypeOK
  <2>2. CASE First \/ SendNext \/ Retransmit \/ Wait
    BY <2>1, <2>2, LinkAssumption
    DEF First, SendNext, Retransmit, Wait, StartFlowgraph, channel, LinkTypeOK
  <2>3. CASE Poll
    BY <2>1, <2>3, LinkAssumption DEF Poll, ReadCount, Empty, channel, LinkTypeOK, MacTypeOK
  <2> QED BY <1>1, <2>2, <2>3
<1>2. ASSUME air' \in Seq(MacFrame), pending' \in Nat, lost' \in Nat, UNCHANGED driver PROVE LinkTypeOK'
  BY <1>2 DEF LinkTypeOK, driver
<1>3. CASE Transmit
  <2>1. Generated \in MacFrame /\ air \in Seq(MacFrame) /\ pending \in Nat /\ lost \in Nat
    BY GeneratedType DEF LinkTypeOK
  <2>2. air' = Append(air, Generated) /\ pending' \in Nat /\ UNCHANGED <<lost, driver>>
    BY <1>3, <2>1 DEF Transmit
  <2>3. air' \in Seq(MacFrame)
    BY <2>1, <2>2
  <2> QED BY <1>2, <2>1, <2>2, <2>3
<1>4. CASE Receive \/ LoseFrame
  <2>1. /\ air # <<>> /\ air' = Tail(air) /\ (lost' = lost \/ lost' = lost + 1)
        /\ UNCHANGED <<pending, driver>>
    BY <1>4 DEF Receive, LoseFrame
  <2>2. lost \in Nat /\ pending \in Nat
    BY DEF LinkTypeOK
  <2> QED BY <1>2, <2>1, <2>2, HeadOfAir
<1>5. CASE Corrupt
  <2>1. PICK f \in MacFrame : air # <<>> /\ air' = [air EXCEPT ![1] = f] /\ UNCHANGED <<pending, lost, driver>>
    BY <1>5 DEF Corrupt
  <2>2. air' \in Seq(MacFrame)
    BY <2>1 DEF LinkTypeOK
  <2>3. lost \in Nat /\ pending \in Nat
    BY DEF LinkTypeOK
  <2> QED BY <1>2, <2>1, <2>2, <2>3
<1>6. CASE WriteFile \/ UNCHANGED linkVars
  <2>1. UNCHANGED <<driver, channel>>
    BY <1>6 DEF WriteFile, linkVars
  <2> QED BY <2>1 DEF LinkTypeOK, driver, channel
<1> QED BY <1>1, <1>3, <1>4, <1>5, <1>6 DEF LinkNext, Driver, Flowgraph

\* What each step does to the numbers.
LEMMA ChannelStep ==
    ASSUME LinkTypeOK, MacTypeOK, [LinkNext]_linkVars
    PROVE  \/ /\ First \/ SendNext \/ Retransmit
              /\ pacNum' = pacNum + 1 /\ pending' = pending + 1
              /\ UNCHANGED <<air, lost, count, countFile, seq>>
           \/ /\ Poll \/ Wait
              /\ seq' = seq \/ (countFile # Empty /\ seq' = countFile)
              /\ UNCHANGED <<isFirst, prevSeq, pacNum, resent, pending, air, lost, count, countFile>>
           \/ /\ \/ pending' = pending - 1 /\ Len(air') = Len(air) + 1 /\ UNCHANGED <<lost, count>>
                 \/ Len(air') = Len(air) - 1 /\ count' = count + 1 /\ UNCHANGED <<lost, pending>>
                 \/ Len(air') = Len(air) - 1 /\ lost' = lost + 1 /\ UNCHANGED <<count, pending>>
                 \/ Len(air') = Len(air) /\ UNCHANGED <<lost, pending, count>>
              /\ countFile' = countFile \/ countFile' \in {Empty, count}
              /\ count' # count => countFile' = countFile
              /\ UNCHANGED driver
<1>1. CASE First \/ SendNext \/ Retransmit
  BY <1>1 DEF First, SendNext, Retransmit, StartFlowgraph, macVars
<1>2. CASE Poll \/ Wait
  BY <1>2 DEF Poll, Wait, ReadCount, channel, macVars
<1>3. CASE Transmit
  <2>1. Len(Append(air, Generated)) = Len(air) + 1
    BY GeneratedType DEF LinkTypeOK
  <2> QED BY <1>3, <2>1 DEF Transmit, AppIn
<1>4. CASE Receive
  <2>1. air # <<>> /\ air' = Tail(air) /\ UNCHANGED <<pending, driver, countFile>>
    BY <1>4 DEF Receive, MacIn, MacDrop, macVars
  <2>2. (count' = count + 1 /\ lost' = lost) \/ (count' = count /\ lost' = lost + 1)
    BY <1>4 DEF Receive, MacIn, MacDrop, macVars
  <2> QED BY <2>1, <2>2, HeadOfAir
<1>5. CASE LoseFrame
  BY <1>5, HeadOfAir DEF LoseFrame, macVars
<1>6. CASE Corrupt
  <2>1. PICK f \in MacFrame : air' = [air EXCEPT ![1] = f] /\ UNCHANGED <<pending, lost, driver, macVars>>
    BY <1>6 DEF Corrupt
  <2>2. Len(air') = Len(air)
    BY <2>1 DEF LinkTypeOK
  <2> QED BY <2>1, <2>2 DEF macVars
<1>7. CASE WriteFile
  BY <1>7 DEF WriteFile, OpenCount, WriteCount, CountText, channel
<1>8. CASE UNCHANGED linkVars
  BY <1>8 DEF linkVars, channel, macVars
<1> QED BY <1>1, <1>2, <1>3, <1>4, <1>5, <1>6, <1>7, <1>8 DEF LinkNext, Driver, Flowgraph

LEMMA LinkInit0 == LinkInit => LinkInv /\ PromptInv
<1> SUFFICES ASSUME LinkInit PROVE LinkInv /\ PromptInv
  OBVIOUS
<1>1. MacTypeOK
  BY MacTypeInit DEF LinkInit
<1>2. LinkTypeOK
  BY LinkAssumption DEF LinkInit, LinkTypeOK
<1>3. /\ isFirst = 1 /\ pacNum = 0 /\ resent = 0 /\ prevSeq = 0 /\ seq = 0 /\ pending = 0 /\ lost = 0
      /\ count = 0 /\ countFile = 0 /\ Len(air) = 0
  BY DEF LinkInit, MacInit
<1>4. ReadsRunBehind /\ NothingBeforeFirst /\ OneReceptionOnePacket /\ PromptInv
  BY <1>3 DEF ReadsRunBehind, NothingBeforeFirst, OneReceptionOnePacket, PromptInv, Paired,
              OneOutstanding, RetransmissionsPaid
<1> QED BY <1>1, <1>2, <1>4 DEF LinkInv

\* The types of all numbers in one place.
LEMMA Numbers ==
    ASSUME LinkTypeOK, MacTypeOK
    PROVE  /\ prevSeq \in Nat /\ seq \in Nat /\ count \in Nat /\ countFile \in Nat \cup {Empty}
           /\ pacNum \in Nat /\ resent \in Nat /\ pending \in Nat /\ lost \in Nat /\ Len(air) \in Nat
           /\ isFirst \in {0, 1}
BY LinkAssumption DEF LinkTypeOK, MacTypeOK

LEMMA LinkStep == ASSUME LinkInv, [LinkNext]_linkVars PROVE LinkInv'
<1>1. LinkTypeOK' /\ MacTypeOK'
  BY LinkStepIsMacStep, MacTypeStep, LinkTypeStep DEF LinkInv
<1>2. /\ prevSeq \in Nat /\ seq \in Nat /\ count \in Nat /\ countFile \in Nat \cup {Empty}
      /\ pacNum \in Nat /\ resent \in Nat /\ pending \in Nat /\ lost \in Nat /\ Len(air) \in Nat
      /\ isFirst \in {0, 1}
  BY Numbers DEF LinkInv
<1>3. CASE First \/ SendNext \/ Retransmit
  <2>1. /\ pacNum' = pacNum + 1 /\ pending' = pending + 1
        /\ UNCHANGED <<air, lost, count, countFile, seq>>
    BY <1>3, ChannelStep DEF LinkInv, First, SendNext, Retransmit, Poll, Wait, driver
  <2>2. /\ isFirst' = 0
        /\ \/ isFirst = 1 /\ UNCHANGED <<prevSeq, resent>>
           \/ isFirst = 0 /\ prevSeq = seq - 1 /\ prevSeq' = seq /\ resent' = resent
           \/ isFirst = 0 /\ prevSeq' = seq /\ resent' = resent + 1
    BY <1>3 DEF First, SendNext, Retransmit, NewReception
  <2>3. ReadsRunBehind'
    BY <1>2, <2>1, <2>2 DEF LinkInv, ReadsRunBehind
  <2>4. OneReceptionOnePacket' /\ NothingBeforeFirst'
    BY <1>2, <2>1, <2>2 DEF LinkInv, ReadsRunBehind, OneReceptionOnePacket, NothingBeforeFirst
  <2> QED BY <1>1, <2>3, <2>4 DEF LinkInv
<1>4. CASE ~(First \/ SendNext \/ Retransmit)
  <2>1. UNCHANGED <<isFirst, prevSeq, pacNum, resent>>
    BY <1>4, ChannelStep DEF LinkInv, driver
  <2>2. OneReceptionOnePacket' /\ NothingBeforeFirst'
    BY <2>1 DEF LinkInv, OneReceptionOnePacket, NothingBeforeFirst
  <2>3. \/ /\ seq' = seq \/ (countFile # Empty /\ seq' = countFile)
           /\ UNCHANGED <<pending, air, lost, count, countFile>>
        \/ /\ \/ pending' = pending - 1 /\ Len(air') = Len(air) + 1 /\ UNCHANGED <<lost, count>>
              \/ Len(air') = Len(air) - 1 /\ count' = count + 1 /\ UNCHANGED <<lost, pending>>
              \/ Len(air') = Len(air) - 1 /\ lost' = lost + 1 /\ UNCHANGED <<count, pending>>
              \/ Len(air') = Len(air) /\ UNCHANGED <<lost, pending, count>>
           /\ countFile' = countFile \/ countFile' \in {Empty, count}
           /\ count' # count => countFile' = countFile
           /\ UNCHANGED seq
    BY <1>4, ChannelStep DEF LinkInv, driver
  <2>4. ReadsRunBehind'
    BY <1>2, <2>1, <2>3 DEF LinkInv, ReadsRunBehind, Empty
  <2> QED BY <1>1, <2>2, <2>4 DEF LinkInv
<1> QED BY <1>3, <1>4

LEMMA PromptStep == ASSUME Prompt, LinkInv, PromptInv, [LinkNext]_linkVars PROVE PromptInv'
<1>1. /\ prevSeq \in Nat /\ seq \in Nat /\ count \in Nat /\ countFile \in Nat \cup {Empty}
      /\ pacNum \in Nat /\ resent \in Nat /\ pending \in Nat /\ lost \in Nat /\ Len(air) \in Nat
      /\ isFirst \in {0, 1}
  BY Numbers DEF LinkInv
<1>2. /\ prevSeq <= seq /\ seq <= count /\ count + Len(air) + pending + lost = pacNum
      /\ isFirst = 1 => pacNum = 0 /\ resent = 0 /\ prevSeq = 0
  BY DEF LinkInv, ReadsRunBehind, NothingBeforeFirst
<1>3. CASE First \/ SendNext \/ Retransmit
  <2>1. /\ pacNum' = pacNum + 1 /\ pending' = pending + 1
        /\ UNCHANGED <<air, lost, count, countFile, seq>>
    BY <1>3, ChannelStep DEF LinkInv, First, SendNext, Retransmit, Poll, Wait, driver
  <2>2. /\ isFirst' = 0
        /\ \/ isFirst = 1 /\ UNCHANGED <<prevSeq, resent>>
           \/ isFirst = 0 /\ prevSeq = seq - 1 /\ prevSeq' = seq /\ resent' = resent
           \/ /\ isFirst = 0 /\ prevSeq # seq - 1 /\ prevSeq' = seq /\ resent' = resent + 1
              /\ pending = 0 /\ Len(air) = 0 /\ seq = count
    BY <1>3 DEF First, SendNext, Retransmit, NewReception, Settled
  <2> QED BY <1>1, <1>2, <2>1, <2>2 DEF PromptInv, Paired, OneOutstanding, RetransmissionsPaid
<1>4. CASE ~(First \/ SendNext \/ Retransmit)
  <2>1. /\ UNCHANGED <<isFirst, prevSeq, pacNum, resent>>
        /\ \/ UNCHANGED <<pending, air, lost, count>>
           \/ pending' = pending - 1 /\ Len(air') = Len(air) + 1 /\ UNCHANGED <<lost, count>>
           \/ Len(air') = Len(air) - 1 /\ count' = count + 1 /\ UNCHANGED <<lost, pending>>
           \/ Len(air') = Len(air) - 1 /\ lost' = lost + 1 /\ UNCHANGED <<count, pending>>
           \/ Len(air') = Len(air) /\ UNCHANGED <<lost, pending, count>>
    BY <1>4, ChannelStep DEF LinkInv, driver
  <2> QED BY <1>1, <1>2, <2>1 DEF PromptInv, Paired, OneOutstanding, RetransmissionsPaid
<1> QED BY <1>3, <1>4

-------------------------------------------------------------------------------
LEMMA LinkInvHolds == LinkSpec => []LinkInv
<1> QED BY LinkInit0, LinkStep, PTL DEF LinkSpec

LEMMA PromptInvHolds == ASSUME Prompt PROVE LinkSpec => [](LinkInv /\ PromptInv)
<1> QED BY LinkInit0, LinkStep, PromptStep, PTL DEF LinkSpec

\* On its own, with any frames at any time, the MAC keeps its types.
THEOREM MacTypeCorrect == MacSpec => []MacTypeOK
<1> QED BY MacTypeInit, MacTypeStep, PTL DEF MacSpec

\* Counters, result file, the number the driver reads and what the application
\* got agree, for any frames, wrong or not, and an EOF at any time.
THEOREM BooksBalanceHolds == MacSpec => []BooksBalance
<1> QED BY MacTypeInit, MacTypeStep, BooksInit, BooksStep, PTL DEF MacSpec

\* Driver, radio and generator use the MAC only as MacSpec lets them.
THEOREM LinkImplementsMac == LinkSpec => MacSpec
<1>1. LinkInit => MacInit
  BY DEF LinkInit
<1>2. LinkInv /\ [LinkNext]_linkVars => [MacNext]_macVars
  BY LinkStepIsMacStep DEF LinkInv
<1> QED BY <1>1, <1>2, LinkInvHolds, PTL DEF LinkSpec, MacSpec

\* The link's variables keep their types; t never becomes negative.
THEOREM LinkTypeCorrect == LinkSpec => []LinkTypeOK
<1>1. LinkInv => LinkTypeOK
  BY DEF LinkInv
<1> QED BY <1>1, LinkInvHolds, PTL

\* prev_seq <= seq <= the file <= seq1_num, and no packet is counted twice.
THEOREM ReadsRunBehindHolds == LinkSpec => []ReadsRunBehind
<1>1. LinkInv => ReadsRunBehind
  BY DEF LinkInv
<1> QED BY <1>1, LinkInvHolds, PTL

\* One reception releases at most one packet, however late the polls are.
THEOREM OneReceptionOnePacketHolds == LinkSpec => []OneReceptionOnePacket
<1>1. LinkInv => OneReceptionOnePacket
  BY DEF LinkInv
<1> QED BY <1>1, LinkInvHolds, PTL

\* When a packet's way takes less than k polls, losses pay for retransmissions.
THEOREM RetransmissionsPaidHolds == ASSUME Prompt PROVE LinkSpec => []RetransmissionsPaid
<1>1. PromptInv => RetransmissionsPaid
  BY DEF PromptInv
<1> QED BY <1>1, PromptInvHolds, PTL

\* When a packet's way takes less than k polls, the link is stop-and-wait.
THEOREM OneOutstandingHolds == ASSUME Prompt PROVE LinkSpec => []OneOutstanding
<1>1. PromptInv => OneOutstanding
  BY DEF PromptInv
<1> QED BY <1>1, PromptInvHolds, PTL

\* Under the same assumption nothing that was received is retransmitted.
THEOREM RetransmitsUnreceivedHolds == ASSUME Prompt PROVE LinkSpec => RetransmitsUnreceived
<1>1. LinkInv /\ PromptInv => (Retransmit => seq = prevSeq)
  <2> SUFFICES ASSUME LinkInv, PromptInv, Retransmit PROVE seq = prevSeq
    OBVIOUS
  <2>1. /\ prevSeq \in Nat /\ seq \in Nat /\ count \in Nat /\ pending \in Nat /\ Len(air) \in Nat
        /\ prevSeq <= seq
    BY Numbers DEF LinkInv, ReadsRunBehind
  <2>2. prevSeq # seq - 1 /\ seq = count
    BY DEF Retransmit, Settled, NewReception
  <2> QED BY <2>1, <2>2 DEF PromptInv, OneOutstanding
<1> QED BY <1>1, PromptInvHolds, PTL DEF LinkSpec, RetransmitsUnreceived
===============================================================================
