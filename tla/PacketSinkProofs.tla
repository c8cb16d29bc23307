-------------------------- MODULE PacketSinkProofs --------------------------
(***************************************************************************)
(* Type correctness, the counters, the array bounds and the frames of      *)
(* PacketSink, for every spreading, every size of frame and every answer   *)
(* of the correlator.  The inductive invariant says for each state of the  *)
(* sink how its counters and the frame under way follow from what was      *)
(* heard since the delimiter.  At the end, the same behind the transmitter *)
(* of RateLink.                                                            *)
(***************************************************************************)
EXTENDS RateLink, TLAPS

LEMMA SmallMod == ASSUME NEW d \in Nat \ {0}, NEW n \in 0 .. d - 1
                  PROVE  (n % d) = n
  BY SMT

LEMMA SelfMod == ASSUME NEW d \in Nat \ {0} PROVE (d % d) = 0
  BY SMT

LEMMA NibbleMod == ASSUME NEW c \in Answers
                   PROVE  /\ (c % 16) \in 0 .. 15
                          /\ c # Invalid => (c % 16) = c
  BY NibbleAssumption DEF Answers, Invalid
-----------------------------------------------------------------------------
Wanted == FrameLen(LengthByte(heard[1], heard[2]))

\* The first n bytes of f are made of the answers behind the length.
Matches(f, n) ==
    \A i \in 1 .. n : f[i] = ByteOf(heard[2 * i + 1], heard[2 * i + 2])

Aligned == state # "SYNC_SEARCH" => locked

Searching == state = "SYNC_SEARCH" => bct = 0 /\ Len(packet) <= MaxPktLen

ReadingLength ==
    state = "HAVE_SYNC" =>
        /\ bct = 0
        /\ packet = <<>>
        /\ Len(heard) = byteIndex
        /\ byteIndex = 1 => packetByte = heard[1]

ReadingBody ==
    state = "HAVE_HEADER" =>
        /\ packetLen = Wanted
        /\ payloadCnt = 0 \/ payloadCnt < packetLen
        /\ Len(heard) = 2 + 2 * payloadCnt + byteIndex
        /\ Len(packet) = payloadCnt
        /\ bct = 2 * payloadCnt + byteIndex
        /\ byteIndex = 1 => packetByte = BodyNibble(heard[Len(heard)])
        /\ Matches(packet, payloadCnt)

SinkInv == /\ SinkTypeOK
           /\ CountersMeet
           /\ Aligned
           /\ Searching
           /\ ReadingLength
           /\ ReadingBody
           /\ FrameAsHeard

-----------------------------------------------------------------------------
(* Bytes and lengths are in range. *)

LEMMA WithNibbleType ==
    ASSUME SinkTypeOK, NEW c \in Answers,
           byteIndex = 1 => packetByte = Invalid \/ packetByte \in 0 .. 15
    PROVE  WithNibble(c) \in 0 .. 255
<1>1. (c % 16) \in 0 .. 15 BY NibbleMod
<1>2. c \in 0 .. 255 BY NibbleAssumption DEF Answers, Invalid
<1> QED BY <1>1, <1>2 DEF SinkTypeOK, WithNibble, Invalid

LEMMA FrameLenType ==
    ASSUME NEW byte \in 0 .. 255 PROVE FrameLen(byte) \in 0 .. MaxPktLen
  BY SizeAssumption DEF FrameLen

LEMMA BodyNibbleType ==
    ASSUME NEW c \in Answers PROVE BodyNibble(c) \in 0 .. 15
  BY NibbleAssumption DEF Answers, BodyNibble, Invalid

LEMMA DueType ==
    ASSUME state # "SYNC_SEARCH" => sfd \in SFDs PROVE Due \in Nat \ {0}
  BY ChipsAssumption DEF Due

-----------------------------------------------------------------------------
LEMMA InitInv == Init => SinkInv
<1> SUFFICES ASSUME Init PROVE SinkInv OBVIOUS
<1> USE DEF Init
<1>1. SinkTypeOK
  <2>1. packet \in Seq(0 .. 255) /\ out \in Seq(0 .. 255) /\ heard \in Seq(Answers)
    OBVIOUS
  <2>2. locked \in BOOLEAN /\ delimiter \in BOOLEAN OBVIOUS
  <2>3. /\ chipCnt \in Nat /\ packetByte \in 0 .. 255 /\ byteIndex \in {0, 1}
        /\ packetLen \in 0 .. MaxPktLen /\ payloadCnt \in Nat /\ bct \in Nat
    BY SizeAssumption
  <2>4. sfd \in SFDs \cup {0} /\ state \in {"SYNC_SEARCH", "HAVE_SYNC", "HAVE_HEADER"}
    OBVIOUS
  <2> QED BY <2>1, <2>2, <2>3, <2>4 DEF SinkTypeOK
<1>2. CountersMeet BY ChipsAssumption DEF CountersMeet, Due
<1>3. Aligned /\ Searching /\ ReadingLength /\ ReadingBody /\ FrameAsHeard
  BY SizeAssumption DEF Aligned, Searching, ReadingLength, ReadingBody, FrameAsHeard
<1> QED BY <1>1, <1>2, <1>3 DEF SinkInv

(* A chip that fills no symbol leaves everything alone but the counter and
   the alignment. *)
LEMMA FrameUntouched ==
    ASSUME SinkInv, UNCHANGED <<state, sfd, byteVars, frameVars>>
    PROVE  Searching' /\ ReadingLength' /\ ReadingBody' /\ FrameAsHeard'
<1> USE DEF byteVars, frameVars
<1>1. Searching' /\ ReadingLength' BY DEF SinkInv, Searching, ReadingLength
<1>2. ReadingBody' BY DEF SinkInv, ReadingBody, Wanted, Matches, FrameLen, LengthByte, ByteOf
<1>3. FrameAsHeard' BY DEF SinkInv, FrameAsHeard, FrameLen, LengthByte, ByteOf
<1> QED BY <1>1, <1>2, <1>3

LEMMA UnlockedInv ==
    ASSUME SinkInv, NEW found \in BOOLEAN, Unlocked(found) PROVE SinkInv'
<1> USE DEF Unlocked
<1>1. UNCHANGED <<state, sfd, byteVars, frameVars>> OBVIOUS
<1>2. SinkTypeOK' BY <1>1 DEF SinkInv, SinkTypeOK, byteVars, frameVars
<1>3. CountersMeet' /\ Aligned' BY DEF SinkInv, CountersMeet, Aligned, Due
<1> QED BY <1>1, <1>2, <1>3, FrameUntouched DEF SinkInv

LEMMA CountInv == ASSUME SinkInv, Count PROVE SinkInv'
<1> USE DEF Count
<1>1. UNCHANGED <<state, sfd, byteVars, frameVars>> OBVIOUS
<1>2. Due \in Nat \ {0} BY DueType DEF SinkInv, CountersMeet
<1>3. chipCnt \in 0 .. Due - 1 BY <1>2 DEF SinkInv, CountersMeet, SinkTypeOK
<1>4. chipCnt + 1 # Due
  <2>1. CASE state = "HAVE_HEADER" BY <1>2, <2>1, SelfMod DEF Full
  <2>2. CASE state # "HAVE_HEADER" BY <2>2 DEF Full
  <2> QED BY <2>1, <2>2
<1>5. chipCnt' = chipCnt + 1
  <2>1. (chipCnt + 1) \in 0 .. Due - 1 BY <1>2, <1>3, <1>4
  <2>2. ((chipCnt + 1) % Due) = chipCnt + 1 BY <1>2, <2>1, SmallMod
  <2> QED BY <2>2
<1>6. CountersMeet'
  <2>1. Due' = Due BY <1>1 DEF Due
  <2>2. chipCnt' < Due' BY <1>2, <1>3, <1>4, <1>5, <2>1
  <2>3. locked' BY DEF SinkInv, Aligned, syncVars
  <2> QED BY <1>1, <2>2, <2>3 DEF SinkInv, CountersMeet
<1>7. SinkTypeOK' BY <1>1, <1>3, <1>5 DEF SinkInv, SinkTypeOK, byteVars, frameVars, syncVars
<1>8. Aligned' BY DEF SinkInv, Aligned, syncVars
<1> QED BY <1>1, <1>6, <1>7, <1>8, FrameUntouched DEF SinkInv

LEMMA PreambleSymbolInv ==
    ASSUME SinkInv, NEW h \in Answers, PreambleSymbol(h) PROVE SinkInv'
<1> USE DEF PreambleSymbol, EnterSearch
<1>1. state = "SYNC_SEARCH" /\ state' = state /\ chipCnt' = 0 /\ delimiter' \in BOOLEAN
  OBVIOUS
<1>2. locked' \in BOOLEAN BY DEF SinkInv, SinkTypeOK
<1>3. UNCHANGED <<state, sfd, byteVars, frameVars>> BY <1>1
<1>4. SinkTypeOK' BY <1>1, <1>2, <1>3 DEF SinkInv, SinkTypeOK, byteVars, frameVars
<1>5. CountersMeet' /\ Aligned'
  BY <1>1, <1>3, ChipsAssumption DEF CountersMeet, Aligned, Due
<1> QED BY <1>3, <1>4, <1>5, FrameUntouched DEF SinkInv

LEMMA DelimiterSymbolInv ==
    ASSUME SinkInv, NEW h \in Answers, DelimiterSymbol(h) PROVE SinkInv'
<1>0. state = "SYNC_SEARCH" /\ locked /\ chipCnt' = 0 BY DEF DelimiterSymbol
<1>1. CASE h \notin SFDs
  <2>1. UNCHANGED <<state, syncVars, sfd, byteVars, frameVars>>
    BY <1>1 DEF DelimiterSymbol, EnterHaveSync
  <2>2. SinkTypeOK'
    BY <1>0, <2>1 DEF SinkInv, SinkTypeOK, byteVars, frameVars, syncVars
  <2>3. CountersMeet' /\ Aligned'
    BY <1>0, <2>1, ChipsAssumption DEF CountersMeet, Aligned, Due, syncVars
  <2> QED BY <2>1, <2>2, <2>3, FrameUntouched DEF SinkInv
<1>2. CASE h \in SFDs
  <2>1. /\ state' = "HAVE_SYNC" /\ sfd' = h /\ chipCnt' = 0
        /\ packet' = <<>> /\ heard' = <<>> /\ out' = <<>>
        /\ packetByte' = 0 /\ byteIndex' = 0
        /\ UNCHANGED <<syncVars, packetLen, payloadCnt, bct>>
    BY <1>2 DEF DelimiterSymbol, EnterHaveSync
  <2>2. SinkTypeOK'
    <3>1. packet' \in Seq(0 .. 255) /\ out' \in Seq(0 .. 255) /\ heard' \in Seq(Answers)
      BY <2>1
    <3>2. locked' \in BOOLEAN /\ delimiter' \in BOOLEAN
      BY <2>1 DEF SinkInv, SinkTypeOK, syncVars
    <3>3. /\ packetLen' \in 0 .. MaxPktLen /\ payloadCnt' \in Nat /\ bct' \in Nat
          /\ sfd' \in SFDs
      BY <1>2, <2>1 DEF SinkInv, SinkTypeOK
    <3>4. chipCnt' \in Nat /\ packetByte' \in 0 .. 255 /\ byteIndex' \in {0, 1} BY <2>1
    <3> QED BY <2>1, <3>1, <3>2, <3>3, <3>4 DEF SinkTypeOK
  <2>3. CountersMeet' /\ Aligned'
    BY <1>0, <1>2, <2>1, ChipsAssumption DEF CountersMeet, Aligned, Due, syncVars
  <2>4. Searching' /\ ReadingLength' /\ ReadingBody' /\ FrameAsHeard'
    BY <1>0, <2>1 DEF SinkInv, Searching, ReadingLength, ReadingBody, FrameAsHeard
  <2> QED BY <2>2, <2>3, <2>4 DEF SinkInv
<1> QED BY <1>1, <1>2

-----------------------------------------------------------------------------
LEMMA LengthSymbolInv ==
    ASSUME SinkInv, NEW c \in Answers, LengthSymbol(c) PROVE SinkInv'
<1>0. /\ state = "HAVE_SYNC" /\ chipCnt' = 0 /\ heard' = Append(heard, c)
      /\ UNCHANGED <<syncVars, sfd, packet, bct, out>>
  BY DEF LengthSymbol
<1>1. /\ bct = 0 /\ packet = <<>> /\ Len(heard) = byteIndex
      /\ byteIndex = 1 => packetByte = heard[1]
  BY <1>0 DEF SinkInv, ReadingLength
<1>2. heard \in Seq(Answers) /\ byteIndex \in {0, 1} BY DEF SinkInv, SinkTypeOK
<1>3. /\ heard' \in Seq(Answers) /\ Len(heard') = byteIndex + 1
      /\ heard'[byteIndex + 1] = c
      /\ byteIndex = 1 => heard'[1] = heard[1]
  BY <1>0, <1>1, <1>2
<1>4. sfd \in SFDs /\ locked /\ sfd' = sfd /\ locked' = locked
  BY <1>0 DEF SinkInv, CountersMeet, Aligned, syncVars
<1>5. locked' \in BOOLEAN /\ delimiter' \in BOOLEAN
  BY <1>0 DEF SinkInv, SinkTypeOK, syncVars
<1>6. packet' \in Seq(0 .. 255) /\ out' \in Seq(0 .. 255)
  BY <1>0 DEF SinkInv, SinkTypeOK
<1>7. WithNibble(c) \in 0 .. 255
  <2>1. ASSUME byteIndex = 1 PROVE packetByte = Invalid \/ packetByte \in 0 .. 15
    <3>1. heard[1] \in Answers BY <1>1, <1>2, <2>1
    <3> QED BY <1>1, <2>1, <3>1, NibbleAssumption DEF Answers
  <2> QED BY <2>1, WithNibbleType DEF SinkInv
<1>8. CASE byteIndex = 0
  <2>1. /\ packetByte' = WithNibble(c) /\ byteIndex' = 1
        /\ UNCHANGED <<state, packetLen, payloadCnt>>
    BY <1>8 DEF LengthSymbol
  <2>2. WithNibble(c) = c BY <1>8 DEF WithNibble
  <2>3. SinkTypeOK'
    <3>1. /\ state' \in {"SYNC_SEARCH", "HAVE_SYNC", "HAVE_HEADER"}
          /\ sfd' \in SFDs \cup {0} /\ packetLen' \in 0 .. MaxPktLen
          /\ payloadCnt' \in Nat /\ bct' \in Nat
      BY <1>0, <2>1 DEF SinkInv, SinkTypeOK
    <3>2. chipCnt' \in Nat /\ packetByte' \in 0 .. 255 /\ byteIndex' \in {0, 1}
      BY <1>0, <1>7, <2>1
    <3> QED BY <1>3, <1>5, <1>6, <3>1, <3>2 DEF SinkTypeOK
  <2>4. CountersMeet' /\ Aligned'
    BY <1>0, <1>4, <2>1, ChipsAssumption DEF CountersMeet, Aligned, Due
  <2>5. Searching' /\ ReadingLength' /\ ReadingBody' /\ FrameAsHeard'
    BY <1>0, <1>1, <1>3, <1>8, <2>1, <2>2
    DEF Searching, ReadingLength, ReadingBody, FrameAsHeard
  <2> QED BY <2>3, <2>4, <2>5 DEF SinkInv
<1>9. CASE byteIndex = 1
  <2>1. /\ state' = "HAVE_HEADER" /\ packetLen' = FrameLen(WithNibble(c))
        /\ payloadCnt' = 0 /\ packetByte' = 0 /\ byteIndex' = 0
    BY <1>9 DEF LengthSymbol, EnterHaveHeader
  <2>2. WithNibble(c) = LengthByte(heard'[1], heard'[2])
    BY <1>1, <1>3, <1>9 DEF WithNibble, LengthByte
  <2>3. packetLen' = Wanted'
    BY <1>4, <2>1, <2>2 DEF Wanted, FrameLen
  <2>4. packetLen' \in 0 .. MaxPktLen BY <1>7, <2>1, FrameLenType
  <2>5. SinkTypeOK'
    <3>1. sfd' \in SFDs \cup {0} /\ bct' \in Nat BY <1>0, <1>1, <1>4
    <3>2. /\ chipCnt' \in Nat /\ packetByte' \in 0 .. 255 /\ byteIndex' \in {0, 1}
          /\ payloadCnt' \in Nat
      BY <1>0, <2>1
    <3> QED BY <1>3, <1>5, <1>6, <2>1, <2>4, <3>1, <3>2 DEF SinkTypeOK
  <2>6. CountersMeet' /\ Aligned'
    BY <1>0, <1>4, <2>1, ChipsAssumption DEF CountersMeet, Aligned, Due
  <2>7. Searching' /\ ReadingLength' /\ FrameAsHeard'
    BY <2>1 DEF Searching, ReadingLength, FrameAsHeard
  <2>8. ReadingBody'
    <3>1. Len(heard') = 2 /\ Len(packet') = 0 /\ bct' = 0 BY <1>0, <1>1, <1>3, <1>9
    <3> QED BY <2>1, <2>3, <3>1 DEF ReadingBody, Matches
  <2> QED BY <2>5, <2>6, <2>7, <2>8 DEF SinkInv
<1> QED BY <1>2, <1>8, <1>9

-----------------------------------------------------------------------------
LEMMA BodySymbolInv ==
    ASSUME SinkInv, NEW c \in Answers, BodySymbol(c) PROVE SinkInv'
<1>0. /\ state = "HAVE_HEADER" /\ heard' = Append(heard, c)
      /\ packetByte' = WithNibble(BodyNibble(c))
      /\ UNCHANGED <<sfd, packetLen>>
  BY DEF BodySymbol
<1>1. /\ packetLen = Wanted
      /\ payloadCnt = 0 \/ payloadCnt < packetLen
      /\ Len(heard) = 2 + 2 * payloadCnt + byteIndex
      /\ Len(packet) = payloadCnt
      /\ bct = 2 * payloadCnt + byteIndex
      /\ byteIndex = 1 => packetByte = BodyNibble(heard[Len(heard)])
      /\ Matches(packet, payloadCnt)
  BY <1>0 DEF SinkInv, ReadingBody
<1>2. /\ heard \in Seq(Answers) /\ packet \in Seq(0 .. 255) /\ byteIndex \in {0, 1}
      /\ payloadCnt \in Nat /\ packetLen \in 0 .. MaxPktLen /\ bct \in Nat
      /\ out \in Seq(0 .. 255)
  BY DEF SinkInv, SinkTypeOK
<1>3. /\ heard' \in Seq(Answers) /\ Len(heard') = Len(heard) + 1
      /\ heard'[Len(heard) + 1] = c
      /\ \A i \in 1 .. Len(heard) : heard'[i] = heard[i]
  BY <1>0, <1>2
<1>4. /\ sfd \in SFDs /\ sfd' = sfd /\ locked
  BY <1>0 DEF SinkInv, CountersMeet, Aligned
<1>5. BodyNibble(c) \in 0 .. 15 /\ (BodyNibble(c) % 16) = BodyNibble(c)
  <2>1. BodyNibble(c) \in 0 .. 15 BY BodyNibbleType
  <2> QED BY <2>1, SmallMod
<1>6. /\ packetByte' \in 0 .. 255
      /\ byteIndex = 0 => packetByte' = BodyNibble(c)
      /\ byteIndex = 1 => packetByte' = ByteOf(heard[Len(heard)], c)
  <2>1. CASE byteIndex = 0 BY <1>0, <1>5, <2>1 DEF WithNibble
  <2>2. CASE byteIndex = 1
    <3>1. heard[Len(heard)] \in Answers BY <1>1, <1>2
    <3>2. packetByte \in 0 .. 15 /\ packetByte = BodyNibble(heard[Len(heard)])
      BY <1>1, <2>2, <3>1, BodyNibbleType
    <3>3. packetByte' = packetByte + 16 * BodyNibble(c)
      BY <1>0, <1>5, <2>2, <3>2 DEF WithNibble, Invalid
    <3>4. packetByte' \in 0 .. 255
      <4>1. BodyNibble(c) \in 0 .. 15 BY BodyNibbleType
      <4>2. packetByte \in 0 .. 15 BY <3>2
      <4> QED BY <3>3, <4>1, <4>2
    <3>5. packetByte' = ByteOf(heard[Len(heard)], c) BY <3>2, <3>3 DEF ByteOf
    <3> QED BY <2>2, <3>4, <3>5
  <2> QED BY <1>2, <2>1, <2>2
<1>7. Wanted' = Wanted
  <2>1. Len(heard) >= 2 BY <1>1, <1>2
  <2>2. heard'[1] = heard[1] /\ heard'[2] = heard[2] BY <1>2, <1>3, <2>1
  <2> QED BY <1>4, <2>2 DEF Wanted, FrameLen
<1>8. \A i \in 1 .. payloadCnt :
         packet[i] = ByteOf(heard'[2 * i + 1], heard'[2 * i + 2])
  BY <1>1, <1>2, <1>3 DEF Matches
<1>9. CASE byteIndex = 0
  <2>1. /\ byteIndex' = 1 /\ chipCnt' = 0 /\ bct' = bct + 1
        /\ UNCHANGED <<state, syncVars, payloadCnt, packet, out>>
    BY <1>9 DEF BodySymbol
  <2>2. SinkTypeOK'
    <3>1. locked' \in BOOLEAN /\ delimiter' \in BOOLEAN
      BY <2>1 DEF SinkInv, SinkTypeOK, syncVars
    <3>2. /\ state' \in {"SYNC_SEARCH", "HAVE_SYNC", "HAVE_HEADER"}
          /\ chipCnt' \in Nat /\ sfd' \in SFDs \cup {0} /\ byteIndex' \in {0, 1}
          /\ packetLen' \in 0 .. MaxPktLen /\ payloadCnt' \in Nat /\ bct' \in Nat
      BY <1>0, <1>2, <1>4, <2>1
    <3>3. packet' \in Seq(0 .. 255) /\ out' \in Seq(0 .. 255) BY <1>2, <2>1
    <3> QED BY <1>3, <1>6, <3>1, <3>2, <3>3 DEF SinkTypeOK
  <2>3. CountersMeet' /\ Aligned'
    BY <1>0, <1>4, <2>1, ChipsAssumption DEF CountersMeet, Aligned, Due, syncVars
  <2>4. Searching' /\ ReadingLength' /\ FrameAsHeard'
    BY <1>0, <2>1 DEF Searching, ReadingLength, FrameAsHeard
  <2>5. ReadingBody'
    <3>1. Matches(packet, payloadCnt)' BY <1>1, <1>2, <1>8, <2>1 DEF Matches
    <3>2. packetByte' = BodyNibble(heard'[Len(heard')]) BY <1>2, <1>3, <1>6, <1>9
    <3>3. /\ Len(heard') = 2 + 2 * payloadCnt' + byteIndex'
          /\ bct' = 2 * payloadCnt' + byteIndex' /\ Len(packet') = payloadCnt'
      BY <1>1, <1>2, <1>3, <1>9, <2>1
    <3>4. packetLen' = Wanted' /\ (payloadCnt' = 0 \/ payloadCnt' < packetLen')
      BY <1>0, <1>1, <1>7, <2>1
    <3> QED BY <3>1, <3>2, <3>3, <3>4 DEF ReadingBody
  <2> QED BY <2>2, <2>3, <2>4, <2>5 DEF SinkInv
<1>10. CASE byteIndex = 1
  <2>1. /\ byteIndex' = 0 /\ packet' = Append(packet, packetByte')
        /\ payloadCnt' = payloadCnt + 1
    BY <1>10 DEF BodySymbol
  <2>2. /\ packet' \in Seq(0 .. 255) /\ Len(packet') = payloadCnt + 1
        /\ packet'[payloadCnt + 1] = packetByte'
        /\ \A i \in 1 .. payloadCnt : packet'[i] = packet[i]
    BY <1>1, <1>2, <1>6, <2>1
  <2>3. Len(heard) = 2 * payloadCnt + 3 /\ Len(heard') = 2 * (payloadCnt + 1) + 2
    BY <1>1, <1>2, <1>3, <1>10
  <2>4. Matches(packet, payloadCnt)'
    <3>1. packetByte' = ByteOf(heard'[2 * (payloadCnt + 1) + 1], heard'[2 * (payloadCnt + 1) + 2])
      <4>1. /\ 2 * (payloadCnt + 1) + 1 = Len(heard)
            /\ 2 * (payloadCnt + 1) + 2 = Len(heard) + 1
            /\ Len(heard) \in 1 .. Len(heard)
        BY <1>2, <2>3
      <4> QED BY <1>3, <1>6, <1>10, <4>1
    <3>2. \A i \in 1 .. payloadCnt :
             packet'[i] = ByteOf(heard'[2 * i + 1], heard'[2 * i + 2])
      BY <1>1, <1>2, <1>8, <2>2
    <3>3. \A i \in 1 .. payloadCnt + 1 :
             packet'[i] = ByteOf(heard'[2 * i + 1], heard'[2 * i + 2])
      <4> TAKE i \in 1 .. payloadCnt + 1
      <4>1. CASE i = payloadCnt + 1 BY <2>2, <3>1, <4>1
      <4>2. CASE i # payloadCnt + 1 BY <1>2, <3>2, <4>2
      <4> QED BY <4>1, <4>2
    <3> QED BY <2>1, <3>3 DEF Matches
  <2>5. CASE payloadCnt' >= packetLen
    <3>1. /\ bct' = 0 /\ out' = packet' /\ state' = "SYNC_SEARCH"
          /\ locked' = FALSE /\ delimiter' = FALSE /\ chipCnt' = 0
      BY <1>10, <2>5 DEF BodySymbol, FrameEnds, EnterSearch
    <3>2. SinkTypeOK'
      <4>1. locked' \in BOOLEAN /\ delimiter' \in BOOLEAN BY <3>1
      <4>2. /\ state' \in {"SYNC_SEARCH", "HAVE_SYNC", "HAVE_HEADER"}
            /\ chipCnt' \in Nat /\ sfd' \in SFDs \cup {0} /\ byteIndex' \in {0, 1}
            /\ packetLen' \in 0 .. MaxPktLen /\ payloadCnt' \in Nat /\ bct' \in Nat
        BY <1>0, <1>2, <1>4, <2>1, <3>1
      <4>3. packet' \in Seq(0 .. 255) /\ out' \in Seq(0 .. 255) BY <2>2, <3>1
      <4> QED BY <1>3, <1>6, <4>1, <4>2, <4>3 DEF SinkTypeOK
    <3>3. CountersMeet' /\ Aligned'
      BY <3>1, ChipsAssumption DEF CountersMeet, Aligned, Due
    <3>4. payloadCnt + 1 = IF packetLen = 0 THEN 1 ELSE packetLen
      BY <1>1, <1>2, <2>1, <2>5
    <3>5. Searching' /\ ReadingLength' /\ ReadingBody'
      <4>1. Len(packet') <= MaxPktLen BY <1>2, <2>2, <3>4, SizeAssumption
      <4> QED BY <3>1, <4>1 DEF Searching, ReadingLength, ReadingBody
    <3>6. FrameAsHeard'
      <4>1. Wanted' = packetLen BY <1>1, <1>7
      <4>2. Len(out') = payloadCnt + 1 BY <2>2, <3>1
      <4>3. Len(heard') = 2 + 2 * Len(out') BY <1>2, <2>3, <4>2
      <4>4. \A i \in 1 .. Len(out') :
               out'[i] = ByteOf(heard'[2 * i + 1], heard'[2 * i + 2])
        BY <2>1, <2>4, <3>1, <4>2 DEF Matches
      <4> QED BY <3>4, <4>1, <4>2, <4>3, <4>4 DEF FrameAsHeard, Wanted
    <3> QED BY <3>2, <3>3, <3>5, <3>6 DEF SinkInv
  <2>6. CASE ~(payloadCnt' >= packetLen)
    <3>1. /\ chipCnt' = 0 /\ bct' = bct + 1 /\ UNCHANGED <<state, syncVars, out>>
      BY <1>10, <2>6 DEF BodySymbol
    <3>2. SinkTypeOK'
      <4>1. locked' \in BOOLEAN /\ delimiter' \in BOOLEAN
        BY <3>1 DEF SinkInv, SinkTypeOK, syncVars
      <4>2. /\ state' \in {"SYNC_SEARCH", "HAVE_SYNC", "HAVE_HEADER"}
            /\ chipCnt' \in Nat /\ sfd' \in SFDs \cup {0} /\ byteIndex' \in {0, 1}
            /\ packetLen' \in 0 .. MaxPktLen /\ payloadCnt' \in Nat /\ bct' \in Nat
        BY <1>0, <1>2, <1>4, <2>1, <3>1
      <4>3. packet' \in Seq(0 .. 255) /\ out' \in Seq(0 .. 255) BY <1>2, <2>2, <3>1
      <4> QED BY <1>3, <1>6, <4>1, <4>2, <4>3 DEF SinkTypeOK
    <3>3. CountersMeet' /\ Aligned'
      BY <1>0, <1>4, <3>1, ChipsAssumption DEF CountersMeet, Aligned, Due, syncVars
    <3>4. Searching' /\ ReadingLength' /\ FrameAsHeard'
      BY <1>0, <3>1 DEF Searching, ReadingLength, FrameAsHeard
    <3>5. ReadingBody'
      <4>1. /\ Len(heard') = 2 + 2 * payloadCnt' + byteIndex'
            /\ bct' = 2 * payloadCnt' + byteIndex' /\ Len(packet') = payloadCnt'
        BY <1>1, <1>2, <1>10, <2>1, <2>2, <2>3, <3>1
      <4>2. packetLen' = Wanted' BY <1>0, <1>1, <1>7
      <4>3. payloadCnt' < packetLen' BY <1>0, <1>2, <2>1, <2>6
      <4> QED BY <2>1, <2>4, <4>1, <4>2, <4>3 DEF ReadingBody
    <3> QED BY <3>2, <3>3, <3>4, <3>5 DEF SinkInv
  <2> QED BY <2>5, <2>6
<1> QED BY <1>2, <1>9, <1>10

-----------------------------------------------------------------------------
LEMMA StutterInv == ASSUME SinkInv, UNCHANGED sinkVars PROVE SinkInv'
<1> USE DEF sinkVars
<1>1. UNCHANGED <<state, sfd, byteVars, frameVars>> BY DEF byteVars, frameVars
<1>2. SinkTypeOK' BY DEF SinkInv, SinkTypeOK, byteVars, frameVars
<1>3. CountersMeet' /\ Aligned' BY DEF SinkInv, CountersMeet, Aligned, Due
<1> QED BY <1>1, <1>2, <1>3, FrameUntouched DEF SinkInv

LEMMA NextInv == SinkInv /\ [Next]_sinkVars => SinkInv'
<1> SUFFICES ASSUME SinkInv, [Next]_sinkVars PROVE SinkInv' OBVIOUS
<1>1. ASSUME NEW found \in BOOLEAN, Unlocked(found) PROVE SinkInv'
  BY <1>1, UnlockedInv
<1>2. CASE Count BY <1>2, CountInv
<1>3. ASSUME NEW h \in Answers, PreambleSymbol(h) PROVE SinkInv'
  BY <1>3, PreambleSymbolInv
<1>4. ASSUME NEW h \in Answers, DelimiterSymbol(h) PROVE SinkInv'
  BY <1>4, DelimiterSymbolInv
<1>5. ASSUME NEW c \in Answers, LengthSymbol(c) PROVE SinkInv'
  BY <1>5, LengthSymbolInv
<1>6. ASSUME NEW c \in Answers, BodySymbol(c) PROVE SinkInv'
  BY <1>6, BodySymbolInv
<1>7. CASE UNCHANGED sinkVars BY <1>7, StutterInv
<1> QED BY <1>1, <1>2, <1>3, <1>4, <1>5, <1>6, <1>7 DEF Next

LEMMA InBoundsFollows == SinkInv => InBounds
<1> SUFFICES ASSUME SinkInv PROVE InBounds OBVIOUS
<1> USE SizeAssumption DEF SinkInv, SinkTypeOK, InBounds
<1>1. CASE state = "SYNC_SEARCH" BY <1>1 DEF Searching
<1>2. CASE state = "HAVE_SYNC" BY <1>2 DEF ReadingLength
<1>3. CASE state = "HAVE_HEADER" BY <1>3 DEF ReadingBody
<1> QED BY <1>1, <1>2, <1>3

LEMMA AlwaysInv == Spec => []SinkInv
BY InitInv, NextInv, PTL DEF Spec

(* Bytes stay bytes and lengths lengths, whatever is heard. *)
THEOREM SinkTypeCorrect == Spec => []SinkTypeOK
<1>1. SinkInv => SinkTypeOK BY DEF SinkInv
<1> QED BY <1>1, AlwaysInv, PTL

(* The chip counter meets its limit for every spreading: d_chip_cnt is 0
   whenever the limit changes. *)
THEOREM CountersMeetHolds == Spec => []CountersMeet
<1>1. SinkInv => CountersMeet BY DEF SinkInv
<1> QED BY <1>1, AlwaysInv, PTL

(* No index of d_packet or be passes its end, for arrays of any size that
   satisfy SizeAssumption, as 127 and 256 do. *)
THEOREM InBoundsHolds == Spec => []InBounds
BY InBoundsFollows, AlwaysInv, PTL

(* A frame is made of what was heard behind its delimiter and of nothing
   else. *)
THEOREM FrameAsHeardHolds == Spec => []FrameAsHeard
<1>1. SinkInv => FrameAsHeard BY DEF SinkInv
<1> QED BY <1>1, AlwaysInv, PTL

-----------------------------------------------------------------------------
LEMMA HearIsSinkStep == Hear => Next
<1> SUFFICES ASSUME Hear PROVE Next OBVIOUS
<1>1. CASE HearUnlocked
  <2>1. PICK h \in Answers : Unlocked(h = 0) BY <1>1 DEF HearUnlocked
  <2>2. (h = 0) \in BOOLEAN OBVIOUS
  <2> QED BY <2>1, <2>2, Zenon DEF Next
<1>2. CASE HearInside BY <1>2 DEF HearInside, Next
<1>3. CASE HearPreamble
  <2>1. PICK h \in Answers : PreambleSymbol(h) BY <1>3 DEF HearPreamble
  <2> QED BY <2>1, Zenon DEF Next
<1>4. CASE HearDelimiter
  <2>1. PICK h \in Answers : DelimiterSymbol(h) BY <1>4 DEF HearDelimiter
  <2> QED BY <2>1, Zenon DEF Next
<1>5. CASE HearLength
  <2>1. PICK c \in Answers : LengthSymbol(c) BY <1>5 DEF HearLength
  <2> QED BY <2>1, Zenon DEF Next
<1>6. CASE HearBody
  <2>1. PICK c \in Answers : BodySymbol(c) BY <1>6 DEF HearBody
  <2> QED BY <2>1, Zenon DEF Next
<1> QED BY <1>1, <1>2, <1>3, <1>4, <1>5, <1>6 DEF Hear

LEMMA RateStepIsSinkStep == [RateNext]_vars => [Next]_sinkVars
<1> SUFFICES ASSUME [RateNext]_vars PROVE [Next]_sinkVars OBVIOUS
<1>1. CASE Hear BY <1>1, HearIsSinkStep
<1>2. ASSUME NEW l \in Letters \cup {Other}, RenewOpens(l) PROVE UNCHANGED sinkVars
  BY <1>2 DEF RenewOpens
<1>3. CASE RenewCloses BY <1>3 DEF RenewCloses
<1>4. ASSUME NEW l \in ReadsFrom(file), MakeFrame(l) PROVE UNCHANGED sinkVars
  BY <1>4 DEF MakeFrame
<1>5. CASE MakeFrameEof BY <1>5 DEF MakeFrameEof
<1>6. ASSUME NEW l \in ReadsFrom(file), NEW n \in 1 .. Len(stream), Work(l, n)
      PROVE UNCHANGED sinkVars
  BY <1>6 DEF Work
<1>7. CASE UNCHANGED vars BY <1>7 DEF vars
<1> QED BY <1>1, <1>2, <1>3, <1>4, <1>5, <1>6, <1>7 DEF RateNext

(* Behind the transmitter the sink does nothing it does not do for open
   answers: its counters, bounds and frames are right whatever happens to
   rec_ack between its writer and its two readers. *)
THEOREM SinkBehindTheLink ==
    RateSpec => [](SinkTypeOK /\ CountersMeet /\ InBounds /\ FrameAsHeard)
<1>1. RateInit => SinkInv BY InitInv DEF RateInit
<1>2. SinkInv /\ [RateNext]_vars => SinkInv' BY NextInv, RateStepIsSinkStep
<1>3. SinkInv => SinkTypeOK /\ CountersMeet /\ InBounds /\ FrameAsHeard
  BY InBoundsFollows DEF SinkInv
<1> QED BY <1>1, <1>2, <1>3, PTL DEF RateSpec
=============================================================================
