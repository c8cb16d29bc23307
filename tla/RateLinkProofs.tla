--------------------------- MODULE RateLinkProofs ---------------------------
(***************************************************************************)
(* What RateLink promises of whole packets: a good one that is taken at    *)
(* its delimiter is published as it was sent, and when all are good and    *)
(* nothing disturbs them all arrive.  A packet is good that starts a call  *)
(* of work() which holds all of it and spreads it as its delimiter says:   *)
(* when all are, each was alone in its call.  The proofs follow a packet   *)
(* from the stream to the air and there from symbol to symbol, for every   *)
(* set of rates, length of the preamble, size of packets and calls, and    *)
(* number of changes.                                                      *)
(***************************************************************************)
EXTENDS PacketSinkProofs, FiniteSetTheorems, SequenceTheorems

Messages == {m \in Seq(0 .. 255) : m # <<>> /\ Len(m) < 251}
Packets == [payload : Messages, sfd : SFDs]

\* The symbols of a frame with packet r, by place.
Bytes(r) == <<Len(r.payload)>> \o r.payload
Body(r) == 2 * Len(Bytes(r))
Whole(r) == HeaderSymbols + Body(r)
NibbleOf(r, j) ==
    IF j <= Zeros THEN 0
    ELSE IF j = Zeros + 1 THEN 7
    ELSE IF j = HeaderSymbols THEN r.sfd
    ELSE Symbols(Bytes(r))[j - HeaderSymbols]

\* The j-th symbol of packet r, the p-th: in the stream, and spread as the delimiter says.
InFrame(r, p, j) == Item(NibbleOf(r, j), IF j = HeaderSymbols THEN p ELSE 0)
OnAir(r, p, j) ==
    [nibble |-> NibbleOf(r, j), of |-> IF j = HeaderSymbols THEN p ELSE 0,
     chips |-> IF j <= HeaderSymbols THEN HeadChips ELSE ChipsOf[r.sfd]]

\* From its i-th place a holds packet p, r, from the m-th symbol on.
HoldsFrom(a, i, r, p, m) ==
    \A j \in m .. Whole(r) : i + j - m <= Len(a) /\ a[i + j - m] = OnAir(r, p, j)
-----------------------------------------------------------------------------
(* Symbols and frames. *)

LEMMA HeaderSize == Zeros \in Nat /\ Zeros >= 1 /\ HeaderSymbols \in Nat /\ HeaderSymbols = Zeros + 2
  BY HeaderAssumption DEF HeaderSymbols

LEMMA PacketType ==
    ASSUME NEW r \in Packets
    PROVE  /\ r.payload \in Seq(0 .. 255) /\ Len(r.payload) \in 1 .. 250 /\ r.sfd \in SFDs
           /\ r.sfd \in 1 .. 15 /\ ChipsOf[r.sfd] \in Nat \ {0}
           /\ Bytes(r) \in Seq(0 .. 255) /\ Len(Bytes(r)) = 1 + Len(r.payload)
           /\ Bytes(r)[1] = Len(r.payload)
           /\ \A i \in 1 .. Len(r.payload) : Bytes(r)[i + 1] = r.payload[i]
           /\ Body(r) \in Nat /\ Body(r) = 2 + 2 * Len(r.payload) /\ Body(r) >= 4
           /\ Whole(r) \in Nat /\ Whole(r) = HeaderSymbols + Body(r)
<1>1. r.payload \in Seq(0 .. 255) /\ r.payload # <<>> /\ Len(r.payload) < 251 /\ r.sfd \in SFDs
  BY DEF Packets, Messages
<1>2. Len(r.payload) \in 1 .. 250
  <2> DEFINE n == Len(r.payload)
  <2>1. n \in Nat
    BY <1>1, LenProperties
  <2>2. n # 0
    BY <1>1, EmptySeq
  <2>3. n < 251
    BY <1>1
  <2> HIDE DEF n
  <2>4. n \in 1 .. 250
    BY <2>1, <2>2, <2>3
  <2> QED BY <2>4 DEF n
<1>3. r.sfd \in 1 .. 15 /\ ChipsOf[r.sfd] \in Nat \ {0}
  BY <1>1, ChipsAssumption
<1>4. <<Len(r.payload)>> \in Seq(0 .. 255) /\ Len(<<Len(r.payload)>>) = 1
  BY <1>2
<1>5. /\ Bytes(r) \in Seq(0 .. 255) /\ Len(Bytes(r)) = 1 + Len(r.payload)
      /\ Bytes(r)[1] = Len(r.payload)
      /\ \A i \in 1 .. Len(r.payload) : Bytes(r)[i + 1] = r.payload[i]
  BY <1>1, <1>2, <1>4 DEF Bytes
<1>6. Body(r) \in Nat /\ Body(r) = 2 + 2 * Len(r.payload) /\ Body(r) >= 4
  <2> DEFINE n == Len(r.payload)
             b == Len(Bytes(r))
  <2>1. n \in 1 .. 250 /\ b = 1 + n
    BY <1>2, <1>5
  <2>2. Body(r) = 2 * b
    BY DEF Body
  <2> HIDE DEF n, b
  <2>3. Body(r) \in Nat /\ Body(r) = 2 + 2 * n /\ Body(r) >= 4
    BY <2>1, <2>2
  <2> QED BY <2>3 DEF n
<1>7. Whole(r) \in Nat /\ Whole(r) = HeaderSymbols + Body(r)
  <2>1. Body(r) \in Nat
    BY <1>6
  <2>2. Whole(r) = HeaderSymbols + Body(r)
    BY DEF Whole
  <2> QED BY <2>1, <2>2, HeaderSize
<1> QED
  BY <1>1, <1>2, <1>3, <1>5, <1>6, <1>7

LEMMA ByteParts ==
    ASSUME NEW x \in 0 .. 255
    PROVE  x % 16 \in 0 .. 15 /\ x \div 16 \in 0 .. 15 /\ (x % 16) + 16 * (x \div 16) = x
  OBVIOUS

LEMMA SymbolsAre ==
    ASSUME NEW b \in Seq(0 .. 255)
    PROVE  /\ Symbols(b) \in Seq(0 .. 15) /\ Len(Symbols(b)) = 2 * Len(b)
           /\ \A i \in 1 .. Len(b) : /\ Symbols(b)[2 * i - 1] = (b[i] % 16)
                                     /\ Symbols(b)[2 * i] = b[i] \div 16
                                     /\ Symbols(b)[2 * i - 1] + 16 * Symbols(b)[2 * i] = b[i]
<1>0. Len(b) \in Nat
  OBVIOUS
<1>1. ASSUME NEW i \in 1 .. 2 * Len(b)
      PROVE  (IF i % 2 = 1 THEN b[(i + 1) \div 2] % 16 ELSE b[i \div 2] \div 16) \in 0 .. 15
  <2>1. CASE i % 2 = 1
    <3>1. (i + 1) \div 2 \in 1 .. Len(b)
      BY <1>0, <2>1
    <3>2. b[(i + 1) \div 2] \in 0 .. 255
      BY <3>1, ElementOfSeq
    <3> QED BY <2>1, <3>2, ByteParts
  <2>2. CASE i % 2 # 1
    <3>1. i \div 2 \in 1 .. Len(b)
      BY <1>0, <2>2
    <3>2. b[i \div 2] \in 0 .. 255
      BY <3>1, ElementOfSeq
    <3> QED BY <2>2, <3>2, ByteParts
  <2> QED BY <2>1, <2>2
<1>2. Symbols(b) \in Seq(0 .. 15) /\ Len(Symbols(b)) = 2 * Len(b)
  <2>1. Symbols(b) \in [1 .. 2 * Len(b) -> 0 .. 15]
    BY <1>1 DEF Symbols
  <2>2. 2 * Len(b) \in Nat
    BY <1>0
  <2> DEFINE N == 2 * Len(b)
             S == Symbols(b)
             T == 0 .. 15
  <2> HIDE DEF N, S, T
  <2>3. N \in Nat /\ S \in [1 .. N -> T]
    BY <2>1, <2>2 DEF N, S, T
  <2>4. S \in Seq(T) /\ Len(S) = N
    BY <2>3, IsASeq
  <2> QED BY <2>4 DEF N, S, T
<1>3. ASSUME NEW i \in 1 .. Len(b)
      PROVE  /\ Symbols(b)[2 * i - 1] = (b[i] % 16)
             /\ Symbols(b)[2 * i] = b[i] \div 16
             /\ Symbols(b)[2 * i - 1] + 16 * Symbols(b)[2 * i] = b[i]
  <2>1. /\ 2 * i - 1 \in 1 .. 2 * Len(b) /\ 2 * i \in 1 .. 2 * Len(b)
        /\ (2 * i - 1) % 2 = 1 /\ (2 * i) % 2 = 0
        /\ ((2 * i - 1) + 1) \div 2 = i /\ (2 * i) \div 2 = i
    BY <1>0
  <2>2. Symbols(b)[2 * i - 1] = (b[i] % 16) /\ Symbols(b)[2 * i] = b[i] \div 16
    BY <2>1 DEF Symbols
  <2>3. b[i] \in 0 .. 255
    BY ElementOfSeq
  <2>4. (b[i] % 16) + 16 * (b[i] \div 16) = b[i]
    BY <2>3, ByteParts
  <2> QED BY <2>2, <2>4
<1> QED BY <1>2, <1>3

LEMMA NibbleType ==
    ASSUME NEW r \in Packets, NEW j \in 1 .. Whole(r)
    PROVE  /\ NibbleOf(r, j) \in 0 .. 15
           /\ j > HeaderSymbols => /\ j - HeaderSymbols \in 1 .. Body(r)
                                   /\ NibbleOf(r, j) = Symbols(Bytes(r))[j - HeaderSymbols]
<1>1. Body(r) = 2 * Len(Bytes(r)) /\ Whole(r) = HeaderSymbols + Body(r) /\ Body(r) \in Nat
  BY PacketType DEF Body
<1>2. Symbols(Bytes(r)) \in Seq(0 .. 15) /\ Len(Symbols(Bytes(r))) = Body(r)
  BY <1>1, PacketType, SymbolsAre
<1>3. ASSUME j > HeaderSymbols
      PROVE  /\ j - HeaderSymbols \in 1 .. Body(r)
             /\ NibbleOf(r, j) = Symbols(Bytes(r))[j - HeaderSymbols]
             /\ NibbleOf(r, j) \in 0 .. 15
  <2>1. j - HeaderSymbols \in 1 .. Body(r)
    BY <1>1, <1>3, HeaderSize
  <2>2. NibbleOf(r, j) = Symbols(Bytes(r))[j - HeaderSymbols]
    BY <1>3, HeaderSize DEF NibbleOf
  <2> QED BY <1>2, <2>1, <2>2, ElementOfSeq
<1>4. ASSUME j <= HeaderSymbols PROVE NibbleOf(r, j) \in 0 .. 15
  BY <1>4, HeaderSize, PacketType DEF NibbleOf
<1> QED BY <1>1, <1>3, <1>4, HeaderSize

LEMMA FrameIs ==
    ASSUME NEW m \in Messages, NEW l \in Letters \cup {Other}, NEW p \in Nat
    PROVE  LET r == [payload |-> m, sfd |-> SfdOf(l)]
           IN  /\ r \in Packets
               /\ FrameOf(l, m, p) \in Seq([nibble : Nat, of : Nat])
               /\ Len(FrameOf(l, m, p)) = Whole(r)
               /\ \A j \in 1 .. Whole(r) : FrameOf(l, m, p)[j] = InFrame(r, p, j)
<1> DEFINE r == [payload |-> m, sfd |-> SfdOf(l)]
           T == [nibble : Nat, of : Nat]
           A == [i \in 1 .. Zeros |-> Item(0, 0)]
           B == <<Item(7, 0), Item(SfdOf(l), p)>>
           S == Symbols(<<Len(m)>> \o m)
           C == [i \in 1 .. 2 + 2 * Len(m) |-> Item(S[i], 0)]
           F == FrameOf(l, m, p)
<1>1. r \in Packets
  BY RateAssumption DEF Packets
<1>2. /\ Bytes(r) = <<Len(m)>> \o m /\ Body(r) = 2 + 2 * Len(m) /\ Body(r) \in Nat
      /\ Whole(r) = HeaderSymbols + Body(r) /\ r.sfd = SfdOf(l) /\ SfdOf(l) \in 1 .. 15
      /\ Body(r) = 2 * Len(Bytes(r)) /\ Bytes(r) \in Seq(0 .. 255)
  BY <1>1, PacketType DEF Bytes, Body
<1>3. S = Symbols(Bytes(r)) /\ S \in Seq(0 .. 15) /\ Len(S) = Body(r)
  BY <1>2, SymbolsAre
<1>4. F = A \o B \o C
  BY DEF FrameOf
<1> HIDE DEF r, F, S
<1>5. A \in Seq(T) /\ Len(A) = Zeros /\ \A i \in 1 .. Zeros : A[i] = Item(0, 0)
  BY HeaderSize DEF Item
<1>6. B \in Seq(T) /\ Len(B) = 2 /\ B[1] = Item(7, 0) /\ B[2] = Item(SfdOf(l), p)
  <2>1. Item(7, 0) \in T /\ Item(SfdOf(l), p) \in T
    BY <1>2 DEF Item
  <2> HIDE DEF T
  <2> QED BY <2>1
<1>7. C \in Seq(T) /\ Len(C) = Body(r) /\ \A i \in 1 .. Body(r) : C[i] = Item(S[i], 0)
  <2>1. C = [i \in 1 .. Body(r) |-> Item(S[i], 0)]
    BY <1>2
  <2>2. \A i \in 1 .. Body(r) : S[i] \in Nat
    BY <1>3, ElementOfSeq
  <2>3. \A i \in 1 .. Body(r) : Item(S[i], 0) \in T
    BY <2>2 DEF Item
  <2> HIDE DEF T, C
  <2> QED BY <1>2, <2>1, <2>3
<1> HIDE DEF A, B, C, T
<1>8. A \o B \in Seq(T) /\ Len(A \o B) = Zeros + 2
      /\ \A i \in 1 .. Zeros : (A \o B)[i] = Item(0, 0)
      /\ (A \o B)[Zeros + 1] = Item(7, 0) /\ (A \o B)[Zeros + 2] = Item(SfdOf(l), p)
  <2>1. A \o B \in Seq(T) /\ Len(A \o B) = Zeros + 2
        /\ \A i \in 1 .. Zeros + 2 : (A \o B)[i] = IF i <= Zeros THEN A[i] ELSE B[i - Zeros]
    <3>1. A \in Seq(T) /\ B \in Seq(T)
      BY <1>5, <1>6
    <3>2. Len(A) = Zeros /\ Len(B) = 2
      BY <1>5, <1>6
    <3>3. /\ A \o B \in Seq(T) /\ Len(A \o B) = Len(A) + Len(B)
          /\ \A i \in 1 .. Len(A) + Len(B) : (A \o B)[i] = IF i <= Len(A) THEN A[i] ELSE B[i - Len(A)]
      BY <3>1, ConcatProperties, Zenon
    <3> QED BY <3>2, <3>3, Zenon
  <2> DEFINE E == A \o B
  <2> HIDE DEF E
  <2>3. \A i \in 1 .. Zeros + 2 : E[i] = IF i <= Zeros THEN A[i] ELSE B[i - Zeros]
    BY <2>1 DEF E
  <2>4. \A i \in 1 .. Zeros : E[i] = Item(0, 0)
    BY <1>5, <2>3, HeaderSize
  <2>5. Zeros + 1 \in 1 .. Zeros + 2 /\ ~(Zeros + 1 <= Zeros) /\ (Zeros + 1) - Zeros = 1
        /\ Zeros + 2 \in 1 .. Zeros + 2 /\ ~(Zeros + 2 <= Zeros) /\ (Zeros + 2) - Zeros = 2
    BY HeaderSize
  <2>6. E[Zeros + 1] = B[1] /\ E[Zeros + 2] = B[2]
    BY <2>3, <2>5
  <2> QED BY <1>6, <2>1, <2>4, <2>6 DEF E
<1> DEFINE D == A \o B
<1> HIDE DEF D
<1>9. D \in Seq(T) /\ Len(D) = HeaderSymbols /\ F = D \o C
  BY <1>4, <1>8, HeaderSize DEF D
<1>10. F \in Seq(T) /\ Len(F) = Whole(r)
  <2>1. F \in Seq(T) /\ Len(F) = HeaderSymbols + Body(r)
    BY <1>7, <1>9, ConcatProperties
  <2> QED BY <1>2, <2>1
<1>11. ASSUME NEW j \in 1 .. Whole(r) PROVE F[j] = InFrame(r, p, j)
  <2>1. CASE j <= HeaderSymbols
    <3>1. F[j] = D[j]
      BY <1>7, <1>9, <2>1, HeaderSize
    <3>2. CASE j <= Zeros
      BY <1>8, <3>1, <3>2, HeaderSize DEF D, InFrame, NibbleOf
    <3>3. CASE j = Zeros + 1
      BY <1>8, <3>1, <3>3, HeaderSize DEF D, InFrame, NibbleOf
    <3>4. CASE j = HeaderSymbols
      BY <1>2, <1>8, <3>1, <3>4, HeaderSize DEF D, InFrame, NibbleOf
    <3> QED BY <2>1, <3>2, <3>3, <3>4, HeaderSize
  <2>2. CASE j > HeaderSymbols
    <3>1. j - HeaderSymbols \in 1 .. Body(r) /\ NibbleOf(r, j) = S[j - HeaderSymbols]
      BY <1>1, <1>3, <2>2, NibbleType DEF r
    <3>2. F[j] = C[j - HeaderSymbols]
      BY <1>2, <1>7, <1>9, <2>2, <3>1, HeaderSize
    <3> QED BY <1>7, <2>2, <3>1, <3>2, HeaderSize DEF InFrame
  <2> QED BY <2>1, <2>2, HeaderSize
<1> QED BY <1>1, <1>10, <1>11 DEF r, F, T
-----------------------------------------------------------------------------
(* What a call of work() puts on the air. *)

StreamItem == [nibble : Nat, of : Nat]
AirItem == [nibble : Nat, of : Nat, chips : Int]

LEMMA ItemType ==
    ASSUME NEW s \in Seq(StreamItem), NEW i \in 1 .. Len(s)
    PROVE  s[i].nibble \in Nat /\ s[i].of \in Nat
<1>1. s[i] \in StreamItem
  BY ElementOfSeq, Zenon
<1> QED BY <1>1 DEF StreamItem

LEMMA SeqOfFunction ==
    ASSUME NEW S, NEW N \in Nat, NEW f \in [1 .. N -> S] PROVE f \in Seq(S) /\ Len(f) = N
  BY IsASeq

LEMMA MinOfTwo == ASSUME NEW a \in Int, NEW b \in Int PROVE Min({a, b}) = IF a <= b THEN a ELSE b
<1>1. \E x \in {a, b} : \A y \in {a, b} : x <= y
  OBVIOUS
<1>2. Min({a, b}) \in {a, b} /\ \A y \in {a, b} : Min({a, b}) <= y
  BY <1>1 DEF Min
<1> QED BY <1>2

LEMMA TimesMonotone ==
    ASSUME NEW k \in Nat, NEW a \in Nat, NEW b \in Nat, a <= b
    PROVE  k * a \in Nat /\ k * b \in Nat /\ k * a <= k * b
<1>1. k * b = k * a + k * (b - a) /\ k * (b - a) >= 0 /\ k * a \in Nat /\ k * b \in Nat
  <2>1. b - a \in Nat
    OBVIOUS
  <2>2. \A x \in Nat : k * x \in Nat
    OBVIOUS
  <2>3. k * (b - a) \in Nat /\ k * a \in Nat /\ k * b \in Nat
    BY <2>1, <2>2
  <2> QED BY <2>3
<1> QED BY <1>1

LEMMA QuotientIs ==
    ASSUME NEW k \in Nat \ {0}, NEW a \in Nat, NEW b \in Nat
    PROVE  /\ a \div k \in Nat
           /\ k * b <= a => b <= a \div k
           /\ k * b = a => b = a \div k
<1> DEFINE q == a \div k
           r == a % k
<1>1. q \in Nat /\ r \in 0 .. k - 1 /\ a = k * q + r
  OBVIOUS
<1> HIDE DEF q, r
<1>2. ASSUME k * b <= a PROVE b <= q
  <2>1. ASSUME q + 1 <= b PROVE FALSE
    <3>1. k * (q + 1) <= k * b
      BY <1>1, <2>1, TimesMonotone
    <3>2. k * (q + 1) = k * q + k
      BY <1>1
    <3>3. k * q \in Nat /\ k * b \in Nat
      BY <1>1
    <3> QED BY <1>1, <1>2, <3>1, <3>2, <3>3
  <2> QED BY <1>1, <2>1
<1>3. ASSUME k * b = a PROVE b = q
  <2>1. b <= q
    BY <1>2, <1>3
  <2>2. ASSUME b + 1 <= q PROVE FALSE
    <3>1. k * (b + 1) <= k * q
      BY <1>1, <2>2, TimesMonotone
    <3>2. k * (b + 1) = k * b + k
      OBVIOUS
    <3>3. k * q \in Nat /\ k * b \in Nat
      BY <1>1
    <3> QED BY <1>1, <1>3, <3>1, <3>2, <3>3
  <2> QED BY <1>1, <2>1, <2>2
<1> QED BY <1>1, <1>2, <1>3 DEF q

LEMMA RateType ==
    ASSUME NEW l \in Letters \cup {Other}
    PROVE  /\ SfdOf(l) \in SFDs /\ SpreadOf(l) = ChipsOf[SfdOf(l)]
           /\ SpreadOf(l) \in Nat \ {0} /\ SpreadOf(l) <= HeadChips
<1>1. SfdOf(l) \in SFDs /\ ChipsOf[SfdOf(l)] = SpreadOf(l)
  BY RateAssumption
<1>2. ChipsOf[SfdOf(l)] \in Nat \ {0}
  BY <1>1, ChipsAssumption
<1>3. SpreadOf(l) <= HeadChips
  BY HeaderAssumption
<1> QED BY <1>1, <1>2, <1>3

\* The symbols of the call itself are not cut short.
LEMMA SymbolFits ==
    ASSUME NEW c \in Nat \ {0}, c <= HeadChips, NEW n \in Nat, NEW i \in Nat, 1 <= i
    PROVE  /\ Before(i, c) \in Nat /\ Size(i, c) \in Nat \ {0}
           /\ i <= n => Before(i, c) + Size(i, c) <= HeadChips * n
<1>1. HeadChips \in Nat \ {0} /\ AsHeader = HeaderSymbols /\ AsHeader \in Nat
  BY ChipsAssumption, HeaderSize DEF AsHeader
<1>2. CASE i <= AsHeader
  <2>1. Before(i, c) = HeadChips * (i - 1) /\ Size(i, c) = HeadChips
    BY <1>2 DEF Before, Size
  <2>2. i - 1 \in Nat /\ HeadChips * (i - 1) \in Nat
    BY <1>1
  <2>3. HeadChips * (i - 1) + HeadChips = HeadChips * i
    BY <1>1
  <2>4. i <= n => HeadChips * i <= HeadChips * n
    BY <1>1, TimesMonotone
  <2> QED BY <1>1, <2>1, <2>2, <2>3, <2>4
<1>3. CASE i > AsHeader
  <2> DEFINE k == i - 1 - AsHeader
  <2>1. Before(i, c) = HeadChips * AsHeader + c * k /\ Size(i, c) = c
    BY <1>1, <1>3 DEF Before, Size
  <2>2. k \in Nat /\ AsHeader + (k + 1) = i
    BY <1>1, <1>3
  <2> HIDE DEF k
  <2>3. c * k \in Nat /\ HeadChips * AsHeader \in Nat
    BY <1>1, <2>2
  <2>4. c * k + c = (k + 1) * c
    BY <2>2
  <2>5. (k + 1) * c <= (k + 1) * HeadChips
    BY <1>1, <2>2, TimesMonotone
  <2>6. HeadChips * AsHeader + (k + 1) * HeadChips = HeadChips * i
    BY <1>1, <2>2
  <2>7. i <= n => HeadChips * i <= HeadChips * n
    BY <1>1, TimesMonotone
  <2>8. Before(i, c) + Size(i, c) <= HeadChips * i
    BY <1>1, <2>1, <2>2, <2>3, <2>4, <2>5, <2>6
  <2> QED BY <1>1, <2>1, <2>3, <2>7, <2>8
<1> QED BY <1>1, <1>2, <1>3

LEMMA SpreadIs ==
    ASSUME stream \in Seq(StreamItem), NEW n \in 1 .. Len(stream),
           NEW c \in Nat \ {0}, c <= HeadChips
    PROVE  /\ Spread(n, c) \in Seq(AirItem) /\ n <= Len(Spread(n, c))
           /\ \A i \in 1 .. n :
                 Spread(n, c)[i] = [nibble |-> stream[i].nibble, of |-> stream[i].of, chips |-> Size(i, c)]
           /\ \A i \in n + 1 .. Len(Spread(n, c)) :
                 /\ Spread(n, c)[i].of = 0
                 /\ i > HeaderSymbols => Spread(n, c)[i].chips # HeadChips
<1> DEFINE room == HeadChips * n
           whole == room \div c
           S == {j \in 1 .. whole : Before(j, c) < room}
           K == Cardinality(S)
           e(i) == [nibble |-> IF i <= Len(stream) /\ Before(i, c) + Size(i, c) <= room
                               THEN stream[i].nibble ELSE Stale,
                    of     |-> IF i <= n THEN stream[i].of ELSE 0,
                    chips  |-> Min({Size(i, c), room - Before(i, c)})]
<1>1. Spread(n, c) = [i \in 1 .. K |-> e(i)]
  BY DEF Spread
<1>2. Len(stream) \in Nat /\ n \in Nat /\ HeadChips \in Nat \ {0} /\ n >= 1
  BY ChipsAssumption
<1>3. room \in Nat
  BY <1>2
<1>4. c * n <= room /\ c * n \in Nat
  BY <1>2, TimesMonotone
<1>5. whole \in Nat /\ n <= whole
  BY <1>2, <1>3, <1>4, QuotientIs
<1>6. ASSUME NEW j \in Nat \ {0} PROVE Before(j, c) \in Nat /\ Size(j, c) \in Nat \ {0}
  <2>1. j \in Nat /\ 1 <= j
    OBVIOUS
  <2> QED BY <1>2, <2>1, SymbolFits
<1>7. ASSUME NEW j \in 1 .. n PROVE Before(j, c) + Size(j, c) <= room
  <2>1. j \in Nat /\ 1 <= j /\ j <= n
    BY <1>2
  <2> QED BY <1>2, <2>1, SymbolFits
<1> HIDE DEF room, whole
<1>8. 1 .. n \subseteq S /\ S \subseteq 1 .. whole
  <2>1. S \subseteq 1 .. whole
    OBVIOUS
  <2>2. ASSUME NEW j \in 1 .. n PROVE j \in S
    <3>1. j \in 1 .. whole /\ j \in Nat \ {0}
      BY <1>2, <1>5
    <3>2. Before(j, c) < room
      <4>1. Before(j, c) \in Nat /\ Size(j, c) \in Nat \ {0} /\ Before(j, c) + Size(j, c) <= room
        BY <1>6, <1>7, <3>1
      <4> DEFINE x == Before(j, c)
                 y == Size(j, c)
      <4>2. x \in Nat /\ y \in Nat \ {0} /\ x + y <= room
        BY <4>1
      <4> HIDE DEF x, y
      <4>3. x < room
        BY <1>3, <4>2
      <4> QED BY <4>3 DEF x
    <3> QED BY <3>1, <3>2
  <2> QED BY <2>1, <2>2
<1>9. IsFiniteSet(S) /\ K \in Nat /\ n <= K /\ K <= whole
  <2>1. IsFiniteSet(1 .. whole) /\ Cardinality(1 .. whole) = whole
    BY <1>5, FS_Interval
  <2>2. Cardinality(1 .. n) = n
    BY <1>2, FS_Interval
  <2> HIDE DEF S
  <2>3. IsFiniteSet(S) /\ K <= whole
    BY <1>8, <2>1, FS_Subset
  <2>4. n <= K
    BY <1>8, <2>2, <2>3, FS_Subset
  <2> QED BY <2>3, <2>4, FS_CardinalityType
<1> HIDE DEF S, K
<1>10. ASSUME NEW i \in 1 .. K
       PROVE  /\ e(i) \in AirItem
              /\ i <= n => e(i) = [nibble |-> stream[i].nibble, of |-> stream[i].of, chips |-> Size(i, c)]
              /\ i > n => e(i).of = 0 /\ (i > HeaderSymbols => e(i).chips # HeadChips)
  <2>1. i \in Nat \ {0} /\ Before(i, c) \in Nat /\ Size(i, c) \in Nat \ {0}
    BY <1>6, <1>9
  <2> DEFINE m == Min({Size(i, c), room - Before(i, c)})
  <2>2. m = IF Size(i, c) <= room - Before(i, c) THEN Size(i, c) ELSE room - Before(i, c)
    BY <1>3, <2>1, MinOfTwo
  <2> HIDE DEF m
  <2>3. m \in Int /\ m <= Size(i, c)
    BY <1>3, <2>1, <2>2
  <2>4. i <= Len(stream) => stream[i].nibble \in Nat /\ stream[i].of \in Nat
    <3> SUFFICES ASSUME i <= Len(stream) PROVE stream[i].nibble \in Nat /\ stream[i].of \in Nat
      OBVIOUS
    <3>1. i \in 1 .. Len(stream)
      BY <1>2, <2>1
    <3> QED BY <3>1, ItemType
  <2>5. e(i) = [nibble |-> IF i <= Len(stream) /\ Before(i, c) + Size(i, c) <= room
                           THEN stream[i].nibble ELSE Stale,
                of     |-> IF i <= n THEN stream[i].of ELSE 0, chips |-> m]
    BY DEF m
  <2>6. (IF i <= Len(stream) /\ Before(i, c) + Size(i, c) <= room THEN stream[i].nibble ELSE Stale) \in Nat
    BY <2>4 DEF Stale
  <2>7. (IF i <= n THEN stream[i].of ELSE 0) \in Nat
    BY <1>2, <2>4
  <2>8. e(i) \in AirItem
    BY <2>3, <2>5, <2>6, <2>7 DEF AirItem
  <2>9. ASSUME i <= n
        PROVE  e(i) = [nibble |-> stream[i].nibble, of |-> stream[i].of, chips |-> Size(i, c)]
    <3>1. Before(i, c) + Size(i, c) <= room /\ i <= Len(stream)
      BY <1>2, <1>7, <2>1, <2>9
    <3>2. m = Size(i, c)
      BY <1>3, <2>1, <2>2, <3>1
    <3> QED BY <2>5, <2>9, <3>1, <3>2
  <2>10. ASSUME i > n, i > HeaderSymbols PROVE m # HeadChips
    <3>1. Size(i, c) = c
      BY <2>10, HeaderSize DEF Size, AsHeader, HeaderSymbols
    <3>2. CASE c < HeadChips
      BY <1>2, <2>3, <3>1, <3>2
    <3>3. CASE c = HeadChips
      <4>1. whole = n
        BY <1>2, <1>3, <3>3, QuotientIs DEF room, whole
      <4> QED BY <1>9, <2>10, <4>1
    <3> QED BY <1>2, <3>2, <3>3
  <2> HIDE DEF e
  <2>11. i > n => e(i).of = 0 /\ e(i).chips = m
    BY <1>2, <2>1, <2>5
  <2> QED BY <2>8, <2>9, <2>10, <2>11
<1> DEFINE X == Spread(n, c)
<1>11. X \in Seq(AirItem) /\ Len(X) = K /\ \A i \in 1 .. K : X[i] = e(i)
  <2> HIDE DEF e
  <2>1. [i \in 1 .. K |-> e(i)] \in [1 .. K -> AirItem]
    BY <1>10
  <2> QED BY <1>1, <1>9, <2>1, SeqOfFunction
<1> HIDE DEF X, e
<1>12. \A i \in n + 1 .. K : i \in 1 .. K /\ i > n
  BY <1>2, <1>9
<1>13. \A i \in 1 .. n : i \in 1 .. K /\ i <= n
  BY <1>2, <1>9
<1> QED BY <1>9, <1>10, <1>11, <1>12, <1>13 DEF X
-----------------------------------------------------------------------------
(* The stream: whole frames in order, behind the rest of one. *)

\* Item i of s, the delimiter of a packet of q, is inside its frame, as far as s holds
\* it, and the frame of the next packet follows.
FramedAt(s, q, i) ==
    LET p == s[i].of
        ends == i + Body(q[p])
    IN  /\ p \in 1 .. Len(q)
        /\ ends <= Len(s)
        /\ \A j \in 1 .. Whole(q[p]) :
                i + j > HeaderSymbols => s[i + j - HeaderSymbols] = InFrame(q[p], p, j)
        /\ p = Len(q) => ends = Len(s)
        /\ p # Len(q) => ends + HeaderSymbols <= Len(s) /\ s[ends + HeaderSymbols].of = p + 1

Framed(s, q) == \A i \in 1 .. Len(s) : s[i].of # 0 => FramedAt(s, q, i)

Rising(s) ==
    \A i, k \in 1 .. Len(s) : i < k /\ s[i].of # 0 /\ s[k].of # 0 => s[i].of < s[k].of

\* Behind a delimiter, no other comes before that of the next packet.
LEMMA Gaps ==
    ASSUME NEW s \in Seq(StreamItem), NEW q \in Seq(Packets), Framed(s, q),
           NEW i \in 1 .. Len(s), NEW k \in 1 .. Len(s), i < k, s[i].of # 0, s[k].of # 0
    PROVE  /\ s[i].of \in 1 .. Len(q) - 1
           /\ i + Whole(q[s[i].of]) <= k
<1> DEFINE p == s[i].of
           r == q[p]
           B == Body(r)
<1>0. Len(s) \in Nat /\ Len(q) \in Nat /\ i \in Nat /\ k \in Nat
  BY LenProperties
<1>1. FramedAt(s, q, i) /\ FramedAt(s, q, k)
  BY DEF Framed
<1>2. /\ p \in 1 .. Len(q) /\ i + B <= Len(s)
      /\ \A j \in 1 .. Whole(r) : i + j > HeaderSymbols => s[i + j - HeaderSymbols] = InFrame(r, p, j)
      /\ p = Len(q) => i + B = Len(s)
      /\ p # Len(q) => i + B + HeaderSymbols <= Len(s) /\ s[i + B + HeaderSymbols].of = p + 1
  BY <1>1 DEF FramedAt
<1>3. r \in Packets
  BY <1>2, ElementOfSeq
<1>4. B \in Nat /\ Whole(r) = HeaderSymbols + B
  BY <1>3, PacketType
<1> HIDE DEF p, r, B
<1>5. k > i + B
  <2> SUFFICES ASSUME k <= i + B PROVE FALSE
    BY <1>0, <1>4
  <2> DEFINE j == k - i + HeaderSymbols
  <2>1. j \in 1 .. Whole(r) /\ i + j > HeaderSymbols /\ i + j - HeaderSymbols = k /\ j # HeaderSymbols
    BY <1>0, <1>4, HeaderSize
  <2> HIDE DEF j
  <2>2. s[k] = InFrame(r, p, j)
    BY <1>2, <2>1
  <2>3. InFrame(r, p, j).of = 0
    BY <2>1 DEF InFrame, Item
  <2> QED BY <2>2, <2>3
<1>6. p # Len(q)
  BY <1>0, <1>2, <1>5
<1> DEFINE d == i + B + HeaderSymbols
<1>7. d \in 1 .. Len(s) /\ s[d].of = p + 1 /\ p + 1 # 0 /\ d \in Nat
  BY <1>0, <1>2, <1>4, <1>6, HeaderSize
<1>8. d <= k
  <2> SUFFICES ASSUME k < d PROVE FALSE
    BY <1>0, <1>7
  <2>1. FramedAt(s, q, d)
    BY <1>7 DEF Framed
  <2> DEFINE t == q[s[d].of]
             j == HeaderSymbols + k - d
  <2>2. \A m \in 1 .. Whole(t) : d + m > HeaderSymbols => s[d + m - HeaderSymbols] = InFrame(t, s[d].of, m)
    BY <2>1 DEF FramedAt
  <2>3. t \in Packets
    <3>1. s[d].of \in 1 .. Len(q)
      BY <2>1 DEF FramedAt
    <3> QED BY <3>1, ElementOfSeq
  <2>4. Whole(t) = HeaderSymbols + Body(t) /\ Body(t) \in Nat
    BY <2>3, PacketType
  <2> HIDE DEF t
  <2>5. j \in 1 .. Whole(t) /\ d + j > HeaderSymbols /\ d + j - HeaderSymbols = k /\ j # HeaderSymbols
    BY <1>0, <1>4, <1>5, <1>7, <2>4, HeaderSize
  <2> HIDE DEF j, d
  <2>6. s[k] = InFrame(t, s[d].of, j)
    BY <2>2, <2>5
  <2>7. InFrame(t, s[d].of, j).of = 0
    BY <2>5 DEF InFrame, Item
  <2> QED BY <2>6, <2>7
<1>9. p \in 1 .. Len(q) - 1
  BY <1>0, <1>2, <1>6
<1>10. i + Whole(r) <= k
  BY <1>0, <1>4, <1>8, HeaderSize
<1> QED BY <1>9, <1>10 DEF p, r

LEMMA FramedCut ==
    ASSUME NEW s \in Seq(StreamItem), NEW q \in Seq(Packets), Framed(s, q), Rising(s),
           NEW n \in 0 .. Len(s)
    PROVE  LET t == SubSeq(s, n + 1, Len(s))
           IN  /\ t \in Seq(StreamItem) /\ Len(t) = Len(s) - n
               /\ \A i \in 1 .. Len(t) : t[i] = s[n + i]
               /\ Framed(t, q) /\ Rising(t)
<1> DEFINE t == SubSeq(s, n + 1, Len(s))
<1>0. Len(s) \in Nat /\ n \in Nat
  BY LenProperties
<1>1. t \in Seq(StreamItem) /\ Len(t) = Len(s) - n /\ \A i \in 1 .. Len(t) : t[i] = s[n + i]
  <2>1. \A i \in n + 1 .. Len(s) : s[i] \in StreamItem
    BY <1>0, ElementOfSeq
  <2>2. /\ t \in Seq(StreamItem)
        /\ Len(t) = IF n + 1 <= Len(s) THEN Len(s) - (n + 1) + 1 ELSE 0
        /\ \A i \in 1 .. Len(s) - (n + 1) + 1 : t[i] = s[(n + 1) + i - 1]
    BY <1>0, <2>1, SubSeqProperties
  <2> HIDE DEF t
  <2>3. Len(t) = Len(s) - n
    BY <1>0, <2>2
  <2>4. ASSUME NEW i \in 1 .. Len(t) PROVE t[i] = s[n + i]
    <3>1. i \in 1 .. Len(s) - (n + 1) + 1 /\ (n + 1) + i - 1 = n + i
      BY <1>0, <2>3
    <3> QED BY <2>2, <3>1
  <2> QED BY <2>2, <2>3, <2>4
<1> HIDE DEF t
<1>2. \A i \in 1 .. Len(t) : n + i \in 1 .. Len(s)
  BY <1>0, <1>1
<1>3. ASSUME NEW i \in 1 .. Len(t), t[i].of # 0 PROVE FramedAt(t, q, i)
  <2> DEFINE p == t[i].of
             r == q[p]
             B == Body(r)
  <2>1. t[i] = s[n + i] /\ n + i \in 1 .. Len(s)
    BY <1>1, <1>2
  <2>2. FramedAt(s, q, n + i)
    BY <1>3, <2>1 DEF Framed
  <2>3. /\ p \in 1 .. Len(q) /\ (n + i) + B <= Len(s)
        /\ \A j \in 1 .. Whole(r) :
              (n + i) + j > HeaderSymbols => s[(n + i) + j - HeaderSymbols] = InFrame(r, p, j)
        /\ p = Len(q) => (n + i) + B = Len(s)
        /\ p # Len(q) => (n + i) + B + HeaderSymbols <= Len(s) /\ s[(n + i) + B + HeaderSymbols].of = p + 1
    BY <2>1, <2>2 DEF FramedAt
  <2>4. B \in Nat /\ Whole(r) = HeaderSymbols + B
    <3>1. r \in Packets
      BY <2>3, ElementOfSeq
    <3> QED BY <3>1, PacketType
  <2> HIDE DEF p, r, B
  <2>5. i + B <= Len(t) /\ (p = Len(q) => i + B = Len(t))
    <3>1. (n + i) + B <= Len(s) /\ (p = Len(q) => (n + i) + B = Len(s))
      BY <2>3
    <3>2. Len(t) = Len(s) - n
      BY <1>1
    <3> QED BY <1>0, <2>4, <3>1, <3>2
  <2>6. p # Len(q) => i + B + HeaderSymbols <= Len(t) /\ t[i + B + HeaderSymbols].of = p + 1
    <3> SUFFICES ASSUME p # Len(q)
                 PROVE  i + B + HeaderSymbols <= Len(t) /\ t[i + B + HeaderSymbols].of = p + 1
      OBVIOUS
    <3>1. i + B + HeaderSymbols \in 1 .. Len(t) /\ n + (i + B + HeaderSymbols) = (n + i) + B + HeaderSymbols
      BY <1>0, <1>1, <2>3, <2>4, HeaderSize
    <3>2. t[i + B + HeaderSymbols] = s[(n + i) + B + HeaderSymbols]
      BY <1>1, <3>1
    <3> QED BY <2>3, <3>1, <3>2
  <2>7. ASSUME NEW j \in 1 .. Whole(r), i + j > HeaderSymbols
        PROVE  t[i + j - HeaderSymbols] = InFrame(r, p, j)
    <3>1. /\ i + j - HeaderSymbols \in 1 .. Len(t)
          /\ n + (i + j - HeaderSymbols) = (n + i) + j - HeaderSymbols
          /\ (n + i) + j > HeaderSymbols
      BY <1>0, <1>1, <2>3, <2>4, <2>7, HeaderSize
    <3>2. t[i + j - HeaderSymbols] = s[(n + i) + j - HeaderSymbols]
      BY <1>1, <3>1
    <3> QED BY <2>3, <3>1, <3>2
  <2> QED BY <2>3, <2>5, <2>6, <2>7 DEF FramedAt, p, r, B
<1>4. Rising(t)
  <2> SUFFICES ASSUME NEW i \in 1 .. Len(t), NEW k \in 1 .. Len(t), i < k, t[i].of # 0, t[k].of # 0
               PROVE  t[i].of < t[k].of
    BY DEF Rising
  <2>1. n + i \in 1 .. Len(s) /\ n + k \in 1 .. Len(s) /\ n + i < n + k
    BY <1>0, <1>1
  <2> QED BY <1>1, <2>1 DEF Rising
<1> QED BY <1>1, <1>3, <1>4 DEF Framed, t

LEMMA FramedAppend ==
    ASSUME NEW s \in Seq(StreamItem), NEW q \in Seq(Packets), Framed(s, q), Rising(s),
           NEW r \in Packets, NEW f \in Seq(StreamItem), Len(f) = Whole(r),
           \A j \in 1 .. Whole(r) : f[j] = InFrame(r, Len(q) + 1, j)
    PROVE  /\ s \o f \in Seq(StreamItem) /\ Append(q, r) \in Seq(Packets)
           /\ Len(s \o f) = Len(s) + Whole(r)
           /\ \A i \in 1 .. Len(s) : (s \o f)[i] = s[i]
           /\ \A i \in Len(s) + 1 .. Len(s) + Whole(r) :
                 (s \o f)[i].of = IF i = Len(s) + HeaderSymbols THEN Len(q) + 1 ELSE 0
           /\ Framed(s \o f, Append(q, r)) /\ Rising(s \o f)
<1> DEFINE t == s \o f
           q2 == Append(q, r)
           new == Len(q) + 1
           L == Len(s)
<1>0. L \in Nat /\ Len(q) \in Nat /\ Whole(r) = HeaderSymbols + Body(r) /\ Body(r) \in Nat
  BY LenProperties, PacketType
<1>1. t \in Seq(StreamItem) /\ Len(t) = L + Whole(r)
      /\ \A i \in 1 .. L + Whole(r) : t[i] = IF i <= L THEN s[i] ELSE f[i - L]
  BY ConcatProperties
<1>2. q2 \in Seq(Packets) /\ Len(q2) = new /\ q2[new] = r /\ \A p \in 1 .. Len(q) : q2[p] = q[p]
  BY AppendProperties
<1> HIDE DEF t, q2
<1>3. \A i \in 1 .. L : t[i] = s[i]
  BY <1>0, <1>1, HeaderSize
<1>4. ASSUME NEW j \in 1 .. Whole(r)
      PROVE  L + j \in 1 .. Len(t) /\ t[L + j] = InFrame(r, new, j)
             /\ t[L + j].of = IF j = HeaderSymbols THEN new ELSE 0
  <2>1. L + j \in 1 .. L + Whole(r) /\ ~(L + j <= L) /\ (L + j) - L = j
    BY <1>0, HeaderSize
  <2>2. t[L + j] = f[j]
    BY <1>1, <2>1
  <2> QED BY <1>1, <2>1, <2>2 DEF InFrame, Item
<1>5. ASSUME NEW i \in L + 1 .. L + Whole(r)
      PROVE  t[i].of = IF i = L + HeaderSymbols THEN new ELSE 0
  <2> DEFINE j == i - L
  <2>1. j \in 1 .. Whole(r) /\ i = L + j /\ (j = HeaderSymbols <=> i = L + HeaderSymbols)
    BY <1>0, HeaderSize
  <2> HIDE DEF j
  <2> QED BY <1>4, <2>1
<1>6. \A i \in 1 .. Len(t) : t[i].of # 0 => i \in 1 .. L \/ i = L + HeaderSymbols
  <2> TAKE i \in 1 .. Len(t)
  <2>1. i \in 1 .. L \/ i \in L + 1 .. L + Whole(r)
    BY <1>0, <1>1
  <2> QED BY <1>5, <2>1
<1>7. /\ HeaderSymbols \in 1 .. Whole(r) /\ L + HeaderSymbols \in 1 .. Len(t)
      /\ t[L + HeaderSymbols].of = new
  <2>1. HeaderSymbols \in 1 .. Whole(r)
    BY <1>0, HeaderSize
  <2> QED BY <1>4, <2>1
<1>8. ASSUME NEW i \in 1 .. L, t[i].of # 0 PROVE FramedAt(t, q2, i)
  <2> DEFINE p == s[i].of
             B == Body(q[p])
  <2>1. t[i].of = p /\ p # 0
    BY <1>3, <1>8
  <2>2. FramedAt(s, q, i)
    BY <2>1 DEF Framed
  <2>3. /\ p \in 1 .. Len(q) /\ i + B <= L
        /\ \A j \in 1 .. Whole(q[p]) : i + j > HeaderSymbols => s[i + j - HeaderSymbols] = InFrame(q[p], p, j)
        /\ p = Len(q) => i + B = L
        /\ p # Len(q) => i + B + HeaderSymbols <= L /\ s[i + B + HeaderSymbols].of = p + 1
    BY <2>2 DEF FramedAt
  <2>4. q2[p] = q[p] /\ p \in 1 .. new /\ p # new
    BY <1>0, <1>2, <2>3
  <2>5. B \in Nat /\ Whole(q[p]) = HeaderSymbols + B
    <3>1. q[p] \in Packets
      BY <2>3, ElementOfSeq
    <3> QED BY <3>1, PacketType
  <2> HIDE DEF p, B
  <2>6. i + B <= Len(t)
    BY <1>0, <1>1, <2>3, <2>5, HeaderSize
  <2>7. ASSUME NEW j \in 1 .. Whole(q[p]), i + j > HeaderSymbols
        PROVE  t[i + j - HeaderSymbols] = InFrame(q[p], p, j)
    <3>1. i + j - HeaderSymbols \in 1 .. L
      BY <1>0, <2>3, <2>5, <2>7, HeaderSize
    <3> QED BY <1>3, <2>3, <2>7, <3>1
  <2>8. i + B + HeaderSymbols <= Len(t) /\ t[i + B + HeaderSymbols].of = p + 1
    <3>1. CASE p = Len(q)
      <4>1. i + B + HeaderSymbols = L + HeaderSymbols /\ p + 1 = new
        BY <1>0, <2>3, <2>5, <3>1, HeaderSize
      <4> QED BY <1>1, <1>7, <4>1
    <3>2. CASE p # Len(q)
      <4>1. i + B + HeaderSymbols \in 1 .. L /\ L <= Len(t)
        BY <1>0, <1>1, <2>3, <2>5, <3>2, HeaderSize
      <4>2. i + B + HeaderSymbols <= Len(t)
        BY <1>0, <1>1, <4>1, HeaderSize
      <4> QED BY <1>3, <2>3, <3>2, <4>1, <4>2
    <3> QED BY <3>1, <3>2
  <2> QED BY <1>2, <2>1, <2>4, <2>6, <2>7, <2>8 DEF FramedAt, B
<1>9. FramedAt(t, q2, L + HeaderSymbols)
  <2> DEFINE i == L + HeaderSymbols
  <2>1. t[i].of = new /\ q2[new] = r /\ Len(q2) = new /\ new \in 1 .. new
    BY <1>0, <1>2, <1>7
  <2>2. i + Body(r) = Len(t)
    BY <1>0, <1>1, HeaderSize
  <2>3. ASSUME NEW j \in 1 .. Whole(r), i + j > HeaderSymbols
        PROVE  t[i + j - HeaderSymbols] = InFrame(r, new, j)
    <3>1. i + j - HeaderSymbols = L + j
      BY <1>0, HeaderSize
    <3> QED BY <1>4, <3>1
  <2> HIDE DEF i
  <2>4. i + Body(r) <= Len(t)
    BY <1>0, <1>1, <2>2, HeaderSize
  <2> HIDE DEF new
  <2> QED BY <2>1, <2>2, <2>3, <2>4 DEF FramedAt, i
<1>10. Framed(t, q2)
  BY <1>6, <1>8, <1>9 DEF Framed
<1>11. Rising(t)
  <2> SUFFICES ASSUME NEW i \in 1 .. Len(t), NEW k \in 1 .. Len(t), i < k, t[i].of # 0, t[k].of # 0
               PROVE  t[i].of < t[k].of
    BY DEF Rising
  <2>1. CASE k \in 1 .. L
    <3>1. i \in 1 .. L
      BY <1>0, <2>1
    <3> QED BY <1>3, <2>1, <3>1 DEF Rising
  <2>2. CASE k = L + HeaderSymbols
    <3>1. i \in 1 .. L
      BY <1>0, <1>6, <2>2, HeaderSize
    <3>2. s[i].of \in 1 .. Len(q) /\ t[i].of = s[i].of
      BY <1>3, <3>1 DEF Framed, FramedAt
    <3> QED BY <1>0, <1>7, <2>2, <3>2
  <2> QED BY <1>6, <2>1, <2>2
<1> QED BY <1>1, <1>2, <1>3, <1>5, <1>10, <1>11 DEF t, q2
-----------------------------------------------------------------------------
(* The invariant of a packet on its way. *)

RateTypes ==
    /\ file \in Letters \cup {Other, Empty}
    /\ writing \in Letters \cup {Other, Empty}
    /\ toCome \in Seq(Messages)
    /\ sent \in Seq(Packets)
    /\ stream \in Seq(StreamItem)
    /\ air \in Seq(AirItem)
    /\ chip \in Nat
    /\ air = <<>> => chip = 0
    /\ good \subseteq 1 .. Len(sent)
    /\ source \in 0 .. Len(sent)
    /\ disturbed \in Nat

\* What left the stream is of an earlier packet than what is in it.
Behind ==
    \A i \in 1 .. Len(stream) : stream[i].of # 0 =>
        /\ source < stream[i].of
        /\ \A p \in good : p < stream[i].of
        /\ \A k \in 1 .. Len(air) : air[k].of < stream[i].of

\* A good packet is on the air as its delimiter says.
AirRight ==
    \A k \in 1 .. Len(air) : air[k].of # 0 =>
        /\ air[k].of \in 1 .. Len(sent)
        /\ air[k].of \in good => HoldsFrom(air, k, sent[air[k].of], air[k].of, HeaderSymbols)

FitsIn(r) ==
    IF r.sfd \in FixedLength THEN Len(r.payload) = DefaultLen ELSE Len(r.payload) <= MaxPktLen

\* The sink is inside packet r, the p-th: it has heard the first symbols behind the
\* delimiter, and the next chip is the next of the symbol it counts.
Inside(r, p) ==
    /\ sfd = r.sfd
    /\ chip = chipCnt
    /\ Len(heard) < Body(r)
    /\ \A j \in 1 .. Len(heard) : heard[j] = Symbols(Bytes(r))[j]
    /\ HoldsFrom(air, 1, r, p, HeaderSymbols + 1 + Len(heard))

Following ==
    (state # "SYNC_SEARCH" /\ source \in good /\ FitsIn(sent[source])) => Inside(sent[source], source)

RateInv ==
    /\ SinkInv
    /\ RateTypes
    /\ Framed(stream, sent)
    /\ Rising(stream)
    /\ Behind
    /\ AirRight
    /\ Following
    /\ GoodIsIntact

LEMMA FitsIs == ASSUME NEW p PROVE Fits(p) <=> FitsIn(sent[p])
  BY DEF Fits, FitsIn

LEMMA InitRateInv == RateInit => RateInv
<1> SUFFICES ASSUME RateInit PROVE RateInv
  OBVIOUS
<1>1. SinkInv
  BY InitInv DEF RateInit
<1>2. toCome \in Seq(Messages)
  <2>1. ASSUME NEW i \in DOMAIN Payloads PROVE Payloads[i] \in Messages
    <3>1. Payloads[i] \in Seq(0 .. 255) \ {<<>>} /\ Len(Payloads[i]) < 251
      BY PayloadAssumption
    <3> QED BY <3>1 DEF Messages
  <2>2. Len(Payloads) \in Nat /\ DOMAIN Payloads = 1 .. Len(Payloads)
        /\ Payloads = [i \in 1 .. Len(Payloads) |-> Payloads[i]]
    BY PayloadAssumption
  <2>3. Payloads \in [1 .. Len(Payloads) -> Messages]
    BY <2>1, <2>2
  <2>4. Payloads \in Seq(Messages)
    BY <2>2, <2>3, SeqOfFunction
  <2>5. <<>> \in Seq(Messages)
    BY EmptySeq
  <2> QED BY <2>4, <2>5 DEF RateInit
<1>3. RateTypes
  <2>1. file \in Letters \cup {Other, Empty} /\ writing \in Letters \cup {Other, Empty}
    BY DEF RateInit
  <2>2. sent \in Seq(Packets) /\ stream \in Seq(StreamItem) /\ air \in Seq(AirItem)
    BY EmptySeq DEF RateInit
  <2>3. chip \in Nat /\ good \subseteq 1 .. Len(sent) /\ disturbed \in Nat /\ chip = 0
    BY DEF RateInit
  <2>4. source \in 0 .. Len(sent)
    BY EmptySeq DEF RateInit
  <2> QED BY <1>2, <2>1, <2>2, <2>3, <2>4 DEF RateTypes
<1>4. Len(stream) = 0 /\ Len(air) = 0
  BY EmptySeq DEF RateInit
<1>5. Framed(stream, sent) /\ Rising(stream) /\ Behind /\ AirRight
  BY <1>4 DEF Framed, Rising, Behind, AirRight
<1>6. Following /\ GoodIsIntact
  BY DEF RateInit, Init, Following, GoodIsIntact
<1> QED BY <1>1, <1>3, <1>5, <1>6 DEF RateInv

\* What the sender does between two chips does not touch what the sink has of a packet.
LEMMA SinkKept ==
    ASSUME RateInv, UNCHANGED <<sinkVars, source>>,
           \A p \in 1 .. Len(sent) : sent'[p] = sent[p],
           \A p \in good' : p \in good \/ p # source,
           state # "SYNC_SEARCH" /\ source \in good /\ FitsIn(sent[source]) => UNCHANGED <<air, chip>>
    PROVE  Following' /\ GoodIsIntact'
<1> USE DEF sinkVars
<1>1. ASSUME source' \in good' PROVE source \in good /\ source' = source /\ sent'[source'] = sent[source]
  BY <1>1 DEF RateInv, RateTypes
<1>2. Following'
  <2> SUFFICES ASSUME state' # "SYNC_SEARCH", source' \in good', FitsIn(sent'[source'])
               PROVE  Inside(sent[source], source)'
    BY <1>1 DEF Following
  <2>1. source \in good /\ FitsIn(sent[source]) /\ state # "SYNC_SEARCH" /\ source' = source
        /\ sent'[source'] = sent[source]
    BY <1>1
  <2>2. air' = air /\ chip' = chip
    BY <2>1
  <2>3. Inside(sent[source], source)
    BY <2>1 DEF RateInv, Following
  <2> QED BY <2>1, <2>2, <2>3 DEF Inside
<1>3. GoodIsIntact'
  BY <1>1 DEF RateInv, GoodIsIntact, Fits
<1> QED BY <1>2, <1>3

(* The file and the sender. *)

LEMMA FileStep ==
    ASSUME RateInv, UNCHANGED <<sinkVars, sendVars, airVars, good, rxHistory>>,
           file' \in Letters \cup {Other, Empty}, writing' \in Letters \cup {Other, Empty}
    PROVE  RateInv'
<1> USE DEF sendVars, airVars, rxHistory
<1>1. SinkInv'
  BY StutterInv DEF RateInv
<1>2. RateTypes'
  BY DEF RateInv, RateTypes
<1>3. Framed(stream, sent)' /\ Rising(stream)'
  BY DEF RateInv
<1>4. Behind' /\ AirRight'
  BY DEF RateInv, Behind, AirRight
<1>5. Following' /\ GoodIsIntact'
  BY SinkKept
<1> QED BY <1>1, <1>2, <1>3, <1>4, <1>5 DEF RateInv

LEMMA ReadsType ==
    ASSUME RateTypes, NEW l \in ReadsFrom(file) PROVE l \in Letters \cup {Other}
  BY DEF RateTypes, ReadsFrom

\* Packet r, the next one, was framed and put behind the stream.
MakesFrameOf(r) ==
    LET L == Len(stream)
    IN  /\ toCome # <<>> /\ toCome' \in Seq(Messages)
        /\ UNCHANGED <<sinkVars, file, writing, air, chip, good, source, disturbed, received>>
        /\ L \in Nat /\ Len(sent) \in Nat /\ stream' \in Seq(StreamItem) /\ sent' \in Seq(Packets)
        /\ Len(stream') = L + Whole(r)
        /\ \A i \in 1 .. L : stream'[i] = stream[i]
        /\ \A i \in L + 1 .. L + Whole(r) :
              stream'[i].of = IF i = L + HeaderSymbols THEN Len(sent) + 1 ELSE 0
        /\ Framed(stream', sent') /\ Rising(stream')
        /\ Len(sent') = Len(sent) + 1
        /\ \A p \in 1 .. Len(sent) : sent'[p] = sent[p] /\ p \in 1 .. Len(sent')

LEMMA MakeFrameIs ==
    ASSUME RateInv, NEW l \in ReadsFrom(file), MakeFrame(l)
    PROVE  \E r \in Packets : MakesFrameOf(r)
<1> DEFINE m == Head(toCome)
           r == [payload |-> m, sfd |-> SfdOf(l)]
           new == Len(sent) + 1
           f == FrameOf(l, m, new)
<1>0. RateTypes /\ toCome # <<>>
  BY DEF RateInv, MakeFrame
<1>1. l \in Letters \cup {Other}
  BY <1>0, ReadsType
<1>2. m \in Messages /\ Tail(toCome) \in Seq(Messages)
  BY <1>0, HeadTailProperties DEF RateTypes
<1>3. /\ sent \in Seq(Packets) /\ stream \in Seq(StreamItem) /\ Len(sent) \in Nat /\ Len(stream) \in Nat
      /\ new \in Nat
  BY <1>0, LenProperties DEF RateTypes
<1>4. /\ r \in Packets /\ f \in Seq(StreamItem) /\ Len(f) = Whole(r)
      /\ \A j \in 1 .. Whole(r) : f[j] = InFrame(r, new, j)
  BY <1>1, <1>2, <1>3, FrameIs DEF StreamItem
<1>5. /\ toCome' = Tail(toCome) /\ sent' = Append(sent, r) /\ stream' = stream \o f
      /\ UNCHANGED <<sinkVars, fileVars, airVars, good, rxHistory>>
  BY DEF MakeFrame
<1> HIDE DEF m, r, f, new
<1>6. new = Len(sent) + 1
  BY DEF new
<1>7. /\ stream' \in Seq(StreamItem) /\ sent' \in Seq(Packets)
      /\ Len(stream') = Len(stream) + Whole(r)
      /\ \A i \in 1 .. Len(stream) : stream'[i] = stream[i]
      /\ \A i \in Len(stream) + 1 .. Len(stream) + Whole(r) :
            stream'[i].of = IF i = Len(stream) + HeaderSymbols THEN new ELSE 0
      /\ Framed(stream', sent') /\ Rising(stream')
  <2> DEFINE t == stream \o f
             q == Append(sent, r)
  <2>1. Framed(stream, sent) /\ Rising(stream)
    BY DEF RateInv
  <2>2. \A j \in 1 .. Whole(r) : f[j] = InFrame(r, Len(sent) + 1, j)
    BY <1>4, <1>6
  <2>3. /\ t \in Seq(StreamItem) /\ q \in Seq(Packets)
        /\ Len(t) = Len(stream) + Whole(r)
        /\ \A i \in 1 .. Len(stream) : t[i] = stream[i]
        /\ \A i \in Len(stream) + 1 .. Len(stream) + Whole(r) :
              t[i].of = IF i = Len(stream) + HeaderSymbols THEN Len(sent) + 1 ELSE 0
        /\ Framed(t, q) /\ Rising(t)
    BY <1>3, <1>4, <2>1, <2>2, FramedAppend
  <2>4. stream' = t /\ sent' = q
    BY <1>5
  <2> HIDE DEF t, q
  <2> QED BY <1>6, <2>3, <2>4
<1>8. Len(sent') = new /\ \A p \in 1 .. Len(sent) : sent'[p] = sent[p] /\ p \in 1 .. Len(sent')
  <2>1. Len(sent') = new /\ \A p \in 1 .. Len(sent) : sent'[p] = sent[p]
    BY <1>3, <1>4, <1>5, <1>6, AppendProperties
  <2> QED BY <1>3, <1>6, <2>1
<1>9. toCome' \in Seq(Messages) /\ toCome # <<>>
  BY <1>0, <1>2, <1>5
<1>10. UNCHANGED <<sinkVars, file, writing, air, chip, good, source, disturbed, received>>
  BY <1>5 DEF fileVars, airVars, rxHistory
<1>11. MakesFrameOf(r)
  <2>1. \A i \in Len(stream) + 1 .. Len(stream) + Whole(r) :
           stream'[i].of = IF i = Len(stream) + HeaderSymbols THEN Len(sent) + 1 ELSE 0
    BY <1>6, <1>7
  <2> QED BY <1>3, <1>6, <1>7, <1>8, <1>9, <1>10, <2>1 DEF MakesFrameOf
<1> QED BY <1>4, <1>11

LEMMA MakeFrameStep ==
    ASSUME RateInv, NEW l \in ReadsFrom(file), MakeFrame(l) PROVE RateInv'
<1> DEFINE new == Len(sent) + 1
<1>0. PICK r \in Packets : MakesFrameOf(r)
  BY MakeFrameIs
<1> HIDE DEF new
<1>3. /\ UNCHANGED <<sinkVars, file, writing, air, chip, good, source, disturbed, received>>
      /\ sent \in Seq(Packets) /\ stream \in Seq(StreamItem) /\ Len(sent) \in Nat /\ Len(stream) \in Nat
  BY <1>0 DEF MakesFrameOf, RateInv, RateTypes
<1>6. new = Len(sent) + 1
  BY DEF new
<1>7. /\ stream' \in Seq(StreamItem) /\ sent' \in Seq(Packets) /\ toCome' \in Seq(Messages)
      /\ Len(stream') = Len(stream) + Whole(r)
      /\ \A i \in 1 .. Len(stream) : stream'[i] = stream[i]
      /\ \A i \in Len(stream) + 1 .. Len(stream) + Whole(r) :
            stream'[i].of = IF i = Len(stream) + HeaderSymbols THEN new ELSE 0
      /\ Framed(stream', sent') /\ Rising(stream')
  BY <1>0, <1>6 DEF MakesFrameOf
<1>8. Len(sent') = new /\ \A p \in 1 .. Len(sent) : sent'[p] = sent[p] /\ p \in 1 .. Len(sent')
  BY <1>0, <1>6 DEF MakesFrameOf
<1>9. RateTypes'
  <2>2. good' \subseteq 1 .. Len(sent') /\ source' \in 0 .. Len(sent')
    <3>1. 1 .. Len(sent) \subseteq 1 .. Len(sent') /\ 0 .. Len(sent) \subseteq 0 .. Len(sent')
      BY <1>3, <1>6, <1>8
    <3> QED BY <1>3, <3>1 DEF RateInv, RateTypes
  <2> QED BY <1>3, <1>7, <2>2 DEF RateInv, RateTypes
<1>10. UNCHANGED <<air, chip, good, source>>
  BY <1>3
<1>11. AirRight'
  <2> SUFFICES ASSUME NEW k \in 1 .. Len(air), air[k].of # 0
               PROVE  /\ air[k].of \in 1 .. Len(sent')
                      /\ air[k].of \in good => HoldsFrom(air, k, sent'[air[k].of], air[k].of, HeaderSymbols)
    BY <1>10 DEF AirRight
  <2>1. /\ air[k].of \in 1 .. Len(sent)
        /\ air[k].of \in good => HoldsFrom(air, k, sent[air[k].of], air[k].of, HeaderSymbols)
    BY DEF RateInv, AirRight
  <2> QED BY <1>8, <2>1
<1>12. Behind'
  <2> SUFFICES ASSUME NEW i \in 1 .. Len(stream'), stream'[i].of # 0
               PROVE  /\ source < stream'[i].of
                      /\ \A p \in good : p < stream'[i].of
                      /\ \A k \in 1 .. Len(air) : air[k].of < stream'[i].of
    BY <1>10 DEF Behind
  <2>1. i \in 1 .. Len(stream) \/ i \in Len(stream) + 1 .. Len(stream) + Whole(r)
    BY <1>3, <1>7
  <2>2. CASE i \in 1 .. Len(stream)
    BY <1>7, <2>2 DEF RateInv, Behind
  <2>3. CASE i \in Len(stream) + 1 .. Len(stream) + Whole(r)
    <3>1. stream'[i].of = new
      BY <1>7, <2>3
    <3>2. source < new /\ \A p \in good : p < new
      BY <1>3, <1>6 DEF RateInv, RateTypes
    <3>3. ASSUME NEW k \in 1 .. Len(air) PROVE air[k].of < new
      <4>1. air[k].of # 0 => air[k].of \in 1 .. Len(sent)
        BY DEF RateInv, AirRight
      <4> QED BY <1>3, <1>6, <4>1
    <3> QED BY <3>1, <3>2, <3>3
  <2> QED BY <2>1, <2>2, <2>3
<1>13. SinkInv'
  BY <1>3, StutterInv DEF RateInv
<1>14. Following' /\ GoodIsIntact'
  BY <1>3, <1>8, <1>10, SinkKept
<1> QED BY <1>7, <1>9, <1>11, <1>12, <1>13, <1>14 DEF RateInv

LEMMA MakeFrameEofStep == ASSUME RateInv, MakeFrameEof PROVE RateInv'
<1>1. toCome' = <<>> /\ UNCHANGED <<sinkVars, fileVars, stream, sent, airVars, good, rxHistory>>
  BY DEF MakeFrameEof
<1> USE DEF fileVars, airVars, rxHistory
<1>2. SinkInv'
  BY <1>1, StutterInv DEF RateInv
<1>3. RateTypes'
  <2>1. toCome' \in Seq(Messages)
    BY <1>1, EmptySeq
  <2> QED BY <1>1, <2>1 DEF RateInv, RateTypes
<1>4. Framed(stream, sent)' /\ Rising(stream)'
  BY <1>1 DEF RateInv
<1>5. Behind' /\ AirRight'
  BY <1>1 DEF RateInv, Behind, AirRight
<1>6. Following' /\ GoodIsIntact'
  BY <1>1, SinkKept
<1> QED BY <1>2, <1>3, <1>4, <1>5, <1>6 DEF RateInv

\* A call that starts with a packet, holds all of it and spreads it by its delimiter.
LEMMA GoodCall ==
    ASSUME RateInv, NEW n \in 1 .. Len(stream), NEW c \in Nat \ {0}, c <= HeadChips,
           FirstPacket # 0, NEW e \in PacketEnds, e <= n, ChipsOf[stream[HeaderSymbols].nibble] = c
    PROVE  LET p == FirstPacket
               r == sent[p]
           IN  /\ HeaderSymbols \in 1 .. Len(stream) /\ stream[HeaderSymbols].of = p
               /\ p \in 1 .. Len(sent) /\ r \in Packets /\ Whole(r) <= e
               /\ HoldsFrom(Spread(n, c), 1, r, p, 1)
               /\ HoldsFrom(Spread(n, c), HeaderSymbols, r, p, HeaderSymbols)
<1> DEFINE p == FirstPacket
           r == sent[p]
           H == HeaderSymbols
           X == Spread(n, c)
<1>0. stream \in Seq(StreamItem) /\ sent \in Seq(Packets) /\ Len(stream) \in Nat /\ n \in Nat
      /\ H \in Nat /\ H >= 3
  BY LenProperties, HeaderSize DEF RateInv, RateTypes
<1>1. H \in 1 .. Len(stream) /\ stream[H].of = p /\ p # 0
  BY <1>0 DEF FirstPacket
<1>2. FramedAt(stream, sent, H)
  BY <1>1 DEF RateInv, Framed
<1>3. /\ p \in 1 .. Len(sent) /\ H + Body(r) <= Len(stream)
      /\ \A j \in 1 .. Whole(r) : H + j > H => stream[H + j - H] = InFrame(r, p, j)
  BY <1>1, <1>2 DEF FramedAt
<1>4. r \in Packets
  BY <1>0, <1>3, ElementOfSeq
<1>5. Whole(r) = H + Body(r) /\ Body(r) \in Nat /\ Body(r) >= 4 /\ Whole(r) \in Nat
  BY <1>4, PacketType
<1> HIDE DEF r, H
<1>6. Whole(r) <= e
  <2>1. CASE e = Len(stream)
    BY <1>0, <1>3, <1>5, <2>1
  <2>2. CASE e + H <= Len(stream) /\ stream[e + H].of # 0 /\ e \in 1 .. Len(stream)
    <3>1. e + H \in 1 .. Len(stream) /\ H < e + H
      BY <1>0, <2>2
    <3>2. H + Whole(sent[stream[H].of]) <= e + H
      BY <1>0, <1>1, <2>2, <3>1, Gaps DEF RateInv
    <3> QED BY <1>0, <1>1, <1>5, <2>2, <3>2 DEF r
  <2> QED BY <2>1, <2>2 DEF PacketEnds, H
<1>7. e \in Nat
  BY <1>0 DEF PacketEnds
<1>8. /\ n <= Len(X)
      /\ \A i \in 1 .. n :
            X[i] = [nibble |-> stream[i].nibble, of |-> stream[i].of, chips |-> Size(i, c)]
  BY <1>0, SpreadIs
<1>9. ASSUME NEW j \in 1 .. Whole(r) PROVE j <= Len(X) /\ X[j] = OnAir(r, p, j)
  <2>0. X \in Seq(AirItem) /\ Len(X) \in Nat
    BY <1>0, SpreadIs, LenProperties
  <2>1. j \in 1 .. n /\ j <= Len(X)
    BY <1>0, <1>5, <1>6, <1>7, <1>8, <2>0
  <2>2. stream[j] = InFrame(r, p, j)
    <3>1. H + j > H /\ H + j - H = j
      BY <1>0, <2>1
    <3> QED BY <1>3, <3>1
  <2>3. stream[H].nibble = r.sfd
    <3>1. H \in 1 .. Whole(r) /\ H + H > H /\ H + H - H = H
      BY <1>0, <1>5
    <3>2. stream[H] = InFrame(r, p, H)
      BY <1>3, <3>1
    <3> QED BY <3>2, HeaderSize DEF InFrame, Item, NibbleOf, H
  <2>4. Size(j, c) = IF j <= H THEN HeadChips ELSE ChipsOf[r.sfd]
    BY <2>3 DEF Size, AsHeader, H, HeaderSymbols
  <2>5. X[j] = [nibble |-> stream[j].nibble, of |-> stream[j].of, chips |-> Size(j, c)]
    BY <1>8, <2>1
  <2> QED BY <2>1, <2>2, <2>4, <2>5 DEF InFrame, Item, OnAir, H
<1> HIDE DEF X
<1>10. HoldsFrom(X, 1, r, p, 1)
  <2> SUFFICES ASSUME NEW j \in 1 .. Whole(r) PROVE 1 + j - 1 <= Len(X) /\ X[1 + j - 1] = OnAir(r, p, j)
    BY DEF HoldsFrom
  <2>1. 1 + j - 1 = j
    BY <1>5
  <2> QED BY <1>9, <2>1
<1>11. HoldsFrom(X, H, r, p, H)
  <2> SUFFICES ASSUME NEW j \in H .. Whole(r) PROVE H + j - H <= Len(X) /\ X[H + j - H] = OnAir(r, p, j)
    BY DEF HoldsFrom
  <2>1. H + j - H = j /\ j \in 1 .. Whole(r)
    BY <1>0, <1>5
  <2> QED BY <1>9, <2>1
<1> QED BY <1>1, <1>3, <1>4, <1>6, <1>10, <1>11 DEF r, H, X

LEMMA WorkStep ==
    ASSUME RateInv, NEW l \in ReadsFrom(file), NEW n \in 1 .. Len(stream), Work(l, n)
    PROVE  RateInv'
<1> DEFINE c == SpreadOf(l)
           H == HeaderSymbols
           Cond == /\ FirstPacket # 0
                   /\ \E e \in PacketEnds : e <= n
                   /\ ChipsOf[stream[H].nibble] = c
<1>0. /\ RateTypes /\ stream \in Seq(StreamItem) /\ sent \in Seq(Packets)
      /\ Len(stream) \in Nat /\ Len(sent) \in Nat /\ n \in Nat /\ H \in Nat /\ H >= 3
  BY LenProperties, HeaderSize DEF RateInv, RateTypes
<1>1. c \in Nat \ {0} /\ c <= HeadChips
  BY <1>0, ReadsType, RateType
<1> HIDE DEF c
<1>2. /\ air = <<>> /\ air' = Spread(n, c) /\ stream' = SubSeq(stream, n + 1, Len(stream))
      /\ good' = IF Cond THEN good \cup {FirstPacket} ELSE good
      /\ UNCHANGED <<chip, toCome, sent, sinkVars, fileVars, rxHistory>>
  BY DEF Work, c
<1>3. UNCHANGED <<chip, toCome, sent, file, writing, source, disturbed>>
  BY <1>2 DEF fileVars, rxHistory
<1>4. /\ stream' \in Seq(StreamItem) /\ Len(stream') = Len(stream) - n
      /\ \A i \in 1 .. Len(stream') : stream'[i] = stream[n + i]
      /\ Framed(stream', sent') /\ Rising(stream')
  <2>1. n \in 0 .. Len(stream)
    BY <1>0
  <2> QED BY <1>0, <1>2, <1>3, <2>1, FramedCut DEF RateInv
<1>5. /\ air' \in Seq(AirItem) /\ n <= Len(air') /\ Len(air') \in Nat
      /\ \A i \in 1 .. n : air'[i].of = stream[i].of
      /\ \A i \in n + 1 .. Len(air') : air'[i].of = 0
  <2>1. /\ air' \in Seq(AirItem) /\ n <= Len(air')
        /\ \A i \in 1 .. n :
              air'[i] = [nibble |-> stream[i].nibble, of |-> stream[i].of, chips |-> Size(i, c)]
        /\ \A i \in n + 1 .. Len(air') : air'[i].of = 0
    BY <1>0, <1>1, <1>2, SpreadIs
  <2>2. Len(air') \in Nat
    BY <2>1, LenProperties, Zenon
  <2>3. ASSUME NEW i \in 1 .. n PROVE air'[i].of = stream[i].of
    <3>1. air'[i] = [nibble |-> stream[i].nibble, of |-> stream[i].of, chips |-> Size(i, c)]
      BY <2>1, Zenon
    <3> QED BY <3>1
  <2> QED BY <2>1, <2>2, <2>3, Zenon
<1>6. ASSUME Cond
      PROVE  /\ H \in 1 .. n /\ stream[H].of = FirstPacket /\ FirstPacket \in 1 .. Len(sent)
             /\ HoldsFrom(air', H, sent[FirstPacket], FirstPacket, H)
  <2>1. PICK e \in PacketEnds : e <= n
    BY <1>6
  <2>2. /\ H \in 1 .. Len(stream) /\ stream[H].of = FirstPacket
        /\ FirstPacket \in 1 .. Len(sent) /\ sent[FirstPacket] \in Packets /\ Whole(sent[FirstPacket]) <= e
        /\ HoldsFrom(air', H, sent[FirstPacket], FirstPacket, H)
    BY <1>1, <1>2, <1>6, <2>1, GoodCall
  <2>3. Whole(sent[FirstPacket]) = H + Body(sent[FirstPacket]) /\ Body(sent[FirstPacket]) \in Nat
    BY <2>2, PacketType
  <2>4. e \in Nat
    BY <1>0 DEF PacketEnds
  <2>5. H \in 1 .. n
    BY <1>0, <2>1, <2>2, <2>3, <2>4
  <2> QED BY <2>2, <2>5
<1> HIDE DEF Cond, H
<1>7. RateTypes'
  <2>1. good' \subseteq 1 .. Len(sent)
    BY <1>0, <1>2, <1>6 DEF RateTypes
  <2>2. air' = <<>> => chip' = 0
    BY <1>0, <1>2, <1>3 DEF RateTypes
  <2> QED BY <1>0, <1>3, <1>4, <1>5, <2>1, <2>2 DEF RateTypes
<1>8. ASSUME NEW i \in 1 .. n, NEW k \in 1 .. Len(stream'), stream'[k].of # 0
      PROVE  stream[i].of < stream'[k].of
  <2>1. n + k \in 1 .. Len(stream) /\ i \in 1 .. Len(stream) /\ i < n + k /\ stream'[k] = stream[n + k]
    BY <1>0, <1>4
  <2>2. stream[i].of \in Nat /\ stream'[k].of \in Nat
    BY <1>0, <2>1, ItemType
  <2>3. CASE stream[i].of = 0
    BY <1>8, <2>2, <2>3
  <2>4. CASE stream[i].of # 0
    BY <1>8, <2>1, <2>4 DEF RateInv, Rising
  <2> QED BY <2>3, <2>4
<1>9. Behind'
  <2> SUFFICES ASSUME NEW k \in 1 .. Len(stream'), stream'[k].of # 0
               PROVE  /\ source < stream'[k].of
                      /\ \A p \in good' : p < stream'[k].of
                      /\ \A i \in 1 .. Len(air') : air'[i].of < stream'[k].of
    BY <1>3 DEF Behind
  <2>1. n + k \in 1 .. Len(stream) /\ stream'[k] = stream[n + k]
    BY <1>0, <1>4
  <2>2. source < stream'[k].of /\ \A p \in good : p < stream'[k].of
    BY <2>1 DEF RateInv, Behind
  <2>3. Cond => FirstPacket < stream'[k].of
    BY <1>6, <1>8
  <2>4. stream'[k].of \in Nat
    BY <1>0, <2>1, ItemType
  <2>5. ASSUME NEW i \in 1 .. Len(air') PROVE air'[i].of < stream'[k].of
    <3>1. i \in 1 .. n \/ i \in n + 1 .. Len(air')
      BY <1>0, <1>5
    <3> QED BY <1>5, <1>8, <2>4, <3>1
  <2> QED BY <1>2, <2>2, <2>3, <2>5
<1>10. AirRight'
  <2> SUFFICES ASSUME NEW k \in 1 .. Len(air'), air'[k].of # 0
               PROVE  /\ air'[k].of \in 1 .. Len(sent)
                      /\ air'[k].of \in good' => HoldsFrom(air', k, sent[air'[k].of], air'[k].of, H)
    BY <1>3 DEF AirRight, H
  <2>1. k \in 1 .. n /\ air'[k].of = stream[k].of /\ k \in 1 .. Len(stream)
    BY <1>0, <1>5
  <2>2. air'[k].of \in 1 .. Len(sent)
    BY <2>1 DEF RateInv, Framed, FramedAt
  <2>3. ASSUME air'[k].of \in good' PROVE HoldsFrom(air', k, sent[air'[k].of], air'[k].of, H)
    <3>1. air'[k].of \notin good
      BY <2>1, <2>2 DEF RateInv, Behind
    <3>2. Cond /\ air'[k].of = FirstPacket
      BY <1>2, <2>3, <3>1
    <3>3. k = H
      <4>1. stream[H].of = stream[k].of /\ H \in 1 .. n /\ H \in 1 .. Len(stream)
        BY <1>0, <1>6, <2>1, <3>2
      <4>2. ~(H < k) /\ ~(k < H)
        BY <1>0, <2>1, <2>2, <4>1 DEF RateInv, Rising
      <4> QED BY <1>0, <2>1, <4>1, <4>2
    <3> QED BY <1>6, <3>2, <3>3
  <2> QED BY <2>2, <2>3
<1>11. SinkInv'
  BY <1>2, StutterInv DEF RateInv
<1>12. Following' /\ GoodIsIntact'
  <2>1. \A p \in good' : p \in good \/ p # source
    <3> SUFFICES ASSUME Cond PROVE FirstPacket # source
      BY <1>2
    <3>1. H \in 1 .. Len(stream) /\ stream[H].of = FirstPacket /\ FirstPacket # 0
      BY <1>0, <1>6
    <3> QED BY <1>0, <3>1 DEF RateInv, Behind, RateTypes
  <2>2. ~(state # "SYNC_SEARCH" /\ source \in good /\ FitsIn(sent[source]))
    <3> SUFFICES ASSUME state # "SYNC_SEARCH", source \in good, FitsIn(sent[source]) PROVE FALSE
      OBVIOUS
    <3>1. Inside(sent[source], source)
      BY DEF RateInv, Following
    <3>2. sent[source] \in Packets
      BY <1>0, ElementOfSeq DEF RateTypes
    <3>3. Len(heard) \in Nat
      BY LenProperties DEF RateInv, SinkInv, SinkTypeOK
    <3> DEFINE j == HeaderSymbols + 1 + Len(heard)
    <3>4. j \in j .. Whole(sent[source]) /\ 1 + j - j = 1
      BY <3>1, <3>2, <3>3, PacketType, HeaderSize DEF Inside
    <3>5. 1 <= Len(air)
      BY <3>1, <3>4 DEF Inside, HoldsFrom
    <3> QED BY <1>2, <3>5, EmptySeq
  <2> QED BY <1>2, <1>3, <2>1, <2>2, SinkKept
<1> QED BY <1>4, <1>7, <1>9, <1>10, <1>11, <1>12 DEF RateInv
-----------------------------------------------------------------------------
(* The receiver: a chip is heard. *)

LEMMA FullIs ==
    ASSUME SinkInv
    PROVE  /\ Due \in Nat \ {0} /\ chipCnt \in Nat /\ chipCnt < Due
           /\ Full <=> chipCnt + 1 = Due
<1>1. Due \in Nat \ {0} /\ chipCnt \in Nat /\ chipCnt < Due
  BY DueType DEF SinkInv, CountersMeet, SinkTypeOK
<1>2. CASE state # "HAVE_HEADER"
  BY <1>1, <1>2 DEF Full
<1>3. CASE state = "HAVE_HEADER"
  <2>1. Full <=> (chipCnt + 1) % Due = 0
    BY <1>3 DEF Full
  <2>2. CASE chipCnt + 1 = Due
    BY <1>1, <2>1, <2>2, SelfMod
  <2>3. CASE chipCnt + 1 # Due
    <3>1. chipCnt + 1 \in 0 .. Due - 1
      BY <1>1, <2>3
    <3> QED BY <1>1, <2>1, <2>3, <3>1, SmallMod
  <2> QED BY <2>2, <2>3
<1> QED BY <1>1, <1>2, <1>3

LEMMA TailIs ==
    ASSUME NEW S, NEW a \in Seq(S), a # <<>>
    PROVE  /\ Tail(a) \in Seq(S) /\ Len(a) \in Nat /\ Len(a) >= 1 /\ Len(Tail(a)) = Len(a) - 1
           /\ \A i \in 1 .. Len(Tail(a)) : Tail(a)[i] = a[i + 1]
<1>1. Len(a) \in Nat /\ Len(a) # 0
  BY LenProperties, EmptySeq
<1> QED BY <1>1, HeadTailProperties

LEMMA HoldsShift ==
    ASSUME NEW a \in Seq(AirItem), a # <<>>, NEW r \in Packets, NEW p, NEW m \in Nat
    PROVE  /\ \A i \in 1 .. Len(Tail(a)) : HoldsFrom(a, i + 1, r, p, m) => HoldsFrom(Tail(a), i, r, p, m)
           /\ HoldsFrom(a, 1, r, p, m) => HoldsFrom(Tail(a), 1, r, p, m + 1)
<1> DEFINE t == Tail(a)
<1>0. Whole(r) \in Nat
  BY PacketType
<1>1. Len(a) \in Nat /\ Len(t) = Len(a) - 1 /\ \A i \in 1 .. Len(t) : t[i] = a[i + 1]
  BY TailIs
<1> HIDE DEF t
<1>2. ASSUME NEW i \in 1 .. Len(t), HoldsFrom(a, i + 1, r, p, m) PROVE HoldsFrom(t, i, r, p, m)
  <2> SUFFICES ASSUME NEW j \in m .. Whole(r) PROVE i + j - m <= Len(t) /\ t[i + j - m] = OnAir(r, p, j)
    BY DEF HoldsFrom
  <2>1. (i + 1) + j - m <= Len(a) /\ a[(i + 1) + j - m] = OnAir(r, p, j)
    BY <1>2 DEF HoldsFrom
  <2>2. i + j - m \in 1 .. Len(t) /\ (i + j - m) + 1 = (i + 1) + j - m
    BY <1>0, <1>1, <2>1
  <2> QED BY <1>1, <2>1, <2>2
<1>3. ASSUME HoldsFrom(a, 1, r, p, m) PROVE HoldsFrom(t, 1, r, p, m + 1)
  <2> SUFFICES ASSUME NEW j \in m + 1 .. Whole(r)
               PROVE  1 + j - (m + 1) <= Len(t) /\ t[1 + j - (m + 1)] = OnAir(r, p, j)
    BY DEF HoldsFrom
  <2>1. 1 + j - m <= Len(a) /\ a[1 + j - m] = OnAir(r, p, j)
    BY <1>0, <1>3 DEF HoldsFrom
  <2>2. 1 + j - (m + 1) \in 1 .. Len(t) /\ (1 + j - (m + 1)) + 1 = 1 + j - m
    BY <1>0, <1>1, <2>1
  <2> QED BY <1>1, <2>1, <2>2
<1> QED BY <1>2, <1>3 DEF t

\* The air loses its first symbol or nothing.
LEMMA AirAfter ==
    ASSUME RateInv, NextChip
    PROVE  /\ air' \in Seq(AirItem) /\ chip' \in Nat /\ (air' = <<>> => chip' = 0)
           /\ \/ air' = air
              \/ Ends /\ air # <<>> /\ air' = Tail(air) /\ chip' = 0
<1>1. air \in Seq(AirItem) /\ chip \in Nat
  BY DEF RateInv, RateTypes
<1>2. CASE Ends
  <2>1. air # <<>> /\ air' = Tail(air) /\ chip' = 0
    BY <1>2 DEF Ends, NextChip
  <2> QED BY <1>1, <1>2, <2>1, TailIs
<1>3. CASE ~Ends
  BY <1>1, <1>3 DEF NextChip
<1> QED BY <1>2, <1>3

LEMMA HearOnAir ==
    ASSUME RateInv, Heard, disturbed' \in Nat,
           source' = source \/ source' = 0 \/ (air # <<>> /\ source' = air[1].of)
    PROVE  RateTypes' /\ Framed(stream, sent)' /\ Rising(stream)' /\ Behind' /\ AirRight'
<1>1. NextChip /\ UNCHANGED <<file, writing, toCome, stream, sent, good>>
  BY DEF Heard, fileVars, sendVars
<1>2. /\ air' \in Seq(AirItem) /\ chip' \in Nat /\ (air' = <<>> => chip' = 0)
      /\ air' = air \/ (air # <<>> /\ air' = Tail(air))
  BY <1>1, AirAfter
<1>3. air \in Seq(AirItem) /\ sent \in Seq(Packets) /\ stream \in Seq(StreamItem) /\ Len(sent) \in Nat
  BY LenProperties DEF RateInv, RateTypes
<1>4. source' \in 0 .. Len(sent)
  <2>1. air # <<>> => 1 \in 1 .. Len(air)
    BY <1>3, TailIs
  <2>2. air # <<>> => air[1].of = 0 \/ air[1].of \in 1 .. Len(sent)
    BY <2>1 DEF RateInv, AirRight
  <2> QED BY <1>3, <2>2 DEF RateInv, RateTypes
<1>5. RateTypes'
  BY <1>1, <1>2, <1>4 DEF RateInv, RateTypes
<1>6. Framed(stream, sent)' /\ Rising(stream)'
  BY <1>1 DEF RateInv
<1>7. \A k \in 1 .. Len(air') : \E j \in 1 .. Len(air) : air'[k] = air[j]
  <2>1. CASE air' = air
    BY <2>1
  <2>2. CASE air # <<>> /\ air' = Tail(air)
    <3>1. /\ Len(air) \in Nat /\ Len(air') = Len(air) - 1
          /\ \A i \in 1 .. Len(air') : air'[i] = air[i + 1]
      BY <1>3, <2>2, TailIs
    <3>2. \A k \in 1 .. Len(air') : k + 1 \in 1 .. Len(air)
      BY <3>1
    <3> QED BY <3>1, <3>2
  <2> QED BY <1>2, <2>1, <2>2
<1>8. Behind'
  <2> SUFFICES ASSUME NEW i \in 1 .. Len(stream), stream[i].of # 0
               PROVE  /\ source' < stream[i].of
                      /\ \A p \in good : p < stream[i].of
                      /\ \A k \in 1 .. Len(air') : air'[k].of < stream[i].of
    BY <1>1 DEF Behind
  <2>1. /\ source < stream[i].of /\ \A p \in good : p < stream[i].of
        /\ \A k \in 1 .. Len(air) : air[k].of < stream[i].of
    BY DEF RateInv, Behind
  <2>2. stream[i].of \in Nat
    BY <1>3, ItemType
  <2>3. air # <<>> => 1 \in 1 .. Len(air)
    BY <1>3, TailIs
  <2> QED BY <1>7, <2>1, <2>2, <2>3
<1>9. AirRight'
  <2> SUFFICES ASSUME NEW k \in 1 .. Len(air'), air'[k].of # 0
               PROVE  /\ air'[k].of \in 1 .. Len(sent)
                      /\ air'[k].of \in good => HoldsFrom(air', k, sent[air'[k].of], air'[k].of, HeaderSymbols)
    BY <1>1 DEF AirRight
  <2>1. CASE air' = air
    BY <2>1 DEF RateInv, AirRight
  <2>2. CASE air # <<>> /\ air' = Tail(air)
    <3>1. /\ Len(air) \in Nat /\ Len(air') = Len(air) - 1
          /\ \A i \in 1 .. Len(air') : air'[i] = air[i + 1]
      BY <1>3, <2>2, TailIs
    <3>2. k + 1 \in 1 .. Len(air) /\ air'[k] = air[k + 1]
      BY <3>1
    <3> DEFINE p == air'[k].of
    <3>3. /\ p \in 1 .. Len(sent)
          /\ p \in good => HoldsFrom(air, k + 1, sent[p], p, HeaderSymbols)
      BY <3>2 DEF RateInv, AirRight
    <3>4. sent[p] \in Packets
      BY <1>3, <3>3, ElementOfSeq
    <3> HIDE DEF p
    <3>5. p \in good => HoldsFrom(air', k, sent[p], p, HeaderSymbols)
      BY <1>3, <2>2, <3>3, <3>4, HoldsShift, HeaderSize
    <3> QED BY <3>3, <3>5 DEF p
  <2> QED BY <1>2, <2>1, <2>2
<1> QED BY <1>5, <1>6, <1>8, <1>9

\* While a good packet is followed, what comes next is its next symbol.
LEMMA InsideNow ==
    ASSUME RateInv, state # "SYNC_SEARCH", source \in good, FitsIn(sent[source])
    PROVE  LET r == sent[source]
               m == HeaderSymbols + 1 + Len(heard)
           IN  /\ r \in Packets /\ Inside(r, source) /\ Len(heard) \in Nat
               /\ m \in HeaderSymbols + 1 .. Whole(r)
               /\ air # <<>> /\ air[1] = OnAir(r, source, m) /\ air[1].chips = Due
               /\ air[1].nibble = Symbols(Bytes(r))[Len(heard) + 1] /\ air[1].nibble \in 0 .. 15
               /\ Full <=> Ends
<1> DEFINE r == sent[source]
           m == HeaderSymbols + 1 + Len(heard)
<1>1. source \in 1 .. Len(sent) /\ sent \in Seq(Packets)
  BY DEF RateInv, RateTypes
<1>2. r \in Packets
  BY <1>1, ElementOfSeq
<1>3. Inside(r, source)
  BY DEF RateInv, Following
<1>4. Len(heard) \in Nat
  BY LenProperties DEF RateInv, SinkInv, SinkTypeOK
<1>5. m \in HeaderSymbols + 1 .. Whole(r) /\ m \in 1 .. Whole(r) /\ Whole(r) \in Nat /\ m > HeaderSymbols
      /\ m - HeaderSymbols = Len(heard) + 1
  <2>1. Len(heard) < Body(r)
    BY <1>3 DEF Inside
  <2> HIDE DEF r
  <2>2. Whole(r) = HeaderSymbols + Body(r) /\ Body(r) \in Nat
    BY <1>2, PacketType
  <2> QED BY <1>4, <2>1, <2>2, HeaderSize
<1>6. 1 <= Len(air) /\ air[1] = OnAir(r, source, m)
  <2>1. HoldsFrom(air, 1, r, source, m)
    BY <1>3 DEF Inside
  <2> HIDE DEF r, m
  <2>2. 1 + m - m = 1 /\ m \in m .. Whole(r)
    BY <1>5
  <2>3. 1 + m - m <= Len(air) /\ air[1 + m - m] = OnAir(r, source, m)
    BY <2>1, <2>2 DEF HoldsFrom
  <2> QED BY <2>2, <2>3
<1>7. air # <<>>
  BY <1>6, EmptySeq
<1>8. Due = ChipsOf[r.sfd]
  BY <1>3 DEF Due, Inside
<1> HIDE DEF r, m
<1>9. air[1].chips = Due /\ air[1].nibble = NibbleOf(r, m)
  <2>1. ~(m <= HeaderSymbols)
    BY <1>5, HeaderSize
  <2> QED BY <1>6, <1>8, <2>1 DEF OnAir
<1>10. NibbleOf(r, m) = Symbols(Bytes(r))[Len(heard) + 1] /\ NibbleOf(r, m) \in 0 .. 15
  BY <1>2, <1>5, NibbleType
<1>11. Full <=> Ends
  <2>1. Full <=> chipCnt + 1 = Due
    BY FullIs DEF RateInv
  <2>2. chip = chipCnt
    BY <1>3 DEF Inside
  <2> QED BY <1>7, <1>9, <2>1, <2>2 DEF Ends
<1> QED BY <1>2, <1>3, <1>4, <1>5, <1>6, <1>7, <1>9, <1>10, <1>11 DEF r, m

LEMMA SymbolTaken ==
    ASSUME RateInv, state # "SYNC_SEARCH", source \in good, FitsIn(sent[source]),
           Full, NextChip, NEW c, Hears(c)
    PROVE  LET r == sent[source]
           IN  /\ c = Symbols(Bytes(r))[Len(heard) + 1] /\ UNCHANGED disturbed
               /\ air # <<>> /\ air' = Tail(air) /\ chip' = 0
               /\ HoldsFrom(air', 1, r, source, HeaderSymbols + 1 + (Len(heard) + 1))
<1> DEFINE r == sent[source]
           m == HeaderSymbols + 1 + Len(heard)
<1>1. /\ r \in Packets /\ Inside(r, source) /\ Len(heard) \in Nat /\ air # <<>> /\ air[1].chips = Due
      /\ air[1].nibble = Symbols(Bytes(r))[Len(heard) + 1] /\ air[1].nibble \in 0 .. 15
      /\ Ends
  BY InsideNow
<1> HIDE DEF r
<1>2. Exact(Due)
  BY <1>1 DEF Exact, Stale
<1>3. c = Symbols(Bytes(r))[Len(heard) + 1] /\ UNCHANGED disturbed
  BY <1>1, <1>2 DEF Hears
<1>4. air' = Tail(air) /\ chip' = 0
  BY <1>1 DEF NextChip
<1>5. air \in Seq(AirItem) /\ m \in Nat /\ m + 1 = HeaderSymbols + 1 + (Len(heard) + 1)
  BY <1>1, HeaderSize DEF RateInv, RateTypes
<1>6. HoldsFrom(air', 1, r, source, m + 1)
  <2>1. HoldsFrom(air, 1, r, source, m)
    BY <1>1 DEF Inside
  <2> HIDE DEF m
  <2> QED BY <1>1, <1>4, <1>5, <2>1, HoldsShift
<1> QED BY <1>1, <1>3, <1>4, <1>5, <1>6 DEF r

\* A symbol more of the packet was heard.
LEMMA HeardOneMore ==
    ASSUME NEW r \in Packets, NEW h \in Seq(Answers), NEW c,
           \A j \in 1 .. Len(h) : h[j] = Symbols(Bytes(r))[j], c = Symbols(Bytes(r))[Len(h) + 1]
    PROVE  /\ Len(Append(h, c)) = Len(h) + 1
           /\ \A j \in 1 .. Len(h) + 1 : Append(h, c)[j] = Symbols(Bytes(r))[j]
<1> DEFINE g == Append(h, c)
           T == Answers \cup {c}
<1>1. h \in Seq(T)
  OBVIOUS
<1>2. c \in T
  OBVIOUS
<1>3. Len(g) = Len(h) + 1 /\ (\A j \in 1 .. Len(h) : g[j] = h[j]) /\ g[Len(h) + 1] = c /\ Len(h) \in Nat
  <2> HIDE DEF T
  <2> QED BY <1>1, <1>2, AppendProperties
<1> HIDE DEF g
<1>4. ASSUME NEW j \in 1 .. Len(h) + 1 PROVE g[j] = Symbols(Bytes(r))[j]
  <2>1. CASE j = Len(h) + 1
    BY <1>3, <2>1
  <2>2. CASE j # Len(h) + 1
    <3>1. j \in 1 .. Len(h)
      BY <1>3, <2>2
    <3> QED BY <1>3, <3>1
  <2> QED BY <2>1, <2>2
<1> QED BY <1>3, <1>4 DEF g

\* What the sink makes of the length byte of a packet that fits.
LEMMA WantedIs ==
    ASSUME NEW r \in Packets, FitsIn(r), NEW h,
           h[1] = Symbols(Bytes(r))[1], h[2] = Symbols(Bytes(r))[2]
    PROVE  LET byte == LengthByte(h[1], h[2])
           IN  (IF r.sfd \in FixedLength \/ byte > MaxPktLen THEN DefaultLen ELSE byte) = Len(r.payload)
<1> DEFINE b == Bytes(r)
           lo == Symbols(b)[1]
           hi == Symbols(b)[2]
<1>1. b \in Seq(0 .. 255) /\ Len(b) \in Nat /\ Len(b) >= 1 /\ b[1] = Len(r.payload)
  BY PacketType
<1> HIDE DEF b
<1>2. 1 \in 1 .. Len(b) /\ 2 * 1 - 1 = 1 /\ 2 * 1 = 2
  BY <1>1
<1>3. lo = (b[1] % 16) /\ hi = b[1] \div 16 /\ lo + 16 * hi = b[1] /\ b[1] \in 0 .. 255
  BY <1>1, <1>2, SymbolsAre, ElementOfSeq
<1>4. lo \in 0 .. 15 /\ hi \in 0 .. 15
  BY <1>3, ByteParts
<1> HIDE DEF lo, hi
<1> DEFINE n == Len(r.payload)
<1>5. (hi % 16) = hi /\ lo # 255
  BY <1>4
<1>6. LengthByte(lo, hi) = lo + 16 * hi
  BY <1>5 DEF LengthByte, Invalid
<1>7. LengthByte(h[1], h[2]) = n
  BY <1>1, <1>3, <1>6 DEF lo, hi, b
<1>8. n \in 0 .. 255 /\ MaxPktLen \in Nat
  BY <1>1, <1>3, SizeAssumption
<1>9. IF r.sfd \in FixedLength THEN n = DefaultLen ELSE n <= MaxPktLen
  BY DEF FitsIn
<1> HIDE DEF n
<1>10. (IF r.sfd \in FixedLength \/ n > MaxPktLen THEN DefaultLen ELSE n) = n
  BY <1>8, <1>9
<1> QED BY <1>7, <1>10 DEF n

LEMMA FollowingNext ==
    ASSUME ASSUME state' # "SYNC_SEARCH", source' \in good', FitsIn(sent'[source'])
           PROVE  LET r == sent'[source']
                  IN  /\ sfd' = r.sfd /\ chip' = chipCnt' /\ Len(heard') < Body(r)
                      /\ \A j \in 1 .. Len(heard') : heard'[j] = Symbols(Bytes(r))[j]
                      /\ HoldsFrom(air', 1, r, source', HeaderSymbols + 1 + Len(heard'))
    PROVE  Following'
  BY DEF Following, Inside

LEMMA SearchGoesOn ==
    ASSUME RateInv, state' = "SYNC_SEARCH", state = "SYNC_SEARCH", UNCHANGED <<out, source, good, sent>>
    PROVE  Following' /\ GoodIsIntact'
  BY DEF RateInv, Following, GoodIsIntact, Fits

LEMMA InsideStep == ASSUME RateInv, HearInside PROVE Following' /\ GoodIsIntact'
<1>1. /\ Count /\ NextChip /\ UNCHANGED <<source, good, sent>>
      /\ UNCHANGED <<state, sfd, out, heard>>
  BY DEF HearInside, Heard, Count, frameVars, sendVars, rxHistory
<1>2. GoodIsIntact'
  BY <1>1 DEF RateInv, GoodIsIntact, Fits
<1>3. Following'
  <2> SUFFICES ASSUME state # "SYNC_SEARCH", source \in good, FitsIn(sent[source])
               PROVE  Inside(sent[source], source)'
    BY <1>1 DEF Following
  <2> DEFINE r == sent[source]
  <2>1. Inside(r, source) /\ air # <<>> /\ (Full <=> Ends) /\ r' = r
    BY <1>1, InsideNow
  <2>2. ~Full /\ ~Ends
    BY <1>1, <2>1 DEF Count
  <2> HIDE DEF r
  <2>3. air' = air /\ chip' = chip + 1
    BY <1>1, <2>1, <2>2 DEF NextChip
  <2>4. Due \in Nat \ {0} /\ chipCnt \in Nat /\ chipCnt < Due /\ chipCnt + 1 # Due
    BY <2>2, FullIs DEF RateInv
  <2>5. chipCnt' = chipCnt + 1
    <3>1. chipCnt + 1 \in 0 .. Due - 1
      BY <2>4
    <3>2. ((chipCnt + 1) % Due) = chipCnt + 1
      BY <2>4, <3>1, SmallMod
    <3> QED BY <1>1, <3>2 DEF Count
  <2>6. Inside(r, source)'
    BY <1>1, <2>1, <2>3, <2>5 DEF Inside
  <2> QED BY <2>6 DEF r
<1> QED BY <1>2, <1>3

LEMMA DelimiterStep ==
    ASSUME RateInv, HearDelimiter
    PROVE  /\ Following' /\ GoodIsIntact'
           /\ source' = source \/ source' = 0 \/ (air # <<>> /\ source' = air[1].of)
           /\ disturbed' \in Nat
<1>1. PICK h \in Answers : /\ Hears(h) /\ DelimiterSymbol(h)
                           /\ source' = IF h \notin SFDs THEN source
                                        ELSE IF Exact(Due) THEN air[1].of ELSE 0
  BY DEF HearDelimiter
<1>2. NextChip /\ UNCHANGED <<good, sent>>
  BY DEF HearDelimiter, Heard, sendVars
<1>3. disturbed' \in Nat
  BY <1>1 DEF Hears, RateInv, RateTypes
<1>4. source' = source \/ source' = 0 \/ (air # <<>> /\ source' = air[1].of)
  BY <1>1 DEF Exact, Ends
<1>5. CASE h \notin SFDs
  <2>1. UNCHANGED <<state, out, source>> /\ state = "SYNC_SEARCH"
    BY <1>1, <1>5 DEF DelimiterSymbol, EnterHaveSync, frameVars
  <2>2. Following' /\ GoodIsIntact'
    BY <1>2, <2>1, SearchGoesOn
  <2> QED BY <1>3, <1>4, <2>2
<1>6. CASE h \in SFDs
  <2>1. /\ state' = "HAVE_SYNC" /\ sfd' = h /\ chipCnt' = 0 /\ heard' = <<>>
        /\ state = "SYNC_SEARCH" /\ Full
    BY <1>1, <1>6 DEF DelimiterSymbol, EnterHaveSync
  <2>2. GoodIsIntact'
    BY <2>1 DEF GoodIsIntact
  <2>3. Following'
    <3> SUFFICES ASSUME source' \in good, FitsIn(sent[source'])
                 PROVE  LET r == sent[source']
                        IN  /\ sfd' = r.sfd /\ chip' = chipCnt' /\ Len(heard') < Body(r)
                            /\ \A j \in 1 .. Len(heard') : heard'[j] = Symbols(Bytes(r))[j]
                            /\ HoldsFrom(air', 1, r, source', HeaderSymbols + 1 + Len(heard'))
      BY <1>2, FollowingNext
    <3> DEFINE p == air[1].of
               r == sent[p]
    <3>1. 0 \notin good /\ air \in Seq(AirItem) /\ sent \in Seq(Packets)
      BY DEF RateInv, RateTypes
    <3>2. Exact(Due) /\ source' = p /\ p \in good
      BY <1>1, <1>6, <3>1
    <3>3. air # <<>> /\ h = air[1].nibble /\ air' = Tail(air) /\ chip' = 0
      BY <1>1, <1>2, <3>2 DEF Exact, Ends, Hears, NextChip
    <3>4. 1 \in 1 .. Len(air)
      BY <3>1, <3>3, TailIs
    <3>5. p \in 1 .. Len(sent) /\ HoldsFrom(air, 1, r, p, HeaderSymbols)
      BY <3>1, <3>2, <3>4 DEF RateInv, AirRight
    <3>6. r \in Packets
      BY <3>1, <3>5, ElementOfSeq
    <3> HIDE DEF r
    <3>7. HeaderSymbols \in HeaderSymbols .. Whole(r) /\ 1 + HeaderSymbols - HeaderSymbols = 1
      BY <3>6, PacketType, HeaderSize
    <3>8. air[1] = OnAir(r, p, HeaderSymbols)
      BY <3>5, <3>7 DEF HoldsFrom
    <3>9. h = r.sfd
      BY <3>3, <3>8, HeaderSize DEF OnAir, NibbleOf
    <3>10. HoldsFrom(air', 1, r, p, HeaderSymbols + 1)
      BY <3>1, <3>3, <3>5, <3>6, HoldsShift, HeaderSize
    <3>11. Len(heard') = 0 /\ 0 < Body(r) /\ HeaderSymbols + 1 + 0 = HeaderSymbols + 1
      BY <2>1, <3>6, PacketType, HeaderSize, EmptySeq
    <3>12. /\ sfd' = r.sfd /\ chip' = chipCnt'
           /\ \A j \in 1 .. Len(heard') : heard'[j] = Symbols(Bytes(r))[j]
      BY <2>1, <3>3, <3>9, <3>11
    <3> HIDE DEF p
    <3> QED BY <3>2, <3>10, <3>11, <3>12 DEF r
  <2> QED BY <1>3, <1>4, <2>2, <2>3
<1> QED BY <1>5, <1>6

LEMMA LengthStep == ASSUME RateInv, HearLength PROVE Following' /\ GoodIsIntact' /\ disturbed' \in Nat
<1>1. PICK c \in Answers : Hears(c) /\ LengthSymbol(c)
  BY DEF HearLength
<1>2. NextChip /\ UNCHANGED <<good, sent, source>>
  BY DEF HearLength, Heard, sendVars
<1>3. disturbed' \in Nat
  BY <1>1 DEF Hears, RateInv, RateTypes
<1>4. /\ state = "HAVE_SYNC" /\ state' # "SYNC_SEARCH" /\ Full /\ chipCnt' = 0
      /\ heard' = Append(heard, c) /\ sfd' = sfd
  BY <1>1 DEF LengthSymbol, EnterHaveHeader
<1>5. GoodIsIntact'
  BY <1>4 DEF GoodIsIntact
<1>6. heard \in Seq(Answers) /\ Len(heard) = byteIndex /\ byteIndex \in {0, 1}
  BY <1>4 DEF RateInv, SinkInv, SinkTypeOK, ReadingLength
<1>7. Following'
  <2> DEFINE r == sent[source]
  <2> SUFFICES ASSUME source \in good, FitsIn(r)
               PROVE  /\ sfd' = r.sfd /\ chip' = chipCnt' /\ Len(heard') < Body(r)
                      /\ \A j \in 1 .. Len(heard') : heard'[j] = Symbols(Bytes(r))[j]
                      /\ HoldsFrom(air', 1, r, source, HeaderSymbols + 1 + Len(heard'))
    BY <1>2, FollowingNext
  <2>1. r \in Packets /\ Inside(r, source)
    BY <1>4, InsideNow
  <2>2. /\ c = Symbols(Bytes(r))[Len(heard) + 1] /\ chip' = 0
        /\ HoldsFrom(air', 1, r, source, HeaderSymbols + 1 + (Len(heard) + 1))
    BY <1>1, <1>2, <1>4, SymbolTaken
  <2> HIDE DEF r
  <2>3. sfd = r.sfd /\ \A j \in 1 .. Len(heard) : heard[j] = Symbols(Bytes(r))[j]
    BY <2>1 DEF Inside
  <2>4. Len(heard') = Len(heard) + 1 /\ \A j \in 1 .. Len(heard') : heard'[j] = Symbols(Bytes(r))[j]
    BY <1>4, <1>6, <2>1, <2>2, <2>3, HeardOneMore
  <2>5. Len(heard') < Body(r)
    BY <1>6, <2>1, <2>4, PacketType
  <2> QED BY <1>4, <2>2, <2>3, <2>4, <2>5
<1> QED BY <1>3, <1>5, <1>7

LEMMA BodyStep ==
    ASSUME RateInv, SinkInv', HearBody PROVE Following' /\ GoodIsIntact' /\ disturbed' \in Nat
<1>1. PICK c \in Answers : Hears(c) /\ BodySymbol(c)
  BY DEF HearBody
<1>2. NextChip /\ UNCHANGED <<good, sent, source>>
  BY DEF HearBody, Heard, sendVars
<1>3. disturbed' \in Nat
  BY <1>1 DEF Hears, RateInv, RateTypes
<1>4. state = "HAVE_HEADER" /\ Full /\ heard' = Append(heard, c) /\ sfd' = sfd
  BY <1>1 DEF BodySymbol
<1>5. /\ state' \in {"HAVE_HEADER", "SYNC_SEARCH"} /\ chipCnt' = 0
  BY <1>1 DEF BodySymbol, FrameEnds, EnterSearch
<1>6. /\ heard \in Seq(Answers) /\ heard' \in Seq(Answers) /\ byteIndex' \in {0, 1}
      /\ payloadCnt' \in Nat /\ out' \in Seq(0 .. 255)
  BY DEF RateInv, SinkInv, SinkTypeOK
<1>7. Len(heard) \in Nat /\ Len(heard) >= 2
  <2>1. Len(heard) = 2 + 2 * payloadCnt + byteIndex /\ payloadCnt \in Nat /\ byteIndex \in {0, 1}
    BY <1>4 DEF RateInv, SinkInv, SinkTypeOK, ReadingBody
  <2> QED BY <2>1
<1> DEFINE r == sent[source]
           n == Len(r.payload)
<1>8. ASSUME source \in good, FitsIn(r)
      PROVE  /\ r \in Packets /\ sfd' = r.sfd /\ chip' = 0
             /\ HoldsFrom(air', 1, r, source, HeaderSymbols + 1 + Len(heard'))
             /\ \A j \in 1 .. Len(heard') : heard'[j] = Symbols(Bytes(r))[j]
             /\ Wanted' = n /\ Len(heard') = Len(heard) + 1
  <2>1. r \in Packets /\ Inside(r, source)
    BY <1>4, <1>8, InsideNow
  <2>2. /\ c = Symbols(Bytes(r))[Len(heard) + 1] /\ chip' = 0
        /\ HoldsFrom(air', 1, r, source, HeaderSymbols + 1 + (Len(heard) + 1))
    BY <1>1, <1>2, <1>4, <1>8, SymbolTaken
  <2> HIDE DEF r
  <2>3. sfd = r.sfd /\ \A j \in 1 .. Len(heard) : heard[j] = Symbols(Bytes(r))[j]
    BY <2>1 DEF Inside
  <2>4. Len(heard') = Len(heard) + 1 /\ \A j \in 1 .. Len(heard') : heard'[j] = Symbols(Bytes(r))[j]
    BY <1>4, <1>6, <2>1, <2>2, <2>3, HeardOneMore
  <2>5. heard'[1] = Symbols(Bytes(r))[1] /\ heard'[2] = Symbols(Bytes(r))[2]
    BY <1>7, <2>4
  <2>6. Wanted' = n
    <3> DEFINE byte == LengthByte(heard'[1], heard'[2])
    <3>1. (IF r.sfd \in FixedLength \/ byte > MaxPktLen THEN DefaultLen ELSE byte) = n
      BY <1>8, <2>1, <2>5, WantedIs
    <3>2. sfd' = r.sfd
      BY <1>4, <2>3
    <3> HIDE DEF n
    <3> QED BY <3>1, <3>2 DEF Wanted, FrameLen
  <2> QED BY <1>4, <2>1, <2>2, <2>3, <2>4, <2>6
<1>9. Following'
  <2> SUFFICES ASSUME state' # "SYNC_SEARCH", source \in good, FitsIn(r)
               PROVE  /\ sfd' = r.sfd /\ chip' = chipCnt' /\ Len(heard') < Body(r)
                      /\ \A j \in 1 .. Len(heard') : heard'[j] = Symbols(Bytes(r))[j]
                      /\ HoldsFrom(air', 1, r, source, HeaderSymbols + 1 + Len(heard'))
    BY <1>2, FollowingNext
  <2>1. /\ Len(heard') = 2 + 2 * payloadCnt' + byteIndex' /\ packetLen' = Wanted'
        /\ payloadCnt' = 0 \/ payloadCnt' < packetLen'
    BY <1>5 DEF SinkInv, ReadingBody
  <2>2. r \in Packets /\ Wanted' = n
    BY <1>8
  <2>3. n \in 1 .. 250 /\ Body(r) = 2 + 2 * n
    BY <2>2, PacketType
  <2> HIDE DEF n, r
  <2>4. Len(heard') < Body(r)
    <3> DEFINE k == payloadCnt'
               b == byteIndex'
    <3>1. k \in Nat /\ b \in {0, 1} /\ Len(heard') = 2 + 2 * k + b
      BY <1>6, <2>1
    <3>2. k = 0 \/ k < n
      BY <2>1, <2>2
    <3> HIDE DEF k, b
    <3> QED BY <2>3, <3>1, <3>2
  <2> QED BY <1>5, <1>8, <2>4
<1>10. GoodIsIntact'
  <2> SUFFICES ASSUME state' = "SYNC_SEARCH", source \in good, Fits(source)' PROVE out' = r.payload
    BY <1>2 DEF GoodIsIntact
  <2>0. FitsIn(r)
    BY <1>2 DEF Fits, FitsIn
  <2>1. /\ r \in Packets /\ Wanted' = n /\ Len(heard') = Len(heard) + 1
        /\ \A j \in 1 .. Len(heard') : heard'[j] = Symbols(Bytes(r))[j]
    BY <1>8, <2>0
  <2>2. heard' # <<>>
    BY <1>6, <1>7, <2>1, EmptySeq
  <2>3. /\ Len(out') = IF Wanted' = 0 THEN 1 ELSE Wanted'
        /\ Len(heard') = 2 + 2 * Len(out')
        /\ \A i \in 1 .. Len(out') : out'[i] = ByteOf(heard'[2 * i + 1], heard'[2 * i + 2])
    BY <2>2 DEF SinkInv, FrameAsHeard, Wanted
  <2> DEFINE b == Bytes(r)
  <2>4. /\ n \in 1 .. 250 /\ r.payload \in Seq(0 .. 255) /\ b \in Seq(0 .. 255) /\ Len(b) = 1 + n
        /\ \A i \in 1 .. n : b[i + 1] = r.payload[i]
    BY <2>1, PacketType
  <2>5. Symbols(b) \in Seq(0 .. 15) /\ Len(Symbols(b)) = 2 * Len(b)
        /\ \A i \in 1 .. Len(b) : Symbols(b)[2 * i - 1] + 16 * Symbols(b)[2 * i] = b[i]
    BY <2>4, SymbolsAre
  <2> HIDE DEF b
  <2>6. Len(out') = n /\ Len(heard') = 2 + 2 * n
    <3>1. n # 0
      BY <2>4
    <3>2. Wanted' = n
      BY <2>1
    <3> HIDE DEF n
    <3>3. Len(out') = n
      BY <2>3, <3>1, <3>2
    <3> QED BY <2>3, <3>3
  <2>7. ASSUME NEW i \in 1 .. n PROVE out'[i] = r.payload[i]
    <3>1. /\ 2 * i + 1 \in 1 .. Len(heard') /\ 2 * i + 2 \in 1 .. Len(heard')
          /\ 2 * i + 1 = 2 * (i + 1) - 1 /\ 2 * i + 2 = 2 * (i + 1) /\ i + 1 \in 1 .. Len(b)
          /\ 2 * i + 1 \in 1 .. 2 * Len(b) /\ 2 * i + 2 \in 1 .. 2 * Len(b)
      BY <2>4, <2>6
    <3> DEFINE lo == Symbols(b)[2 * i + 1]
               hi == Symbols(b)[2 * i + 2]
    <3>2. heard'[2 * i + 1] = lo /\ heard'[2 * i + 2] = hi
      BY <2>1, <3>1 DEF b
    <3>3. lo + 16 * hi = b[i + 1]
      BY <2>5, <3>1
    <3>4. lo \in 0 .. 15 /\ hi \in 0 .. 15
      BY <2>5, <3>1, ElementOfSeq
    <3> HIDE DEF lo, hi
    <3>5. ByteOf(lo, hi) = lo + 16 * hi
      BY <3>4 DEF ByteOf, BodyNibble, Invalid
    <3> QED BY <2>3, <2>4, <2>6, <3>2, <3>3, <3>5
  <2> QED BY <1>6, <2>4, <2>6, <2>7, SeqEqual
<1> QED BY <1>3, <1>9, <1>10

LEMMA HearStep == ASSUME RateInv, Hear PROVE RateInv'
<1>1. SinkInv'
  BY NextInv, HearIsSinkStep DEF RateInv
<1>2. Heard
  BY DEF Hear, HearUnlocked, HearInside, HearPreamble, HearDelimiter, HearLength, HearBody
<1>3. /\ Following' /\ GoodIsIntact' /\ disturbed' \in Nat
      /\ source' = source \/ source' = 0 \/ (air # <<>> /\ source' = air[1].of)
  <2>0. UNCHANGED <<good, sent>> /\ disturbed \in Nat
    BY <1>2 DEF Heard, sendVars, RateInv, RateTypes
  <2>1. CASE HearUnlocked
    <3>1. PICK h \in Answers : Hears(h) /\ Unlocked(h = 0) /\ UNCHANGED <<source, received>>
      BY <2>1 DEF HearUnlocked
    <3>2. disturbed' \in Nat
      BY <2>0, <3>1 DEF Hears
    <3>3. state = "SYNC_SEARCH" /\ UNCHANGED <<state, out>>
      BY <3>1 DEF Unlocked, frameVars
    <3> QED BY <2>0, <3>1, <3>2, <3>3, SearchGoesOn
  <2>2. CASE HearInside
    BY <2>0, <2>2, InsideStep DEF HearInside, rxHistory
  <2>3. CASE HearPreamble
    <3>1. PICK h \in Answers : Hears(h) /\ PreambleSymbol(h) /\ UNCHANGED <<source, received>>
      BY <2>3 DEF HearPreamble
    <3>2. disturbed' \in Nat
      BY <2>0, <3>1 DEF Hears
    <3>3. state = "SYNC_SEARCH" /\ UNCHANGED <<state, out>>
      BY <3>1 DEF PreambleSymbol, EnterSearch, frameVars
    <3> QED BY <2>0, <3>1, <3>2, <3>3, SearchGoesOn
  <2>4. CASE HearDelimiter
    BY <2>4, DelimiterStep
  <2>5. CASE HearLength
    BY <2>5, LengthStep DEF HearLength
  <2>6. CASE HearBody
    BY <1>1, <2>6, BodyStep DEF HearBody
  <2> QED BY <2>1, <2>2, <2>3, <2>4, <2>5, <2>6 DEF Hear
<1>4. RateTypes' /\ Framed(stream, sent)' /\ Rising(stream)' /\ Behind' /\ AirRight'
  BY <1>2, <1>3, HearOnAir
<1> QED BY <1>1, <1>3, <1>4 DEF RateInv

LEMMA NextRateInv == RateInv /\ [RateNext]_vars => RateInv'
<1> SUFFICES ASSUME RateInv, [RateNext]_vars PROVE RateInv'
  OBVIOUS
<1>1. file \in Letters \cup {Other, Empty} /\ writing \in Letters \cup {Other, Empty}
  BY DEF RateInv, RateTypes
<1>2. ASSUME NEW l \in Letters \cup {Other}, RenewOpens(l) PROVE RateInv'
  <2>1. /\ UNCHANGED <<sinkVars, sendVars, airVars, good, rxHistory>>
        /\ file' \in Letters \cup {Other, Empty} /\ writing' \in Letters \cup {Other, Empty}
    BY <1>2 DEF RenewOpens
  <2> QED BY <2>1, FileStep
<1>3. CASE RenewCloses
  <2>1. /\ UNCHANGED <<sinkVars, sendVars, airVars, good, rxHistory>>
        /\ file' \in Letters \cup {Other, Empty} /\ writing' \in Letters \cup {Other, Empty}
    BY <1>1, <1>3 DEF RenewCloses
  <2> QED BY <2>1, FileStep
<1>4. ASSUME NEW l \in ReadsFrom(file), MakeFrame(l) PROVE RateInv'
  BY <1>4, MakeFrameStep
<1>5. CASE MakeFrameEof
  BY <1>5, MakeFrameEofStep
<1>6. ASSUME NEW l \in ReadsFrom(file), NEW n \in 1 .. Len(stream), Work(l, n) PROVE RateInv'
  BY <1>6, WorkStep
<1>7. CASE Hear
  BY <1>7, HearStep
<1>8. CASE UNCHANGED vars
  <2>1. /\ UNCHANGED <<sinkVars, sendVars, airVars, good, rxHistory>>
        /\ file' \in Letters \cup {Other, Empty} /\ writing' \in Letters \cup {Other, Empty}
    BY <1>1, <1>8 DEF vars, fileVars
  <2> QED BY <2>1, FileStep
<1> QED BY <1>2, <1>3, <1>4, <1>5, <1>6, <1>7, <1>8 DEF RateNext

(* A packet that started a call of work() which held all of it and spread it as
   its delimiter says is published as it was sent, whenever the sink takes it at
   its delimiter: for every set of rates and every moment at which renew_chip_num
   empties or writes rec_ack, whatever happened to other packets and whatever
   noise was heard before. *)
THEOREM GoodIsIntactHolds == RateSpec => []GoodIsIntact
<1>1. RateInit => RateInv
  BY InitRateInv
<1>2. RateInv /\ [RateNext]_vars => RateInv'
  BY NextRateInv
<1>3. RateInv => GoodIsIntact
  BY DEF RateInv
<1> QED BY <1>1, <1>2, <1>3, PTL DEF RateSpec
-----------------------------------------------------------------------------
(* Every packet in its place, while all are good and nothing disturbs them. *)

\* Packet p is in s with all of its header.
InStream(s, p) == \E i \in HeaderSymbols .. Len(s) : s[i].of = p

Clean ==
    /\ disturbed = 0
    /\ sent # <<>> \/ toCome # <<>>
    /\ \A p \in 1 .. Len(sent) : InStream(stream, p) \/ (p \in good /\ FitsIn(sent[p]))

\* How many packets have left the stream.
Gone == IF stream = <<>> THEN Len(sent) ELSE FirstPacket - 1

Arrived(g) == received = [p \in 1 .. g |-> sent[p].payload]

\* Nothing on the air has the chips of a preamble.
Cleared(a) == \A j \in 1 .. Len(a) : a[j].chips # HeadChips

\* The air holds packet p, r, from its m-th symbol on, and behind it no preamble.
Rest(a, r, p, m) ==
    /\ HoldsFrom(a, 1, r, p, m)
    /\ \A j \in Whole(r) - m + 2 .. Len(a) : a[j].chips # HeadChips

Idle(g) == state = "SYNC_SEARCH" /\ ~locked /\ ~delimiter /\ Arrived(g) /\ Cleared(air)

Coming(g) ==
    /\ g >= 1 /\ Arrived(g - 1)
    /\ state = "SYNC_SEARCH" /\ ~locked /\ ~delimiter
    /\ Rest(air, sent[g], g, 1)

Locking(g) ==
    /\ g >= 1 /\ Arrived(g - 1)
    /\ state = "SYNC_SEARCH" /\ locked /\ chip = chipCnt
    /\ \E m \in 2 .. HeaderSymbols : (delimiter <=> m = HeaderSymbols) /\ Rest(air, sent[g], g, m)

Reading(g) ==
    /\ g >= 1 /\ Arrived(g - 1)
    /\ state # "SYNC_SEARCH" /\ source = g
    /\ Rest(air, sent[g], g, HeaderSymbols + 1 + Len(heard))

Phase(g) == Idle(g) \/ Coming(g) \/ Locking(g) \/ Reading(g)

Orderly ==
    Clean =>
        /\ stream # <<>> => FirstPacket # 0
        /\ Gone \in 0 .. Len(sent)
        /\ Phase(Gone)

LEMMA RestIs ==
    ASSUME NEW a \in Seq(AirItem), NEW r \in Packets, NEW p, NEW m \in Nat, Rest(a, r, p, m)
    PROVE  /\ m \in 1 .. Whole(r) =>
                a # <<>> /\ a[1] = OnAir(r, p, m) /\ Rest(Tail(a), r, p, m + 1)
           /\ m = Whole(r) + 1 => Cleared(a)
<1>0. Whole(r) \in Nat
  BY PacketType
<1>1. HoldsFrom(a, 1, r, p, m) /\ \A j \in Whole(r) - m + 2 .. Len(a) : a[j].chips # HeadChips
  BY DEF Rest
<1>2. ASSUME m \in 1 .. Whole(r)
      PROVE  a # <<>> /\ a[1] = OnAir(r, p, m) /\ Rest(Tail(a), r, p, m + 1)
  <2>1. m \in m .. Whole(r) /\ 1 + m - m = 1
    BY <1>0, <1>2
  <2>2. 1 <= Len(a) /\ a[1] = OnAir(r, p, m)
    BY <1>1, <2>1 DEF HoldsFrom
  <2>3. a # <<>>
    BY <2>2, EmptySeq
  <2>4. HoldsFrom(Tail(a), 1, r, p, m + 1)
    BY <1>1, <2>3, HoldsShift
  <2> DEFINE t == Tail(a)
  <2>5. Len(a) \in Nat /\ Len(t) = Len(a) - 1 /\ \A i \in 1 .. Len(t) : t[i] = a[i + 1]
    BY <2>3, TailIs
  <2> HIDE DEF t
  <2>6. ASSUME NEW j \in Whole(r) - (m + 1) + 2 .. Len(t) PROVE t[j].chips # HeadChips
    <3>1. j \in 1 .. Len(t) /\ j + 1 \in Whole(r) - m + 2 .. Len(a)
      BY <1>0, <1>2, <2>5
    <3> QED BY <1>1, <2>5, <3>1
  <2> QED BY <2>2, <2>3, <2>4, <2>6 DEF Rest, t
<1>3. ASSUME m = Whole(r) + 1 PROVE Cleared(a)
  <2>1. Whole(r) - m + 2 = 1
    BY <1>0, <1>3
  <2> QED BY <1>1, <2>1 DEF Cleared
<1> QED BY <1>2, <1>3

LEMMA ClearedTail ==
    ASSUME NEW a \in Seq(AirItem), a # <<>>, Cleared(a)
    PROVE  a[1].chips # HeadChips /\ Cleared(Tail(a))
<1> DEFINE t == Tail(a)
<1>1. Len(a) \in Nat /\ Len(a) >= 1 /\ Len(t) = Len(a) - 1 /\ \A i \in 1 .. Len(t) : t[i] = a[i + 1]
  BY TailIs
<1> HIDE DEF t
<1>2. 1 \in 1 .. Len(a) /\ \A i \in 1 .. Len(t) : i + 1 \in 1 .. Len(a)
  BY <1>1
<1>3. a[1].chips # HeadChips /\ \A i \in 1 .. Len(t) : t[i].chips # HeadChips
  BY <1>1, <1>2 DEF Cleared
<1> QED BY <1>3 DEF Cleared, t

LEMMA InitOrderly == RateInit => Orderly
<1> SUFFICES ASSUME RateInit PROVE Orderly
  OBVIOUS
<1>1. Len(sent) = 0 /\ Len(air) = 0 /\ Gone = 0 /\ stream = <<>>
  BY EmptySeq DEF RateInit, Gone
<1>2. Arrived(0)
  <2>1. 1 .. 0 = {}
    OBVIOUS
  <2>2. [p \in 1 .. 0 |-> sent[p].payload] = <<>>
    BY <2>1
  <2> QED BY <2>2 DEF Arrived, RateInit
<1>3. Idle(0)
  BY <1>1, <1>2 DEF Idle, Cleared, RateInit, Init
<1> QED BY <1>1, <1>3 DEF Orderly, Phase

\* The packet that left the stream last is good and fits.
LEMMA LastGone ==
    ASSUME RateInv, Clean, stream # <<>> => FirstPacket # 0, Gone \in 1 .. Len(sent)
    PROVE  Gone \in good /\ FitsIn(sent[Gone]) /\ sent[Gone] \in Packets
<1>1. stream \in Seq(StreamItem) /\ sent \in Seq(Packets) /\ Len(stream) \in Nat
  BY LenProperties DEF RateInv, RateTypes
<1>2. ~InStream(stream, Gone)
  <2> DEFINE H == HeaderSymbols
  <2> SUFFICES ASSUME NEW i \in H .. Len(stream), stream[i].of = Gone PROVE FALSE
    BY DEF InStream
  <2>1. stream # <<>> /\ i \in 1 .. Len(stream)
    <3>1. i \in 1 .. Len(stream)
      BY <1>1, HeaderSize
    <3> QED BY <1>1, <3>1, EmptySeq
  <2>2. H \in 1 .. Len(stream) /\ stream[H].of = FirstPacket /\ FirstPacket # 0 /\ H \in Nat
    BY <1>1, <2>1, HeaderSize DEF FirstPacket
  <2>3. stream[H].of \in Nat
    BY <1>1, <2>2, ItemType
  <2>4. Gone = stream[H].of - 1
    BY <2>1, <2>2 DEF Gone
  <2> HIDE DEF H
  <2>5. ~(H < i)
    BY <2>1, <2>2, <2>3, <2>4 DEF RateInv, Rising
  <2>6. i # H
    BY <2>2, <2>3, <2>4
  <2> QED BY <1>1, <2>2, <2>5, <2>6
<1> QED BY <1>1, <1>2, ElementOfSeq DEF Clean

LEMMA ArrivedKept ==
    ASSUME RateInv, received' = received, NEW g \in 0 .. Len(sent), \A p \in 1 .. Len(sent) : sent'[p] = sent[p]
    PROVE  Arrived(g) => Arrived(g)'
<1>1. \A p \in 1 .. g : sent'[p] = sent[p]
  BY LenProperties DEF RateInv, RateTypes
<1> QED BY <1>1 DEF Arrived

\* What leaves the air and the sink alone, and no packet out of the stream.
LEMMA OrderlyKept ==
    ASSUME RateInv, Orderly, Clean' => Clean /\ Gone' = Gone /\ (stream' # <<>> => FirstPacket' # 0),
           UNCHANGED <<sinkVars, air, chip, source, received>>,
           Len(sent') \in Nat, Len(sent) <= Len(sent'), \A p \in 1 .. Len(sent) : sent'[p] = sent[p]
    PROVE  Orderly'
<1> SUFFICES ASSUME Clean' PROVE (stream' # <<>> => FirstPacket' # 0) /\ Gone' \in 0 .. Len(sent') /\ Phase(Gone)'
  BY DEF Orderly
<1> USE DEF sinkVars
<1>1. Gone' = Gone /\ (stream' # <<>> => FirstPacket' # 0) /\ Gone \in 0 .. Len(sent) /\ Phase(Gone)
  BY DEF Orderly
<1>2. PICK g \in 0 .. Len(sent) : g = Gone
  BY <1>1
<1>3. Phase(g) /\ Len(sent) \in Nat
  BY <1>1, <1>2, LenProperties DEF RateInv, RateTypes
<1>4. /\ Arrived(g) => Arrived(g)'
      /\ g >= 1 => (Arrived(g - 1) => Arrived(g - 1)') /\ sent'[g] = sent[g]
  <2>1. g >= 1 => g - 1 \in 0 .. Len(sent) /\ g \in 1 .. Len(sent)
    BY <1>3
  <2> QED BY <2>1, ArrivedKept
<1>5. ASSUME Idle(g) PROVE Idle(g)'
  BY <1>4, <1>5 DEF Idle
<1>6. ASSUME Coming(g) PROVE Coming(g)'
  BY <1>4, <1>6 DEF Coming
<1>7. ASSUME Locking(g) PROVE Locking(g)'
  BY <1>4, <1>7 DEF Locking
<1>8. ASSUME Reading(g) PROVE Reading(g)'
  BY <1>4, <1>8 DEF Reading
<1>9. Phase(g)'
  BY <1>3, <1>5, <1>6, <1>7, <1>8 DEF Phase
<1>10. Gone' = g /\ Gone' \in 0 .. Len(sent')
  BY <1>1, <1>2, <1>3
<1>11. Phase(Gone)'
  BY <1>9, <1>10 DEF Phase, Idle, Coming, Locking, Reading, Arrived
<1> QED BY <1>1, <1>10, <1>11

LEMMA FileOrderly ==
    ASSUME RateInv, Orderly, UNCHANGED <<sinkVars, sendVars, airVars, good, rxHistory>> PROVE Orderly'
<1> USE DEF sendVars, airVars, rxHistory
<1>1. Clean' => Clean
  BY DEF Clean
<1>2. Gone' = Gone /\ FirstPacket' = FirstPacket
  BY DEF Gone, FirstPacket
<1>3. Len(sent) \in Nat
  BY LenProperties DEF RateInv, RateTypes
<1> QED BY <1>1, <1>2, <1>3, OrderlyKept DEF Orderly

LEMMA EofOrderly == ASSUME RateInv, Orderly, MakeFrameEof PROVE Orderly'
<1>1. /\ toCome # <<>> /\ toCome' = <<>>
      /\ UNCHANGED <<sinkVars, stream, sent, air, chip, good, source, disturbed, received>>
  BY DEF MakeFrameEof, airVars, rxHistory
<1>2. Clean' => Clean
  BY <1>1 DEF Clean
<1>3. Gone' = Gone /\ FirstPacket' = FirstPacket
  BY <1>1 DEF Gone, FirstPacket
<1>4. Len(sent) \in Nat
  BY LenProperties DEF RateInv, RateTypes
<1> QED BY <1>1, <1>2, <1>3, <1>4, OrderlyKept DEF Orderly

LEMMA FrameOrderly == ASSUME RateInv, Orderly, NEW l \in ReadsFrom(file), MakeFrame(l) PROVE Orderly'
<1> DEFINE H == HeaderSymbols
           L == Len(stream)
<1>0. PICK r \in Packets : MakesFrameOf(r)
  BY MakeFrameIs
<1>1. /\ toCome # <<>> /\ UNCHANGED <<sinkVars, air, chip, good, source, disturbed, received>>
      /\ L \in Nat /\ Len(sent) \in Nat /\ Len(stream') = L + Whole(r)
      /\ \A i \in 1 .. L : stream'[i] = stream[i]
      /\ \A i \in L + 1 .. L + Whole(r) : stream'[i].of = IF i = L + H THEN Len(sent) + 1 ELSE 0
      /\ Len(sent') = Len(sent) + 1 /\ \A p \in 1 .. Len(sent) : sent'[p] = sent[p]
  BY <1>0 DEF MakesFrameOf
<1>2. Whole(r) = H + Body(r) /\ Body(r) \in Nat /\ Whole(r) \in Nat /\ H \in Nat /\ H >= 3
  BY PacketType, HeaderSize
<1> HIDE DEF H
<1>3. ASSUME NEW p \in 1 .. Len(sent), InStream(stream', p) PROVE InStream(stream, p)
  <2>1. PICK i \in H .. Len(stream') : stream'[i].of = p
    BY <1>3 DEF InStream, H
  <2>2. i \in 1 .. L \/ i \in L + 1 .. L + Whole(r)
    BY <1>1, <1>2
  <2>3. i \in 1 .. L
    BY <1>1, <2>1, <2>2
  <2>4. i \in H .. L /\ stream[i].of = p
    BY <1>1, <1>2, <2>1, <2>3
  <2> QED BY <2>4 DEF InStream, H
<1>4. Clean' => Clean
  <2> SUFFICES ASSUME Clean' PROVE Clean
    OBVIOUS
  <2>1. \A p \in 1 .. Len(sent) : p \in 1 .. Len(sent')
    BY <1>1
  <2> QED BY <1>1, <1>3, <2>1 DEF Clean
<1>5. ASSUME Clean' PROVE Gone' = Gone /\ (stream' # <<>> => FirstPacket' # 0)
  <2>1. FirstPacket' = stream'[H].of /\ stream' # <<>>
    <3>1. ~(Len(stream') < H) /\ Len(stream') # 0
      BY <1>1, <1>2
    <3>2. stream' # <<>>
      BY <3>1, EmptySeq
    <3> QED BY <3>1, <3>2 DEF FirstPacket, H
  <2>2. CASE stream = <<>>
    <3>1. L = 0
      BY <2>2, EmptySeq
    <3>2. H \in L + 1 .. L + Whole(r) /\ H = L + H
      BY <1>2, <3>1
    <3>3. stream'[H].of = Len(sent) + 1
      BY <1>1, <3>2
    <3> QED BY <1>1, <2>1, <2>2, <3>3 DEF Gone
  <2>3. CASE stream # <<>>
    <3>1. FirstPacket # 0
      BY <1>4, <1>5, <2>3 DEF Orderly
    <3>2. H \in 1 .. L /\ FirstPacket = stream[H].of
      BY <1>1, <1>2, <3>1 DEF FirstPacket, H
    <3>3. FirstPacket' = FirstPacket
      BY <1>1, <2>1, <3>2
    <3> QED BY <2>1, <2>3, <3>1, <3>3 DEF Gone
  <2> QED BY <2>2, <2>3
<1>6. Len(sent') \in Nat /\ Len(sent) <= Len(sent')
  BY <1>1
<1> QED BY <1>1, <1>4, <1>5, <1>6, OrderlyKept

\* A call that leaves everything clean is one whole packet: of any other, a packet
\* has left the stream that is not good, or has no whole header in it any more.
LEMMA WorkOrderly ==
    ASSUME RateInv, Orderly, NEW l \in ReadsFrom(file), NEW n \in 1 .. Len(stream), Work(l, n)
    PROVE  Orderly'
<1> SUFFICES ASSUME Clean' PROVE (stream' # <<>> => FirstPacket' # 0) /\ Gone' \in 0 .. Len(sent') /\ Phase(Gone)'
  BY DEF Orderly
<1> DEFINE c == SpreadOf(l)
           H == HeaderSymbols
           p == FirstPacket
           r == sent[p]
           Cond == /\ FirstPacket # 0
                   /\ \E e \in PacketEnds : e <= n
                   /\ ChipsOf[stream[HeaderSymbols].nibble] = c
<1>0. /\ RateTypes /\ stream \in Seq(StreamItem) /\ sent \in Seq(Packets)
      /\ Len(stream) \in Nat /\ Len(sent) \in Nat /\ n \in Nat /\ n >= 1 /\ n <= Len(stream)
      /\ H \in Nat /\ H >= 3
  BY LenProperties, HeaderSize DEF RateInv, RateTypes
<1>1. c \in Nat \ {0} /\ c <= HeadChips
  BY <1>0, ReadsType, RateType
<1> HIDE DEF c
<1>2. /\ air = <<>> /\ air' = Spread(n, c) /\ stream' = SubSeq(stream, n + 1, Len(stream))
      /\ good' = IF Cond THEN good \cup {FirstPacket} ELSE good
      /\ UNCHANGED <<chip, toCome, sent, source, disturbed, received>>
      /\ UNCHANGED sinkVars
  BY DEF Work, c, rxHistory
<1>3. Len(stream') = Len(stream) - n /\ \A i \in 1 .. Len(stream') : stream'[i] = stream[n + i]
  BY <1>0, <1>2, FramedCut DEF RateInv
<1> HIDE DEF Cond, H
<1>4. \A q \in good' : q \in good \/ (Cond /\ q = p)
  BY <1>2
<1>5. ASSUME Cond PROVE InStream(stream, p)
  <2>1. H \in H .. Len(stream)
    BY <1>0, <1>5 DEF Cond, FirstPacket, H
  <2>2. stream[H].of = p
    BY <1>0, <2>1 DEF FirstPacket, H
  <2> QED BY <2>1, <2>2 DEF InStream, H
<1>6. Clean
  <2> SUFFICES ASSUME NEW q \in 1 .. Len(sent) PROVE InStream(stream, q) \/ (q \in good /\ FitsIn(sent[q]))
    BY <1>2 DEF Clean
  <2>1. InStream(stream', q) \/ (q \in good' /\ FitsIn(sent[q]))
    BY <1>2 DEF Clean
  <2>2. ASSUME InStream(stream', q) PROVE InStream(stream, q)
    <3>1. PICK i \in H .. Len(stream') : stream'[i].of = q
      BY <2>2 DEF InStream, H
    <3>2. i \in 1 .. Len(stream') /\ n + i \in H .. Len(stream)
      BY <1>0, <1>3, <3>1
    <3>3. stream[n + i].of = q
      BY <1>3, <3>1, <3>2
    <3> QED BY <3>2, <3>3 DEF InStream, H
  <2> QED BY <1>4, <1>5, <2>1, <2>2
<1>7. stream # <<>> /\ p # 0 /\ Gone = p - 1 /\ Phase(Gone)
  <2>1. stream # <<>>
    BY <1>0, EmptySeq
  <2> QED BY <1>6, <2>1 DEF Orderly, Gone
<1>8. H \in 1 .. Len(stream) /\ stream[H].of = p
  BY <1>0, <1>7 DEF FirstPacket, H
<1>9. /\ p \in 1 .. Len(sent) /\ H + Body(r) <= Len(stream)
      /\ p = Len(sent) => H + Body(r) = Len(stream)
      /\ p # Len(sent) => H + Body(r) + H <= Len(stream) /\ stream[H + Body(r) + H].of = p + 1
  BY <1>7, <1>8 DEF RateInv, Framed, FramedAt, H
<1>10. r \in Packets /\ Whole(r) = H + Body(r) /\ Body(r) \in Nat /\ Body(r) >= 4 /\ Whole(r) \in Nat
  <2>1. r \in Packets
    BY <1>0, <1>9, ElementOfSeq
  <2> QED BY <2>1, PacketType DEF H
<1> DEFINE W == Whole(r)
<1> HIDE DEF p, r
<1>11. \A i, k \in 1 .. Len(stream) : i < k /\ stream[i].of # 0 /\ stream[k].of # 0 => stream[i].of < stream[k].of
  BY DEF RateInv, Rising
<1>12. ~InStream(stream', p)
  <2> SUFFICES ASSUME NEW i \in H .. Len(stream'), stream'[i].of = p PROVE FALSE
    BY DEF InStream, H
  <2>1. i \in 1 .. Len(stream') /\ n + i \in 1 .. Len(stream) /\ H < n + i
    BY <1>0, <1>3
  <2>2. stream[n + i].of = p
    BY <1>3, <2>1
  <2>3. stream[H].of < stream[n + i].of
    BY <1>7, <1>8, <1>11, <2>1, <2>2
  <2> QED BY <1>0, <1>8, <1>9, <2>2, <2>3
<1>13. Cond
  <2>1. p \notin good
    <3>1. p \in good => p < stream[H].of
      BY <1>7, <1>8 DEF RateInv, Behind
    <3> QED BY <1>0, <1>8, <1>9, <3>1
  <2>2. InStream(stream', p) \/ p \in good'
    BY <1>2, <1>9 DEF Clean
  <2> QED BY <1>4, <1>12, <2>1, <2>2
<1>14. W <= n /\ HoldsFrom(air', 1, r, p, 1)
  <2>1. PICK e \in PacketEnds : e <= n
    BY <1>13 DEF Cond
  <2>2. Whole(sent[FirstPacket]) <= e /\ HoldsFrom(Spread(n, c), 1, sent[FirstPacket], FirstPacket, 1)
    BY <1>1, <1>13, <2>1, GoodCall DEF Cond
  <2>3. e \in Nat
    BY <1>0 DEF PacketEnds
  <2> QED BY <1>0, <1>2, <1>10, <2>1, <2>2, <2>3 DEF p, r
<1>15. n = W
  <2> SUFFICES ASSUME n > W PROVE FALSE
    BY <1>0, <1>10, <1>14
  <2> DEFINE d == W + H
  <2>1. p # Len(sent)
    BY <1>0, <1>9, <1>10
  <2>2. d \in 1 .. Len(stream) /\ stream[d].of = p + 1 /\ p + 1 \in 1 .. Len(sent) /\ d \in Nat
    BY <1>0, <1>9, <1>10, <2>1
  <2>3. \A i \in H .. Len(stream') : i \in 1 .. Len(stream') /\ n + i \in 1 .. Len(stream) /\ d < n + i
    BY <1>0, <1>3, <1>10
  <2> HIDE DEF d
  <2>4. ~InStream(stream', p + 1)
    <3> SUFFICES ASSUME NEW i \in H .. Len(stream'), stream'[i].of = p + 1 PROVE FALSE
      BY DEF InStream, H
    <3>1. n + i \in 1 .. Len(stream) /\ stream[n + i].of = p + 1 /\ d < n + i
      BY <1>3, <2>3
    <3>2. stream[d].of # 0 /\ stream[n + i].of # 0
      BY <2>2, <3>1
    <3>3. stream[d].of < stream[n + i].of
      BY <1>11, <2>2, <3>1, <3>2
    <3> QED BY <2>2, <3>1, <3>3
  <2>5. p + 1 \notin good
    <3>1. stream[d].of # 0
      BY <2>2
    <3>2. p + 1 \in good => p + 1 < stream[d].of
      BY <2>2, <3>1 DEF RateInv, Behind
    <3> QED BY <2>2, <3>2
  <2>6. p + 1 # p
    BY <1>0, <1>9
  <2>7. InStream(stream', p + 1) \/ p + 1 \in good'
    BY <1>2, <2>2 DEF Clean
  <2> QED BY <1>4, <2>4, <2>5, <2>6, <2>7
<1>16. Idle(Gone)
  <2>1. Gone >= 1 => Gone \in 1 .. Len(sent)
    BY <1>0, <1>7, <1>9
  <2>2. Gone >= 1 => sent[Gone] \in Packets /\ Gone \in good /\ FitsIn(sent[Gone])
    BY <1>6, <1>7, <2>1, LastGone DEF p
  <2>3. ~Coming(Gone)
    <3> SUFFICES ASSUME Coming(Gone) PROVE FALSE
      OBVIOUS
    <3>1. sent[Gone] \in Packets /\ Rest(air, sent[Gone], Gone, 1)
      BY <2>2 DEF Coming
    <3>2. 1 \in 1 .. Whole(sent[Gone])
      BY <3>1, PacketType, HeaderSize
    <3>3. air \in Seq(AirItem)
      BY <1>0 DEF RateTypes
    <3> QED BY <1>2, <3>1, <3>2, <3>3, RestIs
  <2>4. ~Locking(Gone)
    <3> SUFFICES ASSUME Locking(Gone) PROVE FALSE
      OBVIOUS
    <3>1. sent[Gone] \in Packets
      BY <2>2 DEF Locking
    <3>2. PICK m \in 2 .. HeaderSymbols : Rest(air, sent[Gone], Gone, m)
      BY DEF Locking
    <3>3. m \in 1 .. Whole(sent[Gone]) /\ m \in Nat
      BY <3>1, PacketType, HeaderSize
    <3>4. air \in Seq(AirItem)
      BY <1>0 DEF RateTypes
    <3> QED BY <1>2, <3>1, <3>2, <3>3, <3>4, RestIs
  <2>5. ~Reading(Gone)
    BY <1>2, <2>2, InsideNow DEF Reading
  <2> QED BY <1>7, <2>3, <2>4, <2>5 DEF Phase
<1>17. Gone' = p /\ (stream' # <<>> => FirstPacket' # 0)
  <2>1. CASE Len(stream) = W
    <3>1. p = Len(sent)
      BY <1>0, <1>9, <1>10, <2>1
    <3>2. Len(stream') = 0
      BY <1>0, <1>3, <1>15, <2>1
    <3>3. stream' = <<>>
      <4>1. stream' \in Seq(StreamItem)
        BY <1>0, <1>2, <1>3, FramedCut DEF RateInv
      <4> QED BY <3>2, <4>1, EmptySeq
    <3> QED BY <1>2, <3>1, <3>3 DEF Gone
  <2>2. CASE Len(stream) # W
    <3>1. H + Body(r) + H <= Len(stream) /\ stream[H + Body(r) + H].of = p + 1
      BY <1>0, <1>9, <1>10, <2>2
    <3>2. H \in 1 .. Len(stream') /\ n + H = H + Body(r) + H
      BY <1>0, <1>3, <1>10, <1>15, <3>1
    <3>3. stream'[H].of = p + 1
      BY <1>3, <3>1, <3>2
    <3>4. FirstPacket' = p + 1 /\ stream' # <<>>
      <4>1. ~(Len(stream') < H) /\ Len(stream') # 0
        BY <1>0, <1>3, <3>2
      <4>2. stream' # <<>>
        BY <4>1, EmptySeq
      <4> QED BY <3>3, <4>1, <4>2 DEF FirstPacket, H
    <3> QED BY <1>0, <1>9, <3>4 DEF Gone
  <2> QED BY <2>1, <2>2
<1>18. Rest(air', r, p, 1)
  <2>1. \A i \in n + 1 .. Len(air') : i > HeaderSymbols => air'[i].chips # HeadChips
    BY <1>0, <1>1, <1>2, SpreadIs
  <2>2. ASSUME NEW j \in W - 1 + 2 .. Len(air') PROVE air'[j].chips # HeadChips
    <3>1. j \in n + 1 .. Len(air') /\ j > H
      BY <1>0, <1>10, <1>15
    <3> QED BY <2>1, <3>1 DEF H
  <2> QED BY <1>14, <2>2 DEF Rest
<1>19. p >= 1 /\ received' = [q \in 1 .. p - 1 |-> sent[q].payload]
       /\ state' = "SYNC_SEARCH" /\ ~locked' /\ ~delimiter'
  BY <1>0, <1>2, <1>7, <1>9, <1>16 DEF Idle, Arrived, sinkVars
<1>20. Coming(Gone)'
  BY <1>2, <1>17, <1>18, <1>19 DEF Coming, Arrived, r
<1> QED BY <1>0, <1>2, <1>9, <1>17, <1>20 DEF Phase

LEMMA HearsClean ==
    ASSUME Clean, disturbed' = 0, NEW h, Hears(h)
    PROVE  IF Exact(Due) THEN h = air[1].nibble ELSE h = Invalid
<1>1. disturbed = 0 /\ (sent # <<>> \/ toCome # <<>>)
  BY DEF Clean
<1> QED BY <1>1 DEF Hears

LEMMA NextPayload ==
    ASSUME NEW q \in Seq(Packets), NEW g \in 1 .. Len(q)
    PROVE  Append([p \in 1 .. g - 1 |-> q[p].payload], q[g].payload) = [p \in 1 .. g |-> q[p].payload]
<1> DEFINE s == [p \in 1 .. g - 1 |-> q[p].payload]
           t == [p \in 1 .. g |-> q[p].payload]
           x == q[g].payload
<1>1. \A p \in 1 .. g : q[p].payload \in Messages
  <2> TAKE p \in 1 .. g
  <2>1. p \in 1 .. Len(q)
    BY LenProperties
  <2>2. q[p] \in Packets
    BY <2>1, ElementOfSeq
  <2> QED BY <2>2 DEF Packets
<1>2. g \in Nat /\ g - 1 \in Nat
  OBVIOUS
<1>3. s \in Seq(Messages) /\ Len(s) = g - 1
  <2>1. s \in [1 .. g - 1 -> Messages]
    BY <1>1, <1>2
  <2> QED BY <1>2, <2>1, SeqOfFunction
<1>4. t \in Seq(Messages) /\ Len(t) = g
  <2>1. t \in [1 .. g -> Messages]
    BY <1>1, <1>2
  <2> QED BY <1>2, <2>1, SeqOfFunction
<1>5. x \in Messages
  BY <1>1, <1>2
<1>6. \A p \in 1 .. g - 1 : s[p] = t[p]
  BY <1>2
<1>7. t[g] = x
  BY <1>2
<1> HIDE DEF s, t, x
<1>8. /\ Append(s, x) \in Seq(Messages) /\ Len(Append(s, x)) = g
      /\ \A p \in 1 .. g - 1 : Append(s, x)[p] = s[p]
      /\ Append(s, x)[g] = x
  BY <1>2, <1>3, <1>5, AppendProperties
<1>9. \A p \in 1 .. g : Append(s, x)[p] = t[p]
  <2> TAKE p \in 1 .. g
  <2>1. CASE p = g
    BY <1>7, <1>8, <2>1
  <2>2. CASE p # g
    <3>1. p \in 1 .. g - 1
      BY <1>2, <2>2
    <3> QED BY <1>6, <1>8, <3>1
  <2> QED BY <2>1, <2>2
<1> QED BY <1>4, <1>8, <1>9, SeqEqual DEF s, t, x

\* What the steps of the receiver have in common.
HearsOn(g) ==
    /\ RateInv /\ RateInv' /\ Clean /\ disturbed' = 0 /\ Heard
    /\ g \in 0 .. Len(sent)
    /\ g >= 1 => g \in 1 .. Len(sent) /\ sent[g] \in Packets /\ g \in good /\ FitsIn(sent[g])
    /\ sent' = sent /\ air \in Seq(AirItem)

LEMMA UnlockedPhase ==
    ASSUME NEW g, HearsOn(g), Phase(g), HearUnlocked PROVE Phase(g)'
<1>1. PICK h \in Answers : Hears(h) /\ Unlocked(h = 0) /\ UNCHANGED <<source, received>>
  BY DEF HearUnlocked
<1>2. /\ state = "SYNC_SEARCH" /\ ~locked /\ locked' = (h = 0) /\ UNCHANGED <<state, delimiter, chipCnt>>
      /\ chipCnt = 0 /\ Due = HeadChips
  BY <1>1 DEF Unlocked, HearsOn, RateInv, SinkInv, CountersMeet, Due
<1>3. IF Exact(HeadChips) THEN h = air[1].nibble ELSE h = Invalid
  BY <1>1, <1>2, HearsClean DEF HearsOn
<1>4. NextChip /\ sent' = sent /\ received' = received /\ air \in Seq(AirItem)
  BY <1>1 DEF HearsOn, Heard
<1>5. CASE Idle(g)
  <2>1. ~Exact(HeadChips)
    BY <1>4, <1>5, ClearedTail DEF Idle, Exact, Ends
  <2>2. ~locked'
    <3>1. h # 0
      BY <1>3, <2>1 DEF Invalid
    <3> QED BY <1>2, <3>1, Zenon
  <2>3. Cleared(air')
    <3>1. air' = air \/ (air # <<>> /\ air' = Tail(air))
      BY <1>4, AirAfter DEF HearsOn
    <3> QED BY <1>4, <1>5, <3>1, ClearedTail DEF Idle
  <2>4. Idle(g)'
    BY <1>2, <1>4, <1>5, <2>2, <2>3 DEF Idle, Arrived
  <2> QED BY <2>4 DEF Phase
<1>6. CASE Coming(g)
  <2> DEFINE r == sent[g]
  <2>1. g >= 1 /\ r \in Packets /\ Rest(air, r, g, 1) /\ ~delimiter /\ Arrived(g - 1)
    BY <1>6 DEF HearsOn, Coming
  <2> HIDE DEF r
  <2>2. 1 \in 1 .. Whole(r) /\ 1 <= HeaderSymbols /\ 1 <= Zeros /\ 1 # HeaderSymbols
    BY <2>1, PacketType, HeaderSize
  <2>3. air # <<>> /\ air[1] = OnAir(r, g, 1) /\ Rest(Tail(air), r, g, 1 + 1)
    BY <1>4, <2>1, <2>2, RestIs
  <2>4. air[1].chips = HeadChips /\ air[1].nibble = 0
    BY <2>2, <2>3 DEF OnAir, NibbleOf
  <2>5. CASE Ends
    <3>1. h = 0
      BY <1>3, <2>4, <2>5 DEF Exact, Stale
    <3>2. air' = Tail(air) /\ chip' = 0
      BY <1>4, <2>5 DEF NextChip
    <3>3. 2 \in 2 .. HeaderSymbols /\ 2 # HeaderSymbols
      BY HeaderSize
    <3>4. \E m \in 2 .. HeaderSymbols : (delimiter' <=> m = HeaderSymbols) /\ Rest(air', r, g, m)
      BY <1>2, <2>1, <2>3, <3>2, <3>3
    <3>5. locked' /\ chip' = chipCnt' /\ state' = "SYNC_SEARCH"
      BY <1>2, <3>1, <3>2
    <3>6. Locking(g)'
      BY <1>4, <2>1, <3>4, <3>5 DEF Locking, Arrived, r
    <3> QED BY <3>6 DEF Phase
  <2>6. CASE ~Ends
    <3>1. h # 0
      BY <1>3, <2>6 DEF Exact, Invalid
    <3>2. air' = air /\ ~locked'
      <4>1. air' = air
        BY <1>4, <2>6 DEF NextChip
      <4>2. ~locked'
        BY <1>2, <3>1, Zenon
      <4> QED BY <4>1, <4>2
    <3>3. Coming(g)'
      BY <1>2, <1>4, <2>1, <3>2 DEF Coming, Arrived, r
    <3> QED BY <3>3 DEF Phase
  <2> QED BY <2>5, <2>6
<1> QED BY <1>2, <1>5, <1>6 DEF Phase, Locking, Reading

\* The sink waits for the m-th symbol of a header, in step with the air.
LEMMA LockedNow ==
    ASSUME NEW g, HearsOn(g), g >= 1, state = "SYNC_SEARCH", chip = chipCnt, NEW m \in 2 .. HeaderSymbols,
           Rest(air, sent[g], g, m)
    PROVE  LET r == sent[g]
           IN  /\ r \in Packets /\ air # <<>> /\ Due = HeadChips
               /\ air[1] = OnAir(r, g, m) /\ air[1].chips = HeadChips /\ air[1].nibble = NibbleOf(r, m)
               /\ air[1].nibble \in 0 .. 15
               /\ Rest(Tail(air), r, g, m + 1) /\ (Full <=> Ends)
<1> DEFINE r == sent[g]
<1>1. r \in Packets /\ air \in Seq(AirItem) /\ RateInv
  BY DEF HearsOn
<1> HIDE DEF r
<1>2. m \in 1 .. Whole(r) /\ m \in Nat /\ m <= HeaderSymbols
  BY <1>1, PacketType, HeaderSize
<1>3. air # <<>> /\ air[1] = OnAir(r, g, m) /\ Rest(Tail(air), r, g, m + 1)
  BY <1>1, <1>2, RestIs DEF r
<1>4. air[1].chips = HeadChips /\ air[1].nibble = NibbleOf(r, m) /\ Due = HeadChips
  BY <1>2, <1>3 DEF OnAir, Due
<1>5. NibbleOf(r, m) \in 0 .. 15
  BY <1>1, <1>2, NibbleType
<1>6. Full <=> Ends
  <2>1. Full <=> chipCnt + 1 = Due
    BY <1>1, FullIs DEF RateInv
  <2> QED BY <1>3, <1>4, <2>1 DEF Ends
<1> QED BY <1>1, <1>3, <1>4, <1>5, <1>6 DEF r

LEMMA InsidePhase ==
    ASSUME NEW g, HearsOn(g), Phase(g), HearInside PROVE Phase(g)'
<1>1. /\ Count /\ NextChip /\ UNCHANGED <<source, received, state, locked, delimiter, heard>> /\ sent' = sent
  BY DEF HearInside, HearsOn, Count, frameVars, syncVars, rxHistory, Heard
<1>2. ~Full
  BY <1>1 DEF Count
<1>3. CASE Locking(g)
  <2>1. PICK m \in 2 .. HeaderSymbols : (delimiter <=> m = HeaderSymbols) /\ Rest(air, sent[g], g, m)
    BY <1>3 DEF Locking
  <2>2. g >= 1 /\ Arrived(g - 1) /\ state = "SYNC_SEARCH" /\ locked /\ chip = chipCnt
    BY <1>3 DEF Locking
  <2>3. air # <<>> /\ ~Ends
    BY <1>2, <2>1, <2>2, LockedNow
  <2>4. air' = air /\ chip' = chip + 1 /\ chipCnt' = chipCnt + 1
    BY <1>1, <2>2, <2>3 DEF NextChip, Count
  <2>5. chip' = chipCnt' /\ (delimiter' <=> m = HeaderSymbols) /\ Rest(air', sent'[g], g, m)
    BY <1>1, <2>1, <2>2, <2>4
  <2>6. Locking(g)'
    BY <1>1, <2>2, <2>5 DEF Locking, Arrived
  <2> QED BY <2>6 DEF Phase
<1>4. CASE Reading(g)
  <2>1. g >= 1 /\ source = g /\ state # "SYNC_SEARCH"
    BY <1>4 DEF Reading
  <2>2. air # <<>> /\ (Full <=> Ends)
    BY <2>1, InsideNow DEF HearsOn
  <2>3. air' = air
    BY <1>1, <1>2, <2>2 DEF NextChip
  <2>4. Reading(g)'
    BY <1>1, <1>4, <2>3 DEF Reading, Arrived
  <2> QED BY <2>4 DEF Phase
<1> QED BY <1>1, <1>3, <1>4 DEF Phase, Idle, Coming, Count

LEMMA PreamblePhase ==
    ASSUME NEW g, HearsOn(g), Phase(g), HearPreamble PROVE Phase(g)'
<1>1. PICK h \in Answers : Hears(h) /\ PreambleSymbol(h) /\ UNCHANGED <<source, received>>
  BY DEF HearPreamble
<1>2. state = "SYNC_SEARCH" /\ locked /\ ~delimiter /\ Full /\ NextChip /\ sent' = sent
  BY <1>1 DEF PreambleSymbol, HearsOn, Heard
<1>3. Locking(g)
  BY <1>2 DEF Phase, Idle, Coming, Reading
<1>4. PICK m \in 2 .. HeaderSymbols : (delimiter <=> m = HeaderSymbols) /\ Rest(air, sent[g], g, m)
  BY <1>3 DEF Locking
<1>5. g >= 1 /\ Arrived(g - 1) /\ chip = chipCnt
  BY <1>3 DEF Locking
<1>6. m \in 2 .. Zeros + 1 /\ m + 1 \in 2 .. HeaderSymbols /\ m # HeaderSymbols
      /\ (m + 1 = HeaderSymbols <=> m = Zeros + 1)
  BY <1>2, <1>4, HeaderSize
<1> DEFINE r == sent[g]
<1>7. /\ air # <<>> /\ Due = HeadChips /\ air[1].chips = HeadChips /\ air[1].nibble = NibbleOf(r, m)
      /\ air[1].nibble \in 0 .. 15 /\ Rest(Tail(air), r, g, m + 1) /\ Ends
  BY <1>2, <1>4, <1>5, LockedNow
<1> HIDE DEF r
<1>8. Exact(Due)
  BY <1>7 DEF Exact, Stale
<1>9. h = air[1].nibble
  BY <1>1, <1>8, HearsClean DEF HearsOn
<1>10. NibbleOf(r, m) = IF m = Zeros + 1 THEN 7 ELSE 0
  BY <1>6, HeaderSize DEF NibbleOf
<1>11. h \in {0, 7} /\ (h = 7 <=> m = Zeros + 1)
  BY <1>7, <1>9, <1>10
<1>12. delimiter' = (h = 7) /\ chipCnt' = 0 /\ UNCHANGED <<state, locked>>
  BY <1>1, <1>11 DEF PreambleSymbol
<1>13. air' = Tail(air) /\ chip' = 0
  BY <1>2, <1>7 DEF NextChip
<1>14. delimiter' <=> m + 1 = HeaderSymbols
  BY <1>6, <1>11, <1>12
<1>15. \E k \in 2 .. HeaderSymbols : (delimiter' <=> k = HeaderSymbols) /\ Rest(air', r, g, k)
  BY <1>6, <1>7, <1>13, <1>14
<1>16. chip' = chipCnt' /\ state' = "SYNC_SEARCH" /\ locked'
  BY <1>2, <1>12, <1>13
<1>17. received' = received
  BY <1>1
<1>18. Locking(g)'
  BY <1>2, <1>5, <1>15, <1>16, <1>17 DEF Locking, Arrived, r
<1> QED BY <1>18 DEF Phase

LEMMA DelimiterPhase ==
    ASSUME NEW g, HearsOn(g), Phase(g), HearDelimiter PROVE Phase(g)'
<1>1. PICK h \in Answers : /\ Hears(h) /\ DelimiterSymbol(h) /\ received' = received
                           /\ source' = IF h \notin SFDs THEN source
                                        ELSE IF Exact(Due) THEN air[1].of ELSE 0
  BY DEF HearDelimiter
<1>2. state = "SYNC_SEARCH" /\ locked /\ delimiter /\ Full /\ NextChip /\ sent' = sent
  BY <1>1 DEF DelimiterSymbol, HearsOn, Heard
<1>3. Locking(g)
  BY <1>2 DEF Phase, Idle, Coming, Reading
<1>4. PICK m \in 2 .. HeaderSymbols : (delimiter <=> m = HeaderSymbols) /\ Rest(air, sent[g], g, m)
  BY <1>3 DEF Locking
<1>5. g >= 1 /\ Arrived(g - 1) /\ chip = chipCnt /\ m = HeaderSymbols
  BY <1>2, <1>3, <1>4 DEF Locking
<1> DEFINE r == sent[g]
<1>6. /\ r \in Packets /\ air # <<>> /\ Due = HeadChips /\ air[1] = OnAir(r, g, m) /\ air[1].nibble = NibbleOf(r, m)
      /\ air[1].chips = HeadChips /\ air[1].nibble \in 0 .. 15 /\ Rest(Tail(air), r, g, m + 1) /\ Ends
  BY <1>2, <1>4, <1>5, LockedNow
<1> HIDE DEF r
<1>7. Exact(Due)
  BY <1>6 DEF Exact, Stale
<1>8. h = r.sfd /\ h \in SFDs
  <2>1. h = air[1].nibble
    BY <1>1, <1>7, HearsClean DEF HearsOn
  <2>2. NibbleOf(r, m) = r.sfd
    BY <1>5, HeaderSize DEF NibbleOf
  <2> QED BY <1>6, <2>1, <2>2, PacketType
<1>9. source' = g
  <2>1. air[1].of = g
    BY <1>5, <1>6 DEF OnAir
  <2> QED BY <1>1, <1>7, <1>8, <2>1
<1>10. state' = "HAVE_SYNC" /\ heard' = <<>>
  BY <1>1, <1>8 DEF DelimiterSymbol, EnterHaveSync
<1>11. air' = Tail(air)
  BY <1>2, <1>6 DEF NextChip
<1>12. HeaderSymbols + 1 + Len(heard') = m + 1
  <2>1. Len(heard') = 0
    BY <1>10, EmptySeq
  <2> QED BY <1>5, <2>1, HeaderSize
<1>13. Rest(air', r, g, HeaderSymbols + 1 + Len(heard'))
  BY <1>6, <1>11, <1>12
<1>14. Reading(g)'
  BY <1>1, <1>2, <1>5, <1>9, <1>10, <1>13 DEF Reading, Arrived, r
<1> QED BY <1>14 DEF Phase

\* One more symbol behind the delimiter.
LEMMA ReadingOn ==
    ASSUME NEW g, HearsOn(g), Reading(g), Full, NEW c \in Answers, Hears(c), heard' = Append(heard, c)
    PROVE  LET r == sent[g]
           IN  /\ r \in Packets /\ Len(heard') \in Nat
               /\ Rest(air', r, g, HeaderSymbols + 1 + Len(heard'))
<1> DEFINE r == sent[g]
           m == HeaderSymbols + 1 + Len(heard)
<1>1. /\ g >= 1 /\ source = g /\ state # "SYNC_SEARCH" /\ Rest(air, r, g, m) /\ r \in Packets
      /\ RateInv /\ g \in good /\ FitsIn(r) /\ NextChip /\ air \in Seq(AirItem)
  BY DEF Reading, HearsOn, Heard
<1>2. air # <<>> /\ air' = Tail(air)
  BY <1>1, SymbolTaken
<1>3. m \in HeaderSymbols + 1 .. Whole(r) /\ Len(heard) \in Nat
  BY <1>1, InsideNow
<1> HIDE DEF r
<1>4. m \in 1 .. Whole(r) /\ m \in Nat
  BY <1>1, <1>3, HeaderSize
<1>5. Rest(air', r, g, m + 1)
  BY <1>1, <1>2, <1>4, RestIs
<1>6. Len(heard') = Len(heard) + 1
  <2>1. heard \in Seq(Answers)
    BY <1>1 DEF RateInv, SinkInv, SinkTypeOK
  <2> QED BY <2>1, AppendProperties
<1>7. HeaderSymbols + 1 + Len(heard') = m + 1 /\ Len(heard') \in Nat
  BY <1>3, <1>6, HeaderSize
<1> QED BY <1>1, <1>5, <1>7 DEF r

LEMMA LengthPhase ==
    ASSUME NEW g, HearsOn(g), Phase(g), HearLength PROVE Phase(g)'
<1>1. PICK c \in Answers : Hears(c) /\ LengthSymbol(c) /\ UNCHANGED <<source, received>>
  BY DEF HearLength
<1>2. /\ state = "HAVE_SYNC" /\ state' # "SYNC_SEARCH" /\ Full /\ heard' = Append(heard, c)
      /\ sent' = sent
  BY <1>1 DEF LengthSymbol, EnterHaveHeader, HearsOn
<1>3. Reading(g)
  BY <1>2 DEF Phase, Idle, Coming, Locking
<1>4. Rest(air', sent[g], g, HeaderSymbols + 1 + Len(heard'))
  BY <1>1, <1>2, <1>3, ReadingOn
<1>5. Reading(g)'
  BY <1>1, <1>2, <1>3, <1>4 DEF Reading, Arrived
<1> QED BY <1>5 DEF Phase

LEMMA BodyPhase ==
    ASSUME NEW g, HearsOn(g), Phase(g), HearBody PROVE Phase(g)'
<1>1. PICK c \in Answers :
         /\ Hears(c) /\ BodySymbol(c) /\ source' = source
         /\ received' = IF state' = "SYNC_SEARCH" /\ disturbed = 0 /\ sent # <<>>
                        THEN Append(received, out') ELSE received
  BY DEF HearBody
<1>2. state = "HAVE_HEADER" /\ Full /\ heard' = Append(heard, c) /\ sent' = sent
  BY <1>1 DEF BodySymbol, HearsOn
<1>3. Reading(g)
  BY <1>2 DEF Phase, Idle, Coming, Locking
<1> DEFINE r == sent[g]
<1>4. r \in Packets /\ Rest(air', r, g, HeaderSymbols + 1 + Len(heard')) /\ Len(heard') \in Nat
  BY <1>1, <1>2, <1>3, ReadingOn
<1>5. g >= 1 /\ source = g /\ Arrived(g - 1) /\ g \in good /\ g \in 1 .. Len(sent)
      /\ RateInv /\ RateInv' /\ disturbed = 0 /\ FitsIn(r) /\ good' = good /\ air' \in Seq(AirItem)
  BY <1>3 DEF Reading, HearsOn, Clean, Heard, RateInv, RateTypes
<1>6. CASE state' # "SYNC_SEARCH"
  <2>1. received' = received
    BY <1>1, <1>6
  <2>2. Reading(g)'
    BY <1>1, <1>2, <1>4, <1>5, <1>6, <2>1 DEF Reading, Arrived
  <2> QED BY <2>2 DEF Phase
<1>7. CASE state' = "SYNC_SEARCH"
  <2>1. ~locked' /\ ~delimiter'
    <3>1. EnterSearch
      BY <1>1, <1>2, <1>7 DEF BodySymbol, FrameEnds
    <3> QED BY <3>1 DEF EnterSearch
  <2>2. sent # <<>>
    <3>1. 1 <= Len(sent)
      BY <1>5
    <3> QED BY <3>1, EmptySeq
  <2>3. received' = Append(received, out')
    BY <1>1, <1>5, <1>7, <2>2
  <2>4. heard' # <<>>
    <3>1. heard \in Seq(Answers)
      BY <1>5 DEF RateInv, SinkInv, SinkTypeOK
    <3> QED BY <1>2, <3>1, AppendProperties, EmptySeq
  <2>5. Len(out') >= 1 /\ Len(heard') = 2 + 2 * Len(out') /\ out' \in Seq(0 .. 255) /\ Len(out') \in Nat
    <3>1. /\ Len(out') = IF Wanted' = 0 THEN 1 ELSE Wanted'
          /\ Len(heard') = 2 + 2 * Len(out')
      BY <1>5, <1>7, <2>4 DEF RateInv, SinkInv, FrameAsHeard, Wanted
    <3>2. out' \in Seq(0 .. 255)
      BY <1>5 DEF RateInv, SinkInv, SinkTypeOK
    <3>3. Len(out') \in Nat
      BY <3>2, LenProperties
    <3>4. Len(out') # 0
      BY <3>1
    <3> HIDE DEF Wanted
    <3> QED BY <3>1, <3>2, <3>3, <3>4
  <2>6. out' # <<>>
    BY <2>5, EmptySeq
  <2>7. out' = r.payload
    <3>1. Fits(source)'
      BY <1>1, <1>2, <1>5 DEF Fits, FitsIn
    <3> QED BY <1>1, <1>2, <1>5, <1>7, <2>6, <3>1 DEF RateInv, GoodIsIntact
  <2>8. Arrived(g)'
    <3>1. received' = Append([p \in 1 .. g - 1 |-> sent[p].payload], sent[g].payload)
      BY <1>5, <2>3, <2>7 DEF Arrived
    <3>2. sent \in Seq(Packets)
      BY <1>5 DEF RateInv, RateTypes
    <3>3. received' = [p \in 1 .. g |-> sent[p].payload]
      BY <1>5, <3>1, <3>2, NextPayload
    <3> QED BY <1>2, <3>3 DEF Arrived
  <2>9. HeaderSymbols + 1 + Len(heard') = Whole(r) + 1
    <3>1. Len(r.payload) = Len(out')
      BY <2>7
    <3> DEFINE n == Len(out')
    <3> HIDE DEF r
    <3>2. Whole(r) = HeaderSymbols + Body(r) /\ Body(r) = 2 + 2 * n
      BY <1>4, <3>1, PacketType
    <3>3. n \in Nat /\ Len(heard') = 2 + 2 * n
      BY <2>5
    <3> HIDE DEF n
    <3> QED BY <3>2, <3>3, HeaderSize
  <2>10. Cleared(air')
    <3> DEFINE m == HeaderSymbols + 1 + Len(heard')
    <3>1. m = Whole(r) + 1 /\ m \in Nat /\ Rest(air', r, g, m)
      BY <1>4, <2>9, HeaderSize
    <3> HIDE DEF r, m
    <3> QED BY <1>4, <1>5, <3>1, RestIs
  <2>11. Idle(g)'
    BY <1>7, <2>1, <2>8, <2>10 DEF Idle
  <2> QED BY <2>11 DEF Phase
<1> QED BY <1>6, <1>7

LEMMA HearOrderly == ASSUME RateInv, RateInv', Orderly, Hear PROVE Orderly'
<1> SUFFICES ASSUME Clean' PROVE (stream' # <<>> => FirstPacket' # 0) /\ Gone' \in 0 .. Len(sent') /\ Phase(Gone)'
  BY DEF Orderly
<1>1. Heard /\ UNCHANGED <<toCome, stream, sent, good>>
  BY DEF Hear, HearUnlocked, HearInside, HearPreamble, HearDelimiter, HearLength, HearBody, Heard, sendVars
<1>2. disturbed' = 0 /\ disturbed = 0
  <2>1. disturbed' = disturbed \/ disturbed' = disturbed + 1
    <3>1. ASSUME NEW h, Hears(h) PROVE disturbed' = disturbed \/ disturbed' = disturbed + 1
      BY <3>1 DEF Hears
    <3> QED BY <3>1 DEF Hear, HearUnlocked, HearInside, HearPreamble, HearDelimiter, HearLength, HearBody, rxHistory
  <2>2. disturbed \in Nat /\ disturbed' = 0
    BY DEF RateInv, RateTypes, Clean
  <2> QED BY <2>1, <2>2
<1>3. Clean
  BY <1>1, <1>2 DEF Clean
<1>4. (stream # <<>> => FirstPacket # 0) /\ Gone \in 0 .. Len(sent) /\ Phase(Gone)
  BY <1>3 DEF Orderly
<1>5. Gone' = Gone /\ FirstPacket' = FirstPacket
  BY <1>1 DEF Gone, FirstPacket
<1>6. PICK g \in 0 .. Len(sent) : g = Gone
  BY <1>4
<1>7. ASSUME g >= 1 PROVE g \in 1 .. Len(sent) /\ sent[g] \in Packets /\ g \in good /\ FitsIn(sent[g])
  <2>1. g \in 1 .. Len(sent)
    BY <1>7
  <2> QED BY <1>3, <1>4, <1>6, <2>1, LastGone
<1>8. HearsOn(g)
  <2>1. air \in Seq(AirItem)
    BY DEF RateInv, RateTypes
  <2> QED BY <1>1, <1>2, <1>3, <1>7, <2>1 DEF HearsOn
<1>9. Phase(g)
  BY <1>4, <1>6
<1>10. Phase(g)'
  BY <1>8, <1>9, UnlockedPhase, InsidePhase, PreamblePhase, DelimiterPhase, LengthPhase, BodyPhase DEF Hear
<1>11. Gone' = g /\ Gone' \in 0 .. Len(sent')
  BY <1>1, <1>5, <1>6
<1>12. Phase(Gone)'
  BY <1>10, <1>11 DEF Phase, Idle, Coming, Locking, Reading, Arrived
<1> QED BY <1>1, <1>4, <1>5, <1>11, <1>12

LEMMA NextOrderly == RateInv /\ Orderly /\ [RateNext]_vars => Orderly'
<1> SUFFICES ASSUME RateInv, Orderly, [RateNext]_vars PROVE Orderly'
  OBVIOUS
<1>1. RateInv'
  BY NextRateInv
<1>2. ASSUME NEW l \in Letters \cup {Other}, RenewOpens(l) PROVE Orderly'
  BY <1>2, FileOrderly DEF RenewOpens
<1>3. CASE RenewCloses
  BY <1>3, FileOrderly DEF RenewCloses
<1>4. ASSUME NEW l \in ReadsFrom(file), MakeFrame(l) PROVE Orderly'
  BY <1>4, FrameOrderly
<1>5. CASE MakeFrameEof
  BY <1>5, EofOrderly
<1>6. ASSUME NEW l \in ReadsFrom(file), NEW n \in 1 .. Len(stream), Work(l, n) PROVE Orderly'
  BY <1>6, WorkOrderly
<1>7. CASE Hear
  BY <1>1, <1>7, HearOrderly
<1>8. CASE UNCHANGED vars
  BY <1>8, FileOrderly DEF vars
<1> QED BY <1>2, <1>3, <1>4, <1>5, <1>6, <1>7, <1>8 DEF RateNext

LEMMA AllArriveFollows == RateInv /\ Orderly => AllArrive
<1> SUFFICES ASSUME RateInv, Orderly, disturbed = 0, sent # <<>>, stream = <<>>, air = <<>>,
                    \A p \in DOMAIN sent : p \in good /\ Fits(p)
             PROVE  received = [p \in DOMAIN sent |-> sent[p].payload]
  BY DEF AllArrive
<1>1. sent \in Seq(Packets) /\ air \in Seq(AirItem) /\ DOMAIN sent = 1 .. Len(sent) /\ Len(sent) \in Nat
  BY LenProperties DEF RateInv, RateTypes
<1>2. Clean
  BY <1>1, FitsIs DEF Clean
<1>3. Gone = Len(sent) /\ Phase(Len(sent))
  BY <1>2 DEF Orderly, Gone
<1> DEFINE g == Len(sent)
<1>4. g # 0
  BY <1>1, EmptySeq
<1>5. sent[g] \in Packets /\ g \in good /\ FitsIn(sent[g])
  <2>1. Gone \in 1 .. Len(sent)
    BY <1>1, <1>3, <1>4
  <2> QED BY <1>2, <1>3, <2>1, LastGone
<1> HIDE DEF g
<1>6. ~Coming(g) /\ ~Locking(g)
  <2>1. 1 \in 1 .. Whole(sent[g]) /\ \A m \in 2 .. HeaderSymbols : m \in 1 .. Whole(sent[g]) /\ m \in Nat
    BY <1>5, PacketType, HeaderSize
  <2>2. \A m \in Nat : m \in 1 .. Whole(sent[g]) => ~Rest(air, sent[g], g, m)
    BY <1>1, <1>5, RestIs
  <2> QED BY <2>1, <2>2 DEF Coming, Locking
<1>7. ~Reading(g)
  BY <1>5, InsideNow DEF Reading
<1>8. Arrived(g)
  BY <1>3, <1>6, <1>7 DEF Phase, Idle, g
<1> QED BY <1>1, <1>8 DEF Arrived, g

(* As long as each call of work() is one whole packet, spread by the letter of
   its delimiter, and the correlator takes no noise for a symbol, what the sink
   publishes is what was sent, packet by packet: for every number of packets
   and of changes of the rate between them.  A call of two packets is not
   covered: the header of the second is spread with the letter's table
   (chunks_to_symbols_impl.cc:192). *)
THEOREM AllArriveHolds == RateSpec => []AllArrive
<1>1. RateInit => RateInv /\ Orderly
  BY InitRateInv, InitOrderly
<1>2. RateInv /\ Orderly /\ [RateNext]_vars => RateInv' /\ Orderly'
  BY NextRateInv, NextOrderly
<1>3. RateInv /\ Orderly => AllArrive
  BY AllArriveFollows
<1> QED BY <1>1, <1>2, <1>3, PTL DEF RateSpec
=============================================================================
