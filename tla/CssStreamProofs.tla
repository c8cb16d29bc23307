-------------------------- MODULE CssStreamProofs --------------------------
(***************************************************************************)
(* Proofs about CssStream, for frames, messages, buffers and faults of any *)
(* size and number.                                                        *)
(***************************************************************************)
EXTENDS CssStream, SequenceTheorems, FiniteSetTheorems, NumberLemmas, WellFoundedInduction

(***************************************************************************)
(* The types that StreamTypeOK leaves out.  A bit of a message, a coded    *)
(* bit, a symbol behind the radio, an item of the stream.                  *)
(***************************************************************************)
AnyBit == Nat \X Nat
MsgBit == {b \in (1 .. Len(burst)) \X (Nat \ {0}) : b[2] <= LenOf(burst[b[1]]) + d_nzeros}

BlockBit == [block : {b \in Seq(MsgBit) : Len(b) = Blk}, j : 1 .. Blk]
Symbol   == {s \in [block : Seq(AnyBit), j : Nat, phase : 0 .. 3] : s.j # 0 => Len(s.block) = Blk}
Item     == [symbol : Symbol, place : [frame : Nat, at : Nat], sofs : Nat]

SenderTypes ==
    /\ burst \in Seq(Kinds) /\ taken \in 0 .. Len(burst)
    /\ padded \in Seq(MsgBit)
    /\ coded \in Seq(BlockBit) /\ Len(coded) <= Blk
    /\ emitted \in Nat /\ d_sym_ctr = emitted % d_nsym_frame

StreamTypes ==
    /\ heard \in Seq(Item) /\ Len(heard) <= Lag
    /\ tagged \in Seq(Item) /\ Len(tagged) <= Capacity
    /\ rx \in Seq(Symbol) /\ Len(rx) <= Capacity
    /\ d_buf \in Seq(AnyBit) /\ Len(d_buf) < Body
    /\ cut \in Seq(Nat) /\ failed \in BOOLEAN

RadioTypes ==
    /\ faults \in 0 .. MaxFaults
    /\ IsFiniteSet(damaged) /\ Cardinality(damaged) <= faults

Types == SenderTypes /\ StreamTypes /\ RadioTypes

-----------------------------------------------------------------------------
\* A set of numbers that is not empty has a least one.
LEMMA MinIs == ASSUME NEW T, T \subseteq Nat, T # {}
               PROVE  Min(T) \in T /\ \A y \in T : Min(T) <= y
<1> DEFINE R == OpToRel(<, Nat)
<1>1. IsWellFoundedOn(R, Nat)
  BY NatLessThanWellFounded, Zenon
<1>2. ASSUME NEW x \in T, NEW y \in T, y < x PROVE <<y, x>> \in R
  BY <1>2 DEF OpToRel
<1> HIDE DEF R
<1>3. PICK x \in T : \A y \in T : ~ (<<y, x>> \in R)
  BY <1>1, WFMin, Zenon
<1>4. \A y \in T : ~(y < x)
  BY <1>2, <1>3
<1>5. x \in Nat /\ \A y \in T : y \in Nat
  OBVIOUS
<1>6. \E z \in T : \A y \in T : z <= y
  BY <1>4, <1>5
<1> QED BY <1>6 DEF Min

LEMMA Sizes ==
    /\ d_len_preamble \in Nat /\ d_len_preamble >= 2 /\ Blk \in Nat /\ Blk >= 1
    /\ Hdr \in Nat /\ Hdr >= 3 /\ Body \in Nat /\ Body >= Blk
    /\ d_nsym_frame \in Nat /\ d_nsym_frame = Hdr + Body /\ d_nsym_frame >= 4
    /\ d_nzeros \in Nat /\ Capacity \in Nat /\ Lag \in Nat /\ MaxFaults \in Nat /\ Backlog \in Nat
<1>1. Body \in Nat /\ Body >= 1 /\ (Body % Blk) = 0 /\ Blk \in Nat \ {0}
  BY StreamAssumption DEF Body
<1>2. Body >= Blk
  <2>1. ASSUME Body < Blk PROVE FALSE
    <3>1. Body \in 0 .. Blk - 1
      BY <1>1, <2>1
    <3>2. (Body % Blk) = Body
      BY <1>1, <3>1, ModSmall
    <3> QED BY <1>1, <3>2
  <2> QED BY <1>1, <2>1
<1> QED BY <1>1, <1>2, StreamAssumption DEF d_nsym_frame, Hdr

\* A piece of a sequence.
LEMMA Piece ==
    ASSUME NEW S, NEW s \in Seq(S), NEW m \in Nat \ {0}, NEW n \in Nat, n <= Len(s), m <= n + 1
    PROVE  /\ SubSeq(s, m, n) \in Seq(S) /\ Len(SubSeq(s, m, n)) = n - m + 1
           /\ \A i \in 1 .. n - m + 1 : SubSeq(s, m, n)[i] = s[m + i - 1]
<1>1. \A i \in m .. n : s[i] \in S
  BY ElementOfSeq, LenProperties
<1>2. Len(s) \in Nat
  BY LenProperties
<1> QED BY <1>1, <1>2, SubSeqProperties

\* What is in front of frame_buffer_cc at first.
LEMMA IdleType ==
    ASSUME Init
    PROVE  /\ tagged \in Seq(Item) /\ Len(tagged) <= Capacity
           /\ \A i \in 1 .. Len(tagged) : tagged[i] = NoSymbol
<1>1. PICK n \in Idles : tagged = [i \in 1 .. n |-> NoSymbol]
  BY DEF Init
<1>2. n \in Nat /\ n <= Capacity
  BY StreamAssumption
<1>3. NoSymbol \in Item
  <2>1. [block |-> <<>>, j |-> 0, phase |-> 0] \in Symbol
    BY DEF Symbol
  <2> QED BY <2>1 DEF NoSymbol, Item
<1>4. tagged \in [1 .. n -> Item]
  BY <1>1, <1>3
<1>5. tagged \in Seq(Item) /\ Len(tagged) = n
  BY <1>2, <1>4, SeqDef
<1> QED BY <1>1, <1>2, <1>5

LEMMA TypesInit == Init => Types
<1> SUFFICES ASSUME Init PROVE Types
  OBVIOUS
<1>1. burst \in Seq(Kinds) /\ Len(burst) \in Nat
  BY StreamAssumption DEF Init
<1>2. (0 % d_nsym_frame) = 0
  BY Sizes, ModSmall
<1>3. SenderTypes
  BY <1>1, <1>2, Sizes DEF Init, SenderTypes
<1>4. StreamTypes
  <2>1. failed \in BOOLEAN
    BY DEF Init
  <2>2. tagged \in Seq(Item) /\ Len(tagged) <= Capacity
    BY IdleType
  <2> QED BY <2>1, <2>2, Sizes DEF Init, StreamTypes
<1>5. RadioTypes
  BY FS_EmptySet, Sizes DEF Init, RadioTypes
<1> QED BY <1>3, <1>4, <1>5 DEF Types

\* A tuple made bit by bit is a sequence of them.
LEMMA MessageType ==
    ASSUME Types, taken < Len(burst)
    PROVE  LET len == LenOf(burst[taken + 1]) + d_nzeros
           IN  /\ MessageBits(taken + 1, len) \in Seq(MsgBit)
               /\ Len(MessageBits(taken + 1, len)) = len /\ len \in Nat
               /\ burst[taken + 1] \in Kinds
<1> DEFINE len == LenOf(burst[taken + 1]) + d_nzeros
           b == MessageBits(taken + 1, len)
<1>1. burst[taken + 1] \in Kinds /\ taken + 1 \in 1 .. Len(burst)
  BY DEF Types, SenderTypes
<1>2. len \in Nat
  BY <1>1, StreamAssumption, Sizes
<1>3. \A i \in 1 .. len : <<taken + 1, i>> \in MsgBit
  <2> SUFFICES ASSUME NEW i \in 1 .. len PROVE <<taken + 1, i>> \in MsgBit
    OBVIOUS
  <2>1. <<taken + 1, i>> \in (1 .. Len(burst)) \X (Nat \ {0})
    BY <1>1, <1>2
  <2> QED BY <2>1, <1>2 DEF MsgBit
<1> HIDE DEF len
<1>4. b \in [1 .. len -> MsgBit]
  BY <1>3 DEF MessageBits
<1>5. b \in Seq(MsgBit) /\ Len(b) = len
  BY <1>2, <1>4, SeqDef
<1> QED BY <1>1, <1>2, <1>5 DEF len

\* From symbol to symbol the counter of the prefixer follows what was emitted.
LEMMA NextPlace ==
    ASSUME NEW k \in Nat
    PROVE  ((k % d_nsym_frame) + 1) % d_nsym_frame = (k + 1) % d_nsym_frame
<1> DEFINE N == d_nsym_frame
<1>1. N \in Nat \ {0}
  BY Sizes
<1> HIDE DEF N
<1>2. ((k % N) + 1) % N = (k + 1) % N
  BY <1>1, ModSucc
<1> QED BY <1>2 DEF N

LEMMA SenderTypesStep == ASSUME Types, [Next]_vars PROVE SenderTypes' /\ burst' = burst
<1>1. SenderTypes
  BY DEF Types
<1>2. burst' = burst
  BY DEF Next, PadZeros, Encode, Emit, Tag, Receive, BufferDrops, BufferReturns, BufferConsumes, Decode,
         vars, txVars
<1>3. MsgBit' = MsgBit /\ BlockBit' = BlockBit
  BY <1>2 DEF MsgBit, BlockBit
<1>4. CASE PadZeros
  <2> DEFINE new == MessageBits(taken + 1, LenOf(burst[taken + 1]) + d_nzeros)
  <2>1. /\ taken < Len(burst) /\ taken' = taken + 1 /\ padded' = padded \o new
        /\ UNCHANGED <<coded, d_sym_ctr, emitted>>
    BY <1>4 DEF PadZeros
  <2>2. new \in Seq(MsgBit)
    BY <2>1, MessageType
  <2> HIDE DEF new
  <2>3. padded' \in Seq(MsgBit)
    BY <1>1, <2>1, <2>2, ConcatProperties DEF SenderTypes
  <2>4. taken' \in 0 .. Len(burst)
    BY <1>1, <2>1, LenProperties DEF SenderTypes
  <2> QED BY <1>1, <1>2, <1>3, <2>1, <2>3, <2>4 DEF SenderTypes
<1>5. CASE Encode
  <2> DEFINE b == SubSeq(padded, 1, Blk)
  <2>1. /\ Len(padded) >= Blk /\ coded' = [j \in 1 .. Blk |-> [block |-> b, j |-> j]]
        /\ padded' = SubSeq(padded, Blk + 1, Len(padded))
        /\ UNCHANGED <<taken, d_sym_ctr, emitted>>
    BY <1>5 DEF Encode
  <2>2. padded \in Seq(MsgBit) /\ Len(padded) \in Nat
    BY <1>1, LenProperties DEF SenderTypes
  <2>3. b \in Seq(MsgBit) /\ Len(b) = Blk
    BY <2>1, <2>2, Piece, Sizes
  <2>4. padded' \in Seq(MsgBit)
    BY <2>1, <2>2, Piece, Sizes
  <2> HIDE DEF b
  <2>5. coded' \in [1 .. Blk -> BlockBit]
    BY <2>1, <2>3, Sizes DEF BlockBit
  <2>6. coded' \in Seq(BlockBit) /\ Len(coded') = Blk
    BY <2>5, SeqDef, Sizes
  <2> QED BY <1>1, <1>2, <1>3, <2>1, <2>4, <2>6, Sizes DEF SenderTypes
<1>6. CASE Emit
  <2>1. /\ coded # <<>> /\ coded' \in {coded, Tail(coded)} /\ emitted' = emitted + 1
        /\ d_sym_ctr' = (d_sym_ctr + 1) % d_nsym_frame /\ UNCHANGED <<taken, padded>>
    BY <1>6 DEF Emit, NextCtr
  <2>2. coded' \in Seq(BlockBit) /\ Len(coded') <= Blk
    BY <1>1, <2>1, HeadTailProperties, LenProperties, Sizes DEF SenderTypes
  <2>3. emitted' \in Nat /\ d_sym_ctr' = emitted' % d_nsym_frame
    BY <1>1, <2>1, NextPlace DEF SenderTypes
  <2> QED BY <1>1, <1>2, <1>3, <2>1, <2>2, <2>3 DEF SenderTypes
<1>7. CASE UNCHANGED txVars
  BY <1>1, <1>3, <1>7 DEF SenderTypes, txVars
<1> QED
  BY <1>2, <1>4, <1>5, <1>6, <1>7
  DEF Next, Tag, Receive, BufferDrops, BufferReturns, BufferConsumes, Decode, vars

LEMMA RadioTypesStep == ASSUME Types, [Next]_vars PROVE RadioTypes'
<1>1. RadioTypes
  BY DEF Types
<1>2. CASE UNCHANGED radio
  BY <1>1, <1>2 DEF RadioTypes, radio
<1>3. CASE Emit /\ ~UNCHANGED radio
  <2>1. /\ faults < MaxFaults /\ faults' = faults + 1
        /\ damaged' = damaged \cup {Place(emitted).frame}
    BY <1>3 DEF Emit
  <2>2. IsFiniteSet(damaged') /\ Cardinality(damaged') <= Cardinality(damaged) + 1
    <3> DEFINE e == Place(emitted).frame
    <3>1. IsFiniteSet(damaged) /\ Cardinality(damaged) \in Nat /\ damaged' = damaged \cup {e}
      BY <1>1, <2>1, FS_CardinalityType DEF RadioTypes
    <3> HIDE DEF e
    <3>2. IsFiniteSet(damaged \cup {e}) /\ Cardinality(damaged \cup {e}) <= Cardinality(damaged) + 1
      BY <3>1, FS_AddElement
    <3> QED BY <3>1, <3>2
  <2>3. Cardinality(damaged) \in Nat /\ Cardinality(damaged') \in Nat
    BY <1>1, <2>2, FS_CardinalityType DEF RadioTypes
  <2> QED BY <1>1, <2>1, <2>2, <2>3, Sizes DEF RadioTypes
<1> QED
  BY <1>2, <1>3
  DEF Next, PadZeros, Encode, Tag, Receive, BufferDrops, BufferReturns, BufferConsumes, Decode, vars

\* What the radio makes of a symbol.
LEMMA PlaceType == ASSUME NEW k \in Nat
                   PROVE  /\ Place(k) \in [frame : Nat, at : Nat]
                          /\ Place(k).frame = (k \div d_nsym_frame) + 1
                          /\ Place(k).at = (k % d_nsym_frame) + 1
                          /\ (k % d_nsym_frame) \in 0 .. d_nsym_frame - 1
                          /\ (k \div d_nsym_frame) \in Nat
                          /\ k = d_nsym_frame * (k \div d_nsym_frame) + (k % d_nsym_frame)
<1> DEFINE N == d_nsym_frame
<1>1. N \in Nat \ {0}
  BY Sizes
<1> HIDE DEF N
<1>2. (k % N) \in 0 .. N - 1 /\ (k \div N) \in Nat /\ k = N * (k \div N) + (k % N)
  BY <1>1
<1> QED BY <1>1, <1>2 DEF N, Place

\* What Emit puts on the stream.
LEMMA EmitAppends ==
    ASSUME Types, Emit
    PROVE  \/ UNCHANGED heard
           \/ \E e \in Item :
                /\ heard' = Append(heard, e) /\ e.sofs = 0
                /\ \/ /\ e.place = Place(emitted)
                      /\ d_sym_ctr >= Hdr => e.symbol = Coded(coded[1])
                   \/ e.place = [frame |-> 0, at |-> 0]
<1> DEFINE symbol == IF d_sym_ctr < Hdr THEN Shr(d_sym_ctr + 1) ELSE Coded(coded[1])
           sent == [symbol |-> symbol, place |-> Place(emitted), sofs |-> 0]
           other(turn) == [symbol |-> [block |-> <<>>, j |-> 0, phase |-> (symbol.phase + turn) % 4],
                           place |-> [frame |-> 0, at |-> 0], sofs |-> 0]
<1>1. SenderTypes /\ coded # <<>>
  BY DEF Types, Emit
<1>2. symbol \in Symbol
  <2>1. CASE d_sym_ctr < Hdr
    <3>1. Shr(d_sym_ctr + 1) \in Symbol
      BY DEF Shr, Symbol
    <3> QED BY <2>1, <3>1
  <2>2. CASE ~(d_sym_ctr < Hdr)
    <3> DEFINE s == coded[1]
               b == s.block[s.j]
    <3>1. s \in BlockBit
      BY <1>1, HeadTailProperties DEF SenderTypes
    <3>2. s.block \in Seq(MsgBit) /\ Len(s.block) = Blk /\ s.j \in 1 .. Blk
      BY <3>1 DEF BlockBit
    <3>3. b \in MsgBit
      BY <3>2, ElementOfSeq
    <3>4. /\ b[1] \in 1 .. Len(burst) /\ burst[b[1]] \in Kinds
          /\ b[2] \in 1 .. LenOf(burst[b[1]]) + d_nzeros
      <4>1. b[1] \in 1 .. Len(burst) /\ b[2] \in Nat \ {0} /\ b[2] <= LenOf(burst[b[1]]) + d_nzeros
        BY <3>3 DEF MsgBit
      <4>2. burst[b[1]] \in Kinds
        BY <1>1, <4>1, ElementOfSeq DEF SenderTypes
      <4>3. LenOf(burst[b[1]]) \in Nat
        BY <4>2, StreamAssumption
      <4> QED BY <4>1, <4>2, <4>3, Sizes
    <3>5. PhaseOf(burst[b[1]], b[2]) \in 0 .. 3
      BY <3>4, StreamAssumption
    <3>6. \A x \in MsgBit : x \in AnyBit
      <4> SUFFICES ASSUME NEW x \in MsgBit PROVE x \in AnyBit
        OBVIOUS
      <4>1. x \in (1 .. Len(burst)) \X (Nat \ {0})
        BY DEF MsgBit
      <4> QED BY <4>1 DEF AnyBit
    <3>7. s.block \in Seq(AnyBit)
      BY <3>2, <3>6, SeqMonotonic
    <3>8. Coded(s) = [block |-> s.block, j |-> s.j, phase |-> PhaseOf(burst[b[1]], b[2])]
      BY DEF Coded
    <3> HIDE DEF s, b
    <3>9. Coded(s) \in Symbol
      BY <3>2, <3>5, <3>7, <3>8 DEF Symbol
    <3> QED BY <2>2, <3>9 DEF s
  <2> QED BY <2>1, <2>2
<1>6. d_sym_ctr >= Hdr => symbol = Coded(coded[1])
  <2>1. d_sym_ctr \in Nat /\ Hdr \in Nat
    BY <1>1, PlaceType, Sizes DEF SenderTypes
  <2> QED BY <2>1
<1> HIDE DEF symbol
<1>3. /\ sent \in Item /\ sent.sofs = 0 /\ sent.place = Place(emitted)
      /\ d_sym_ctr >= Hdr => sent.symbol = Coded(coded[1])
  BY <1>1, <1>2, <1>6, PlaceType DEF SenderTypes, Item
<1>4. \A turn \in 1 .. 3 : other(turn) \in Item /\ other(turn).sofs = 0
                          /\ other(turn).place = [frame |-> 0, at |-> 0]
  <2> SUFFICES ASSUME NEW turn \in 1 .. 3 PROVE other(turn) \in Item
    OBVIOUS
  <2>1. symbol.phase \in 0 .. 3
    BY <1>2 DEF Symbol
  <2>2. ((symbol.phase + turn) % 4) \in 0 .. 3
    BY <2>1
  <2>3. [block |-> <<>>, j |-> 0, phase |-> (symbol.phase + turn) % 4] \in Symbol
    BY <2>2 DEF Symbol
  <2> QED BY <2>3 DEF Item
<1>5. \/ UNCHANGED heard
      \/ heard' = Append(heard, sent)
      \/ \E turn \in 1 .. 3 : heard' = Append(heard, other(turn))
  BY Zenon DEF Emit, symbol
<1> HIDE DEF sent, other
<1> QED BY <1>3, <1>4, <1>5

\* The same for what heard has then.
LEMMA EmitKeeps ==
    ASSUME Types, Emit
    PROVE  /\ heard \in Seq(Item) /\ heard' \in Seq(Item) /\ Len(heard) \in Nat /\ Len(heard') \in Nat
           /\ Len(heard') <= Len(heard) + 1 /\ Len(heard) <= Len(heard')
           /\ \A i \in 1 .. Len(heard) : heard'[i] = heard[i]
           /\ \A i \in 1 .. Len(heard') : i > Len(heard) =>
                 /\ i = Len(heard) + 1 /\ heard'[i].sofs = 0
                 /\ heard'[i].place = Place(emitted) \/ heard'[i].place = [frame |-> 0, at |-> 0]
<1>1. heard \in Seq(Item) /\ Len(heard) \in Nat
  BY LenProperties DEF Types, StreamTypes
<1>2. CASE UNCHANGED heard
  BY <1>1, <1>2
<1>3. CASE ~UNCHANGED heard
  <2>1. PICK e \in Item : /\ heard' = Append(heard, e) /\ e.sofs = 0
                          /\ e.place = Place(emitted) \/ e.place = [frame |-> 0, at |-> 0]
    BY <1>3, EmitAppends
  <2>2. /\ heard' \in Seq(Item) /\ Len(heard') = Len(heard) + 1
        /\ \A i \in 1 .. Len(heard) : heard'[i] = heard[i]
        /\ heard'[Len(heard) + 1] = e
    BY <1>1, <2>1, AppendProperties
  <2> QED BY <1>1, <2>1, <2>2
<1> QED BY <1>2, <1>3

\* Where the tags are that frame_buffer_cc has found.
LEMMA TagsInRange ==
    ASSUME Types, TwoTags
    PROVE  /\ First \in Nat /\ Second \in Nat /\ First <= Second
           /\ Second <= Len(tagged) - 1 /\ Len(tagged) \in Nat
           /\ tagged[First + 1].sofs > 0
           /\ TwoAtFirst \/ First < Second
<1>1. Len(tagged) \in Nat /\ Sofs \subseteq 0 .. Len(tagged) - 1
  BY LenProperties DEF Types, StreamTypes, Sofs
<1>2. Sofs # {}
  <2>1. CASE TwoAtFirst
    BY <2>1 DEF TwoAtFirst
  <2>2. CASE Cardinality(Sofs) >= 2
    BY <2>2, FS_EmptySet
  <2> QED BY <2>1, <2>2 DEF TwoTags
<1>3. First \in Sofs /\ \A y \in Sofs : First <= y
  <2>1. Sofs \subseteq Nat
    BY <1>1
  <2> QED BY <1>2, <2>1, MinIs, Zenon DEF First
<1>4. CASE TwoAtFirst
  <2>1. Second = First
    BY <1>4 DEF Second
  <2> QED BY <1>1, <1>3, <1>4, <2>1 DEF Sofs
<1>5. CASE ~TwoAtFirst
  <2>1. Cardinality(Sofs) >= 2
    BY <1>5 DEF TwoTags
  <2>2. Sofs \ {First} # {}
    <3>1. ASSUME Sofs \ {First} = {} PROVE FALSE
      <4>1. Sofs = {First}
        BY <1>3, <3>1
      <4>2. Cardinality({First}) = 1
        BY FS_Singleton
      <4> QED BY <2>1, <4>1, <4>2
    <3> QED BY <3>1
  <2>3. Second \in Sofs \ {First}
    <3>1. Sofs \ {First} \subseteq Nat
      <4>1. Sofs \subseteq Nat
        BY <1>1
      <4> QED BY <4>1, Zenon
    <3>2. Min(Sofs \ {First}) \in Sofs \ {First}
      BY <2>2, <3>1, MinIs, Zenon
    <3> QED BY <1>5, <3>2 DEF Second
  <2> QED BY <1>1, <1>3, <2>3 DEF Sofs
<1> QED BY <1>4, <1>5

\* With one tag, or none, no less is in range.
LEMMA OneTagInRange ==
    ASSUME Types, Sofs # {}
    PROVE  First \in Nat /\ First <= Len(tagged) - 1
<1>1. Len(tagged) \in Nat /\ Sofs \subseteq 0 .. Len(tagged) - 1
  BY LenProperties DEF Types, StreamTypes, Sofs
<1>2. Sofs \subseteq Nat
  BY <1>1
<1>3. First \in Sofs
  BY <1>2, MinIs, Zenon DEF First
<1> QED BY <1>1, <1>3

LEMMA ConsumeType ==
    ASSUME Types, NEW k \in Nat, k <= Len(tagged), Consume(k)
    PROVE  /\ tagged' \in Seq(Item) /\ Len(tagged') = Len(tagged) - k
           /\ \A i \in 1 .. Len(tagged) - k : tagged'[i] = tagged[k + i]
<1>1. tagged \in Seq(Item) /\ Len(tagged) \in Nat
  BY LenProperties DEF Types, StreamTypes
<1>2. tagged' = SubSeq(tagged, k + 1, Len(tagged))
  BY DEF Consume
<1>3. /\ SubSeq(tagged, k + 1, Len(tagged)) \in Seq(Item)
      /\ Len(SubSeq(tagged, k + 1, Len(tagged))) = Len(tagged) - (k + 1) + 1
      /\ \A i \in 1 .. Len(tagged) - (k + 1) + 1 :
            SubSeq(tagged, k + 1, Len(tagged))[i] = tagged[(k + 1) + i - 1]
  BY <1>1, Piece
<1> QED BY <1>1, <1>2, <1>3

\* What frame_buffer_cc consumes.
LEMMA ReceiveConsumes ==
    ASSUME Types, Receive
    PROVE  \/ /\ BufferReturns /\ Consume(BehindFrame)
              /\ BehindFrame \in Nat /\ First \in Nat /\ First + d_nsym_frame <= Len(tagged)
           \/ /\ UNCHANGED <<rx, cut>>
              /\ \E k \in Nat : k <= Len(tagged) /\ Consume(k)
           \/ UNCHANGED <<rx, cut, tagged>> /\ BufferDrops /\ TwoAtFirst
<1>1. Len(tagged) \in Nat
  BY LenProperties DEF Types, StreamTypes
<1>2. CASE BufferReturns
  <2>1. TwoTags /\ Second - First >= d_nsym_frame /\ Consume(BehindFrame)
    BY <1>2 DEF BufferReturns
  <2> QED BY <1>1, <1>2, <2>1, TagsInRange, Sizes DEF BehindFrame
<1>3. CASE BufferDrops
  <2>1. TwoTags /\ UNCHANGED <<rx, cut>>
    BY <1>3 DEF BufferDrops, rxVars
  <2>2. IF TwoAtFirst THEN UNCHANGED tagged ELSE Consume(Second)
    BY <1>3 DEF BufferDrops
  <2>3. Second \in Nat /\ Second <= Len(tagged)
    BY <1>1, <2>1, TagsInRange
  <2> QED BY <1>3, <2>1, <2>2, <2>3
<1>4. CASE BufferConsumes
  <2>1. UNCHANGED <<rx, cut>> /\ Consume(IF Sofs = {} THEN Len(tagged) ELSE First)
    BY <1>4 DEF BufferConsumes, rxVars
  <2>2. CASE Sofs = {}
    BY <1>1, <2>1, <2>2
  <2>3. CASE Sofs # {}
    <3>1. First \in Nat /\ First <= Len(tagged)
      BY <1>1, <2>3, OneTagInRange
    <3> QED BY <2>1, <2>3, <3>1
  <2> QED BY <2>2, <2>3
<1> QED BY <1>2, <1>3, <1>4 DEF Receive

\* What Tag passes on and keeps: the symbols with their places, and tags on
\* none but those it passes on.
LEMMA TagPasses ==
    ASSUME Types, Tag
    PROVE  /\ heard' \in Seq(Item) /\ tagged' \in Seq(Item)
           /\ Hop <= Len(heard) /\ Hop \in Nat
           /\ Len(heard') = Len(heard) - Hop /\ Len(tagged') = Len(tagged) + Hop
           /\ Len(tagged') <= Capacity
           /\ \A i \in 1 .. Len(tagged) : tagged'[i] = tagged[i]
           /\ \A i \in 1 .. Hop : /\ tagged'[Len(tagged) + i].place = heard[i].place
                                 /\ tagged'[Len(tagged) + i].symbol = heard[i].symbol
                                 /\ tagged'[Len(tagged) + i].sofs <= heard[i].sofs + 1
           /\ \A i \in 1 .. Len(heard) - Hop : heard'[i] = heard[Hop + i]
<1>1. /\ heard \in Seq(Item) /\ tagged \in Seq(Item) /\ Len(heard) \in Nat /\ Len(tagged) \in Nat
      /\ Hop \in Nat /\ Hop >= 2 /\ Len(heard) >= 2 * Hop /\ Len(tagged) + 2 * Hop <= Capacity
  BY LenProperties, Sizes DEF Types, StreamTypes, Tag, Hop
<1> DEFINE phase == [i \in 0 .. 2 * d_len_preamble - 1 |-> heard[i + 1].symbol.phase]
           marked(half) ==
             [i \in 1 .. Len(heard) |->
                IF i - 1 \in SofIn(phase, half) THEN [heard[i] EXCEPT !.sofs = @ + 1] ELSE heard[i]]
<1>2. PICK half \in [1 .. 2 * d_len_preamble - 2 -> BOOLEAN] :
         /\ tagged' = tagged \o SubSeq(marked(half), 1, Hop)
         /\ heard' = SubSeq(marked(half), Hop + 1, Len(heard))
  BY Zenon DEF Tag
<1> DEFINE m == marked(half)
<1>3. /\ m \in Seq(Item) /\ Len(m) = Len(heard)
      /\ \A i \in 1 .. Len(heard) : /\ m[i].place = heard[i].place /\ m[i].symbol = heard[i].symbol
                                    /\ m[i].sofs <= heard[i].sofs + 1
      /\ \A i \in Hop + 1 .. Len(heard) : m[i] = heard[i]
  <2>1. \A i \in 1 .. Len(heard) : \/ m[i] = heard[i]
                                   \/ m[i] = [heard[i] EXCEPT !.sofs = @ + 1] /\ i - 1 \in SofIn(phase, half)
    BY DEF m
  <2>2. SofIn(phase, half) \subseteq Int /\ \A x \in SofIn(phase, half) : x <= d_len_preamble - 1
    <3> HIDE DEF phase
    <3>1. ASSUME NEW x \in SofIn(phase, half)
          PROVE  \E i \in 1 .. 2 * d_len_preamble - 2 : x = i - (d_len_preamble - 1)
      BY Zenon DEF SofIn, LookedAt
    <3>2. ASSUME NEW i \in 1 .. 2 * d_len_preamble - 2
          PROVE  i - (d_len_preamble - 1) \in Int /\ i - (d_len_preamble - 1) <= d_len_preamble - 1
      BY Sizes
    <3> QED BY <3>1, <3>2
  <2>3. m \in [1 .. Len(heard) -> Item]
    <3>1. \A i \in 1 .. Len(heard) : heard[i] \in Item
      BY <1>1, ElementOfSeq
    <3>2. \A x \in Item : [x EXCEPT !.sofs = @ + 1] \in Item
      BY DEF Item
    <3> HIDE DEF phase
    <3> QED BY <3>1, <3>2
  <2> HIDE DEF m
  <2>4. m \in Seq(Item) /\ Len(m) = Len(heard)
    BY <1>1, <2>3, SeqDef
  <2>5. \A i \in 1 .. Len(heard) : heard[i] \in Item /\ heard[i].sofs \in Nat
    <3>1. \A i \in 1 .. Len(heard) : heard[i] \in Item
      BY <1>1, ElementOfSeq
    <3>2. \A x \in Item : x.sofs \in Nat
      BY DEF Item
    <3> QED BY <3>1, <3>2
  <2>6. ASSUME NEW i \in 1 .. Len(heard)
        PROVE  m[i].place = heard[i].place /\ m[i].symbol = heard[i].symbol /\ m[i].sofs <= heard[i].sofs + 1
    <3>1. heard[i] \in Item /\ heard[i].sofs \in Nat
      BY <2>5
    <3>2. /\ [heard[i] EXCEPT !.sofs = @ + 1].place = heard[i].place
          /\ [heard[i] EXCEPT !.sofs = @ + 1].symbol = heard[i].symbol
          /\ [heard[i] EXCEPT !.sofs = @ + 1].sofs = heard[i].sofs + 1
      BY <3>1 DEF Item
    <3>3. m[i] = heard[i] \/ m[i] = [heard[i] EXCEPT !.sofs = @ + 1]
      BY <2>1
    <3>4. m[i].place = heard[i].place /\ m[i].symbol = heard[i].symbol /\ (m[i].sofs = heard[i].sofs \/ m[i].sofs = heard[i].sofs + 1)
      BY <3>2, <3>3
    <3> QED BY <3>1, <3>4
  <2>7. ASSUME NEW i \in Hop + 1 .. Len(heard) PROVE m[i] = heard[i]
    <3>1. i \in 1 .. Len(heard) /\ i - 1 > d_len_preamble - 1
      BY <1>1, Sizes DEF Hop
    <3>2. i - 1 \notin SofIn(phase, half)
      <4> HIDE DEF phase
      <4>1. i - 1 \in Int /\ d_len_preamble - 1 \in Int
        BY <3>1, Sizes
      <4> QED BY <2>2, <3>1, <4>1
    <3> HIDE DEF phase
    <3> QED BY <2>1, <3>1, <3>2
  <2> QED BY <2>4, <2>6, <2>7
<1> HIDE DEF m
<1>4. tagged' = tagged \o SubSeq(m, 1, Hop) /\ heard' = SubSeq(m, Hop + 1, Len(heard))
  BY <1>2 DEF m
<1>5. /\ SubSeq(m, 1, Hop) \in Seq(Item) /\ Len(SubSeq(m, 1, Hop)) = Hop
      /\ \A i \in 1 .. Hop : SubSeq(m, 1, Hop)[i] = m[i]
  BY <1>1, <1>3, Piece
<1>6. /\ heard' \in Seq(Item) /\ Len(heard') = Len(heard) - Hop
      /\ \A i \in 1 .. Len(heard) - Hop : heard'[i] = m[Hop + i]
  <2>0. Hop \in Nat /\ Len(heard) \in Nat /\ Hop <= Len(heard) /\ Len(m) = Len(heard)
    BY <1>1, <1>3
  <2>1. /\ Hop + 1 \in Nat \ {0} /\ Len(heard) <= Len(m) /\ Hop + 1 <= Len(heard) + 1
        /\ Len(heard) - (Hop + 1) + 1 = Len(heard) - Hop
        /\ \A i \in 1 .. Len(heard) - Hop : (Hop + 1) + i - 1 = Hop + i
    BY <2>0
  <2> QED BY <1>1, <1>3, <1>4, <2>1, Piece
<1>7. /\ tagged' \in Seq(Item) /\ Len(tagged') = Len(tagged) + Hop
      /\ \A i \in 1 .. Len(tagged) : tagged'[i] = tagged[i]
      /\ \A i \in 1 .. Hop : tagged'[Len(tagged) + i] = m[i]
  <2> DEFINE t == SubSeq(m, 1, Hop)
  <2>1. t \in Seq(Item) /\ Len(t) = Hop /\ (\A i \in 1 .. Hop : t[i] = m[i]) /\ tagged' = tagged \o t
    BY <1>4, <1>5
  <2> HIDE DEF t
  <2>2. /\ tagged \o t \in Seq(Item) /\ Len(tagged \o t) = Len(tagged) + Hop
        /\ \A i \in 1 .. Len(tagged) + Hop :
              (tagged \o t)[i] = IF i <= Len(tagged) THEN tagged[i] ELSE t[i - Len(tagged)]
    BY <1>1, <2>1, ConcatProperties
  <2> QED BY <1>1, <2>1, <2>2
<1>8. \A i \in 1 .. Len(heard) - Hop : Hop + i \in Hop + 1 .. Len(heard)
  BY <1>1
<1>9. \A i \in 1 .. Hop : i \in 1 .. Len(heard)
  BY <1>1
<1>10. Hop <= Len(heard) /\ Len(tagged') <= Capacity
  BY <1>1, <1>7, Sizes
<1> QED BY <1>1, <1>3, <1>6, <1>7, <1>8, <1>9, <1>10

\* Whatever a block of symbols is, it gives a block of bits.
LEMMA BitsType ==
    ASSUME NEW b \in Seq(Symbol), Len(b) = Blk
    PROVE  Bits(b) \in Seq(AnyBit) /\ Len(Bits(b)) = Blk
<1>1. CASE \A j \in 1 .. Blk : b[j].block = b[1].block /\ b[j].j = j
  <2>1. b[1] \in Symbol /\ 1 \in 1 .. Blk
    BY ElementOfSeq, Sizes
  <2>2. b[1].j # 0
    BY <1>1, <2>1
  <2>3. b[1].block \in Seq(AnyBit) /\ Len(b[1].block) = Blk
    BY <2>1, <2>2 DEF Symbol
  <2> QED BY <1>1, <2>3 DEF Bits
<1>2. CASE ~ \A j \in 1 .. Blk : b[j].block = b[1].block /\ b[j].j = j
  <2>1. [j \in 1 .. Blk |-> Garbage] \in [1 .. Blk -> AnyBit]
    BY DEF Garbage, AnyBit
  <2>2. [j \in 1 .. Blk |-> Garbage] \in Seq(AnyBit) /\ Len([j \in 1 .. Blk |-> Garbage]) = Blk
    BY <2>1, SeqDef, Sizes
  <2> QED BY <1>2, <2>2 DEF Bits
<1> QED BY <1>1, <1>2

\* What the decoder and zeropadding_removal_b make of a block.
LEMMA DecodeTypes ==
    ASSUME Types, Decode
    PROVE  /\ rx' \in Seq(Symbol) /\ Len(rx') <= Capacity
           /\ d_buf' \in Seq(AnyBit) /\ Len(d_buf') < Body
<1>1. /\ rx \in Seq(Symbol) /\ Len(rx) \in Nat /\ Len(rx) >= Blk /\ Len(rx) <= Capacity
      /\ d_buf \in Seq(AnyBit) /\ Len(d_buf) \in Nat /\ Len(d_buf) < Body
      /\ rx' = SubSeq(rx, Blk + 1, Len(rx))
  BY LenProperties DEF Types, StreamTypes, Decode
<1> DEFINE b == SubSeq(rx, 1, Blk)
           in == d_buf \o Bits(b)
<1>2. rx' \in Seq(Symbol) /\ Len(rx') <= Len(rx)
  <2>1. Blk + 1 \in Nat \ {0} /\ Blk + 1 <= Len(rx) + 1
    BY <1>1, Sizes
  <2>2. SubSeq(rx, Blk + 1, Len(rx)) \in Seq(Symbol) /\ Len(SubSeq(rx, Blk + 1, Len(rx))) = Len(rx) - (Blk + 1) + 1
    BY <1>1, <2>1, Piece
  <2> QED BY <1>1, <2>2, Sizes
<1>3. b \in Seq(Symbol) /\ Len(b) = Blk
  BY <1>1, Sizes, Piece
<1> HIDE DEF b
<1>4. Bits(b) \in Seq(AnyBit) /\ Len(Bits(b)) = Blk
  BY <1>3, BitsType
<1>5. in \in Seq(AnyBit) /\ Len(in) = Len(d_buf) + Blk
  BY <1>1, <1>4, ConcatProperties
<1> HIDE DEF in
<1>6. CASE Len(in) >= Body
  <2>1. d_buf' = SubSeq(in, Body + 1, Len(in))
    <3>1. d_buf' = Rest(in)
      BY <1>6 DEF Decode, in, b
    <3> QED BY <3>1 DEF Rest
  <2>2. Body + 1 \in Nat \ {0} /\ Body + 1 <= Len(in) + 1 /\ Len(in) \in Nat
    BY <1>1, <1>5, <1>6, Sizes
  <2>3. d_buf' \in Seq(AnyBit) /\ Len(d_buf') = Len(in) - (Body + 1) + 1
    BY <1>5, <2>1, <2>2, Piece
  <2> QED BY <1>1, <1>2, <1>5, <2>3, Sizes
<1>7. CASE ~(Len(in) >= Body)
  <2>1. d_buf' = in
    BY <1>7 DEF Decode, in, b
  <2>2. Len(in) < Body
    BY <1>1, <1>5, <1>7, Sizes
  <2>3. Len(rx') <= Capacity
    BY <1>1, <1>2, LenProperties, Sizes
  <2> QED BY <1>2, <1>5, <2>1, <2>2, <2>3
<1> QED BY <1>6, <1>7

\* What frame_buffer_cc returns.
LEMMA ReturnTypes ==
    ASSUME Types, BufferReturns
    PROVE  /\ rx' \in Seq(Symbol) /\ Len(rx') <= Capacity
           /\ cut' \in Seq(Nat)
           /\ \E piece \in Seq(Item) :
                /\ Len(piece) = d_nsym_frame
                /\ \A i \in 1 .. d_nsym_frame : piece[i] = tagged[First + i]
                /\ cut' = Append(cut, FrameIs(piece))
                /\ Len(rx') = Len(rx) + Body
                /\ \A i \in 1 .. Len(rx) : rx'[i] = rx[i]
                /\ \A i \in 1 .. Body : rx'[Len(rx) + i] = piece[Hdr + i].symbol
<1> DEFINE piece == SubSeq(tagged, First + 1, First + d_nsym_frame)
           body == [i \in 1 .. Body |-> piece[Hdr + i].symbol]
<1>1. /\ rx \in Seq(Symbol) /\ Len(rx) \in Nat /\ Len(rx) + Body <= Capacity
      /\ tagged \in Seq(Item) /\ Len(tagged) \in Nat /\ cut \in Seq(Nat)
  BY LenProperties DEF Types, StreamTypes, BufferReturns, Ready
<1>2. First \in Nat /\ First + d_nsym_frame <= Len(tagged)
  BY <1>1, TagsInRange, Sizes DEF BufferReturns
<1>3. /\ piece \in Seq(Item) /\ Len(piece) = d_nsym_frame
      /\ \A i \in 1 .. d_nsym_frame : piece[i] = tagged[First + i]
  <2> DEFINE a == First + 1
             b == First + d_nsym_frame
  <2>1. a \in Nat \ {0} /\ b \in Nat /\ b <= Len(tagged) /\ a <= b + 1 /\ b - a + 1 = d_nsym_frame
    BY <1>1, <1>2, Sizes
  <2>2. \A i \in 1 .. d_nsym_frame : a + i - 1 = First + i
    BY <1>2, Sizes
  <2> HIDE DEF a, b
  <2>3. /\ SubSeq(tagged, a, b) \in Seq(Item) /\ Len(SubSeq(tagged, a, b)) = b - a + 1
        /\ \A i \in 1 .. b - a + 1 : SubSeq(tagged, a, b)[i] = tagged[a + i - 1]
    BY <1>1, <2>1, Piece
  <2> QED BY <2>1, <2>2, <2>3 DEF a, b
<1>4. rx' = rx \o body /\ cut' = Append(cut, FrameIs(piece))
  BY Zenon DEF BufferReturns
<1> HIDE DEF piece
<1>5. \A i \in 1 .. d_nsym_frame : piece[i] \in Item
  BY <1>3, ElementOfSeq
<1>6. body \in Seq(Symbol) /\ Len(body) = Body
  <2>1. \A i \in 1 .. Body : Hdr + i \in 1 .. d_nsym_frame
    BY Sizes
  <2>2. \A x \in Item : x.symbol \in Symbol
    BY DEF Item
  <2>3. body \in [1 .. Body -> Symbol]
    BY <1>5, <2>1, <2>2
  <2> QED BY <2>3, SeqDef, Sizes
<1>10. \A i \in 1 .. Body : body[i] = piece[Hdr + i].symbol
  OBVIOUS
<1> HIDE DEF body
<1>7. rx' \in Seq(Symbol) /\ Len(rx') = Len(rx) + Body
  BY <1>1, <1>4, <1>6, ConcatProperties
<1>11. /\ \A i \in 1 .. Len(rx) : rx'[i] = rx[i]
       /\ \A i \in 1 .. Body : rx'[Len(rx) + i] = piece[Hdr + i].symbol
  <2>1. \A i \in 1 .. Len(rx) + Body : (rx \o body)[i] = IF i <= Len(rx) THEN rx[i] ELSE body[i - Len(rx)]
    BY <1>1, <1>6, ConcatProperties
  <2>2. rx' = rx \o body /\ Len(rx) \in Nat /\ Body \in Nat
    BY <1>1, <1>4, Sizes
  <2>3. ASSUME NEW i \in 1 .. Body PROVE rx'[Len(rx) + i] = body[i]
    <3>1. Len(rx) + i \in 1 .. Len(rx) + Body /\ ~(Len(rx) + i <= Len(rx)) /\ (Len(rx) + i) - Len(rx) = i
      BY <2>2
    <3>2. (rx \o body)[Len(rx) + i] = body[(Len(rx) + i) - Len(rx)]
      BY <2>1, <3>1
    <3> QED BY <2>2, <3>1, <3>2
  <2>4. \A i \in 1 .. Len(rx) : rx'[i] = rx[i]
    BY <2>1, <2>2
  <2> QED BY <1>10, <2>3, <2>4
<1>8. FrameIs(piece) \in Nat
  <2>1. piece[1] \in Item
    BY <1>5, Sizes
  <2> QED BY <2>1 DEF FrameIs, Item
<1>9. cut' \in Seq(Nat)
  BY <1>1, <1>4, <1>8, AppendProperties
<1> QED BY <1>1, <1>3, <1>4, <1>7, <1>9, <1>11

LEMMA StreamTypesStep == ASSUME Types, [Next]_vars PROVE StreamTypes'
<1>1. StreamTypes
  BY DEF Types
<1>2. CASE Emit
  <2>1. Len(heard) < Lag /\ UNCHANGED <<tagged, rx, d_buf, cut, failed>>
    BY <1>2 DEF Emit, rxVars
  <2>2. heard' \in Seq(Item) /\ Len(heard') <= Len(heard) + 1 /\ Len(heard) \in Nat /\ Len(heard') \in Nat
    BY <1>2, EmitKeeps
  <2>3. Len(heard') <= Lag
    BY <2>1, <2>2, Sizes
  <2> QED BY <1>1, <2>1, <2>2, <2>3 DEF StreamTypes
<1>3. CASE Tag
  <2>1. UNCHANGED <<rx, d_buf, cut, failed>>
    BY <1>3 DEF Tag, rxVars
  <2>2. heard' \in Seq(Item) /\ tagged' \in Seq(Item) /\ Len(tagged') <= Capacity /\ Len(heard') <= Len(heard)
    BY <1>1, <1>3, TagPasses, LenProperties DEF StreamTypes
  <2>3. Len(heard') <= Lag
    BY <1>1, <2>2, LenProperties, Sizes DEF StreamTypes
  <2> QED BY <1>1, <2>1, <2>2, <2>3 DEF StreamTypes
<1>4. CASE Receive
  <2>1. UNCHANGED <<heard, d_buf>>
    BY <1>4 DEF Receive, BufferDrops, BufferReturns, BufferConsumes, rxVars
  <2>2. failed' \in BOOLEAN
    <3>1. failed' = TwoAtFirst \/ failed' = failed
      BY <1>4, Zenon DEF Receive, BufferDrops, BufferReturns, BufferConsumes
    <3>2. TwoAtFirst \in BOOLEAN
      BY Zenon DEF TwoAtFirst
    <3> QED BY <1>1, <3>1, <3>2, Zenon DEF StreamTypes
  <2>3. tagged' \in Seq(Item) /\ Len(tagged') <= Capacity
    <3>1. (\E k \in Nat : k <= Len(tagged) /\ Consume(k)) \/ UNCHANGED tagged
      BY <1>4, ReceiveConsumes, Sizes DEF BehindFrame
    <3>2. ASSUME NEW k \in Nat, k <= Len(tagged), Consume(k)
          PROVE  tagged' \in Seq(Item) /\ Len(tagged') <= Len(tagged)
      BY <1>1, <3>2, ConsumeType, LenProperties DEF StreamTypes
    <3> QED BY <1>1, <3>1, <3>2, LenProperties, Sizes DEF StreamTypes
  <2>4. rx' \in Seq(Symbol) /\ Len(rx') <= Capacity /\ cut' \in Seq(Nat)
    BY <1>1, <1>4, ReceiveConsumes, ReturnTypes DEF StreamTypes
  <2> QED BY <1>1, <2>1, <2>2, <2>3, <2>4 DEF StreamTypes
<1>5. CASE Decode
  <2>1. UNCHANGED <<heard, tagged, cut, failed>>
    BY <1>5 DEF Decode
  <2> QED BY <1>1, <1>5, <2>1, DecodeTypes DEF StreamTypes
<1>6. CASE UNCHANGED <<heard, tagged, rxVars, cut, failed>>
  BY <1>1, <1>6 DEF StreamTypes, rxVars
<1> QED BY <1>2, <1>3, <1>4, <1>5, <1>6 DEF Next, PadZeros, Encode, vars

LEMMA TypesHold == Spec => []Types
<1>1. Types /\ [Next]_vars => Types'
  BY SenderTypesStep, StreamTypesStep, RadioTypesStep DEF Types
<1> QED BY <1>1, TypesInit, PTL DEF Spec

-----------------------------------------------------------------------------
(***************************************************************************)
(* What StreamTypeOK says of zeropadding_b: its buffer never holds more    *)
(* than the message that came last and what was left before it.            *)
(***************************************************************************)
PaddedOK ==
    /\ burst \in Bursts
    /\ padded \in Seq((1 .. taken) \X Nat)
    /\ padded # <<>> => \E k \in Kinds : Len(padded) <= Backlog + LenOf(k) + d_nzeros

LEMMA PaddedStep == ASSUME Types, PaddedOK, [Next]_vars PROVE PaddedOK'
<1> DEFINE Bit(t) == (1 .. t) \X Nat
<1>1. /\ burst \in Bursts /\ padded \in Seq(Bit(taken)) /\ Len(padded) \in Nat /\ taken \in Nat
      /\ burst' = burst
  BY SenderTypesStep, LenProperties DEF PaddedOK, Types, SenderTypes
<1>2. CASE PadZeros
  <2> DEFINE len == LenOf(burst[taken + 1]) + d_nzeros
             new == MessageBits(taken + 1, len)
  <2>1. /\ taken < Len(burst) /\ taken' = taken + 1 /\ padded' = padded \o new /\ Len(padded) <= Backlog
    BY <1>2 DEF PadZeros
  <2>2. Len(new) = len /\ len \in Nat /\ burst[taken + 1] \in Kinds
    BY <2>1, MessageType
  <2>3. new \in Seq(Bit(taken + 1))
    <3> HIDE DEF len
    <3>1. new \in [1 .. len -> Bit(taken + 1)]
      BY <1>1, <2>2 DEF MessageBits
    <3> QED BY <2>2, <3>1, SeqDef
  <2>4. padded \in Seq(Bit(taken + 1))
    <3>1. \A x \in Bit(taken) : x \in Bit(taken + 1)
      BY <1>1
    <3> HIDE DEF Bit
    <3> QED BY <1>1, <3>1, SeqMonotonic
  <2> HIDE DEF new, Bit
  <2>5. padded' \in Seq(Bit(taken + 1)) /\ Len(padded') = Len(padded) + Len(new)
    BY <2>1, <2>3, <2>4, ConcatProperties
  <2>6. padded' \in Seq(Bit(taken'))
    BY <2>1, <2>5
  <2>7. Len(padded') <= Backlog + LenOf(burst[taken + 1]) + d_nzeros
    <3>1. LenOf(burst[taken + 1]) \in Nat
      BY <2>2, StreamAssumption
    <3> QED BY <1>1, <2>1, <2>2, <2>5, <3>1, Sizes
  <2> QED BY <1>1, <2>2, <2>6, <2>7 DEF PaddedOK, Bit
<1>3. CASE Encode
  <2>1. /\ Len(padded) >= Blk /\ padded' = SubSeq(padded, Blk + 1, Len(padded)) /\ taken' = taken
    BY <1>3 DEF Encode
  <2> HIDE DEF Bit
  <2>2. padded' \in Seq(Bit(taken)) /\ Len(padded') = Len(padded) - (Blk + 1) + 1
    BY <1>1, <2>1, Piece, Sizes
  <2>3. Len(padded') \in Nat /\ Len(padded') <= Len(padded) /\ padded # <<>>
    BY <1>1, <2>1, <2>2, LenProperties, Sizes
  <2>4. PICK k \in Kinds : Len(padded) <= Backlog + LenOf(k) + d_nzeros
    BY <2>3 DEF PaddedOK
  <2>5. Len(padded') <= Backlog + LenOf(k) + d_nzeros
    BY <1>1, <2>3, <2>4, StreamAssumption, Sizes
  <2> QED BY <1>1, <2>1, <2>2, <2>5 DEF PaddedOK, Bit
<1>4. CASE UNCHANGED <<burst, taken, padded>>
  BY <1>4 DEF PaddedOK
<1> QED
  BY <1>2, <1>3, <1>4
  DEF Next, Emit, Tag, Receive, BufferDrops, BufferReturns, BufferConsumes, Decode, vars, txVars

(* No buffer of the stream blocks grows beyond its bound, whatever the lengths of
   the messages, and the prefixer's counter follows what was emitted. *)
THEOREM StreamTypeCorrect == Spec => []StreamTypeOK
<1>1. Init => PaddedOK
  <2> SUFFICES ASSUME Init PROVE PaddedOK
    OBVIOUS
  <2>1. burst \in Bursts /\ padded = <<>>
    BY DEF Init
  <2> QED BY <2>1 DEF PaddedOK
<1>2. Types /\ PaddedOK /\ [Next]_vars => PaddedOK'
  BY PaddedStep
<1>3. Types /\ PaddedOK => StreamTypeOK
  <2> SUFFICES ASSUME Types, PaddedOK PROVE StreamTypeOK
    OBVIOUS
  <2>1. failed \in BOOLEAN
    BY DEF Types, StreamTypes
  <2> QED BY <2>1 DEF Types, SenderTypes, StreamTypes, RadioTypes, PaddedOK, StreamTypeOK
<1> QED BY <1>1, <1>2, <1>3, TypesHold, PTL DEF Spec

-----------------------------------------------------------------------------
(***************************************************************************)
(* No symbol is marked twice.  A call of the tagger marks only symbols     *)
(* that it passes on, so what it keeps for its next window has no tag.     *)
(***************************************************************************)
OneTagEach ==
    /\ \A i \in 1 .. Len(heard) : heard[i].sofs = 0
    /\ \A i \in 1 .. Len(tagged) : tagged[i].sofs <= 1
    /\ failed = FALSE

LEMMA OneTagStep == ASSUME Types, OneTagEach, [Next]_vars PROVE OneTagEach'
<1>1. Len(heard) \in Nat /\ Len(tagged) \in Nat
  BY LenProperties DEF Types, StreamTypes
<1>2. CASE Emit
  <2>1. UNCHANGED <<tagged, failed>>
    BY <1>2 DEF Emit
  <2>2. \A i \in 1 .. Len(heard') : heard'[i].sofs = 0
    <3> SUFFICES ASSUME NEW i \in 1 .. Len(heard') PROVE heard'[i].sofs = 0
      OBVIOUS
    <3>1. CASE i > Len(heard)
      BY <1>2, <3>1, EmitKeeps
    <3>2. CASE ~(i > Len(heard))
      <4>1. i \in 1 .. Len(heard)
        BY <1>1, <3>2
      <4>2. heard'[i] = heard[i]
        BY <1>2, <4>1, EmitKeeps
      <4> QED BY <4>1, <4>2 DEF OneTagEach
    <3> QED BY <3>1, <3>2
  <2> QED BY <2>1, <2>2 DEF OneTagEach
<1>3. CASE Tag
  <2>1. UNCHANGED failed
    BY <1>3 DEF Tag
  <2>2. /\ Hop <= Len(heard) /\ Hop \in Nat
        /\ Len(heard') = Len(heard) - Hop /\ Len(tagged') = Len(tagged) + Hop
        /\ \A i \in 1 .. Len(tagged) : tagged'[i] = tagged[i]
        /\ \A i \in 1 .. Hop : tagged'[Len(tagged) + i].sofs <= heard[i].sofs + 1
        /\ \A i \in 1 .. Len(heard) - Hop : heard'[i] = heard[Hop + i]
    BY <1>3, TagPasses
  <2>3. \A i \in 1 .. Len(heard') : heard'[i].sofs = 0
    BY <1>1, <2>2 DEF OneTagEach
  <2>4. \A i \in 1 .. Len(tagged') : tagged'[i].sofs <= 1
    <3> SUFFICES ASSUME NEW i \in 1 .. Len(tagged') PROVE tagged'[i].sofs <= 1
      OBVIOUS
    <3>1. CASE i \in 1 .. Len(tagged)
      BY <2>2, <3>1 DEF OneTagEach
    <3>2. CASE ~(i \in 1 .. Len(tagged))
      <4> DEFINE j == i - Len(tagged)
      <4>1. j \in 1 .. Hop /\ j \in 1 .. Len(heard) /\ Len(tagged) + j = i
        BY <1>1, <2>2, <3>2
      <4>2. heard[j].sofs = 0
        BY <4>1 DEF OneTagEach
      <4>3. tagged'[Len(tagged) + j].sofs <= heard[j].sofs + 1
        BY <4>1, <2>2
      <4> QED BY <4>1, <4>2, <4>3
    <3> QED BY <3>1, <3>2
  <2> QED BY <2>1, <2>3, <2>4 DEF OneTagEach
<1>4. CASE Receive
  <2>1. UNCHANGED heard
    BY <1>4 DEF Receive, BufferDrops, BufferReturns, BufferConsumes
  <2>2. ~TwoAtFirst
    <3> SUFFICES ASSUME TwoAtFirst PROVE FALSE
      OBVIOUS
    <3>1. First \in Nat /\ First <= Len(tagged) - 1 /\ tagged[First + 1].sofs > 1
      BY OneTagInRange DEF TwoAtFirst
    <3>2. First + 1 \in 1 .. Len(tagged)
      BY <1>1, <3>1
    <3>3. tagged[First + 1] \in Item
      BY <3>2, ElementOfSeq DEF Types, StreamTypes
    <3>4. tagged[First + 1].sofs \in Nat
      BY <3>3 DEF Item
    <3> QED BY <3>1, <3>2, <3>4 DEF OneTagEach
  <2>3. failed' = FALSE
    <3>1. failed' = TwoAtFirst \/ failed' = failed
      BY <1>4, Zenon DEF Receive, BufferDrops, BufferReturns, BufferConsumes
    <3>2. TwoAtFirst = FALSE
      <4>1. TwoAtFirst \in BOOLEAN
        BY Zenon DEF TwoAtFirst
      <4> QED BY <2>2, <4>1, Zenon
    <3> QED BY <3>1, <3>2, Zenon DEF OneTagEach
  <2>4. \A i \in 1 .. Len(tagged') : tagged'[i].sofs <= 1
    <3>1. (\E k \in Nat : k <= Len(tagged) /\ Consume(k)) \/ UNCHANGED tagged
      BY <1>4, ReceiveConsumes, Sizes DEF BehindFrame
    <3>2. ASSUME NEW k \in Nat, k <= Len(tagged), Consume(k)
          PROVE  \A i \in 1 .. Len(tagged') : tagged'[i].sofs <= 1
      <4>1. /\ Len(tagged') = Len(tagged) - k
            /\ \A i \in 1 .. Len(tagged) - k : tagged'[i] = tagged[k + i]
        BY <3>2, ConsumeType
      <4> QED BY <1>1, <3>2, <4>1 DEF OneTagEach
    <3>3. ASSUME UNCHANGED tagged PROVE \A i \in 1 .. Len(tagged') : tagged'[i].sofs <= 1
      BY <3>3 DEF OneTagEach
    <3> QED BY <3>1, <3>2, <3>3
  <2>5. \A i \in 1 .. Len(heard') : heard'[i].sofs = 0
    BY <2>1 DEF OneTagEach
  <2> QED BY <2>3, <2>4, <2>5 DEF OneTagEach
<1>5. CASE UNCHANGED <<heard, tagged, failed>>
  BY <1>5 DEF OneTagEach
<1> QED BY <1>2, <1>3, <1>4, <1>5 DEF Next, PadZeros, Encode, Decode, vars

(* preamble_tagger_cc looks at every symbol in two windows and puts one tag on
   it at most, so frame_buffer_cc never finds two tags in one place and never
   throws. *)
THEOREM NoDoubleTagHolds == Spec => []NoDoubleTag
<1>1. Init => OneTagEach
  <2> SUFFICES ASSUME Init PROVE OneTagEach
    OBVIOUS
  <2>1. \A i \in 1 .. Len(tagged) : tagged[i].sofs = 0
    BY IdleType DEF NoSymbol
  <2>2. heard = <<>> /\ failed = FALSE
    BY DEF Init
  <2> QED BY <2>1, <2>2 DEF OneTagEach
<1>2. Types /\ OneTagEach /\ [Next]_vars => OneTagEach'
  BY OneTagStep
<1>3. OneTagEach => NoDoubleTag
  BY Zenon DEF OneTagEach, NoDoubleTag
<1> QED BY <1>1, <1>2, <1>3, TypesHold, PTL DEF Spec

-----------------------------------------------------------------------------
(***************************************************************************)
(* Frames come out once and in their order.  The places of the symbols     *)
(* between the radio and frame_buffer_cc, where those of the radio's own   *)
(* making have frame 0, go up; a frame that is cut out whole ends with its *)
(* last symbol, so every symbol behind it is of a later frame.             *)
(***************************************************************************)
PlaceSet == [frame : Nat, at : Nat]

Before(p, q) == p.frame < q.frame \/ (p.frame = q.frame /\ p.at < q.at)

Flow == [i \in 1 .. Len(tagged) + Len(heard) |->
            IF i <= Len(tagged) THEN tagged[i].place ELSE heard[i - Len(tagged)].place]

FlowUp ==
    /\ \A i, j \in 1 .. Len(Flow) :
          (i < j /\ Flow[i].frame # 0 /\ Flow[j].frame # 0) => Before(Flow[i], Flow[j])
    /\ \A i \in 1 .. Len(Flow) :
          Flow[i].frame # 0 => Before(Flow[i], Place(emitted)) /\ Flow[i].at <= d_nsym_frame

CutsBehind ==
    \A p \in 1 .. Len(cut) : cut[p] # 0 =>
        /\ cut[p] < Place(emitted).frame
        /\ \A i \in 1 .. Len(Flow) : Flow[i].frame # 0 => cut[p] < Flow[i].frame

InOrder == FlowUp /\ CutsBehind /\ OnceInOrder

LEMMA FlowType ==
    ASSUME Types
    PROVE  /\ Len(Flow) = Len(tagged) + Len(heard) /\ Len(tagged) \in Nat /\ Len(heard) \in Nat
           /\ \A i \in 1 .. Len(Flow) : Flow[i] \in PlaceSet
           /\ \A i \in 1 .. Len(tagged) : Flow[i] = tagged[i].place
           /\ \A i \in 1 .. Len(heard) : Flow[Len(tagged) + i] = heard[i].place
<1>1. /\ tagged \in Seq(Item) /\ Len(tagged) \in Nat /\ heard \in Seq(Item) /\ Len(heard) \in Nat
  BY LenProperties DEF Types, StreamTypes
<1>2. \A x \in Item : x.place \in PlaceSet
  BY DEF Item, PlaceSet
<1>3. \A i \in 1 .. Len(tagged) : tagged[i].place \in PlaceSet
  BY <1>1, <1>2, ElementOfSeq
<1>4. \A i \in 1 .. Len(heard) : heard[i].place \in PlaceSet
  BY <1>1, <1>2, ElementOfSeq
<1>5. Flow \in [1 .. Len(tagged) + Len(heard) -> PlaceSet]
  BY <1>1, <1>3, <1>4 DEF Flow
<1>6. Flow \in Seq(PlaceSet) /\ Len(Flow) = Len(tagged) + Len(heard)
  BY <1>1, <1>5, SeqDef
<1>7. \A i \in 1 .. Len(Flow) : Flow[i] \in PlaceSet
  BY <1>6, ElementOfSeq
<1> QED BY <1>1, <1>6, <1>7 DEF Flow

\* The same of the next state.
LEMMA FlowTypeNext ==
    ASSUME Types'
    PROVE  /\ Len(Flow') = Len(tagged') + Len(heard') /\ Len(tagged') \in Nat /\ Len(heard') \in Nat
           /\ \A i \in 1 .. Len(Flow') : Flow'[i] \in PlaceSet
           /\ \A i \in 1 .. Len(tagged') : Flow'[i] = tagged'[i].place
           /\ \A i \in 1 .. Len(heard') : Flow'[Len(tagged') + i] = heard'[i].place
<1>1. /\ tagged' \in Seq(Item) /\ Len(tagged') \in Nat /\ heard' \in Seq(Item) /\ Len(heard') \in Nat
  BY LenProperties DEF Types, StreamTypes
<1>2. \A x \in Item : x.place \in PlaceSet
  BY DEF Item, PlaceSet
<1>3. \A i \in 1 .. Len(tagged') : tagged'[i].place \in PlaceSet
  BY <1>1, <1>2, ElementOfSeq
<1>4. \A i \in 1 .. Len(heard') : heard'[i].place \in PlaceSet
  BY <1>1, <1>2, ElementOfSeq
<1>5. Flow' \in [1 .. Len(tagged') + Len(heard') -> PlaceSet]
  BY <1>1, <1>3, <1>4 DEF Flow
<1>6. Flow' \in Seq(PlaceSet) /\ Len(Flow') = Len(tagged') + Len(heard')
  BY <1>1, <1>5, SeqDef
<1>7. \A i \in 1 .. Len(Flow') : Flow'[i] \in PlaceSet
  BY <1>6, ElementOfSeq
<1> QED BY <1>1, <1>6, <1>7 DEF Flow

\* The place of a symbol comes before that of the next.
LEMMA PlacesGoUp ==
    ASSUME NEW k \in Nat
    PROVE  /\ Before(Place(k), Place(k + 1)) /\ Place(k).frame <= Place(k + 1).frame
           /\ Place(k).frame # 0 /\ Place(k).at <= d_nsym_frame
           /\ Place(k) \in PlaceSet /\ Place(k + 1) \in PlaceSet
<1> DEFINE N == d_nsym_frame
           f == k \div d_nsym_frame
           a == k % d_nsym_frame
           g == (k + 1) \div d_nsym_frame
           b == (k + 1) % d_nsym_frame
<1>0. k + 1 \in Nat
  OBVIOUS
<1> DEFINE Is(p, x, y, z) == /\ p \in PlaceSet /\ p.frame = x + 1 /\ p.at = y + 1
                             /\ y \in 0 .. N - 1 /\ x \in Nat /\ z = N * x + y
<1>8. Is(Place(k), f, a, k)
  BY PlaceType DEF PlaceSet
<1>9. Is(Place(k + 1), g, b, k + 1)
  BY <1>0, PlaceType DEF PlaceSet
<1> HIDE DEF f, a, g, b
<1>1. /\ f \in Nat /\ a \in 0 .. N - 1 /\ k = N * f + a /\ N \in Nat \ {0}
      /\ g \in Nat /\ b \in 0 .. N - 1 /\ k + 1 = N * g + b
      /\ Place(k).frame = f + 1 /\ Place(k).at = a + 1
      /\ Place(k + 1).frame = g + 1 /\ Place(k + 1).at = b + 1
  BY <1>8, <1>9, Sizes
<1>2. Place(k) \in PlaceSet /\ Place(k + 1) \in PlaceSet
  BY <1>8, <1>9
<1> HIDE DEF N, Is
<1>3. ~(g < f)
  <2> SUFFICES ASSUME g < f PROVE FALSE
    OBVIOUS
  <2>1. PICK d \in Nat : f = g + 1 + d
    <3>1. f - g - 1 \in Nat /\ f = g + 1 + (f - g - 1)
      BY <1>1
    <3> QED BY <3>1
  <2>2. N * f = N * g + N + N * d /\ N * d \in Nat /\ N * g \in Nat
    BY <1>1, <2>1
  <2> QED BY <1>1, <2>2
<1>4. f < g \/ (f = g /\ a < b)
  <2>1. f < g \/ f = g
    BY <1>1, <1>3
  <2>2. ASSUME f = g PROVE a < b
    <3>1. N * f = N * g /\ N * f \in Nat
      BY <1>1, <2>2
    <3> QED BY <1>1, <3>1
  <2> QED BY <2>1, <2>2
<1> QED BY <1>1, <1>2, <1>4 DEF Before, N

LEMMA BeforeTransitive ==
    ASSUME NEW x \in PlaceSet, NEW y \in PlaceSet, NEW z \in PlaceSet, Before(x, y), Before(y, z)
    PROVE  Before(x, z)
BY DEF Before, PlaceSet

\* One symbol more behind the flow.
LEMMA FlowGrows ==
    ASSUME Types, Types', InOrder, emitted' = emitted + 1, UNCHANGED cut,
           Len(Flow') \in {Len(Flow), Len(Flow) + 1},
           \A i \in 1 .. Len(Flow) : Flow'[i] = Flow[i],
           \A i \in 1 .. Len(Flow') :
              i > Len(Flow) => Flow'[i] = Place(emitted) \/ Flow'[i].frame = 0
    PROVE  FlowUp' /\ CutsBehind'
<1> DEFINE e == Place(emitted)
           n == Place(emitted + 1)
<1>1. /\ Before(e, n) /\ e.frame <= n.frame /\ e.frame # 0 /\ e.at <= d_nsym_frame
      /\ e \in PlaceSet /\ n \in PlaceSet
  BY PlacesGoUp DEF Types, SenderTypes
<1>2. Place(emitted)' = n
  BY DEF Place
<1> HIDE DEF e, n
<1>3. /\ Len(Flow) \in Nat /\ Len(Flow') \in Nat
      /\ \A i \in 1 .. Len(Flow) : Flow[i] \in PlaceSet
      /\ \A i \in 1 .. Len(Flow') : Flow'[i] \in PlaceSet
  BY FlowType, FlowTypeNext
<1>4. ASSUME NEW i \in 1 .. Len(Flow'), Flow'[i].frame # 0
      PROVE  /\ Flow'[i].at <= d_nsym_frame /\ Before(Flow'[i], n)
             /\ i > Len(Flow) => Flow'[i] = e
             /\ i <= Len(Flow) => Flow'[i] = Flow[i] /\ Before(Flow'[i], e)
  <2>1. CASE i > Len(Flow)
    <3>1. Flow'[i] = e
      BY <1>4, <2>1 DEF e
    <3> QED BY <1>1, <1>3, <2>1, <3>1
  <2>2. CASE i <= Len(Flow)
    <3>1. i \in 1 .. Len(Flow) /\ Flow'[i] = Flow[i]
      BY <1>3, <2>2
    <3>2. Before(Flow[i], e) /\ Flow[i].at <= d_nsym_frame
      BY <1>4, <3>1 DEF InOrder, FlowUp, e
    <3>3. Before(Flow[i], n)
      BY <1>1, <1>3, <3>1, <3>2, BeforeTransitive
    <3> QED BY <1>3, <2>2, <3>1, <3>2, <3>3
  <2> QED BY <1>3, <2>1, <2>2
<1>5. ASSUME NEW i \in 1 .. Len(Flow'), NEW j \in 1 .. Len(Flow'), i < j,
             Flow'[i].frame # 0, Flow'[j].frame # 0
      PROVE  Before(Flow'[i], Flow'[j])
  <2>1. i <= Len(Flow)
    BY <1>3, <1>5
  <2>2. CASE j > Len(Flow)
    BY <1>4, <1>5, <2>1, <2>2
  <2>3. CASE j <= Len(Flow)
    <3>1. i \in 1 .. Len(Flow) /\ j \in 1 .. Len(Flow) /\ Flow'[i] = Flow[i] /\ Flow'[j] = Flow[j]
      BY <1>3, <2>1, <2>3
    <3> QED BY <1>5, <3>1 DEF InOrder, FlowUp
  <2> QED BY <1>3, <2>2, <2>3
<1>6. FlowUp'
  BY <1>2, <1>4, <1>5 DEF FlowUp
<1>7. CutsBehind'
  <2> SUFFICES ASSUME NEW p \in 1 .. Len(cut'), cut'[p] # 0
               PROVE  /\ cut'[p] < Place(emitted)'.frame
                      /\ \A i \in 1 .. Len(Flow') : Flow'[i].frame # 0 => cut'[p] < Flow'[i].frame
    BY DEF CutsBehind
  <2>1. /\ cut[p] \in Nat /\ cut[p] < e.frame /\ cut'[p] = cut[p]
        /\ \A i \in 1 .. Len(Flow) : Flow[i].frame # 0 => cut[p] < Flow[i].frame
    BY ElementOfSeq DEF InOrder, CutsBehind, e, Types, StreamTypes
  <2>2. cut[p] < n.frame
    BY <1>1, <2>1 DEF PlaceSet
  <2>3. ASSUME NEW i \in 1 .. Len(Flow'), Flow'[i].frame # 0 PROVE cut[p] < Flow'[i].frame
    <3>1. CASE i > Len(Flow)
      BY <1>4, <2>1, <2>3, <3>1
    <3>2. CASE i <= Len(Flow)
      <4>1. i \in 1 .. Len(Flow)
        BY <1>3, <3>2
      <4> QED BY <1>4, <2>1, <2>3, <3>2, <4>1
    <3> QED BY <1>3, <3>1, <3>2
  <2> QED BY <1>2, <2>1, <2>2, <2>3
<1> QED BY <1>6, <1>7

\* Some symbols leave the flow at its front.
LEMMA FlowShrinks ==
    ASSUME Types, Types', FlowUp, UNCHANGED emitted,
           NEW k \in Nat, k <= Len(Flow), Len(Flow') = Len(Flow) - k,
           \A i \in 1 .. Len(Flow) - k : Flow'[i] = Flow[k + i]
    PROVE  FlowUp'
<1>1. Len(Flow) \in Nat
  BY FlowType
<1>2. \A i \in 1 .. Len(Flow') : k + i \in 1 .. Len(Flow) /\ Flow'[i] = Flow[k + i]
  BY <1>1
<1>3. Place(emitted)' = Place(emitted)
  BY DEF Place
<1>4. ASSUME NEW i \in 1 .. Len(Flow'), NEW j \in 1 .. Len(Flow'), i < j,
             Flow'[i].frame # 0, Flow'[j].frame # 0
      PROVE  Before(Flow'[i], Flow'[j])
  <2>1. /\ k + i \in 1 .. Len(Flow) /\ k + j \in 1 .. Len(Flow) /\ k + i < k + j
        /\ Flow'[i] = Flow[k + i] /\ Flow'[j] = Flow[k + j]
    BY <1>1, <1>2, <1>4
  <2> HIDE DEF Flow
  <2> QED BY <1>4, <2>1 DEF FlowUp
<1>5. ASSUME NEW i \in 1 .. Len(Flow'), Flow'[i].frame # 0
      PROVE  Before(Flow'[i], Place(emitted)) /\ Flow'[i].at <= d_nsym_frame
  BY <1>2, <1>5 DEF FlowUp
<1> QED BY <1>3, <1>4, <1>5 DEF FlowUp

\* The tagger moves symbols on and keeps their order.
LEMMA FlowTag == ASSUME Types, Types', Tag
                 PROVE  Len(Flow') = Len(Flow) /\ \A i \in 1 .. Len(Flow) : Flow'[i] = Flow[i]
<1>1. /\ Hop <= Len(heard) /\ Hop \in Nat
      /\ Len(heard') = Len(heard) - Hop /\ Len(tagged') = Len(tagged) + Hop
      /\ \A i \in 1 .. Len(tagged) : tagged'[i] = tagged[i]
      /\ \A i \in 1 .. Hop : tagged'[Len(tagged) + i].place = heard[i].place
      /\ \A i \in 1 .. Len(heard) - Hop : heard'[i] = heard[Hop + i]
  BY TagPasses
<1>2. /\ Len(Flow) = Len(tagged) + Len(heard) /\ Len(tagged) \in Nat /\ Len(heard) \in Nat
      /\ \A i \in 1 .. Len(tagged) : Flow[i] = tagged[i].place
      /\ \A i \in 1 .. Len(heard) : Flow[Len(tagged) + i] = heard[i].place
  BY FlowType
<1>3. /\ Len(Flow') = Len(tagged') + Len(heard')
      /\ \A i \in 1 .. Len(tagged') : Flow'[i] = tagged'[i].place
      /\ \A i \in 1 .. Len(heard') : Flow'[Len(tagged') + i] = heard'[i].place
  BY FlowTypeNext
<1>4. Len(Flow') = Len(Flow)
  BY <1>1, <1>2, <1>3
<1>5. ASSUME NEW i \in 1 .. Len(Flow) PROVE Flow'[i] = Flow[i]
  <2>1. CASE i <= Len(tagged)
    <3>1. i \in 1 .. Len(tagged) /\ i \in 1 .. Len(tagged')
      BY <1>1, <1>2, <2>1
    <3> QED BY <1>1, <1>2, <1>3, <3>1
  <2>2. CASE i > Len(tagged) /\ i <= Len(tagged) + Hop
    <3> DEFINE j == i - Len(tagged)
    <3>1. j \in 1 .. Hop /\ j \in 1 .. Len(heard) /\ i = Len(tagged) + j /\ i \in 1 .. Len(tagged')
      BY <1>1, <1>2, <2>2
    <3> HIDE DEF j
    <3>2. Flow[i] = heard[j].place
      BY <1>2, <3>1
    <3>3. Flow'[i] = tagged'[i].place
      BY <1>3, <3>1
    <3>4. tagged'[i].place = heard[j].place
      BY <1>1, <3>1
    <3> QED BY <3>2, <3>3, <3>4
  <2>3. CASE i > Len(tagged) + Hop
    <3> DEFINE j == i - Len(tagged) - Hop
    <3>1. /\ j \in 1 .. Len(heard) - Hop /\ j \in 1 .. Len(heard') /\ Hop + j \in 1 .. Len(heard)
          /\ i = Len(tagged) + (Hop + j) /\ i = Len(tagged') + j
      BY <1>1, <1>2, <2>3
    <3> HIDE DEF j
    <3>2. Flow[i] = heard[Hop + j].place
      BY <1>2, <3>1
    <3>3. Flow'[i] = heard'[j].place
      BY <1>3, <3>1
    <3>4. heard'[j] = heard[Hop + j]
      BY <1>1, <3>1
    <3> QED BY <3>2, <3>3, <3>4
  <2> QED BY <1>1, <1>2, <2>1, <2>2, <2>3
<1> QED BY <1>4, <1>5

\* frame_buffer_cc takes symbols away from the front.
LEMMA FlowConsume ==
    ASSUME Types, Types', UNCHANGED heard, NEW k \in Nat, k <= Len(tagged), Consume(k)
    PROVE  /\ k <= Len(Flow) /\ Len(Flow') = Len(Flow) - k
           /\ \A i \in 1 .. Len(Flow) - k : Flow'[i] = Flow[k + i]
<1>1. /\ Len(tagged') = Len(tagged) - k
      /\ \A i \in 1 .. Len(tagged) - k : tagged'[i] = tagged[k + i]
  BY ConsumeType
<1>2. /\ Len(Flow) = Len(tagged) + Len(heard) /\ Len(tagged) \in Nat /\ Len(heard) \in Nat
      /\ \A i \in 1 .. Len(tagged) : Flow[i] = tagged[i].place
      /\ \A i \in 1 .. Len(heard) : Flow[Len(tagged) + i] = heard[i].place
  BY FlowType
<1>3. /\ Len(Flow') = Len(tagged') + Len(heard')
      /\ \A i \in 1 .. Len(tagged') : Flow'[i] = tagged'[i].place
      /\ \A i \in 1 .. Len(heard') : Flow'[Len(tagged') + i] = heard'[i].place
  BY FlowTypeNext
<1>4. k <= Len(Flow) /\ Len(Flow') = Len(Flow) - k
  BY <1>1, <1>2, <1>3
<1>5. ASSUME NEW i \in 1 .. Len(Flow) - k PROVE Flow'[i] = Flow[k + i]
  <2>1. CASE i <= Len(tagged) - k
    <3>1. i \in 1 .. Len(tagged') /\ i \in 1 .. Len(tagged) - k /\ k + i \in 1 .. Len(tagged)
      BY <1>1, <1>2, <2>1
    <3>2. Flow'[i] = tagged'[i].place /\ Flow[k + i] = tagged[k + i].place /\ tagged'[i] = tagged[k + i]
      BY <1>1, <1>2, <1>3, <3>1
    <3> QED BY <3>2
  <2>2. CASE i > Len(tagged) - k
    <3> DEFINE j == i - (Len(tagged) - k)
    <3>1. /\ j \in 1 .. Len(heard) /\ j \in 1 .. Len(heard') /\ i = Len(tagged') + j
          /\ k + i = Len(tagged) + j
      BY <1>1, <1>2, <2>2
    <3> HIDE DEF j
    <3>2. Flow'[i] = heard'[j].place /\ Flow[k + i] = heard[j].place
      BY <1>2, <1>3, <3>1
    <3> QED BY <3>2
  <2> QED BY <1>2, <2>1, <2>2
<1> QED BY <1>4, <1>5

\* What remains behind cuts stays behind them, when no frame is cut.
LEMMA NothingCut ==
    ASSUME Types, Types', InOrder, UNCHANGED <<emitted, cut>>,
           NEW k \in Nat, k <= Len(Flow), Len(Flow') = Len(Flow) - k,
           \A i \in 1 .. Len(Flow) - k : Flow'[i] = Flow[k + i]
    PROVE  InOrder'
<1>1. FlowUp'
  BY FlowShrinks DEF InOrder
<1>2. Len(Flow) \in Nat
  BY FlowType
<1>3. \A i \in 1 .. Len(Flow') : k + i \in 1 .. Len(Flow) /\ Flow'[i] = Flow[k + i]
  BY <1>2
<1>4. Place(emitted)' = Place(emitted)
  BY DEF Place
<1>5. CutsBehind'
  BY <1>3, <1>4 DEF InOrder, CutsBehind
<1> QED BY <1>1, <1>5 DEF InOrder, OnceInOrder

\* A frame that is cut out is the first of its number, and the last symbol of it is gone.
LEMMA FrameCut == ASSUME Types, Types', InOrder, BufferReturns PROVE InOrder'
<1>1. /\ Receive /\ UNCHANGED <<emitted, heard>>
  BY DEF Receive, BufferReturns, txVars
<1>2. PICK piece \in Seq(Item) :
         /\ Len(piece) = d_nsym_frame
         /\ \A i \in 1 .. d_nsym_frame : piece[i] = tagged[First + i]
         /\ cut' = Append(cut, FrameIs(piece))
  BY ReturnTypes
<1> DEFINE N == d_nsym_frame
           f == FrameIs(piece)
           k == First + N
<1>3. TwoTags /\ Second - First >= N /\ Consume(BehindFrame)
  BY DEF BufferReturns
<1>4. /\ First \in Nat /\ k \in Nat /\ k <= Len(tagged) /\ N \in Nat /\ N >= 1 /\ Len(tagged) \in Nat
  BY <1>3, TagsInRange, Sizes
<1>5. /\ k <= Len(Flow) /\ Len(Flow') = Len(Flow) - k /\ Len(Flow) \in Nat
      /\ \A i \in 1 .. Len(Flow) - k : Flow'[i] = Flow[k + i]
  <2>1. Consume(k)
    BY <1>3 DEF BehindFrame
  <2> HIDE DEF k
  <2>2. /\ k <= Len(Flow) /\ Len(Flow') = Len(Flow) - k
        /\ \A i \in 1 .. Len(Flow) - k : Flow'[i] = Flow[k + i]
    BY <1>1, <1>4, <2>1, FlowConsume
  <2>3. Len(Flow) \in Nat
    BY FlowType
  <2> QED BY <2>2, <2>3
<1>6. FlowUp'
  BY <1>1, <1>4, <1>5, FlowShrinks DEF InOrder
<1>7. f \in Nat /\ (f # 0 => \A i \in 1 .. N : Flow[First + i] = [frame |-> f, at |-> i])
  <2>1. \A i \in 1 .. N : First + i \in 1 .. Len(tagged)
    BY <1>4
  <2>2. \A i \in 1 .. N : Flow[First + i] = piece[i].place
    BY <1>2, <2>1, FlowType
  <2>3. piece[1] \in Item /\ piece[1].place.frame \in Nat
    <3>1. piece[1] \in Item
      BY <1>2, <1>4, ElementOfSeq
    <3> QED BY <3>1 DEF Item
  <2>4. f # 0 => f = piece[1].place.frame /\ \A i \in 1 .. N : piece[i].place = [frame |-> f, at |-> i]
    BY <1>2, Zenon DEF FrameIs
  <2>5. f \in Nat
    BY <2>3 DEF FrameIs
  <2> HIDE DEF f, N
  <2> QED BY <2>2, <2>4, <2>5
<1>14. cut' = Append(cut, f)
  BY <1>2, Zenon
<1> HIDE DEF f
<1>8. Place(emitted)' = Place(emitted) /\ Place(emitted) \in PlaceSet
  BY <1>1, PlacesGoUp DEF Place, Types, SenderTypes
<1>9. f # 0 => /\ f < Place(emitted).frame
               /\ \A i \in 1 .. Len(Flow') : Flow'[i].frame # 0 => f < Flow'[i].frame
  <2> SUFFICES ASSUME f # 0
               PROVE  /\ f < Place(emitted).frame
                      /\ \A i \in 1 .. Len(Flow') : Flow'[i].frame # 0 => f < Flow'[i].frame
    OBVIOUS
  <2>1. Flow[k].frame = f /\ Flow[k].at = N /\ k \in 1 .. Len(Flow)
    <3>1. N \in 1 .. N
      BY <1>4
    <3>2. Flow[First + N] = [frame |-> f, at |-> N]
      BY <1>7, <3>1
    <3> QED BY <1>4, <1>5, <3>2
  <2>2. Place(emitted).at <= N
    BY PlacesGoUp DEF Types, SenderTypes
  <2>3. Before(Flow[k], Place(emitted))
    BY <2>1 DEF InOrder, FlowUp
  <2>4. f < Place(emitted).frame
    BY <1>4, <1>7, <1>8, <2>1, <2>2, <2>3 DEF Before, PlaceSet
  <2>5. ASSUME NEW i \in 1 .. Len(Flow'), Flow'[i].frame # 0 PROVE f < Flow'[i].frame
    <3>1. k + i \in 1 .. Len(Flow) /\ k < k + i /\ Flow'[i] = Flow[k + i]
      BY <1>4, <1>5
    <3>2. Flow[k + i] \in PlaceSet
      BY <3>1, FlowType
    <3>3. Before(Flow[k], Flow[k + i]) /\ Flow[k + i].at <= N
      BY <2>1, <2>5, <3>1 DEF InOrder, FlowUp
    <3> QED BY <1>4, <1>7, <2>1, <3>1, <3>2, <3>3 DEF Before, PlaceSet
  <2> QED BY <2>4, <2>5
<1>10. \A p \in 1 .. Len(cut) : cut[p] # 0 /\ f # 0 => cut[p] < f
  <2> SUFFICES ASSUME NEW p \in 1 .. Len(cut), cut[p] # 0, f # 0 PROVE cut[p] < f
    OBVIOUS
  <2>1. First + 1 \in 1 .. Len(Flow) /\ 1 \in 1 .. N
    BY <1>4, <1>5
  <2>2. Flow[First + 1].frame = f
    <3>1. Flow[First + 1] = [frame |-> f, at |-> 1]
      BY <1>7, <2>1
    <3> QED BY <3>1
  <2> QED BY <2>1, <2>2 DEF InOrder, CutsBehind
<1>11. /\ cut \in Seq(Nat) /\ Len(cut) \in Nat /\ Len(cut') = Len(cut) + 1
       /\ \A p \in 1 .. Len(cut) : cut'[p] = cut[p]
       /\ cut'[Len(cut) + 1] = f
  <2>1. cut \in Seq(Nat) /\ Len(cut) \in Nat
    BY LenProperties DEF Types, StreamTypes
  <2>2. cut' = Append(cut, f)
    BY <1>14
  <2> QED BY <1>7, <2>1, <2>2, AppendProperties
<1>12. OnceInOrder'
  <2> SUFFICES ASSUME NEW p \in 1 .. Len(cut'), NEW q \in 1 .. Len(cut'), p < q, cut'[p] # 0, cut'[q] # 0
               PROVE  cut'[p] < cut'[q]
    BY DEF OnceInOrder
  <2>1. p \in 1 .. Len(cut) /\ cut'[p] = cut[p]
    BY <1>11
  <2>2. CASE q \in 1 .. Len(cut)
    <3>1. cut'[q] = cut[q]
      BY <1>11, <2>2
    <3> QED BY <2>1, <2>2, <3>1 DEF InOrder, OnceInOrder
  <2>3. CASE ~(q \in 1 .. Len(cut))
    <3>1. q = Len(cut) + 1 /\ cut'[q] = f
      BY <1>11, <2>3
    <3> QED BY <1>10, <2>1, <3>1
  <2> QED BY <2>2, <2>3
<1>13. CutsBehind'
  <2> SUFFICES ASSUME NEW p \in 1 .. Len(cut'), cut'[p] # 0
               PROVE  /\ cut'[p] < Place(emitted)'.frame
                      /\ \A i \in 1 .. Len(Flow') : Flow'[i].frame # 0 => cut'[p] < Flow'[i].frame
    BY DEF CutsBehind
  <2>1. CASE p \in 1 .. Len(cut)
    <3>1. cut'[p] = cut[p]
      BY <1>11, <2>1
    <3>2. \A i \in 1 .. Len(Flow') : k + i \in 1 .. Len(Flow) /\ Flow'[i] = Flow[k + i]
      BY <1>4, <1>5
    <3> QED BY <1>8, <2>1, <3>1, <3>2 DEF InOrder, CutsBehind
  <2>2. CASE ~(p \in 1 .. Len(cut))
    <3>1. cut'[p] = f
      BY <1>11, <2>2
    <3> QED BY <1>8, <1>9, <3>1
  <2> QED BY <2>1, <2>2
<1> QED BY <1>6, <1>12, <1>13 DEF InOrder

LEMMA InOrderStep == ASSUME Types, Types', InOrder, [Next]_vars PROVE InOrder'
<1>1. CASE Emit
  <2>1. emitted' = emitted + 1 /\ UNCHANGED <<tagged, cut>>
    BY <1>1 DEF Emit
  <2>2. /\ Len(heard') \in Nat /\ Len(heard) \in Nat
        /\ Len(heard') <= Len(heard) + 1 /\ Len(heard) <= Len(heard')
        /\ \A i \in 1 .. Len(heard) : heard'[i] = heard[i]
        /\ \A i \in 1 .. Len(heard') : i > Len(heard) =>
             heard'[i].place = Place(emitted) \/ heard'[i].place = [frame |-> 0, at |-> 0]
    BY <1>1, EmitKeeps
  <2>3. /\ Len(Flow) = Len(tagged) + Len(heard) /\ Len(tagged) \in Nat
        /\ \A i \in 1 .. Len(tagged) : Flow[i] = tagged[i].place
        /\ \A i \in 1 .. Len(heard) : Flow[Len(tagged) + i] = heard[i].place
    BY FlowType
  <2>4. /\ Len(Flow') = Len(tagged) + Len(heard')
        /\ \A i \in 1 .. Len(tagged) : Flow'[i] = tagged[i].place
        /\ \A i \in 1 .. Len(heard') : Flow'[Len(tagged) + i] = heard'[i].place
    BY <2>1, FlowTypeNext
  <2>5. Len(Flow') \in {Len(Flow), Len(Flow) + 1}
    <3>1. Len(heard') = Len(heard) \/ Len(heard') = Len(heard) + 1
      BY <2>2
    <3>2. Len(Flow) = Len(tagged) + Len(heard) /\ Len(Flow') = Len(tagged) + Len(heard')
      BY <2>3, <2>4
    <3>3. Len(tagged) \in Nat /\ Len(heard) \in Nat
      BY <2>2, <2>3
    <3> QED BY <3>1, <3>2, <3>3
  <2>6. ASSUME NEW i \in 1 .. Len(Flow) PROVE Flow'[i] = Flow[i]
    <3>1. CASE i <= Len(tagged)
      BY <2>3, <2>4, <3>1
    <3>2. CASE ~(i <= Len(tagged))
      <4> DEFINE j == i - Len(tagged)
      <4>1. j \in 1 .. Len(heard) /\ j \in 1 .. Len(heard') /\ i = Len(tagged) + j
        BY <2>2, <2>3, <3>2
      <4> HIDE DEF j
      <4> QED BY <2>2, <2>3, <2>4, <4>1
    <3> QED BY <3>1, <3>2
  <2>7. ASSUME NEW i \in 1 .. Len(Flow'), i > Len(Flow)
        PROVE  Flow'[i] = Place(emitted) \/ Flow'[i].frame = 0
    <3> DEFINE j == i - Len(tagged)
    <3>1. j \in 1 .. Len(heard') /\ j > Len(heard) /\ i = Len(tagged) + j
      BY <2>2, <2>3, <2>4, <2>7
    <3> HIDE DEF j
    <3>2. heard'[j].place = Place(emitted) \/ heard'[j].place = [frame |-> 0, at |-> 0]
      BY <2>2, <3>1
    <3>3. Flow'[i] = heard'[j].place
      BY <2>4, <3>1
    <3> QED BY <3>2, <3>3
  <2>8. FlowUp' /\ CutsBehind'
    BY <2>1, <2>5, <2>6, <2>7, FlowGrows
  <2> QED BY <2>1, <2>8 DEF InOrder, OnceInOrder
<1>2. CASE Tag
  <2>1. UNCHANGED <<emitted, cut>>
    BY <1>2 DEF Tag, txVars
  <2>2. /\ 0 <= Len(Flow) /\ Len(Flow') = Len(Flow) - 0
        /\ \A i \in 1 .. Len(Flow) - 0 : Flow'[i] = Flow[0 + i]
    BY <1>2, FlowTag, FlowType
  <2> QED BY <2>1, <2>2, NothingCut
<1>3. CASE Receive
  <2>1. UNCHANGED <<emitted, heard>>
    BY <1>3 DEF Receive, BufferDrops, BufferReturns, BufferConsumes, txVars
  <2>2. CASE BufferReturns
    BY <2>2, FrameCut
  <2>3. ASSUME UNCHANGED cut, NEW k \in Nat, k <= Len(tagged), Consume(k) PROVE InOrder'
    BY <2>1, <2>3, FlowConsume, NothingCut
  <2>4. CASE UNCHANGED <<cut, tagged>>
    BY <2>1, <2>4 DEF InOrder, FlowUp, CutsBehind, OnceInOrder, Flow, Place
  <2> QED BY <1>3, <2>2, <2>3, <2>4, ReceiveConsumes
<1>4. CASE UNCHANGED <<emitted, heard, tagged, cut>>
  BY <1>4 DEF InOrder, FlowUp, CutsBehind, OnceInOrder, Flow, Place
<1> QED BY <1>1, <1>2, <1>3, <1>4 DEF Next, PadZeros, Encode, Decode, vars, txVars

(* The frames of the sender that leave frame_buffer_cc whole leave it once and in
   the sender's order, though it meets the second tag of a call again in the
   next and though what the radio loses and changes leaves pieces of frames. *)
THEOREM OnceInOrderHolds == Spec => []OnceInOrder
<1>1. Init => InOrder
  <2> SUFFICES ASSUME Init PROVE InOrder
    OBVIOUS
  <2>1. Types /\ cut = <<>> /\ heard = <<>>
    BY TypesInit DEF Init
  <2>2. \A i \in 1 .. Len(tagged) : tagged[i].place.frame = 0
    BY IdleType DEF NoSymbol
  <2>3. \A i \in 1 .. Len(Flow) : Flow[i].frame = 0
    BY <2>1, <2>2, FlowType
  <2> HIDE DEF Flow
  <2> QED BY <2>1, <2>3 DEF InOrder, FlowUp, CutsBehind, OnceInOrder
<1>2. Types /\ Types' /\ InOrder /\ [Next]_vars => InOrder'
  BY InOrderStep
<1>3. InOrder => OnceInOrder
  BY DEF InOrder
<1> QED BY <1>1, <1>2, <1>3, TypesHold, PTL DEF Spec
-----------------------------------------------------------------------------
(***************************************************************************)
(* A frame of the sender that leaves frame_buffer_cc whole is published as *)
(* its message: the proof follows the bits of CssStream from the message   *)
(* to the message, for frames, blocks, buffers and faults of any size and  *)
(* number.  Messages, frames and blocks are counted from 0 here.           *)
(***************************************************************************)

\* The blocks of a frame.
K == Body \div Blk

LEMMA WholeBlocks == K \in Nat /\ K >= 1 /\ Body = K * Blk
<1>1. Body \in Nat /\ Body >= 1 /\ (Body % Blk) = 0 /\ Blk \in Nat \ {0}
  BY Sizes, StreamAssumption
<1>2. Body = Blk * (Body \div Blk) + (Body % Blk) /\ (Body \div Blk) \in Nat
  BY <1>1
<1>3. K \in Nat /\ Body = Blk * K
  BY <1>1, <1>2 DEF K
<1>4. K # 0
  BY <1>1, <1>3
<1> QED BY <1>1, <1>3, <1>4

\* A place in a frame is in one of its blocks.
LEMMA BlockInFrame ==
    ASSUME NEW b \in Nat, NEW l \in 1 .. Blk, b * Blk + l <= Body
    PROVE  b \in 0 .. K - 1 /\ \A i \in 1 .. Blk : b * Blk + i \in 1 .. Body
<1>1. Blk \in Nat /\ K \in Nat /\ Body = K * Blk /\ b * Blk \in Nat
  BY Sizes, WholeBlocks
<1>2. b < K
  <2>1. ASSUME K <= b PROVE FALSE
    <3>1. K * Blk <= b * Blk
      <4>1. CASE K = b
        BY <1>1, <4>1
      <4>2. CASE K < b
        <5>1. K * Blk + Blk <= b * Blk /\ K * Blk \in Nat
          BY <1>1, <4>2, RowAfter
        <5> QED BY <1>1, <5>1
      <4> QED BY <1>1, <2>1, <4>1, <4>2
    <3> QED BY <1>1, <3>1
  <2> QED BY <1>1, <2>1
<1>3. b * Blk + Blk <= K * Blk
  BY <1>1, <1>2, RowAfter
<1> QED BY <1>1, <1>2, <1>3

\* Blocks do not straddle frames.
LEMMA SameBlock ==
    ASSUME NEW y \in Nat, NEW p \in 1 .. Blk, NEW m \in Nat, NEW j \in 1 .. Body,
           y * Blk + p = m * Body + j
    PROVE  \E b \in 0 .. K - 1 : j = b * Blk + p /\ y * Blk = m * Body + b * Blk
<1>1. Blk \in Nat /\ Blk >= 1 /\ K \in Nat /\ Body = K * Blk /\ Body \in Nat
  BY Sizes, WholeBlocks
<1>2. PICK b \in Nat, l \in 1 .. Blk : j = b * Blk + l
  <2> DEFINE b == (j - 1) \div Blk
             r == (j - 1) % Blk
  <2>1. j - 1 \in Nat /\ Blk \in Nat \ {0}
    BY <1>1
  <2>2. b \in Nat /\ r \in 0 .. Blk - 1 /\ j - 1 = Blk * b + r
    BY <2>1
  <2> HIDE DEF b, r
  <2>3. j = b * Blk + (r + 1) /\ r + 1 \in 1 .. Blk
    BY <1>1, <2>2
  <2> QED BY <2>2, <2>3
<1>3. m * Body = (m * K) * Blk /\ m * K \in Nat
  BY <1>1
<1>4. (m * K + b) * Blk = (m * K) * Blk + b * Blk /\ m * K + b \in Nat /\ b * Blk \in Nat /\ m * Body \in Nat
  BY <1>1, <1>3
<1>5. y * Blk + p = (m * K + b) * Blk + l
  BY <1>1, <1>2, <1>3, <1>4
<1>6. y = m * K + b /\ p = l
  BY <1>1, <1>4, <1>5, Rows
<1>7. b \in 0 .. K - 1
  BY <1>1, <1>2, BlockInFrame
<1> QED BY <1>2, <1>3, <1>4, <1>6, <1>7

-----------------------------------------------------------------------------
\* The flowgraph was built for the first k messages of b.
BuiltIn(b, k) == \A i \in 1 .. k : LenOf(b[i]) = d_phr_payload_len

\* The b-th block of message m + 1, and the symbol of its j-th bit.
Block(m, b) == [l \in 1 .. Blk |-> <<m + 1, b * Blk + l>>]
Fits(s, m, j) ==
    \E b \in 0 .. K - 1, l \in 1 .. Blk : j = b * Blk + l /\ s.block = Block(m, b) /\ s.j = l

\* Symbols of bodies emitted so far, and bits taken so far.
Frame == emitted \div d_nsym_frame
Out == Frame * Body + (IF d_sym_ctr < Hdr THEN 0 ELSE d_sym_ctr - Hdr)
Total == Out + Len(coded) + Len(padded)

Aligned  == \E y \in Nat : Out + Len(coded) = y * Blk
AllTaken == BuiltIn(burst, taken) => Total = taken * Body
NoLess   == \A m \in 0 .. taken - 1 : BuiltIn(burst, m + 1) => Total >= (m + 1) * Body

\* What is still to be emitted is where it belongs.
PendingRight ==
    \A m \in 0 .. taken - 1, j \in 1 .. Body, p \in Nat :
        (BuiltIn(burst, m + 1) /\ Out + p = m * Body + j) =>
            /\ p \in 1 .. Len(coded) => Fits(coded[p], m, j)
            /\ p - Len(coded) \in 1 .. Len(padded) => padded[p - Len(coded)] = <<m + 1, j>>

SenderRight == Aligned /\ AllTaken /\ NoLess /\ PendingRight

LEMMA SenderBasics ==
    ASSUME Types
    PROVE  /\ taken \in Nat /\ Len(coded) \in Nat /\ Len(padded) \in Nat /\ Out \in Nat
           /\ coded \in Seq(BlockBit) /\ padded \in Seq(MsgBit)
           /\ Total = Out + Len(coded) + Len(padded)
           /\ Body \in Nat /\ Blk \in Nat /\ Body >= Blk /\ Blk >= 1
           /\ emitted \in Nat /\ d_sym_ctr \in 0 .. d_nsym_frame - 1 /\ Frame \in Nat
           /\ emitted = Frame * d_nsym_frame + d_sym_ctr
<1>1. /\ taken \in Nat /\ coded \in Seq(BlockBit) /\ padded \in Seq(MsgBit)
      /\ emitted \in Nat /\ d_sym_ctr = emitted % d_nsym_frame
  BY LenProperties DEF Types, SenderTypes
<1>2. Frame \in Nat /\ d_sym_ctr \in 0 .. d_nsym_frame - 1 /\ emitted = d_nsym_frame * Frame + d_sym_ctr
  BY <1>1, PlaceType DEF Frame
<1>3. Body \in Nat /\ Blk \in Nat /\ Body >= Blk /\ Blk >= 1 /\ Hdr \in Nat /\ d_nsym_frame \in Nat
  BY Sizes
<1>4. Frame * Body \in Nat /\ emitted = Frame * d_nsym_frame + d_sym_ctr
  BY <1>2, <1>3
<1>5. Out \in Nat
  BY <1>2, <1>3, <1>4 DEF Out
<1> QED BY <1>1, <1>2, <1>3, <1>4, <1>5, LenProperties DEF Total

\* A symbol of a body moves Out on by one, one of a header leaves it.
LEMMA OutStep ==
    ASSUME Types, Emit
    PROVE  /\ Place(emitted).frame = Frame + 1 /\ Place(emitted).at = d_sym_ctr + 1
           /\ d_sym_ctr < Hdr => Out' = Out
           /\ d_sym_ctr >= Hdr => /\ Out' = Out + 1
                                  /\ d_sym_ctr + 1 - Hdr \in 1 .. Body
                                  /\ Out + 1 = Frame * Body + (d_sym_ctr + 1 - Hdr)
<1> DEFINE N == d_nsym_frame
           f == Frame
           a == d_sym_ctr
           g == Frame'
           c == d_sym_ctr'
<1>1. /\ f \in Nat /\ a \in 0 .. N - 1 /\ emitted = f * N + a /\ emitted \in Nat
      /\ N \in Nat /\ Hdr \in Nat /\ Body \in Nat /\ N = Hdr + Body /\ N >= 4 /\ Hdr >= 3
  BY SenderBasics, Sizes
<1>2. emitted' = emitted + 1 /\ c = (a + 1) % N /\ a = emitted % N
  BY DEF Emit, NextCtr, Types, SenderTypes
<1>3. emitted + 1 \in Nat /\ c = (emitted + 1) % N /\ g = (emitted + 1) \div N
  BY <1>1, <1>2, NextPlace DEF Frame
<1>4. g \in Nat /\ c \in 0 .. N - 1 /\ emitted + 1 = N * g + c
  BY <1>3, PlaceType
<1>5. Place(emitted).frame = f + 1 /\ Place(emitted).at = a + 1
  BY <1>1, <1>2, PlaceType DEF Frame
<1>6. Out = f * Body + (IF a < Hdr THEN 0 ELSE a - Hdr)
  BY DEF Out
<1>7. Out' = g * Body + (IF c < Hdr THEN 0 ELSE c - Hdr)
  BY DEF Out
<1> HIDE DEF N, f, a, g, c
<1>8. emitted + 2 = g * N + (c + 1) /\ g * N \in Nat /\ f * N \in Nat /\ f * Body \in Nat
  BY <1>1, <1>4
<1>9. CASE a + 1 < N
  <2>1. f * N + (a + 2) = g * N + (c + 1) /\ a + 2 \in 1 .. N /\ c + 1 \in 1 .. N
    BY <1>1, <1>4, <1>8, <1>9
  <2>2. f = g /\ a + 2 = c + 1
    BY <1>1, <1>4, <2>1, Rows
  <2>3. c = a + 1
    BY <1>1, <1>4, <2>2
  <2>4. g = f
    BY <2>2
  <2>5. CASE a + 1 < Hdr
    <3>1. Out' = f * Body + 0 /\ Out = f * Body + 0
      BY <1>1, <1>6, <1>7, <2>3, <2>4, <2>5
    <3> QED BY <1>1, <1>5, <1>8, <2>5, <3>1 DEF f, a
  <2>6. CASE ~(a + 1 < Hdr)
    <3>1. Out' = f * Body + (a + 1 - Hdr)
      BY <1>1, <1>7, <2>3, <2>4, <2>6
    <3>2. a >= Hdr => Out = f * Body + (a - Hdr)
      BY <1>1, <1>6
    <3>3. a < Hdr => Out = f * Body + 0 /\ a + 1 - Hdr = 0
      BY <1>1, <1>6, <2>6
    <3> QED BY <1>1, <1>5, <1>8, <1>9, <2>6, <3>1, <3>2, <3>3 DEF f, a
  <2> QED BY <2>5, <2>6
<1>10. CASE ~(a + 1 < N)
  <2>1. a + 1 = N
    BY <1>1, <1>10
  <2>2. (f + 1) * N = f * N + N /\ (f + 1) * Body = f * Body + Body /\ f + 1 \in Nat
    BY <1>1, NextRow
  <2>3. (f + 1) * N + 1 = g * N + (c + 1) /\ 1 \in 1 .. N /\ c + 1 \in 1 .. N
    BY <1>1, <1>4, <1>8, <2>1, <2>2
  <2>4. f + 1 = g /\ 1 = c + 1
    BY <1>1, <1>4, <2>2, <2>3, Rows
  <2>5. g = f + 1 /\ c = 0
    BY <1>4, <2>4
  <2>6. Out' = f * Body + Body
    BY <1>1, <1>7, <2>2, <2>5
  <2> QED BY <1>1, <1>5, <1>6, <1>8, <2>1, <2>6 DEF f, a
<1> QED BY <1>9, <1>10

LEMMA PadRight == ASSUME Types, SenderRight, PadZeros, burst' = burst PROVE SenderRight'
<1> DEFINE len == LenOf(burst[taken + 1]) + d_nzeros
           new == MessageBits(taken + 1, len)
           L == Len(padded)
<1>1. /\ taken < Len(burst) /\ taken' = taken + 1 /\ padded' = padded \o new
      /\ UNCHANGED <<coded, d_sym_ctr, emitted>>
  BY DEF PadZeros
<1>2. /\ new \in Seq(MsgBit) /\ Len(new) = len /\ len \in Nat /\ burst[taken + 1] \in Kinds
      /\ \A i \in 1 .. len : new[i] = <<taken + 1, i>>
  BY <1>1, MessageType DEF MessageBits
<1>3. /\ taken \in Nat /\ Len(coded) \in Nat /\ L \in Nat /\ Out \in Nat /\ padded \in Seq(MsgBit)
      /\ Total = Out + Len(coded) + L /\ Body \in Nat /\ Body >= 1
  BY SenderBasics
<1>4. BuiltIn(burst, taken + 1) => BuiltIn(burst, taken) /\ len = Body
  BY <1>2, <1>3, StreamAssumption DEF BuiltIn, Body
<1> HIDE DEF len, new
<1>5. /\ Len(padded') = L + len
      /\ \A i \in 1 .. L : padded'[i] = padded[i]
      /\ \A i \in L + 1 .. L + len : padded'[i] = <<taken + 1, i - L>>
  <2>1. /\ Len(padded \o new) = L + len
        /\ \A i \in 1 .. L + len : (padded \o new)[i] = IF i <= L THEN padded[i] ELSE new[i - L]
    BY <1>2, <1>3, ConcatProperties
  <2>2. \A i \in 1 .. L : padded'[i] = padded[i]
    BY <1>1, <1>2, <1>3, <2>1
  <2>3. ASSUME NEW i \in L + 1 .. L + len PROVE padded'[i] = <<taken + 1, i - L>>
    <3>1. i \in 1 .. L + len /\ ~(i <= L) /\ i - L \in 1 .. len
      BY <1>2, <1>3, <2>3
    <3>2. (padded \o new)[i] = new[i - L]
      BY <2>1, <3>1
    <3> QED BY <1>1, <1>2, <3>1, <3>2
  <2> QED BY <1>1, <2>1, <2>2, <2>3
<1>6. Out' = Out
  BY <1>1 DEF Out, Frame
<1>7. Total' = Total + len
  <2>1. Total' = Out + Len(coded) + (L + len)
    BY <1>1, <1>5, <1>6 DEF Total
  <2> QED BY <1>2, <1>3, <2>1
<1>8. (taken + 1) * Body = taken * Body + Body /\ taken * Body \in Nat
  BY <1>3, NextRow
<1> HIDE DEF L
<1>9. Aligned'
  BY <1>1, <1>6 DEF SenderRight, Aligned
<1>10. BuiltIn(burst, taken + 1) => Total + len = (taken + 1) * Body
  BY <1>3, <1>4, <1>8 DEF SenderRight, AllTaken
<1>11. AllTaken'
  BY <1>1, <1>7, <1>10 DEF AllTaken
<1>12. NoLess'
  <2> SUFFICES ASSUME NEW m \in 0 .. taken, BuiltIn(burst, m + 1) PROVE Total + len >= (m + 1) * Body
    BY <1>1, <1>3, <1>7 DEF NoLess
  <2>1. CASE m = taken
    BY <1>2, <1>3, <1>8, <1>10, <2>1
  <2>2. CASE m < taken
    <3>1. m \in 0 .. taken - 1
      BY <1>3, <2>2
    <3>2. Total >= (m + 1) * Body /\ (m + 1) * Body \in Nat
      BY <1>3, <3>1 DEF SenderRight, NoLess
    <3> QED BY <1>2, <1>3, <3>2
  <2> QED BY <1>3, <2>1, <2>2
<1>13. PendingRight'
  <2> SUFFICES ASSUME NEW m \in 0 .. taken, NEW j \in 1 .. Body, NEW p \in Nat,
                      BuiltIn(burst, m + 1), Out + p = m * Body + j
               PROVE  /\ p \in 1 .. Len(coded) => Fits(coded[p], m, j)
                      /\ p - Len(coded) \in 1 .. Len(padded') => padded'[p - Len(coded)] = <<m + 1, j>>
    <3>1. \A m \in 0 .. taken, j \in 1 .. Body, p \in Nat :
             (BuiltIn(burst, m + 1) /\ Out + p = m * Body + j) =>
                /\ p \in 1 .. Len(coded) => Fits(coded[p], m, j)
                /\ p - Len(coded) \in 1 .. Len(padded') => padded'[p - Len(coded)] = <<m + 1, j>>
      OBVIOUS
    <3>2. coded' = coded /\ taken' - 1 = taken
      BY <1>1, <1>3
    <3> QED BY <1>6, <3>1, <3>2 DEF PendingRight
  <2>1. m * Body \in Nat /\ (m + 1) * Body = m * Body + Body
    BY <1>3, NextRow
  <2>2. CASE m < taken
    <3>1. m \in 0 .. taken - 1
      BY <1>3, <2>2
    <3>2. /\ p \in 1 .. Len(coded) => Fits(coded[p], m, j)
          /\ p - Len(coded) \in 1 .. L => padded[p - Len(coded)] = <<m + 1, j>>
      BY <3>1 DEF SenderRight, PendingRight, L
    <3>3. Total >= m * Body + Body
      BY <2>1, <3>1 DEF SenderRight, NoLess
    <3>4. p - Len(coded) <= L
      BY <1>3, <2>1, <3>3
    <3>5. p - Len(coded) \in 1 .. Len(padded') => p - Len(coded) \in 1 .. L
      BY <1>3, <3>4
    <3> QED BY <1>5, <3>2, <3>5
  <2>3. CASE m = taken
    <3>1. Total = taken * Body /\ len = Body
      BY <1>3, <1>4, <2>3 DEF SenderRight, AllTaken
    <3>2. p - Len(coded) = L + j
      BY <1>3, <1>8, <2>3, <3>1
    <3>3. ~(p \in 1 .. Len(coded)) /\ p - Len(coded) \in L + 1 .. L + len /\ (p - Len(coded)) - L = j
      BY <1>3, <3>1, <3>2
    <3> QED BY <1>5, <2>3, <3>3
  <2> QED BY <1>3, <2>2, <2>3
<1> QED BY <1>9, <1>11, <1>12, <1>13 DEF SenderRight

\* A block that is coded is a block of its message.
LEMMA EncodeRight == ASSUME Types, SenderRight, Encode, burst' = burst PROVE SenderRight'
<1> DEFINE blk == SubSeq(padded, 1, Blk)
           L == Len(padded)
<1>1. /\ coded = <<>> /\ L >= Blk
      /\ coded' = [j \in 1 .. Blk |-> [block |-> blk, j |-> j]]
      /\ padded' = SubSeq(padded, Blk + 1, L)
      /\ UNCHANGED <<taken, d_sym_ctr, emitted>>
  BY DEF Encode
<1>2. /\ taken \in Nat /\ L \in Nat /\ Out \in Nat /\ padded \in Seq(MsgBit) /\ Len(coded) = 0
      /\ Total = Out + L /\ Body \in Nat /\ Blk \in Nat /\ Blk >= 1 /\ K \in Nat
  BY <1>1, SenderBasics, WholeBlocks
<1>3. Out' = Out
  BY <1>1 DEF Out, Frame
<1>4. /\ blk \in Seq(MsgBit) /\ Len(blk) = Blk /\ \A l \in 1 .. Blk : blk[l] = padded[l]
  BY <1>1, <1>2, Piece
<1>5. Len(padded') = L - Blk /\ \A i \in 1 .. L - Blk : padded'[i] = padded[Blk + i]
  <2>1. Blk + 1 \in Nat \ {0} /\ Blk + 1 <= L + 1 /\ L <= L
    BY <1>1, <1>2
  <2>2. /\ Len(SubSeq(padded, Blk + 1, L)) = L - (Blk + 1) + 1
        /\ \A i \in 1 .. L - (Blk + 1) + 1 : SubSeq(padded, Blk + 1, L)[i] = padded[(Blk + 1) + i - 1]
    BY <1>2, <2>1, Piece
  <2>3. L - (Blk + 1) + 1 = L - Blk /\ \A i \in 1 .. L - Blk : (Blk + 1) + i - 1 = Blk + i
    BY <1>2
  <2> QED BY <1>1, <2>2, <2>3
<1> HIDE DEF blk, L
<1>6. Len(coded') = Blk /\ \A l \in 1 .. Blk : coded'[l] = [block |-> blk, j |-> l]
  <2>1. coded' \in [1 .. Blk -> {[block |-> blk, j |-> l] : l \in 1 .. Blk}]
    BY <1>1
  <2>2. Len(coded') = Blk
    BY <1>2, <2>1, SeqDef
  <2> QED BY <1>1, <2>2
<1>7. Total' = Total
  <2>1. Total' = Out + Blk + (L - Blk)
    BY <1>3, <1>5, <1>6 DEF Total
  <2> QED BY <1>2, <2>1
<1>8. PICK y \in Nat : Out = y * Blk
  <2>1. PICK y \in Nat : Out + Len(coded) = y * Blk
    BY DEF SenderRight, Aligned
  <2> QED BY <1>2, <2>1
<1>9. Aligned'
  <2>1. (y + 1) * Blk = y * Blk + Blk /\ y + 1 \in Nat
    BY <1>2, NextRow
  <2>2. Out' + Len(coded') = (y + 1) * Blk
    BY <1>2, <1>3, <1>6, <1>8, <2>1
  <2> QED BY <2>1, <2>2 DEF Aligned
<1>10. AllTaken' /\ NoLess'
  BY <1>1, <1>7 DEF SenderRight, AllTaken, NoLess
<1>11. PendingRight'
  <2> SUFFICES ASSUME NEW m \in 0 .. taken - 1, NEW j \in 1 .. Body, NEW p \in Nat,
                      BuiltIn(burst, m + 1), Out + p = m * Body + j
               PROVE  /\ p \in 1 .. Blk => Fits(coded'[p], m, j)
                      /\ p - Blk \in 1 .. L - Blk => padded'[p - Blk] = <<m + 1, j>>
    <3>1. \A m \in 0 .. taken - 1, j \in 1 .. Body, p \in Nat :
            (BuiltIn(burst, m + 1) /\ Out + p = m * Body + j) =>
                /\ p \in 1 .. Blk => Fits(coded'[p], m, j)
                /\ p - Blk \in 1 .. L - Blk => padded'[p - Blk] = <<m + 1, j>>
      OBVIOUS
    <3>2. taken' = taken /\ Len(coded') = Blk /\ Len(padded') = L - Blk
      BY <1>1, <1>5, <1>6
    <3> QED BY <1>3, <3>1, <3>2 DEF PendingRight
  <2>1. \A i \in 1 .. Body, q \in Nat :
           (Out + q = m * Body + i /\ q \in 1 .. L) => padded[q] = <<m + 1, i>>
    <3> SUFFICES ASSUME NEW i \in 1 .. Body, NEW q \in Nat, Out + q = m * Body + i, q \in 1 .. L
                 PROVE  padded[q] = <<m + 1, i>>
      OBVIOUS
    <3>1. q - Len(coded) = q /\ q - Len(coded) \in 1 .. Len(padded)
      BY <1>2 DEF L
    <3>2. padded[q - Len(coded)] = <<m + 1, i>>
      BY <3>1 DEF SenderRight, PendingRight
    <3> QED BY <3>1, <3>2
  <2>2. ASSUME p \in 1 .. Blk PROVE Fits(coded'[p], m, j)
    <3>1. m \in Nat /\ y * Blk + p = m * Body + j
      BY <1>2, <1>8
    <3>2. PICK b \in 0 .. K - 1 : j = b * Blk + p /\ y * Blk = m * Body + b * Blk
      BY <2>2, <3>1, SameBlock
    <3>3. b \in Nat /\ b * Blk \in Nat /\ m * Body \in Nat /\ \A i \in 1 .. Blk : b * Blk + i \in 1 .. Body
      <4>1. b \in Nat /\ b * Blk + p <= Body
        BY <1>2, <3>2
      <4>2. \A i \in 1 .. Blk : b * Blk + i \in 1 .. Body
        BY <2>2, <4>1, BlockInFrame
      <4> QED BY <1>2, <3>1, <4>1, <4>2
    <3>4. \A l \in 1 .. Blk : blk[l] = <<m + 1, b * Blk + l>>
      <4> SUFFICES ASSUME NEW l \in 1 .. Blk PROVE blk[l] = <<m + 1, b * Blk + l>>
        OBVIOUS
      <4>1. l \in Nat /\ l \in 1 .. L /\ Out + l = m * Body + (b * Blk + l)
        BY <1>1, <1>2, <1>8, <3>2, <3>3 DEF L
      <4>2. padded[l] = <<m + 1, b * Blk + l>>
        BY <2>1, <3>3, <4>1
      <4> QED BY <1>4, <4>2
    <3>5. blk = Block(m, b)
      <4>1. Block(m, b) \in [1 .. Blk -> Nat \X Nat]
        BY <1>2, <3>1, <3>3 DEF Block
      <4>2. Block(m, b) \in Seq(Nat \X Nat) /\ Len(Block(m, b)) = Blk
        BY <1>2, <4>1, SeqDef
      <4>3. \A l \in 1 .. Blk : Block(m, b)[l] = <<m + 1, b * Blk + l>>
        BY DEF Block
      <4>4. MsgBit \subseteq Nat \X Nat
        <5>1. Len(burst) \in Nat
          BY LenProperties DEF Types, SenderTypes
        <5> QED BY <5>1 DEF MsgBit
      <4>5. blk \in Seq(Nat \X Nat)
        BY <1>4, <4>4, SeqMonotonic
      <4> HIDE DEF Block
      <4> QED BY <1>4, <3>4, <4>2, <4>3, <4>5, SeqEqual
    <3>6. coded'[p].block = Block(m, b) /\ coded'[p].j = p
      BY <1>6, <2>2, <3>5
    <3> QED BY <2>2, <3>2, <3>6 DEF Fits
  <2>3. ASSUME p - Blk \in 1 .. L - Blk PROVE padded'[p - Blk] = <<m + 1, j>>
    <3>1. p \in 1 .. L /\ Blk + (p - Blk) = p
      BY <1>2, <2>3
    <3>2. padded[p] = <<m + 1, j>>
      BY <2>1, <3>1
    <3> QED BY <1>5, <2>3, <3>1, <3>2
  <2> QED BY <2>2, <2>3
<1> QED BY <1>9, <1>10, <1>11 DEF SenderRight

\* A symbol of a header leaves what is to be emitted, one of a body is its first.
LEMMA EmitRight == ASSUME Types, SenderRight, Emit, burst' = burst PROVE SenderRight'
<1>1. /\ coded # <<>> /\ coded' = (IF d_sym_ctr < Hdr THEN coded ELSE Tail(coded))
      /\ UNCHANGED <<taken, padded>>
  BY DEF Emit
<1>2. /\ taken \in Nat /\ Len(coded) \in Nat /\ Len(padded) \in Nat /\ Out \in Nat
      /\ coded \in Seq(BlockBit) /\ Total = Out + Len(coded) + Len(padded)
      /\ Body \in Nat /\ d_sym_ctr \in Nat /\ Hdr \in Nat
  BY SenderBasics, Sizes
<1>3. CASE d_sym_ctr < Hdr
  <2>1. Out' = Out /\ UNCHANGED <<coded, padded, taken>>
    BY <1>1, <1>3, OutStep
  <2>2. Total' = Total
    BY <2>1 DEF Total
  <2>3. Aligned' /\ AllTaken' /\ NoLess'
    BY <2>1, <2>2 DEF SenderRight, Aligned, AllTaken, NoLess
  <2>4. PendingRight'
    BY <2>1 DEF SenderRight, PendingRight
  <2> QED BY <2>3, <2>4 DEF SenderRight
<1>4. CASE ~(d_sym_ctr < Hdr)
  <2>1. Out' = Out + 1
    BY <1>2, <1>4, OutStep
  <2>2. /\ Len(coded) >= 1 /\ Len(coded') = Len(coded) - 1
        /\ \A i \in 1 .. Len(coded) - 1 : coded'[i] = coded[i + 1]
    <3>1. coded' = Tail(coded)
      BY <1>1, <1>4
    <3> QED BY <1>1, <1>2, <3>1, HeadTailProperties, EmptySeq
  <2>3. Out' + Len(coded') = Out + Len(coded) /\ Total' = Total
    <3>1. Total' = Out' + Len(coded') + Len(padded)
      BY <1>1 DEF Total
    <3> QED BY <1>2, <2>1, <2>2, <3>1
  <2>4. Aligned' /\ AllTaken' /\ NoLess'
    BY <1>1, <2>3 DEF SenderRight, Aligned, AllTaken, NoLess
  <2>5. PendingRight'
    <3> SUFFICES ASSUME NEW m \in 0 .. taken - 1, NEW j \in 1 .. Body, NEW p \in Nat,
                        BuiltIn(burst, m + 1), Out + 1 + p = m * Body + j
                 PROVE  /\ p \in 1 .. Len(coded) - 1 => Fits(coded'[p], m, j)
                        /\ p - (Len(coded) - 1) \in 1 .. Len(padded) =>
                              padded[p - (Len(coded) - 1)] = <<m + 1, j>>
      <4>1. \A m \in 0 .. taken - 1, j \in 1 .. Body, p \in Nat :
              (BuiltIn(burst, m + 1) /\ Out + 1 + p = m * Body + j) =>
                  /\ p \in 1 .. Len(coded) - 1 => Fits(coded'[p], m, j)
                  /\ p - (Len(coded) - 1) \in 1 .. Len(padded) =>
                        padded[p - (Len(coded) - 1)] = <<m + 1, j>>
        OBVIOUS
      <4>2. taken' = taken /\ padded' = padded /\ Len(coded') = Len(coded) - 1
        BY <1>1, <2>2
      <4> QED BY <2>1, <4>1, <4>2 DEF PendingRight
    <3>1. p + 1 \in Nat /\ Out + (p + 1) = m * Body + j
      BY <1>2
    <3>2. /\ p + 1 \in 1 .. Len(coded) => Fits(coded[p + 1], m, j)
          /\ (p + 1) - Len(coded) \in 1 .. Len(padded) => padded[(p + 1) - Len(coded)] = <<m + 1, j>>
      BY <3>1 DEF SenderRight, PendingRight
    <3>3. (p + 1) - Len(coded) = p - (Len(coded) - 1)
      BY <1>2
    <3>4. p \in 1 .. Len(coded) - 1 => p + 1 \in 1 .. Len(coded)
      BY <1>2
    <3> QED BY <2>2, <3>2, <3>3, <3>4
  <2> QED BY <2>4, <2>5 DEF SenderRight
<1> QED BY <1>3, <1>4

LEMMA SenderRightStep == ASSUME Types, SenderRight, [Next]_vars PROVE SenderRight'
<1>1. burst' = burst
  BY SenderTypesStep
<1>2. CASE UNCHANGED txVars
  <2>1. UNCHANGED <<taken, padded, coded, d_sym_ctr, emitted>>
    BY <1>2 DEF txVars
  <2>2. Out' = Out /\ Total' = Total
    BY <2>1 DEF Out, Frame, Total
  <2>3. Aligned' /\ AllTaken' /\ NoLess'
    BY <1>1, <2>1, <2>2 DEF SenderRight, Aligned, AllTaken, NoLess
  <2>4. PendingRight'
    BY <1>1, <2>1, <2>2 DEF SenderRight, PendingRight
  <2> QED BY <2>3, <2>4 DEF SenderRight
<1> QED
  BY <1>1, <1>2, PadRight, EncodeRight, EmitRight
  DEF Next, Tag, Receive, BufferDrops, BufferReturns, BufferConsumes, Decode, vars

LEMMA SenderRightInit == ASSUME Init PROVE SenderRight
<1>1. /\ taken = 0 /\ padded = <<>> /\ coded = <<>> /\ d_sym_ctr = 0 /\ emitted = 0
  BY DEF Init
<1>2. Types
  BY TypesInit
<1>3. /\ Frame \in Nat /\ 0 = Frame * d_nsym_frame + 0 /\ d_nsym_frame >= 4 /\ d_nsym_frame \in Nat
      /\ Hdr >= 3 /\ Hdr \in Nat /\ Body \in Nat /\ Blk \in Nat
  BY <1>1, <1>2, SenderBasics, Sizes
<1>4. Frame = 0
  <2>1. ASSUME Frame # 0 PROVE FALSE
    <3>1. 0 < Frame
      BY <1>3, <2>1
    <3>2. 0 * d_nsym_frame + d_nsym_frame <= Frame * d_nsym_frame /\ Frame * d_nsym_frame \in Nat
      BY <1>3, <3>1, RowAfter
    <3> QED BY <1>3, <3>2
  <2> QED BY <2>1
<1>5. Out = 0 /\ Total = 0
  BY <1>1, <1>3, <1>4 DEF Out, Total
<1>6. Aligned
  BY <1>1, <1>3, <1>5 DEF Aligned
<1>7. AllTaken /\ NoLess /\ PendingRight
  BY <1>1, <1>3, <1>5 DEF AllTaken, NoLess, PendingRight
<1> QED BY <1>6, <1>7 DEF SenderRight

-----------------------------------------------------------------------------
\* A symbol of a body that the radio has left alone is where its place says.
Right(b, x) ==
    (x.place.frame # 0 /\ BuiltIn(b, x.place.frame) /\ x.place.at > Hdr) =>
        Fits(x.symbol, x.place.frame - 1, x.place.at - Hdr)

StreamRight ==
    /\ \A i \in 1 .. Len(heard) : Right(burst, heard[i])
    /\ \A i \in 1 .. Len(tagged) : Right(burst, tagged[i])

LEMMA EmitsRight ==
    ASSUME Types, SenderRight, Emit, NEW x \in Item,
           \/ x.place = [frame |-> 0, at |-> 0]
           \/ /\ x.place = Place(emitted)
              /\ d_sym_ctr >= Hdr => x.symbol = Coded(coded[1])
    PROVE  Right(burst, x)
<1> SUFFICES ASSUME x.place.frame # 0, BuiltIn(burst, x.place.frame), x.place.at > Hdr
             PROVE  Fits(x.symbol, x.place.frame - 1, x.place.at - Hdr)
  BY DEF Right
<1> DEFINE a == d_sym_ctr + 1 - Hdr
<1>1. x.place = Place(emitted)
  OBVIOUS
<1>2. /\ taken \in Nat /\ Len(coded) \in Nat /\ Len(padded) \in Nat /\ Out \in Nat
      /\ coded \in Seq(BlockBit) /\ Total = Out + Len(coded) + Len(padded)
      /\ Body \in Nat /\ d_sym_ctr \in Nat /\ Hdr \in Nat /\ Frame \in Nat
  BY SenderBasics, Sizes
<1>3. x.place.frame = Frame + 1 /\ x.place.at = d_sym_ctr + 1
  BY <1>1, OutStep
<1>4. d_sym_ctr >= Hdr
  BY <1>2, <1>3
<1>5. a \in 1 .. Body /\ Out + 1 = Frame * Body + a
  BY <1>4, OutStep
<1>6. x.symbol = Coded(coded[1])
  <2>1. x.place.frame # 0
    OBVIOUS
  <2>2. x.place # [frame |-> 0, at |-> 0]
    BY <2>1
  <2> QED BY <1>4, <2>2
<1>7. x.place.frame - 1 = Frame /\ x.place.at - Hdr = a
  BY <1>2, <1>3
<1> HIDE DEF a
<1>8. Len(coded) >= 1
  <2>1. coded # <<>>
    BY DEF Emit
  <2> QED BY <1>2, <2>1, EmptySeq
<1>9. BuiltIn(burst, Frame + 1)
  BY <1>3
<1>10. Frame < taken
  <2>1. ASSUME taken <= Frame PROVE FALSE
    <3>1. BuiltIn(burst, taken)
      BY <1>2, <1>9, <2>1 DEF BuiltIn
    <3>2. Total = taken * Body
      BY <3>1 DEF SenderRight, AllTaken
    <3>3. taken * Body <= Frame * Body /\ taken * Body \in Nat /\ Frame * Body \in Nat
      <4>1. CASE taken = Frame
        BY <1>2, <4>1
      <4>2. CASE taken < Frame
        <5>1. taken * Body + Body <= Frame * Body /\ taken * Body \in Nat /\ Frame * Body \in Nat
          BY <1>2, <4>2, RowAfter
        <5> QED BY <1>2, <5>1
      <4> QED BY <1>2, <2>1, <4>1, <4>2
    <3> QED BY <1>2, <1>5, <1>8, <3>2, <3>3
  <2> QED BY <1>2, <2>1
<1>11. Fits(coded[1], Frame, a)
  <2>1. Frame \in 0 .. taken - 1 /\ 1 \in Nat /\ 1 \in 1 .. Len(coded)
    BY <1>2, <1>8, <1>10
  <2> QED BY <1>5, <1>9, <2>1 DEF SenderRight, PendingRight
<1>12. Coded(coded[1]).block = coded[1].block /\ Coded(coded[1]).j = coded[1].j
  BY DEF Coded
<1>13. Fits(Coded(coded[1]), Frame, a)
  BY <1>11, <1>12 DEF Fits
<1> QED BY <1>6, <1>7, <1>13

LEMMA StreamRightStep == ASSUME Types, SenderRight, StreamRight, [Next]_vars PROVE StreamRight'
<1>1. burst' = burst
  BY SenderTypesStep
<1>2. Len(heard) \in Nat /\ Len(tagged) \in Nat /\ heard \in Seq(Item)
  BY LenProperties DEF Types, StreamTypes
<1>3. CASE Emit
  <2>1. tagged' = tagged
    BY <1>3 DEF Emit
  <2>2. CASE heard' = heard
    BY <1>1, <2>1, <2>2 DEF StreamRight
  <2>3. CASE heard' # heard
    <3>1. PICK e \in Item :
            /\ heard' = Append(heard, e)
            /\ \/ /\ e.place = Place(emitted)
                  /\ d_sym_ctr >= Hdr => e.symbol = Coded(coded[1])
               \/ e.place = [frame |-> 0, at |-> 0]
      BY <1>3, <2>3, EmitAppends
    <3>2. Right(burst, e)
      BY <1>3, <3>1, EmitsRight
    <3>3. /\ Len(heard') = Len(heard) + 1 /\ heard'[Len(heard) + 1] = e
          /\ \A i \in 1 .. Len(heard) : heard'[i] = heard[i]
      BY <1>2, <3>1, AppendProperties
    <3>4. ASSUME NEW i \in 1 .. Len(heard') PROVE Right(burst, heard'[i])
      <4>1. i \in 1 .. Len(heard) \/ i = Len(heard) + 1
        BY <1>2, <3>3
      <4> QED BY <3>2, <3>3, <4>1 DEF StreamRight
    <3> QED BY <1>1, <2>1, <3>4 DEF StreamRight
  <2> QED BY <2>2, <2>3
<1>4. CASE Tag
  <2>1. /\ Hop <= Len(heard) /\ Hop \in Nat
        /\ Len(heard') = Len(heard) - Hop /\ Len(tagged') = Len(tagged) + Hop
        /\ \A i \in 1 .. Len(tagged) : tagged'[i] = tagged[i]
        /\ \A i \in 1 .. Hop : /\ tagged'[Len(tagged) + i].place = heard[i].place
                              /\ tagged'[Len(tagged) + i].symbol = heard[i].symbol
        /\ \A i \in 1 .. Len(heard) - Hop : heard'[i] = heard[Hop + i]
    BY <1>4, TagPasses
  <2>2. ASSUME NEW i \in 1 .. Len(heard') PROVE Right(burst, heard'[i])
    <3>1. i \in 1 .. Len(heard) - Hop /\ Hop + i \in 1 .. Len(heard)
      BY <1>2, <2>1
    <3>2. Right(burst, heard[Hop + i])
      BY <3>1 DEF StreamRight
    <3> QED BY <2>1, <3>1, <3>2
  <2>3. ASSUME NEW i \in 1 .. Len(tagged') PROVE Right(burst, tagged'[i])
    <3>1. CASE i <= Len(tagged)
      <4>1. i \in 1 .. Len(tagged)
        BY <1>2, <3>1
      <4> QED BY <2>1, <4>1 DEF StreamRight
    <3>2. CASE ~(i <= Len(tagged))
      <4> DEFINE j == i - Len(tagged)
      <4>1. j \in 1 .. Hop /\ j \in 1 .. Len(heard) /\ i = Len(tagged) + j
        BY <1>2, <2>1, <3>2
      <4> HIDE DEF j
      <4>2. tagged'[i].place = heard[j].place /\ tagged'[i].symbol = heard[j].symbol
        BY <2>1, <4>1
      <4>3. Right(burst, heard[j])
        BY <4>1 DEF StreamRight
      <4> QED BY <4>2, <4>3 DEF Right
    <3> QED BY <3>1, <3>2
  <2> QED BY <1>1, <2>2, <2>3 DEF StreamRight
<1>5. ASSUME NEW k \in Nat, k <= Len(tagged), Consume(k), heard' = heard PROVE StreamRight'
  <2>1. Len(tagged') = Len(tagged) - k /\ \A i \in 1 .. Len(tagged) - k : tagged'[i] = tagged[k + i]
    BY <1>5, ConsumeType
  <2>2. ASSUME NEW i \in 1 .. Len(tagged') PROVE Right(burst, tagged'[i])
    <3>1. i \in 1 .. Len(tagged) - k /\ k + i \in 1 .. Len(tagged)
      BY <1>2, <1>5, <2>1
    <3>2. Right(burst, tagged[k + i])
      BY <3>1 DEF StreamRight
    <3> QED BY <2>1, <3>1, <3>2
  <2> QED BY <1>1, <1>5, <2>2 DEF StreamRight
<1>6. CASE UNCHANGED <<heard, tagged>>
  BY <1>1, <1>6 DEF StreamRight
<1>7. CASE Receive
  <2>1. heard' = heard
    BY <1>7 DEF Receive, BufferDrops, BufferReturns, BufferConsumes
  <2>2. CASE BufferReturns /\ Consume(BehindFrame) /\ BehindFrame \in Nat /\ First \in Nat
             /\ First + d_nsym_frame <= Len(tagged)
    <3>1. BehindFrame <= Len(tagged)
      BY <2>2 DEF BehindFrame
    <3> QED BY <1>5, <2>1, <2>2, <3>1
  <2> QED BY <1>5, <1>6, <1>7, <2>1, <2>2, ReceiveConsumes
<1> QED BY <1>3, <1>4, <1>6, <1>7 DEF Next, PadZeros, Encode, Decode, vars, txVars

LEMMA StreamRightInit == ASSUME Init PROVE StreamRight
<1>1. heard = <<>> /\ \A i \in 1 .. Len(tagged) : tagged[i] = NoSymbol
  BY IdleType DEF Init
<1>2. Right(burst, NoSymbol)
  BY DEF Right, NoSymbol
<1> QED BY <1>1, <1>2 DEF StreamRight

-----------------------------------------------------------------------------
\* The bits in d_buf and the symbols behind them are those of the frames cut.
ArrivedRight ==
    \A p \in 0 .. Len(cut) - 1, j \in 1 .. Body, q \in Nat :
        (cut[p + 1] # 0 /\ BuiltIn(burst, cut[p + 1]) /\ Len(published) * Body + q = p * Body + j) =>
            /\ q \in 1 .. Len(d_buf) => d_buf[q] = <<cut[p + 1], j>>
            /\ q - Len(d_buf) \in 1 .. Len(rx) => Fits(rx[q - Len(d_buf)], cut[p + 1] - 1, j)

AllCounted == Len(published) * Body + Len(d_buf) + Len(rx) = Len(cut) * Body

Intact ==
    \A p \in 1 .. Len(published) :
        (cut[p] # 0 /\ BuiltIn(burst, cut[p])) => published[p] = MessageBits(cut[p], d_phr_payload_len)

ReceiverRight ==
    /\ published \in Seq(Seq(AnyBit))
    /\ AllCounted
    /\ \E z \in 0 .. K - 1 : Len(d_buf) = z * Blk
    /\ ArrivedRight
    /\ Intact

LEMMA ReceiverBasics ==
    ASSUME Types, ReceiverRight
    PROVE  /\ Len(published) \in Nat /\ Len(d_buf) \in Nat /\ Len(rx) \in Nat /\ Len(cut) \in Nat
           /\ d_buf \in Seq(AnyBit) /\ rx \in Seq(Symbol) /\ cut \in Seq(Nat)
           /\ Body \in Nat /\ Blk \in Nat /\ Body >= 1 /\ Blk >= 1 /\ K \in Nat /\ Body = K * Blk
           /\ Len(published) * Body \in Nat /\ Len(cut) * Body \in Nat
           /\ Len(published) * Body + Len(d_buf) + Len(rx) = Len(cut) * Body
           /\ Len(published) <= Len(cut)
           /\ \A p \in 1 .. Len(cut) : cut[p] \in Nat
<1>1. /\ Len(published) \in Nat /\ Len(d_buf) \in Nat /\ Len(rx) \in Nat /\ Len(cut) \in Nat
      /\ d_buf \in Seq(AnyBit) /\ rx \in Seq(Symbol) /\ cut \in Seq(Nat)
  BY LenProperties DEF Types, StreamTypes, ReceiverRight
<1>2. Body \in Nat /\ Blk \in Nat /\ Body >= 1 /\ Blk >= 1 /\ K \in Nat /\ Body = K * Blk
  BY Sizes, WholeBlocks
<1>3. Len(published) * Body \in Nat /\ Len(cut) * Body \in Nat
  BY <1>1, <1>2
<1>4. Len(published) * Body + Len(d_buf) + Len(rx) = Len(cut) * Body
  BY DEF ReceiverRight, AllCounted
<1>5. Len(published) <= Len(cut)
  <2>1. ASSUME Len(cut) < Len(published) PROVE FALSE
    <3>1. Len(cut) * Body + Body <= Len(published) * Body
      BY <1>1, <1>2, <2>1, RowAfter
    <3> QED BY <1>1, <1>2, <1>3, <1>4, <3>1
  <2> QED BY <1>1, <2>1
<1>6. \A p \in 1 .. Len(cut) : cut[p] \in Nat
  BY <1>1, ElementOfSeq
<1> QED BY <1>1, <1>2, <1>3, <1>4, <1>5, <1>6

\* A frame that leaves the buffer whole brings its symbols in order.
LEMMA ReturnRight ==
    ASSUME Types, StreamRight, ReceiverRight, BufferReturns, burst' = burst
    PROVE  ReceiverRight'
<1> DEFINE P == Len(published)
           d == Len(d_buf)
           r == Len(rx)
           c == Len(cut)
<1>1. UNCHANGED <<d_buf, published>>
  BY DEF BufferReturns
<1>2. PICK piece \in Seq(Item) :
         /\ Len(piece) = d_nsym_frame
         /\ \A i \in 1 .. d_nsym_frame : piece[i] = tagged[First + i]
         /\ cut' = Append(cut, FrameIs(piece))
         /\ Len(rx') = r + Body
         /\ \A i \in 1 .. r : rx'[i] = rx[i]
         /\ \A i \in 1 .. Body : rx'[r + i] = piece[Hdr + i].symbol
  BY ReturnTypes
<1> DEFINE f == FrameIs(piece)
<1>3. /\ P \in Nat /\ d \in Nat /\ r \in Nat /\ c \in Nat /\ Body \in Nat /\ Body >= 1
      /\ P * Body \in Nat /\ c * Body \in Nat /\ P * Body + d + r = c * Body /\ P <= c
      /\ cut \in Seq(Nat)
  BY ReceiverBasics
<1>4. /\ First \in Nat /\ First + d_nsym_frame <= Len(tagged) /\ Len(tagged) \in Nat
      /\ d_nsym_frame = Hdr + Body /\ Hdr \in Nat
  BY TagsInRange, Sizes DEF BufferReturns
<1>5. f \in Nat /\ (f # 0 => \A i \in 1 .. d_nsym_frame : tagged[First + i].place = [frame |-> f, at |-> i])
  <2>1. piece[1] \in Item
    <3>1. d_nsym_frame \in Nat /\ d_nsym_frame >= 4
      BY Sizes
    <3>2. piece \in Seq(Item) /\ Len(piece) = d_nsym_frame
      BY <1>2
    <3>3. 1 \in 1 .. Len(piece)
      BY <3>1, <3>2
    <3> QED
      BY <3>2, <3>3, ElementOfSeq
  <2>2. f \in Nat
    BY <2>1 DEF FrameIs, Item
  <2>3. f # 0 => \A i \in 1 .. d_nsym_frame : piece[i].place = [frame |-> f, at |-> i]
    BY <1>2, Zenon DEF FrameIs
  <2> HIDE DEF f
  <2> QED BY <1>2, <2>2, <2>3
<1>6. cut' = Append(cut, f)
  BY <1>2, Zenon
<1>7. ASSUME f # 0, BuiltIn(burst, f), NEW j \in 1 .. Body PROVE Fits(rx'[r + j], f - 1, j)
  <2>1. /\ Hdr + j \in 1 .. d_nsym_frame /\ First + (Hdr + j) \in 1 .. Len(tagged)
        /\ Hdr + j > Hdr /\ (Hdr + j) - Hdr = j
    BY <1>3, <1>4
  <2> DEFINE x == tagged[First + (Hdr + j)]
  <2>2. x.place = [frame |-> f, at |-> Hdr + j]
    BY <1>5, <1>7, <2>1
  <2>3. Right(burst, x)
    BY <2>1 DEF StreamRight
  <2>4. rx'[r + j] = x.symbol
    <3>1. rx'[r + j] = piece[Hdr + j].symbol
      BY <1>2
    <3>2. piece[Hdr + j] = x
      BY <1>2, <2>1
    <3> QED BY <3>1, <3>2
  <2> HIDE DEF x, f
  <2>5. x.place.frame = f /\ x.place.at = Hdr + j
    BY <2>2
  <2>6. Fits(x.symbol, f - 1, j)
    BY <1>7, <2>1, <2>3, <2>5 DEF Right
  <2> QED BY <2>4, <2>6
<1> HIDE DEF f
<1>8. /\ Len(cut') = c + 1 /\ cut'[c + 1] = f /\ \A i \in 1 .. c : cut'[i] = cut[i]
  BY <1>3, <1>5, <1>6, AppendProperties
<1>9. (c + 1) * Body = c * Body + Body
  BY <1>3, NextRow
<1> HIDE DEF P, d, r, c
<1>10. AllCounted'
  <2>1. P * Body + d + (r + Body) = (c + 1) * Body
    BY <1>3, <1>9
  <2> QED BY <1>1, <1>2, <1>8, <2>1 DEF AllCounted, P, d
<1>11. ArrivedRight'
  <2> SUFFICES ASSUME NEW p \in 0 .. c, NEW j \in 1 .. Body, NEW q \in Nat,
                      cut'[p + 1] # 0, BuiltIn(burst, cut'[p + 1]), P * Body + q = p * Body + j
               PROVE  /\ q \in 1 .. d => d_buf[q] = <<cut'[p + 1], j>>
                      /\ q - d \in 1 .. r + Body => Fits(rx'[q - d], cut'[p + 1] - 1, j)
    <3>1. \A p \in 0 .. c, j \in 1 .. Body, q \in Nat :
             (cut'[p + 1] # 0 /\ BuiltIn(burst, cut'[p + 1]) /\ P * Body + q = p * Body + j) =>
               /\ q \in 1 .. d => d_buf[q] = <<cut'[p + 1], j>>
               /\ q - d \in 1 .. r + Body => Fits(rx'[q - d], cut'[p + 1] - 1, j)
      OBVIOUS
    <3>2. Len(cut') - 1 = c /\ Len(published') = P /\ Len(d_buf') = d /\ Len(rx') = r + Body
          /\ d_buf' = d_buf /\ burst' = burst
      BY <1>1, <1>2, <1>3, <1>8 DEF P, d
    <3> QED BY <3>1, <3>2 DEF ArrivedRight
  <2>1. CASE p < c
    <3>1. p \in 0 .. c - 1 /\ cut'[p + 1] = cut[p + 1]
      BY <1>3, <1>8, <2>1
    <3>2. /\ q \in 1 .. d => d_buf[q] = <<cut[p + 1], j>>
          /\ q - d \in 1 .. r => Fits(rx[q - d], cut[p + 1] - 1, j)
      BY <3>1 DEF ReceiverRight, ArrivedRight, P, d, r, c
    <3>3. p * Body + Body <= c * Body /\ p * Body \in Nat
      BY <1>3, <2>1, RowAfter
    <3>4. q - d \in 1 .. r + Body => q - d \in 1 .. r
      BY <1>3, <3>3
    <3> QED BY <1>2, <3>1, <3>2, <3>4
  <2>2. CASE p = c
    <3>1. cut'[p + 1] = f
      BY <1>8, <2>2
    <3>2. q - d = r + j /\ ~(q \in 1 .. d)
      BY <1>3, <2>2
    <3> QED BY <1>7, <3>1, <3>2
  <2> QED BY <1>3, <2>1, <2>2
<1>12. Intact'
  <2> SUFFICES ASSUME NEW p \in 1 .. P, cut'[p] # 0, BuiltIn(burst, cut'[p])
               PROVE  published[p] = MessageBits(cut'[p], d_phr_payload_len)
    BY <1>1 DEF Intact, P
  <2>1. p \in 1 .. c
    BY <1>3
  <2>2. cut'[p] = cut[p]
    BY <1>8, <2>1
  <2> QED BY <2>2 DEF ReceiverRight, Intact, P
<1> QED BY <1>1, <1>10, <1>11, <1>12 DEF ReceiverRight

\* The bits that one block of symbols gives.
LEMMA BlockDecodes ==
    ASSUME NEW s \in Seq(Symbol), Len(s) = Blk, NEW m \in Nat, NEW b \in 0 .. K - 1,
           \A l \in 1 .. Blk : Fits(s[l], m, b * Blk + l)
    PROVE  Bits(s) = Block(m, b)
<1>1. Blk \in Nat /\ Blk >= 1 /\ K \in Nat /\ b \in Nat
  BY Sizes, WholeBlocks
<1>2. ASSUME NEW l \in 1 .. Blk PROVE s[l].block = Block(m, b) /\ s[l].j = l
  <2>1. PICK e \in 0 .. K - 1, i \in 1 .. Blk :
           b * Blk + l = e * Blk + i /\ s[l].block = Block(m, e) /\ s[l].j = i
    BY DEF Fits
  <2>2. e \in Nat
    BY <1>1
  <2>4. b * Blk + l = e * Blk + i /\ Blk \in Nat /\ b \in Nat
    BY <1>1, <2>1
  <2>3. b = e /\ l = i
    BY <2>2, <2>4, Rows
  <2> QED BY <2>1, <2>3
<1>3. 1 \in 1 .. Blk
  BY <1>1
<1> QED BY <1>2, <1>3 DEF Bits

LEMMA DecodeRight ==
    ASSUME Types, ReceiverRight, Decode, burst' = burst PROVE ReceiverRight'
<1> DEFINE P == Len(published)
           d == Len(d_buf)
           r == Len(rx)
           sub == SubSeq(rx, 1, Blk)
           in == d_buf \o Bits(sub)
<1>1. /\ r >= Blk /\ rx' = SubSeq(rx, Blk + 1, r) /\ cut' = cut
      /\ Len(in) >= Body => /\ published' = Append(published, SubSeq(in, 1, d_phr_payload_len))
                            /\ d_buf' = SubSeq(in, Body + 1, Len(in))
      /\ ~(Len(in) >= Body) => d_buf' = in /\ published' = published
  BY DEF Decode, Rest
<1>2. /\ P \in Nat /\ d \in Nat /\ r \in Nat /\ Len(cut) \in Nat
      /\ d_buf \in Seq(AnyBit) /\ rx \in Seq(Symbol)
      /\ Body \in Nat /\ Blk \in Nat /\ Body >= 1 /\ Blk >= 1 /\ K \in Nat /\ Body = K * Blk
      /\ P * Body \in Nat /\ Len(cut) * Body \in Nat /\ P * Body + d + r = Len(cut) * Body
      /\ P <= Len(cut) /\ \A p \in 1 .. Len(cut) : cut[p] \in Nat
  BY ReceiverBasics
<1>3. PICK z \in 0 .. K - 1 : d = z * Blk
  BY DEF ReceiverRight
<1>4. z \in Nat /\ (z + 1) * Blk = d + Blk
  <2>1. z \in Nat
    BY <1>2
  <2>2. (z + 1) * Blk = z * Blk + Blk
    BY <1>2, <2>1, NextRow
  <2> QED BY <1>3, <2>1, <2>2
<1>5. /\ sub \in Seq(Symbol) /\ Len(sub) = Blk /\ \A l \in 1 .. Blk : sub[l] = rx[l]
  BY <1>1, <1>2, Piece
<1> HIDE DEF sub
<1>6. Bits(sub) \in Seq(AnyBit) /\ Len(Bits(sub)) = Blk
  BY <1>5, BitsType
<1>7. /\ in \in Seq(AnyBit) /\ Len(in) = d + Blk
      /\ \A q \in 1 .. d : in[q] = d_buf[q]
      /\ \A l \in 1 .. Blk : in[d + l] = Bits(sub)[l]
  <2> DEFINE bits == Bits(sub)
  <2>4. d_buf \in Seq(AnyBit) /\ bits \in Seq(AnyBit) /\ Len(bits) = Blk
    BY <1>2, <1>6
  <2>1. /\ in \in Seq(AnyBit) /\ Len(in) = d + Blk
        /\ \A q \in 1 .. d + Blk : in[q] = IF q <= d THEN d_buf[q] ELSE bits[q - d]
    <3> DEFINE t == d_buf \o bits
    <3> HIDE DEF bits
    <3>1. /\ t \in Seq(AnyBit) /\ Len(t) = Len(d_buf) + Len(bits)
          /\ \A q \in 1 .. Len(d_buf) + Len(bits) :
                t[q] = IF q <= Len(d_buf) THEN d_buf[q] ELSE bits[q - Len(d_buf)]
      BY <2>4, ConcatProperties
    <3>2. in = t
      BY DEF bits
    <3> HIDE DEF t
    <3> QED BY <2>4, <3>1, <3>2
  <2> HIDE DEF in
  <2>2. \A q \in 1 .. d : in[q] = d_buf[q]
    BY <1>2, <2>1
  <2>3. ASSUME NEW l \in 1 .. Blk PROVE in[d + l] = Bits(sub)[l]
    <3>1. d + l \in 1 .. d + Blk /\ ~(d + l <= d) /\ (d + l) - d = l
      BY <1>2
    <3> QED BY <2>1, <3>1
  <2> QED BY <2>1, <2>2, <2>3
<1>8. Len(rx') = r - Blk /\ \A i \in 1 .. r - Blk : rx'[i] = rx[Blk + i]
  <2>1. Blk + 1 \in Nat \ {0} /\ Blk + 1 <= r + 1 /\ r <= r
    BY <1>1, <1>2
  <2>2. /\ Len(SubSeq(rx, Blk + 1, r)) = r - (Blk + 1) + 1
        /\ \A i \in 1 .. r - (Blk + 1) + 1 : SubSeq(rx, Blk + 1, r)[i] = rx[(Blk + 1) + i - 1]
    BY <1>2, <2>1, Piece
  <2>3. r - (Blk + 1) + 1 = r - Blk /\ \A i \in 1 .. r - Blk : (Blk + 1) + i - 1 = Blk + i
    BY <1>2
  <2> QED BY <1>1, <2>2, <2>3
<1> HIDE DEF in, P, d, r
\* What the sums below need, without products.
<1>8a. /\ P \in Nat /\ d \in Nat /\ r \in Nat /\ Body \in Nat /\ Blk \in Nat /\ Blk >= 1
       /\ P * Body \in Nat /\ Len(cut) * Body \in Nat /\ P * Body + d + r = Len(cut) * Body
  BY <1>2
<1>9. \A p \in 0 .. Len(cut) - 1, j \in 1 .. Body, q \in Nat :
        (cut[p + 1] # 0 /\ BuiltIn(burst, cut[p + 1]) /\ P * Body + q = p * Body + j) =>
            /\ q \in 1 .. d => d_buf[q] = <<cut[p + 1], j>>
            /\ q - d \in 1 .. r => Fits(rx[q - d], cut[p + 1] - 1, j)
  BY DEF ReceiverRight, ArrivedRight, P, d, r
\* The bits decoded are where they belong.
<1>10. ASSUME NEW p \in 0 .. Len(cut) - 1, NEW j \in 1 .. Body, NEW q \in 1 .. d + Blk,
              cut[p + 1] # 0, BuiltIn(burst, cut[p + 1]), P * Body + q = p * Body + j
       PROVE  in[q] = <<cut[p + 1], j>>
  <2>1. q \in Nat /\ p \in Nat /\ p * Body \in Nat /\ p + 1 \in 1 .. Len(cut)
    BY <1>2
  <2>2. CASE q <= d
    <3>1. q \in 1 .. d
      BY <1>2, <2>1, <2>2
    <3> QED BY <1>7, <1>9, <1>10, <2>1, <3>1
  <2>3. CASE ~(q <= d)
    <3> DEFINE i == q - d
               m == cut[p + 1] - 1
               y == P * K + z
    <3>1. i \in 1 .. Blk /\ q = d + i
      BY <1>2, <2>1, <2>3
    <3>2. m \in Nat /\ m + 1 = cut[p + 1]
      <4>1. cut[p + 1] \in Nat
        BY <1>2, <2>1
      <4> QED BY <1>10, <4>1
    <3>3. y \in Nat /\ y * Blk = P * Body + d
      <4>1. P * K \in Nat /\ P * Body = (P * K) * Blk
        BY <1>2
      <4>2. (P * K + z) * Blk = (P * K) * Blk + z * Blk
        BY <1>2, <1>4, <4>1
      <4> QED BY <1>3, <1>4, <4>1, <4>2
    <3> HIDE DEF i, m, y
    <3>4. y * Blk + i = p * Body + j
      BY <1>2, <1>10, <2>1, <3>1, <3>3
    <3>5. PICK b \in 0 .. K - 1 : j = b * Blk + i /\ y * Blk = p * Body + b * Blk
      BY <2>1, <3>1, <3>3, <3>4, SameBlock
    <3>6. b \in Nat /\ b * Blk \in Nat /\ \A l \in 1 .. Blk : b * Blk + l \in 1 .. Body
      <4>1. b \in Nat /\ b * Blk + i <= Body
        BY <1>2, <3>5
      <4>2. \A l \in 1 .. Blk : b * Blk + l \in 1 .. Body
        BY <3>1, <4>1, BlockInFrame
      <4> QED BY <1>2, <4>1, <4>2
    <3>7. ASSUME NEW l \in 1 .. Blk PROVE Fits(sub[l], m, b * Blk + l)
      <4> DEFINE jj == b * Blk + l
                 qq == d + l
      <4>1. jj \in 1 .. Body /\ qq \in Nat /\ qq - d = l /\ l \in 1 .. r
        <5>1. r \in Nat /\ d \in Nat /\ Blk \in Nat /\ r >= Blk
          BY <1>1, <1>2 DEF r
        <5> QED BY <3>6, <5>1
      <4>2. P * Body + qq = p * Body + jj
        <5>1. P * Body \in Nat /\ d \in Nat /\ p * Body \in Nat /\ b * Blk \in Nat /\ l \in Nat
          BY <1>2, <2>1, <3>6
        <5>2. P * Body + d = p * Body + b * Blk
          BY <3>3, <3>5
        <5> HIDE DEF P, d
        <5> QED BY <5>1, <5>2
      <4> HIDE DEF jj, qq
      <4>3. Fits(rx[qq - d], cut[p + 1] - 1, jj)
        BY <1>9, <1>10, <4>1, <4>2
      <4>4. Fits(rx[l], m, jj)
        BY <4>1, <4>3 DEF m
      <4> QED BY <1>5, <4>4 DEF jj
    <3>8. Bits(sub) = Block(m, b)
      BY <1>5, <3>2, <3>7, BlockDecodes
    <3>9. Bits(sub)[i] = <<m + 1, b * Blk + i>>
      BY <3>1, <3>8 DEF Block
    <3> QED BY <1>7, <3>1, <3>2, <3>5, <3>9
  <2> QED BY <2>2, <2>3
<1>11. CASE ~(Len(in) >= Body)
  <2>1. d_buf' = in /\ published' = published
    BY <1>1, <1>11 DEF in, d, P, r
  <2>2. z + 1 \in 0 .. K - 1
    <3>1. ASSUME K <= z + 1 PROVE FALSE
      <4>1. K = z + 1
        BY <1>2, <1>4, <3>1
      <4>2. d + Blk = Body
        BY <1>2, <1>4, <4>1
      <4> QED BY <1>2, <1>7, <1>11, <4>2
    <3> QED BY <1>2, <1>4, <3>1
  <2>3. Len(d_buf') = d + Blk
    BY <1>7, <2>1
  <2>4. AllCounted'
    <3>1. P * Body + (d + Blk) + (r - Blk) = Len(cut) * Body
      BY <1>8a
    <3> QED BY <1>1, <1>8, <2>1, <2>3, <3>1 DEF AllCounted, P
  <2>5. ArrivedRight'
    <3> SUFFICES ASSUME NEW p \in 0 .. Len(cut) - 1, NEW j \in 1 .. Body, NEW q \in Nat,
                        cut[p + 1] # 0, BuiltIn(burst, cut[p + 1]), P * Body + q = p * Body + j
                 PROVE  /\ q \in 1 .. d + Blk => in[q] = <<cut[p + 1], j>>
                        /\ q - (d + Blk) \in 1 .. r - Blk =>
                              Fits(rx'[q - (d + Blk)], cut[p + 1] - 1, j)
      <4>1. \A p \in 0 .. Len(cut) - 1, j \in 1 .. Body, q \in Nat :
              (cut[p + 1] # 0 /\ BuiltIn(burst, cut[p + 1]) /\ P * Body + q = p * Body + j) =>
                /\ q \in 1 .. d + Blk => in[q] = <<cut[p + 1], j>>
                /\ q - (d + Blk) \in 1 .. r - Blk => Fits(rx'[q - (d + Blk)], cut[p + 1] - 1, j)
        OBVIOUS
      <4>2. cut' = cut /\ Len(published') = P /\ d_buf' = in /\ Len(d_buf') = d + Blk
            /\ Len(rx') = r - Blk /\ burst' = burst
        BY <1>1, <1>8, <2>1, <2>3 DEF P
      <4> QED BY <4>1, <4>2 DEF ArrivedRight
    <3>1. ASSUME q - (d + Blk) \in 1 .. r - Blk PROVE Fits(rx'[q - (d + Blk)], cut[p + 1] - 1, j)
      <4>1. q - d \in 1 .. r /\ Blk + (q - (d + Blk)) = q - d
        BY <1>2, <3>1
      <4>2. Fits(rx[q - d], cut[p + 1] - 1, j)
        BY <1>9, <4>1
      <4> QED BY <1>8, <3>1, <4>1, <4>2
    <3> QED BY <1>10, <3>1
  <2>6. Intact'
    BY <1>1, <2>1 DEF ReceiverRight, Intact
  <2>7. \E x \in 0 .. K - 1 : Len(d_buf') = x * Blk
    BY <1>4, <2>2, <2>3
  <2>8. published' \in Seq(Seq(AnyBit))
    BY <2>1 DEF ReceiverRight
  <2> QED BY <2>4, <2>5, <2>6, <2>7, <2>8 DEF ReceiverRight
<1>12. CASE Len(in) >= Body
  <2> DEFINE msg == SubSeq(in, 1, d_phr_payload_len)
  <2>1. published' = Append(published, msg) /\ d_buf' = SubSeq(in, Body + 1, Len(in))
    BY <1>1, <1>12 DEF in, d, P, r
  <2>2. d + Blk = Body
    <3>1. ASSUME z + 1 < K PROVE FALSE
      <4>1. (z + 1) * Blk + Blk <= K * Blk
        BY <1>2, <1>4, <3>1, RowAfter
      <4>2. d + Blk + Blk <= Body
        BY <1>2, <1>4, <4>1
      <4>3. d + Blk >= Body
        BY <1>7, <1>12
      <4> QED BY <1>8a, <4>2, <4>3
    <3>2. z + 1 = K
      BY <1>2, <1>4, <3>1
    <3> QED BY <1>2, <1>4, <3>2
  <2>3. d_buf' = <<>> /\ Len(d_buf') = 0
    <3>1. Len(in) = Body
      BY <1>7, <2>2
    <3>2. SubSeq(in, Body + 1, Body) = <<>>
      BY <1>2, SubSeqEmpty
    <3> QED BY <2>1, <3>1, <3>2, EmptySeq
  <2>4. d_phr_payload_len \in Nat /\ d_phr_payload_len >= 1 /\ d_phr_payload_len <= Body
    BY StreamAssumption DEF Body
  <2>5. /\ msg \in Seq(AnyBit) /\ Len(msg) = d_phr_payload_len
        /\ \A i \in 1 .. d_phr_payload_len : msg[i] = in[i]
    BY <1>2, <1>7, <2>2, <2>4, Piece
  <2> HIDE DEF msg
  <2>6. /\ published' \in Seq(Seq(AnyBit)) /\ Len(published') = P + 1 /\ published'[P + 1] = msg
        /\ \A i \in 1 .. P : published'[i] = published[i]
    <3>1. published \in Seq(Seq(AnyBit))
      BY DEF ReceiverRight
    <3> QED BY <2>1, <2>5, <3>1, AppendProperties DEF P
  <2>7. (P + 1) * Body = P * Body + Body
    BY <1>2, NextRow
  <2>8. AllCounted'
    <3>1. (P + 1) * Body + 0 + (r - Blk) = Len(cut) * Body
      BY <1>8a, <2>2, <2>7
    <3> QED BY <1>1, <1>8, <2>3, <2>6, <3>1 DEF AllCounted
  <2>9. ArrivedRight'
    <3> SUFFICES ASSUME NEW p \in 0 .. Len(cut') - 1, NEW j \in 1 .. Body, NEW q \in Nat,
                        cut'[p + 1] # 0, BuiltIn(burst', cut'[p + 1]),
                        Len(published') * Body + q = p * Body + j
                 PROVE  /\ q \in 1 .. Len(d_buf') => d_buf'[q] = <<cut'[p + 1], j>>
                        /\ q - Len(d_buf') \in 1 .. Len(rx') => Fits(rx'[q - Len(d_buf')], cut'[p + 1] - 1, j)
      BY DEF ArrivedRight
    <3>4. /\ cut' = cut /\ Len(published') = P + 1 /\ Len(d_buf') = 0 /\ Len(rx') = r - Blk /\ burst' = burst
      BY <1>1, <1>8, <2>3, <2>6
    <3>5. ~(q \in 1 .. Len(d_buf')) /\ q - Len(d_buf') = q
      BY <3>4
    <3> SUFFICES ASSUME q \in 1 .. r - Blk PROVE Fits(rx'[q], cut[p + 1] - 1, j)
      BY <3>4, <3>5
    <3> DEFINE qq == q + Body
    <3>1. qq \in Nat /\ P * Body + qq = p * Body + j /\ qq - d = Blk + q /\ qq - d \in 1 .. r
      BY <1>8a, <2>2, <2>7, <3>4
    <3> HIDE DEF qq
    <3>2. Fits(rx[qq - d], cut[p + 1] - 1, j)
      BY <1>9, <3>1, <3>4
    <3>3. rx'[q] = rx[Blk + q]
      BY <1>8, <3>1
    <3> QED BY <3>1, <3>2, <3>3
  <2>10. Intact'
    <3> SUFFICES ASSUME NEW p \in 1 .. P + 1, cut[p] # 0, BuiltIn(burst, cut[p])
                 PROVE  published'[p] = MessageBits(cut[p], d_phr_payload_len)
      BY <1>1, <2>6 DEF Intact
    <3>1. CASE p <= P
      <4>1. p \in 1 .. P
        BY <1>2, <3>1
      <4>2. published[p] = MessageBits(cut[p], d_phr_payload_len)
        BY <4>1 DEF ReceiverRight, Intact, P
      <4> QED BY <2>6, <4>1, <4>2
    <3>2. CASE ~(p <= P)
      <4>1. p = P + 1
        BY <1>2, <3>2
      <4>2. P \in 0 .. Len(cut) - 1
        <5>1. ASSUME P = Len(cut) PROVE FALSE
          <6>1. P * Body = Len(cut) * Body
            BY <5>1
          <6> QED BY <1>1, <1>2, <6>1 DEF r
        <5> QED BY <1>2, <5>1
      <4>3. cut[P + 1] \in Nat /\ cut[P + 1] # 0 /\ BuiltIn(burst, cut[P + 1])
        <5>1. P + 1 \in 1 .. Len(cut)
          BY <1>2, <4>2
        <5> QED BY <1>2, <4>1, <5>1
      <4>4. \A i \in 1 .. d_phr_payload_len : msg[i] = <<cut[P + 1], i>>
        <5> SUFFICES ASSUME NEW i \in 1 .. d_phr_payload_len PROVE msg[i] = <<cut[P + 1], i>>
          OBVIOUS
        <5>1. i \in 1 .. Body /\ i \in 1 .. d + Blk
          BY <1>8a, <2>2, <2>4
        <5>2. in[i] = <<cut[P + 1], i>>
          BY <1>10, <4>2, <4>3, <5>1
        <5> QED BY <2>5, <5>2
      <4> DEFINE sent == MessageBits(cut[P + 1], d_phr_payload_len)
      <4>5. /\ sent \in Seq(AnyBit) /\ Len(sent) = d_phr_payload_len
            /\ \A i \in 1 .. d_phr_payload_len : sent[i] = <<cut[P + 1], i>>
        <5>1. sent \in [1 .. d_phr_payload_len -> AnyBit]
          BY <2>4, <4>3 DEF MessageBits, AnyBit
        <5>2. \A i \in 1 .. d_phr_payload_len : sent[i] = <<cut[P + 1], i>>
          BY DEF MessageBits
        <5> HIDE DEF sent
        <5> QED BY <2>4, <5>1, <5>2, SeqDef
      <4> HIDE DEF sent
      <4>6. msg = sent
        BY <2>5, <4>4, <4>5, SeqEqual
      <4> QED BY <2>6, <4>1, <4>6 DEF sent
    <3> QED BY <3>1, <3>2
  <2>11. \E x \in 0 .. K - 1 : Len(d_buf') = x * Blk
    <3>1. 0 \in 0 .. K - 1 /\ 0 * Blk = 0
      BY <1>2, <1>3
    <3> QED BY <2>3, <3>1
  <2> QED BY <2>6, <2>8, <2>9, <2>10, <2>11 DEF ReceiverRight
<1> QED BY <1>11, <1>12

LEMMA ReceiverRightStep ==
    ASSUME Types, StreamRight, ReceiverRight, [Next]_vars PROVE ReceiverRight'
<1>1. burst' = burst
  BY SenderTypesStep
<1>2. CASE UNCHANGED <<rx, d_buf, published, cut>>
  BY <1>1, <1>2 DEF ReceiverRight, AllCounted, ArrivedRight, Intact
<1> QED
  BY <1>1, <1>2, ReturnRight, DecodeRight
  DEF Next, PadZeros, Encode, Emit, Tag, Receive, BufferDrops, BufferConsumes, vars, rxVars

LEMMA ReceiverRightInit == ASSUME Init PROVE ReceiverRight
<1>1. rx = <<>> /\ d_buf = <<>> /\ published = <<>> /\ cut = <<>>
  BY DEF Init
<1>2. K \in Nat /\ K >= 1 /\ Blk \in Nat /\ Body \in Nat
  BY Sizes, WholeBlocks
<1>3. Len(<<>>) = 0 /\ <<>> \in Seq(Seq(AnyBit))
  BY EmptySeq
<1>4. AllCounted
  BY <1>1, <1>2, <1>3 DEF AllCounted
<1>5. ArrivedRight /\ Intact
  BY <1>1, <1>3 DEF ArrivedRight, Intact
<1>6. \E z \in 0 .. K - 1 : Len(d_buf) = z * Blk
  <2>1. 0 \in 0 .. K - 1 /\ 0 * Blk = 0
    BY <1>2
  <2> QED BY <1>1, <1>3, <2>1
<1> QED BY <1>1, <1>3, <1>4, <1>5, <1>6 DEF ReceiverRight

(* What leaves frame_buffer_cc as a whole frame of the sender is published as the
   message of that frame, whatever the radio lost or changed before, wherever the
   buffer cut and however many pieces it dropped: both sides count alike, as long
   as messages have the length that the flowgraph was built for. *)
THEOREM IntactIfWholeHolds == Spec => []IntactIfWhole
<1> DEFINE Inv == SenderRight /\ StreamRight /\ ReceiverRight
<1>1. Init => Inv
  BY SenderRightInit, StreamRightInit, ReceiverRightInit
<1>2. Types /\ Inv /\ [Next]_vars => Inv'
  BY SenderRightStep, StreamRightStep, ReceiverRightStep
<1>3. Inv => IntactIfWhole
  BY DEF ReceiverRight, Intact, IntactIfWhole, Built, BuiltIn, Message
<1> HIDE DEF Inv
<1> QED BY <1>1, <1>2, <1>3, TypesHold, PTL DEF Spec
=============================================================================
