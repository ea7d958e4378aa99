-------------------------- MODULE PipeBytes_proofs --------------------------
(***************************************************************************)
(* Proofs about PipeBytes, for every size of the data area, every limit of *)
(* a push and every number of bytes of content.                            *)
(***************************************************************************)
EXTENDS PipeBytes, TLAPS

(***************************************************************************)
(* Arithmetic.  The provers are asked about one quotient at a time.        *)
(***************************************************************************)

\* The next multiple of eight.
LEMMA Aligned ==
  ASSUME NEW n \in Nat
  PROVE  /\ GetAlignedSize(n, 8) = 8 * WordsOf(n)
         /\ WordsOf(n) \in Nat
         /\ GetAlignedSize(n, 8) \div 8 = WordsOf(n)
BY DEF GetAlignedSize, WordsOf

\* A packet takes four words and its content, rounded up to words.
LEMMA PacketSizeInWords ==
  ASSUME NEW n \in Nat
  PROVE  /\ WordsOf(n) \in Nat
         /\ PacketSize(n) = 8 * (WordsOf(n) + 4)
         /\ Words!PacketSize(ShapeOf(n)) = WordsOf(n) + 4
<1>1. WordsOf(n) \in Nat
  BY Aligned
<1>2. WordsOf(24 + n) = WordsOf(n) + 3
  BY DEF WordsOf
<1>3. RawLength8(24 + n) = WordsOf(n) + 3
  BY <1>2, Aligned, 24 + n \in Nat DEF RawLength8
<1>4. PacketSize(n) = 8 * (WordsOf(n) + 4)
  BY <1>1, <1>3 DEF PacketSize, ActualPacketSize, Length, ULong, PipePacketHeaderSize,
       PacketDescriptorSize, PipeHeaderSize
<1>5. Words!PacketSize(ShapeOf(n)) = WordsOf(n) + 4
  BY <1>1 DEF ShapeOf, Words!PacketSize, Words!Length, Words!PipeHeaderSize,
       Words!PacketDescriptorSize, Words!ULong
<1> QED BY <1>1, <1>4, <1>5

\* A number of bytes fits a number of words if it does when rounded up.
LEMMA RoundedFits ==
  ASSUME NEW n \in Nat, NEW w \in Nat
  PROVE  n <= 8 * w <=> WordsOf(n) <= w
BY DEF WordsOf

(***************************************************************************)
(* The inductive invariant: the offsets are whole words in the data area.  *)
(***************************************************************************)
IInv == TypeOK /\ In % 8 = 0 /\ Out % 8 = 0

\* A copy that ends where the data area ends, or wraps, leaves a whole offset.
LEMMA FinalOffsetIsWhole ==
  ASSUME BytesAssumption,
         NEW mayWrap \in BOOLEAN, NEW o \in 0..DataMaximumSize, NEW size \in Nat,
         o % 8 = 0, size % 8 = 0, size <= DataMaximumSize,
         ~mayWrap => o + size <= DataMaximumSize
  PROVE  /\ FinalOffset(mayWrap, o, size) \in 0..DataMaximumSize
         /\ FinalOffset(mayWrap, o, size) % 8 = 0
<1> USE DEF BytesAssumption
<1>1. CASE mayWrap /\ DataMaximumSize - o < size
  <2>1. FinalOffset(mayWrap, o, size) = size - (DataMaximumSize - o)
    BY <1>1 DEF FinalOffset, FirstSize
  <2> QED BY <2>1, <1>1
<1>2. CASE ~(mayWrap /\ DataMaximumSize - o < size)
  <2>1. FinalOffset(mayWrap, o, size) = o + size
    BY <1>2 DEF FinalOffset, FirstSize
  <2> QED BY <2>1, <1>2
<1> QED BY <1>1, <1>2

\* A fresh ring.
LEMMA InitInv ==
  ASSUME BytesAssumption
  PROVE  Init => IInv
BY DEF BytesAssumption, Init, IInv, TypeOK

\* A push moves In by whole words.
LEMMA PushKeepsInv ==
  ASSUME BytesAssumption, IInv, NEW n \in 0..MaxContent, PushPipePacket(n)
  PROVE  IInv'
<1>1. n \in Nat
  BY DEF BytesAssumption
<1>2. /\ PacketSize(n) \in Nat
      /\ PacketSize(n) % 8 = 0
  BY <1>1, PacketSizeInWords
<1>3. /\ PacketSize(n) <= DataMaximumSize
      /\ ~(In >= Out) => In + PacketSize(n) <= DataMaximumSize
  BY <1>2 DEF BytesAssumption, PushPipePacket, WritableSize, IInv, TypeOK
<1>4. /\ FinalOffset(In >= Out, In, PacketSize(n)) \in 0..DataMaximumSize
      /\ FinalOffset(In >= Out, In, PacketSize(n)) % 8 = 0
  <2> DEFINE mayWrap == In >= Out
             size == PacketSize(n)
  <2>1. mayWrap \in BOOLEAN
    OBVIOUS
  <2>2. /\ size \in Nat /\ size % 8 = 0 /\ size <= DataMaximumSize
        /\ ~mayWrap => In + size <= DataMaximumSize
    BY <1>2, <1>3
  <2>3. In \in 0..DataMaximumSize /\ In % 8 = 0
    BY DEF IInv, TypeOK
  <2> HIDE DEF mayWrap, size
  <2>4. /\ FinalOffset(mayWrap, In, size) \in 0..DataMaximumSize
        /\ FinalOffset(mayWrap, In, size) % 8 = 0
    BY <2>1, <2>2, <2>3, FinalOffsetIsWhole
  <2> QED BY <2>4 DEF mayWrap, size
<1> QED BY <1>4 DEF IInv, TypeOK, PushPipePacket

\* A pop moves Out by whole words.
LEMMA PopKeepsInv ==
  ASSUME BytesAssumption, IInv, NEW raw \in 0..(DataMaximumSize \div 8), PopPipePacket(raw)
  PROVE  IInv'
<1>1. raw \in Nat
  BY DEF BytesAssumption
<1>2. /\ ActualPacketSize(raw) \in Nat
      /\ ActualPacketSize(raw) % 8 = 0
  BY <1>1 DEF ActualPacketSize, Length, ULong
<1>3. /\ ActualPacketSize(raw) <= DataMaximumSize
      /\ ~(In < Out) => Out + ActualPacketSize(raw) <= DataMaximumSize
  BY <1>2 DEF BytesAssumption, PopPipePacket, ReadableSize, IInv, TypeOK
<1>4. /\ FinalOffset(In < Out, Out, ActualPacketSize(raw)) \in 0..DataMaximumSize
      /\ FinalOffset(In < Out, Out, ActualPacketSize(raw)) % 8 = 0
  <2> DEFINE mayWrap == In < Out
             size == ActualPacketSize(raw)
  <2>1. mayWrap \in BOOLEAN
    OBVIOUS
  <2>2. /\ size \in Nat /\ size % 8 = 0 /\ size <= DataMaximumSize
        /\ ~mayWrap => Out + size <= DataMaximumSize
    BY <1>2, <1>3
  <2>3. Out \in 0..DataMaximumSize /\ Out % 8 = 0
    BY DEF IInv, TypeOK
  <2> HIDE DEF mayWrap, size
  <2>4. /\ FinalOffset(mayWrap, Out, size) \in 0..DataMaximumSize
        /\ FinalOffset(mayWrap, Out, size) % 8 = 0
    BY <2>1, <2>2, <2>3, FinalOffsetIsWhole
  <2> QED BY <2>4 DEF mayWrap, size
<1> QED BY <1>4 DEF IInv, TypeOK, PopPipePacket

\* Every step keeps the invariant.
LEMMA NextKeepsInv ==
  ASSUME BytesAssumption
  PROVE  IInv /\ [Next]_vars => IInv'
<1> SUFFICES ASSUME IInv, [Next]_vars
             PROVE  IInv'
  OBVIOUS
<1>1. CASE UNCHANGED vars
  BY <1>1 DEF vars, IInv, TypeOK
<1>2. CASE Next
  BY <1>2, PushKeepsInv, PopKeepsInv DEF Next
<1> QED BY <1>1, <1>2

\* The inductive invariant holds in every behaviour.
LEMMA SpecKeepsInv ==
  ASSUME BytesAssumption
  PROVE  Spec => []IInv
<1> QED BY InitInv, NextKeepsInv, PTL DEF Spec

(***************************************************************************)
(* What the invariant gives.                                               *)
(***************************************************************************)
\* GetAvailableSizeInformation in bytes and in words.
LEMMA SizesInWords ==
  ASSUME BytesAssumption, IInv
  PROVE  /\ WritableSize \in Nat
         /\ WritableSize % 8 = 0
         /\ ReadableSize = 8 * Words!ReadableSize(In \div 8, Out \div 8)
         /\ WritableSize = 8 * Words!WritableSize(In \div 8, Out \div 8)
<1> USE DEF BytesAssumption, IInv, TypeOK
<1> DEFINE i == In \div 8
           o == Out \div 8
           d == DataMaximumSize \div 8
<1>1. /\ i \in Nat /\ o \in Nat /\ d \in Nat
      /\ In = 8 * i /\ Out = 8 * o /\ DataMaximumSize = 8 * d
  OBVIOUS
<1> HIDE DEF i, o, d
<1>2. In >= Out <=> i >= o
  BY <1>1
<1>3. ReadableSize = 8 * Words!ReadableSize(i, o)
  BY <1>1, <1>2 DEF ReadableSize, Words!ReadableSize, d
<1>4. WritableSize = 8 * Words!WritableSize(i, o)
  BY <1>1, <1>2 DEF WritableSize, Words!WritableSize, d
<1>5. WritableSize \in Nat /\ WritableSize % 8 = 0
  BY <1>1 DEF WritableSize
<1> QED BY <1>3, <1>4, <1>5 DEF i, o

\* GetMaximumPushSize in bytes and in words.
LEMMA MaximumPushInWords ==
  ASSUME BytesAssumption, NEW a \in Nat, a % 8 = 0
  PROVE  /\ Words!MaximumPush(a \div 8) \in Nat
         /\ MaximumPush(a) = 8 * Words!MaximumPush(a \div 8)
<1> USE DEF BytesAssumption
<1> DEFINE w == a \div 8
           m == MaximumPushSize \div 8
<1>1. w \in Nat /\ m \in Nat /\ a = 8 * w /\ MaximumPushSize = 8 * m
  OBVIOUS
<1>2. Words!MaximumPush(w) = IF w - 4 < 0 THEN 0 ELSE IF w - 4 < m THEN w - 4 ELSE m
  BY <1>1 DEF Words!MaximumPush, Words!PipePacketHeaderSize, Words!PacketDescriptorSize,
       Words!PipeHeaderSize, Words!ULong
<1>3. MaximumPush(a) = IF a - 32 < 0 THEN 0
                       ELSE IF a - 32 < MaximumPushSize THEN a - 32 ELSE MaximumPushSize
  BY <1>1 DEF MaximumPush, PipePacketHeaderSize, PacketDescriptorSize, PipeHeaderSize, ULong
<1> HIDE DEF w, m
<1>4. /\ Words!MaximumPush(w) \in Nat
      /\ MaximumPush(a) = 8 * Words!MaximumPush(w)
  BY <1>1, <1>2, <1>3
<1> QED BY <1>4 DEF w

\* In and Out never leave the data area.
THEOREM BytesTypeCorrect ==
  ASSUME BytesAssumption
  PROVE  Spec => []TypeOK
<1>1. IInv => TypeOK
  BY DEF IInv
<1> QED BY <1>1, SpecKeepsInv, PTL

\* Sizes in bytes are eight times the sizes PipeRing computes in words, whatever
\* UioHvDevice.cs has pushed and popped.
THEOREM WordsLoseNothingHolds ==
  ASSUME BytesAssumption
  PROVE  Spec => []WordsLoseNothing
<1>1. IInv => WordsLoseNothing
  <2> SUFFICES ASSUME IInv
               PROVE  WordsLoseNothing
    OBVIOUS
  <2>1. /\ Words!MaximumPush(WritableSize \div 8) \in Nat
        /\ MaximumPush(WritableSize) = 8 * Words!MaximumPush(WritableSize \div 8)
    BY SizesInWords, MaximumPushInWords
  <2>2. \A n \in 0..MaxContent :
          /\ PacketSize(n) = 8 * Words!PacketSize(ShapeOf(n))
          /\ n <= MaximumPush(WritableSize)
               <=> WordsOf(n) <= Words!MaximumPush(WritableSize \div 8)
    <3> TAKE n \in 0..MaxContent
    <3>1. n \in Nat
      BY DEF BytesAssumption
    <3> QED BY <2>1, <3>1, PacketSizeInWords, RoundedFits
  <2> QED BY <2>1, <2>2, SizesInWords DEF WordsLoseNothing, IInv
<1> QED BY <1>1, SpecKeepsInv, PTL

\* A push of content within the limit of GetMaximumPushSize finds the room, and
\* a length field that is wide enough.
THEOREM SizedPushIsAcceptedHolds ==
  ASSUME BytesAssumption
  PROVE  Spec => []SizedPushIsAccepted
<1>1. IInv => SizedPushIsAccepted
  <2> SUFFICES ASSUME IInv, NEW n \in 1..MaximumPush(WritableSize)
               PROVE  /\ ~LengthThrows(PipePacketHeaderSize + n)
                      /\ PacketSize(n) <= WritableSize
    BY DEF SizedPushIsAccepted
  <2> DEFINE a == WritableSize
  <2>1. a \in Nat /\ a % 8 = 0
    BY SizesInWords
  <2> HIDE DEF a
  <2>2. MaximumPush(a) \in Nat /\ MaximumPush(a) <= MaximumPushSize
        /\ (MaximumPush(a) > 0 => MaximumPush(a) + 32 <= a) /\ MaximumPush(a) % 8 = 0
    BY <2>1
    DEF BytesAssumption, MaximumPush, PipePacketHeaderSize, PacketDescriptorSize, PipeHeaderSize, ULong
  <2>3. n \in Nat /\ n <= MaximumPush(a) /\ MaximumPush(a) > 0
    BY <2>2 DEF a
  <2>4. 8 * WordsOf(n) <= MaximumPush(a) /\ WordsOf(n) \in Nat
    BY <2>2, <2>3 DEF WordsOf
  <2>5. PacketSize(n) <= a
    BY <2>1, <2>2, <2>3, <2>4, PacketSizeInWords
  <2>6. GetAlignedSize(24 + n, 8) \div 8 = WordsOf(n) + 3
    <3>1. WordsOf(24 + n) = WordsOf(n) + 3
      BY <2>3 DEF WordsOf
    <3> QED BY <3>1, <2>3, 24 + n \in Nat, Aligned
  <2>7. ~LengthThrows(PipePacketHeaderSize + n)
    BY <2>2, <2>4, <2>6
    DEF BytesAssumption, LengthThrows, PipePacketHeaderSize, PacketDescriptorSize, PipeHeaderSize
  <2> QED BY <2>5, <2>7 DEF a
<1> QED BY <1>1, SpecKeepsInv, PTL

=============================================================================
