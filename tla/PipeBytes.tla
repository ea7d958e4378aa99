----------------------------- MODULE PipeBytes ------------------------------
(***************************************************************************)
(* The sizes and offsets of a ring in bytes, with the accessors of         *)
(* PacketDescriptor.cs and GetAlignedSize of Utilities.cs.  PipeRing       *)
(* counts in words of eight bytes; this module shows that nothing is lost  *)
(* by it, for content of any number of bytes.                              *)
(*                                                                         *)
(* A push moves In, a pop moves Out; when they do so relative to the       *)
(* copies of the packet is the business of PipeRing.                       *)
(***************************************************************************)
EXTENDS Integers

CONSTANTS
  DataMaximumSize,  \* bytes in the data area
  MaximumPushSize,  \* bytes of content GetMaximumPushSize never exceeds
  UShortMax,        \* the largest value of RawLength8
  MaxContent        \* bound: bytes of content of a push

\* The data area is a number of pages; 16384 bytes of content and the headers
\* fit the length field.
BytesAssumption ==
  /\ DataMaximumSize \in Nat /\ DataMaximumSize % 8 = 0
  /\ MaximumPushSize \in Nat /\ MaximumPushSize % 8 = 0
  /\ UShortMax \in Nat /\ MaximumPushSize + 24 <= 8 * UShortMax
  /\ MaxContent \in Nat

ULong == 8
PacketDescriptorSize == 16
PipeHeaderSize == 8
PipePacketHeaderSize == PacketDescriptorSize + PipeHeaderSize

VARIABLES
  In,   \* control block: where the producer writes next
  Out   \* control block: where the consumer reads next

vars == <<In, Out>>

Init == In = 0 /\ Out = 0

\* Faulty: rounds down.
AlignDown(Size, Alignment) == Size - (Size % Alignment)

\* (Size + Alignment - 1) & ~(Alignment - 1), for a power of two.
GetAlignedSize(Size, Alignment) ==
  (Size + Alignment - 1) - ((Size + Alignment - 1) % Alignment)

\* The setter of Length.  Convert.ToUInt16 throws before Min can clamp.
LengthThrows(value) == GetAlignedSize(value, 8) \div 8 > UShortMax
RawLength8(value) == GetAlignedSize(value, 8) \div 8

\* The getter.
Length(raw) == raw * 8

\* What a packet with this Length takes, and one with n bytes of content.
ActualPacketSize(raw) == Length(raw) + ULong
PacketSize(n) == ActualPacketSize(RawLength8(PipePacketHeaderSize + n))

(***************************************************************************)
(* GetAvailableSizeInformation and GetMaximumPushSize.                     *)
(***************************************************************************)
ReadableSize == IF In >= Out THEN In - Out ELSE DataMaximumSize - (Out - In)
WritableSize == IF In >= Out THEN DataMaximumSize - (In - Out) ELSE Out - In

\* The remainder has the sign of AvailableSize: a negative one moves towards 0.
MaximumPush(available) ==
  LET size == available - (PipePacketHeaderSize + ULong)
      aligned == IF size < 0 THEN size + ((-size) % ULong) ELSE size - (size % ULong)
  IN  IF aligned < 0 THEN 0
      ELSE IF aligned < MaximumPushSize THEN aligned ELSE MaximumPushSize

\* Bytes of a copy of n bytes at offset o before the end of the data area.
FirstSize(mayWrap, o, n) ==
  IF mayWrap /\ DataMaximumSize - o < n THEN DataMaximumSize - o ELSE n

\* Faulty: no wrap.
FinalOffsetNeverWraps(mayWrap, o, size) == o + size

\* FinalOffset of a push and of a pop.
FinalOffset(mayWrap, o, size) ==
  LET second == size - FirstSize(mayWrap, o, size)
  IN  IF second > 0 THEN second ELSE o + size

PushPipePacket(n) ==
  /\ ~LengthThrows(PipePacketHeaderSize + n)
  /\ WritableSize >= PacketSize(n)
  /\ In' = FinalOffset(In >= Out, In, PacketSize(n))
  /\ UNCHANGED Out

\* The packet at Out may have been sent with any RawLength8.
PopPipePacket(raw) ==
  /\ ReadableSize >= PipePacketHeaderSize
  /\ PacketDescriptorSize <= Length(raw)
  /\ ReadableSize >= ActualPacketSize(raw)
  /\ Out' = FinalOffset(In < Out, Out, ActualPacketSize(raw))
  /\ UNCHANGED In

Next ==
  \/ \E n \in 0..MaxContent : PushPipePacket(n)
  \/ \E raw \in 0..(DataMaximumSize \div 8) : PopPipePacket(raw)

Spec == Init /\ [][Next]_vars

-----------------------------------------------------------------------------
TypeOK == In \in 0..DataMaximumSize /\ Out \in 0..DataMaximumSize

\* The same ring in words, as PipeRing has it.
Words == INSTANCE PipeRing WITH
  DataMaximumSize <- DataMaximumSize \div 8, MaximumPushSize <- MaximumPushSize \div 8,
  Shapes <- {}, Gap <- 0, EndOffsets <- {}, LastInAccessor <- FALSE, MaxSent <- 0,
  In <- In \div 8, Out <- Out \div 8, data <- << >>, push <- << >>, pop <- << >>,
  sent <- << >>, delivered <- << >>, filled <- FALSE

\* n bytes as content of a packet of PipeRing.
WordsOf(n) == (n + 7) \div 8
ShapeOf(n) == [type |-> "DataInBand", pipe |-> "Data", content |-> WordsOf(n),
               dataOffset |-> Words!PacketDescriptorSize, pos |-> 0]

\* Whatever was pushed and popped, the offsets are whole words, and every size
\* the code computes in bytes is eight times what PipeRing computes in words:
\* the same pushes are refused, and the same content is within the limit of
\* GetMaximumPushSize, also when the content is no whole number of words.
WordsLoseNothing ==
  /\ In % 8 = 0 /\ Out % 8 = 0
  /\ ReadableSize = 8 * Words!ReadableSize(In \div 8, Out \div 8)
  /\ WritableSize = 8 * Words!WritableSize(In \div 8, Out \div 8)
  /\ MaximumPush(WritableSize) = 8 * Words!MaximumPush(WritableSize \div 8)
  /\ \A n \in 0..MaxContent :
       /\ PacketSize(n) = 8 * Words!PacketSize(ShapeOf(n))
       /\ n <= MaximumPush(WritableSize)
            <=> WordsOf(n) <= Words!MaximumPush(WritableSize \div 8)

\* Content within the limit never makes the length field overflow, so a push
\* of it is not refused.
SizedPushIsAccepted ==
  \A n \in 1..MaximumPush(WritableSize) :
    /\ ~LengthThrows(PipePacketHeaderSize + n)
    /\ PacketSize(n) <= WritableSize

=============================================================================
