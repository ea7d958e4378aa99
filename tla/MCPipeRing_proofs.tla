------------------------- MODULE MCPipeRing_proofs --------------------------
(***************************************************************************)
(* The ring in words, step by step, against the ring in bytes, for every   *)
(* size of the data area, every limit of a push and every number of        *)
(* packets.  The constants of Bytes are those MCPipeRing gives it.         *)
(***************************************************************************)
EXTENDS MCPipeRing, PipeRing_proofs

\* The sizes of the ring in bytes are as PipeBytes wants them.
LEMMA ByteSizesHold == Bytes!BytesAssumption
BY RingAssumption DEF Bytes!BytesAssumption

\* Headers and content of whole words.
LEMMA BytePacketSize ==
  ASSUME NEW c \in Nat
  PROVE  /\ Bytes!PacketSize(8 * c) = 8 * (c + 4)
         /\ Bytes!LengthThrows(Bytes!PipePacketHeaderSize + 8 * c) <=> c > MaximumPushSize
<1>1. Bytes!PipePacketHeaderSize = 24
  BY DEF Bytes!PipePacketHeaderSize, Bytes!PacketDescriptorSize, Bytes!PipeHeaderSize
<1>2. Bytes!GetAlignedSize(24 + 8 * c, 8) = 8 * (c + 3)
  BY DEF Bytes!GetAlignedSize
<1>3. (8 * (c + 3)) \div 8 = c + 3
  OBVIOUS
<1>4. Bytes!RawLength8(24 + 8 * c) = c + 3
  BY <1>2, <1>3 DEF Bytes!RawLength8
<1>5. Bytes!PacketSize(8 * c) = 8 * (c + 4)
  BY <1>1, <1>4 DEF Bytes!PacketSize, Bytes!ActualPacketSize, Bytes!Length, Bytes!ULong
<1>6. Bytes!LengthThrows(24 + 8 * c) <=> c > MaximumPushSize
  BY <1>2, <1>3, RingAssumption DEF Bytes!LengthThrows
<1> QED BY <1>1, <1>5, <1>6

\* GetAvailableSizeInformation.
LEMMA ByteSizesNow ==
  ASSUME TypeOK
  PROVE  /\ Bytes!ReadableSize = 8 * ReadableSize(In, Out)
         /\ Bytes!WritableSize = 8 * WritableSize(In, Out)
BY RingAssumption DEF TypeOK, Offset, Bytes!ReadableSize, Bytes!WritableSize, ReadableSize,
     WritableSize

\* Where a copy of whole words ends.
LEMMA ByteFinalOffset ==
  ASSUME NEW mayWrap \in BOOLEAN, NEW o \in Nat, NEW size \in Nat
  PROVE  Bytes!FinalOffset(mayWrap, 8 * o, 8 * size) =
           IF mayWrap /\ DataMaximumSize - o < size
           THEN 8 * (size - (DataMaximumSize - o)) ELSE 8 * (o + size)
<1>1. CASE mayWrap /\ DataMaximumSize - o < size
  <2>1. Bytes!FirstSize(mayWrap, 8 * o, 8 * size) = 8 * DataMaximumSize - 8 * o
    BY <1>1, RingAssumption DEF Bytes!FirstSize
  <2> DEFINE second == 8 * size - Bytes!FirstSize(mayWrap, 8 * o, 8 * size)
  <2>2. second = 8 * (size - (DataMaximumSize - o)) /\ second > 0
    <3>1. DataMaximumSize \in Nat
      BY RingAssumption
    <3>2. /\ 8 * size - (8 * DataMaximumSize - 8 * o) = 8 * (size - (DataMaximumSize - o))
          /\ 8 * size - (8 * DataMaximumSize - 8 * o) > 0
      BY <1>1, <3>1
    <3> QED BY <2>1, <3>2
  <2>3. Bytes!FinalOffset(mayWrap, 8 * o, 8 * size) = second
    BY <2>2 DEF Bytes!FinalOffset
  <2> QED BY <1>1, <2>2, <2>3
<1>2. CASE ~(mayWrap /\ DataMaximumSize - o < size)
  <2>1. Bytes!FirstSize(mayWrap, 8 * o, 8 * size) = 8 * size
    BY <1>2, RingAssumption DEF Bytes!FirstSize
  <2> QED BY <1>2, <2>1, RingAssumption DEF Bytes!FinalOffset
<1> QED BY <1>1, <1>2

-----------------------------------------------------------------------------
(***************************************************************************)
(* Every step of the ring in words.  Both ends compute from snapshots of   *)
(* the control block; that the result is right for the offsets as they are *)
(* follows from the sizes alone: if the copy had to wrap, the side of the  *)
(* other offset the snapshot shows is the side it is on now.               *)
(***************************************************************************)
\* What PushPipePacket builds: the pipe header right behind the descriptor, and
\* content within the limit of GetMaximumPushSize.
GuestShape(s) == s.dataOffset = PacketDescriptorSize /\ s.content <= MaximumPushSize
GuestProduces == EndOffsets = {DataMaximumSize} /\ \A s \in Shapes : GuestShape(s)

\* A call in progress has a packet of such a shape.
PushIsGuest == PushPending => GuestShape(push.packet)

\* A push in progress was built from one of the shapes.
LEMMA PushIsGuestStep ==
  ASSUME GuestProduces, IInv, PushIsGuest, [Next]_vars
  PROVE  PushIsGuest'
<1>1. CASE push' = IdlePush \/ UNCHANGED push
  BY <1>1 DEF PushIsGuest, PushPending, IdlePush
<1>2. ASSUME NEW s \in Shapes, PushAccepted(s)
      PROVE  PushIsGuest'
  <2>1. push'.packet = NewPacket(s, Written)
    BY <1>2 DEF PushAccepted
  <2> QED BY <2>1 DEF GuestProduces, PushIsGuest, GuestShape, NewPacket
<1>3. CASE GetMaximumPushSize \/ PushFirst \/ PushSecond
  <2>1. push'.packet = push.packet /\ (PushPending' => PushPending)
    <3>1. push \in [pc : {"idle", "sized", "first", "second", "commit"},
                    limit : Nat, packet : Packet, In : Offset, Out : Offset]
      BY DEF IInv, TypeInv, TypeOK
    <3> QED BY <1>3, <3>1 DEF GetMaximumPushSize, PushFirst, PushSecond, PushPending
  <2> QED BY <2>1 DEF PushIsGuest, GuestShape
<1> QED BY <1>1, <1>2, <1>3
        DEF Next, vars, PushNothing, PushPipePacket, PushRefused, PushCommit, PopPipePacket,
            PopCall, PopFirst, PopSecond, PopThrow, PopCommit

\* The write of In.
LEMMA BytePush ==
  ASSUME GuestProduces, IInv, PushIsGuest, PushCommit, ~filled'
  PROVE  Bytes!Next
<1> DEFINE c == push.packet.content
           size == PacketSize(push.packet)
<1>1. ~filled /\ PushPending /\ UNCHANGED Out /\ In' \in FinalIn
  BY DEF PushCommit, PushPending
<1>2. TypeInv /\ RingInv /\ TypeOK
  BY <1>1 DEF IInv, TypeInv
<1>3. /\ push.In = In /\ Outstanding + size + Gap <= DataMaximumSize
  BY <1>1, <1>2 DEF RingInv, PushInv
<1>4. /\ push.packet \in Packet /\ c \in Nat /\ size = c + 4 /\ c <= MaximumPushSize
      /\ size \in Nat
  <2>1. push.packet \in Packet
    BY <1>2 DEF TypeOK
  <2>2. push.packet.dataOffset = 2 /\ c <= MaximumPushSize
    BY <1>1 DEF PushIsGuest, GuestShape, PacketDescriptorSize
  <2> QED BY <2>1, <2>2, PacketSizes
<1>5. /\ In \in Nat /\ Out \in Nat /\ In <= DataMaximumSize /\ Out <= DataMaximumSize
      /\ DataMaximumSize \in Nat /\ push.Out \in Nat /\ push.Out <= DataMaximumSize
      /\ Gap \in Nat
  BY <1>2, RingAssumption DEF TypeOK, Offset
<1>6. size <= WritableSize(In, Out) /\ size <= WritableSize(In, push.Out)
  <2>1. Outstanding \in Nat /\ WritableSize(In, Out) = DataMaximumSize - Outstanding
    BY <1>2, OutstandingType DEF RingInv
  <2>2. size <= WritableSize(push.In, push.Out)
    BY <1>1, <1>2 DEF TypeInv, PushLocals
  <2> QED BY <1>3, <1>4, <1>5, <2>1, <2>2
<1> HIDE DEF c, size
<1>7. In' = IF DataMaximumSize - In < size THEN size - (DataMaximumSize - In) ELSE In + size
  <2>1. /\ FirstWriteSize = IF In >= push.Out /\ DataMaximumSize - In < size
                            THEN DataMaximumSize - In ELSE size
        /\ SecondWriteSize = size - FirstWriteSize
    BY <1>3 DEF FirstWriteSize, SecondWriteSize, FirstSize, size
  <2>2. DataMaximumSize - In < size => In >= push.Out
    BY <1>4, <1>5, <1>6 DEF WritableSize
  <2>3. CASE DataMaximumSize - In < size
    <3>1. SecondWriteSize = size - (DataMaximumSize - In) /\ SecondWriteSize > 0
      BY <1>4, <1>5, <2>1, <2>2, <2>3
    <3> QED BY <1>1, <2>3, <3>1 DEF FinalIn
  <2>4. CASE ~(DataMaximumSize - In < size)
    <3>1. FirstWriteSize = size /\ SecondWriteSize = 0
      BY <1>4, <2>1, <2>4
    <3>2. In' = In + size
      BY <1>1, <1>3, <3>1 DEF FinalIn, GuestProduces
    <3> QED BY <2>4, <3>2
  <2> QED BY <2>3, <2>4
<1>8. 8 * In' = Bytes!FinalOffset(8 * In >= 8 * Out, 8 * In, 8 * size)
  <2> DEFINE w == 8 * In >= 8 * Out
  <2>1. w \in BOOLEAN /\ (w <=> In >= Out)
    BY <1>5
  <2>2. DataMaximumSize - In < size => In >= Out
    BY <1>4, <1>5, <1>6 DEF WritableSize
  <2> HIDE DEF w
  <2>3. Bytes!FinalOffset(w, 8 * In, 8 * size) =
          IF w /\ DataMaximumSize - In < size
          THEN 8 * (size - (DataMaximumSize - In)) ELSE 8 * (In + size)
    BY <1>4, <1>5, <2>1, ByteFinalOffset
  <2>4. 8 * In' = Bytes!FinalOffset(w, 8 * In, 8 * size)
    BY <1>7, <2>1, <2>2, <2>3
  <2> QED BY <2>4 DEF w
<1>9. /\ Bytes!PacketSize(8 * c) = 8 * size
      /\ ~Bytes!LengthThrows(Bytes!PipePacketHeaderSize + 8 * c)
  BY <1>4, BytePacketSize, RingAssumption
<1>10. Bytes!WritableSize >= Bytes!PacketSize(8 * c)
  <2>1. WritableSize(In, Out) \in Nat
    BY <1>2, SizesNow
  <2> QED BY <1>2, <1>4, <1>6, <1>9, <2>1, ByteSizesNow
<1>11. 8 * c \in 0..(8 * MaximumPushSize + 8)
  BY <1>4, RingAssumption
<1>12. Bytes!PushPipePacket(8 * c)
  BY <1>1, <1>8, <1>9, <1>10 DEF Bytes!PushPipePacket
<1> QED BY <1>11, <1>12 DEF Bytes!Next

\* The write of Out.
LEMMA BytePop ==
  ASSUME IInv, PopCommit, ~filled
  PROVE  Bytes!Next
<1> DEFINE raw == Length(Descriptor)
           size == PacketSize(Descriptor)
<1>1. PopPending /\ UNCHANGED In /\ Out' = FinalOut /\ pop.pc = "parse" /\ ~PopThrows
  BY DEF PopCommit, PopPending
<1>2. TypeInv /\ RingInv /\ TypeOK
  BY DEF IInv, TypeInv
<1>3. pop.Out = Out /\ AvailableSize <= Outstanding
  BY <1>1, <1>2 DEF RingInv, PopInv
<1>4. /\ size \in Nat /\ raw \in Nat /\ size = raw + 1 /\ size <= AvailableSize
      /\ raw >= 3 /\ size <= Outstanding
  <2>1. Descriptor \in Packet /\ size <= AvailableSize
    BY <1>1, <1>2, ParseFacts
  <2>2. size <= Outstanding
    BY <1>1, <1>2, ParsedPacket
  <2>3. Descriptor.dataOffset \in Nat /\ Descriptor.dataOffset >= 2
    BY <1>1, <2>1, PacketSizes DEF PopThrows, PacketDescriptorSize
  <2> QED BY <2>1, <2>2, <2>3, PacketSizes
<1>5. /\ In \in Nat /\ Out \in Nat /\ In <= DataMaximumSize /\ Out <= DataMaximumSize
      /\ DataMaximumSize \in Nat /\ pop.In \in Nat /\ pop.In <= DataMaximumSize
  BY <1>2, RingAssumption DEF TypeOK, Offset
<1>6. /\ size <= ReadableSize(In, Out) /\ size <= ReadableSize(pop.In, Out)
      /\ ReadableSize(In, Out) \in Nat /\ ReadableSize(In, Out) <= DataMaximumSize
  <2>1. Outstanding = ReadableSize(In, Out) /\ Outstanding \in Nat
        /\ Outstanding < DataMaximumSize
    BY <1>2, OutstandingType DEF RingInv
  <2> QED BY <1>3, <1>4, <1>5, <2>1 DEF AvailableSize
<1>7. Out' = IF DataMaximumSize - Out < size
             THEN size - (DataMaximumSize - Out) ELSE Out + size
  <2>1. DataMaximumSize - Out < size => pop.In < Out
    BY <1>4, <1>5, <1>6 DEF ReadableSize
  <2> QED BY <1>1, <1>3, <2>1 DEF FinalOut
<1> HIDE DEF raw, size
<1>8. 8 * Out' = Bytes!FinalOffset(8 * In < 8 * Out, 8 * Out, 8 * size)
  <2> DEFINE w == 8 * In < 8 * Out
  <2>1. w \in BOOLEAN /\ (w <=> In < Out)
    BY <1>5
  <2>2. DataMaximumSize - Out < size => In < Out
    BY <1>4, <1>5, <1>6 DEF ReadableSize
  <2> HIDE DEF w
  <2>3. Bytes!FinalOffset(w, 8 * Out, 8 * size) =
          IF w /\ DataMaximumSize - Out < size
          THEN 8 * (size - (DataMaximumSize - Out)) ELSE 8 * (Out + size)
    BY <1>4, <1>5, <2>1, ByteFinalOffset
  <2>4. 8 * Out' = Bytes!FinalOffset(w, 8 * Out, 8 * size)
    BY <1>7, <2>1, <2>2, <2>3
  <2> QED BY <2>4 DEF w
<1>9. Bytes!ActualPacketSize(raw) = 8 * size /\ Bytes!Length(raw) = 8 * raw
  BY <1>4 DEF Bytes!ActualPacketSize, Bytes!Length, Bytes!ULong
<1>10. /\ Bytes!PipePacketHeaderSize = 24 /\ Bytes!PacketDescriptorSize = 16
       /\ Bytes!ReadableSize = 8 * ReadableSize(In, Out)
  BY <1>2, ByteSizesNow DEF Bytes!PipePacketHeaderSize, Bytes!PacketDescriptorSize,
       Bytes!PipeHeaderSize
<1>11. raw \in 0..((8 * DataMaximumSize) \div 8)
  BY <1>4, <1>5, <1>6
<1>12. Bytes!PopPipePacket(raw)
  BY <1>1, <1>4, <1>6, <1>8, <1>9, <1>10 DEF Bytes!PopPipePacket
<1> QED BY <1>11, <1>12 DEF Bytes!Next

\* Until a push has filled the ring, and whatever the other end has done since
\* the snapshots were taken, PushPipePacket and PopPipePacket move In and Out as
\* they would in bytes, from the offsets as they are at that moment.
THEOREM RingImplementsBytes == ASSUME GuestProduces PROVE Spec => ImplementsBytes
<1>1. Init => Bytes!Init /\ PushIsGuest
  BY DEF Init, Bytes!Init, PushIsGuest, PushPending, IdlePush
<1>2. IInv /\ PushIsGuest /\ [Next]_vars => PushIsGuest'
  BY PushIsGuestStep
<1>3. IInv /\ PushIsGuest /\ [Next]_vars => [filled' \/ Bytes!Next]_<<In, Out>>
  <2> SUFFICES ASSUME IInv, PushIsGuest, [Next]_vars, ~UNCHANGED <<In, Out>>, ~filled'
               PROVE  Bytes!Next
    OBVIOUS
  <2>1. CASE PushCommit
    BY <2>1, BytePush
  <2>2. CASE PopCommit
    BY <2>2, BytePop DEF PopCommit
  <2> QED BY <2>1, <2>2
          DEF Next, vars, GetMaximumPushSize, PushNothing, PushPipePacket, PushRefused,
              PushAccepted, PushFirst, PushSecond, PopPipePacket, PopCall, PopFirst,
              PopSecond, PopThrow
<1> QED BY <1>1, <1>2, <1>3, RingInvariant, PTL DEF Spec, ImplementsBytes

-----------------------------------------------------------------------------
\* Content of any number of bytes: what it takes, rounded up to words.
LEMMA ByteContent ==
  ASSUME NEW k \in Nat
  PROVE  /\ Bytes!WordsOf(k) \in Nat
         /\ Bytes!PacketSize(k) = 8 * (Bytes!WordsOf(k) + 4)
         /\ Bytes!Words!PacketSize(Bytes!ShapeOf(k)) = Bytes!WordsOf(k) + 4
<1>1. Bytes!WordsOf(k) = (k + 7) \div 8 /\ (k + 7) \div 8 \in Nat
  BY DEF Bytes!WordsOf
<1>2. Bytes!Words!PacketSize(Bytes!ShapeOf(k)) = Bytes!WordsOf(k) + 4
  BY <1>1 DEF Bytes!ShapeOf, Bytes!Words!PacketSize, Bytes!Words!Length,
       Bytes!Words!PipeHeaderSize, Bytes!Words!PacketDescriptorSize, Bytes!Words!ULong
<1>3. /\ Bytes!PipePacketHeaderSize = 24
      /\ Bytes!GetAlignedSize(24 + k, 8) = 8 * ((k + 7) \div 8 + 3)
  BY DEF Bytes!PipePacketHeaderSize, Bytes!PacketDescriptorSize, Bytes!PipeHeaderSize,
       Bytes!GetAlignedSize
<1> DEFINE v == (k + 7) \div 8
<1>4. v \in Nat
  BY <1>1
<1> HIDE DEF v
<1>5. (8 * (v + 3)) \div 8 = v + 3
  BY <1>4
<1>6. Bytes!RawLength8(24 + k) = v + 3
  BY <1>3, <1>5 DEF Bytes!RawLength8, v
<1>7. Bytes!PacketSize(k) = 8 * (v + 4)
  BY <1>3, <1>4, <1>6 DEF Bytes!PacketSize, Bytes!ActualPacketSize, Bytes!Length, Bytes!ULong
<1> QED BY <1>1, <1>2, <1>7 DEF v

\* GetMaximumPushSize.
LEMMA ByteMaximumPush ==
  ASSUME NEW a \in Nat
  PROVE  /\ Bytes!Words!MaximumPush((8 * a) \div 8) \in Nat
         /\ Bytes!MaximumPush(8 * a) = 8 * Bytes!Words!MaximumPush((8 * a) \div 8)
<1> DEFINE m == MaximumPushSize
<1>1. m \in Nat /\ (8 * a) \div 8 = a /\ (8 * m) \div 8 = m
  BY RingAssumption
<1>2. Bytes!Words!MaximumPush((8 * a) \div 8) =
        IF a - 4 < 0 THEN 0 ELSE IF a - 4 < m THEN a - 4 ELSE m
  BY <1>1 DEF Bytes!Words!MaximumPush, Bytes!Words!PipePacketHeaderSize,
       Bytes!Words!PacketDescriptorSize, Bytes!Words!PipeHeaderSize, Bytes!Words!ULong
<1>3. Bytes!MaximumPush(8 * a) =
        IF 8 * a - 32 < 0 THEN 0 ELSE IF 8 * a - 32 < 8 * m THEN 8 * a - 32 ELSE 8 * m
  BY <1>1 DEF Bytes!MaximumPush, Bytes!PipePacketHeaderSize, Bytes!PacketDescriptorSize,
       Bytes!PipeHeaderSize, Bytes!ULong
<1> HIDE DEF m
<1> QED BY <1>1, <1>2, <1>3

\* In every state of the ring, for content of any number of bytes, the sizes that
\* UioHvDevice.cs computes in bytes are eight times those in words.
THEOREM RingWordsLoseNothing == Spec => []WordsLoseNothing
<1>1. TypeOK => WordsLoseNothing
  <2> SUFFICES ASSUME TypeOK
               PROVE  Bytes!WordsLoseNothing
    BY DEF WordsLoseNothing
  <2>1. /\ In \in Nat /\ Out \in Nat /\ DataMaximumSize \in Nat
        /\ (8 * In) \div 8 = In /\ (8 * Out) \div 8 = Out
        /\ (8 * DataMaximumSize) \div 8 = DataMaximumSize
        /\ (8 * In) % 8 = 0 /\ (8 * Out) % 8 = 0
    BY RingAssumption DEF TypeOK, Offset
  <2> DEFINE a == WritableSize(In, Out)
  <2>2. /\ a \in Nat /\ Bytes!WritableSize = 8 * a
        /\ Bytes!ReadableSize = 8 * ReadableSize(In, Out)
    BY SizesNow, ByteSizesNow
  <2>3. /\ Bytes!Words!ReadableSize((8 * In) \div 8, (8 * Out) \div 8) = ReadableSize(In, Out)
        /\ Bytes!Words!WritableSize((8 * In) \div 8, (8 * Out) \div 8) = a
    BY <2>1 DEF Bytes!Words!ReadableSize, Bytes!Words!WritableSize, ReadableSize, WritableSize
  <2> HIDE DEF a
  <2> DEFINE l == Bytes!Words!MaximumPush((8 * a) \div 8)
  <2>4. l \in Nat /\ Bytes!MaximumPush(8 * a) = 8 * l
    BY <2>2, ByteMaximumPush
  <2> HIDE DEF l
  <2>5. ASSUME NEW k \in 0..(8 * MaximumPushSize + 8)
        PROVE  /\ Bytes!PacketSize(k) = 8 * Bytes!Words!PacketSize(Bytes!ShapeOf(k))
               /\ k <= 8 * l <=> Bytes!WordsOf(k) <= l
    <3>1. k \in Nat
      BY RingAssumption
    <3>2. k <= 8 * l <=> Bytes!WordsOf(k) <= l
      BY <2>4, <3>1 DEF Bytes!WordsOf
    <3> QED BY <3>1, <3>2, ByteContent
  <2> QED BY <2>1, <2>2, <2>3, <2>4, <2>5 DEF Bytes!WordsLoseNothing, l
<1> QED BY <1>1, TypeCorrect, PTL

=============================================================================
