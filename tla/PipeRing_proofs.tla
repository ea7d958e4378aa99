-------------------------- MODULE PipeRing_proofs --------------------------
(***************************************************************************)
(* Proofs about PipeRing for every size of the data area, every set of     *)
(* packet shapes and every number of packets.                              *)
(***************************************************************************)
EXTENDS PipeRing, SequenceTheorems, TLAPS

PushPending == push.pc \in {"first", "second", "commit"}
PopPending == pop.pc \in {"first", "second", "parse"}

\* The packet fits the snapshot of the control block it was checked against.
PushLocals ==
  PushPending => PacketSize(push.packet) <= WritableSize(push.In, push.Out)

\* The bytes copied so far are those the snapshot of the control block names.
PopLocals ==
  /\ PopPending => AvailableSize >= PipePacketHeaderSize
  /\ pop.pc = "second" => Len(pop.bytes) = FirstReadSize
  /\ pop.pc = "parse" => Len(pop.bytes) = AvailableSize

TypeInv == TypeOK /\ PushLocals /\ PopLocals

-----------------------------------------------------------------------------
(* Sizes.                                                                  *)

LEMMA ReadableRange ==
  ASSUME NEW i \in Offset, NEW o \in Offset
  PROVE  /\ ReadableSize(i, o) \in Offset
         /\ WritableSize(i, o) \in Offset
         /\ WritableSize(i, o) = DataMaximumSize - ReadableSize(i, o)
  BY RingAssumption DEF ReadableSize, WritableSize, Offset

LEMMA SizesNow ==
  ASSUME TypeOK
  PROVE  /\ ReadableSize(In, Out) \in Nat
         /\ WritableSize(In, Out) \in Nat
         /\ WritableSize(In, Out) = DataMaximumSize - ReadableSize(In, Out)
  <1>1. In \in Offset /\ Out \in Offset
    BY DEF TypeOK
  <1>2. Offset \subseteq Nat
    BY RingAssumption DEF Offset
  <1> QED
    BY <1>1, <1>2, ReadableRange

LEMMA PacketSizes ==
  ASSUME NEW p \in Packet
  PROVE  /\ p.pos \in Nat /\ p.dataOffset \in Nat /\ p.content \in Nat
         /\ Length(p) = p.dataOffset + 1 + p.content
         /\ PacketSize(p) = p.dataOffset + 2 + p.content
         /\ PacketSize(p) \in Nat
         /\ End(p) = p.pos + PacketSize(p)
         /\ End(p) \in Nat
  BY DEF Packet, Length, PacketSize, End, PipeHeaderSize, ULong

LEMMA NewPacketType ==
  ASSUME NEW s \in Shapes, NEW n \in Nat
  PROVE  /\ NewPacket(s, n) \in Packet
         /\ NewPacket(s, n).pos = n
         /\ NewPacket(s, n).dataOffset >= PacketDescriptorSize
  BY RingAssumption, ShapeAssumption DEF Shape, Packet, NewPacket

LEMMA MaximumPushRange ==
  ASSUME NEW n \in Nat
  PROVE  /\ MaximumPush(n) \in Nat
         /\ MaximumPush(n) = 0 \/ MaximumPush(n) + PipePacketHeaderSize + ULong <= n
  BY RingAssumption
  DEF MaximumPush, PipePacketHeaderSize, PacketDescriptorSize, PipeHeaderSize, ULong

LEMMA WrittenType ==
  ASSUME TypeOK
  PROVE  Written \in Nat /\ Released \in Nat
  <1>1. sent \in Seq(Packet) /\ delivered \in Seq([packet : Packet, content : Seq(Word)])
    BY DEF TypeOK
  <1>2. sent # << >> => sent[Len(sent)] \in Packet
    BY <1>1
  <1> DEFINE D == [packet : Packet, content : Seq(Word)]
  <1>3. delivered # << >> => delivered[Len(delivered)] \in D
    <2> HIDE DEF D
    <2>1. delivered \in Seq(D)
      BY <1>1 DEF D
    <2> QED
      BY <2>1
  <1>4. delivered # << >> => delivered[Len(delivered)].packet \in Packet
    BY <1>3
  <1> QED
    BY <1>2, <1>4, PacketSizes DEF Written, Released

LEMMA WriteSizes ==
  ASSUME TypeOK, PushLocals, PushPending
  PROVE  /\ FirstWriteSize \in Nat
         /\ SecondWriteSize \in Nat
         /\ FirstWriteSize + SecondWriteSize = PacketSize(push.packet)
         /\ push.In + FirstWriteSize <= DataMaximumSize
         /\ SecondWriteSize > 0 => push.In + FirstWriteSize = DataMaximumSize
         /\ SecondWriteSize <= DataMaximumSize
  <1>1. push.packet \in Packet /\ push.In \in Offset /\ push.Out \in Offset
    BY DEF TypeOK
  <1>2. PacketSize(push.packet) \in Nat
    BY <1>1, PacketSizes
  <1>3. PacketSize(push.packet) <= WritableSize(push.In, push.Out)
    BY DEF PushLocals
  <1> QED
    BY <1>1, <1>2, <1>3, RingAssumption
    DEF FirstWriteSize, SecondWriteSize, FirstSize, WritableSize, Offset

LEMMA ReadSizes ==
  ASSUME TypeOK, PopLocals, PopPending
  PROVE  /\ AvailableSize \in 3..DataMaximumSize
         /\ FirstReadSize \in Nat
         /\ SecondReadSize \in Nat
         /\ FirstReadSize + SecondReadSize = AvailableSize
         /\ pop.Out + FirstReadSize <= DataMaximumSize
         /\ SecondReadSize > 0 => pop.Out + FirstReadSize = DataMaximumSize
         /\ SecondReadSize <= DataMaximumSize
  <1>1. pop.In \in Offset /\ pop.Out \in Offset
    BY DEF TypeOK
  <1>2. AvailableSize >= 3
    BY DEF PopLocals, PipePacketHeaderSize, PacketDescriptorSize, PipeHeaderSize
  <1> QED
    BY <1>1, <1>2, RingAssumption
    DEF AvailableSize, FirstReadSize, SecondReadSize, FirstSize, ReadableSize, Offset

LEMMA IdleTypes ==
  /\ NoPacket \in Packet
  /\ IdlePush \in [pc : {"idle", "sized", "first", "second", "commit"},
                   limit : Nat, packet : Packet, In : Offset, Out : Offset]
  /\ IdlePop \in [pc : {"idle", "first", "second", "parse"},
                  In : Offset, Out : Offset, bytes : Seq(Word)]
  BY RingAssumption DEF IdlePush, IdlePop, NoPacket, Packet, Offset

-----------------------------------------------------------------------------
(* Every action keeps the types.                                           *)

LEMMA TypeInit == Init => TypeInv
  <1> SUFFICES ASSUME Init PROVE TypeInv
    OBVIOUS
  <1>0. In \in Offset /\ Out \in Offset
    BY RingAssumption DEF Init, Offset
  <1>a. <<NoPacket, 0>> \in Word
    BY IdleTypes DEF Word
  <1>b. data \in [Slot -> Word]
    BY <1>a DEF Init
  <1>c. sent \in Seq(Packet) /\ delivered \in Seq([packet : Packet, content : Seq(Word)])
    BY DEF Init
  <1>1. TypeOK
    BY <1>0, <1>b, <1>c, IdleTypes DEF Init, TypeOK
  <1>2. PushLocals /\ PopLocals
    BY DEF Init, PushLocals, PopLocals, PushPending, PopPending, IdlePush, IdlePop
  <1> QED
    BY <1>1, <1>2 DEF TypeInv

LEMMA TypeGetMaximumPushSize == TypeInv /\ GetMaximumPushSize => TypeInv'
  <1> SUFFICES ASSUME TypeInv, GetMaximumPushSize PROVE TypeInv'
    OBVIOUS
  <1>1. MaximumPush(WritableSize(In, Out)) \in Nat
    <2>1. WritableSize(In, Out) \in Nat
      BY SizesNow DEF TypeInv
    <2> QED
      BY <2>1, MaximumPushRange
  <1>2. TypeOK'
    BY <1>1 DEF TypeInv, TypeOK, GetMaximumPushSize
  <1>3. PushLocals'
    BY DEF TypeInv, TypeOK, GetMaximumPushSize, PushLocals, PushPending
  <1>4. PopLocals'
    BY DEF TypeInv, GetMaximumPushSize, PopLocals, PopPending, AvailableSize, FirstReadSize
  <1> QED
    BY <1>2, <1>3, <1>4 DEF TypeInv

LEMMA TypePushNothing == TypeInv /\ PushNothing => TypeInv'
  <1> SUFFICES ASSUME TypeInv, PushNothing PROVE TypeInv'
    OBVIOUS
  <1>1. TypeOK'
    BY IdleTypes DEF TypeInv, TypeOK, PushNothing
  <1>2. PushLocals'
    BY DEF PushNothing, PushLocals, PushPending, IdlePush
  <1>3. PopLocals'
    BY DEF TypeInv, PushNothing, PopLocals, PopPending, AvailableSize, FirstReadSize
  <1> QED
    BY <1>1, <1>2, <1>3 DEF TypeInv

LEMMA TypePushRefused == ASSUME NEW s \in Shapes, TypeInv, PushRefused(s) PROVE TypeInv'
  <1>1. TypeOK'
    BY IdleTypes DEF TypeInv, TypeOK, PushRefused
  <1>2. PushLocals'
    BY DEF PushRefused, PushLocals, PushPending, IdlePush
  <1>3. PopLocals'
    BY DEF TypeInv, PushRefused, PopLocals, PopPending, AvailableSize, FirstReadSize
  <1> QED
    BY <1>1, <1>2, <1>3 DEF TypeInv

LEMMA TypePushAccepted == ASSUME NEW s \in Shapes, TypeInv, PushAccepted(s) PROVE TypeInv'
  <1>1. Written \in Nat
    BY WrittenType DEF TypeInv
  <1>2. NewPacket(s, Written) \in Packet
    BY <1>1, NewPacketType
  <1>3. PacketSize(NewPacket(s, Written)) \in Nat
    BY <1>2, PacketSizes
  <1>4. TypeOK'
    BY <1>2 DEF TypeInv, TypeOK, PushAccepted
  <1>5. PacketSize(NewPacket(s, Written)) <= WritableSize(In, Out)
    <2>1. WritableSize(In, Out) \in Nat
      BY SizesNow DEF TypeInv
    <2>2. PacketSize(NewPacket(s, Written)) + Gap <= WritableSize(In, Out)
      BY DEF PushAccepted, HasSpace
    <2> QED
      BY <1>3, <2>1, <2>2, RingAssumption
  <1>6. PushLocals'
    BY <1>5 DEF PushAccepted, PushLocals
  <1>7. PopLocals'
    BY DEF TypeInv, PushAccepted, PopLocals, PopPending, AvailableSize, FirstReadSize
  <1> QED
    BY <1>4, <1>6, <1>7 DEF TypeInv

LEMMA TypePushFirst == TypeInv /\ PushFirst => TypeInv'
  <1> SUFFICES ASSUME TypeInv, PushFirst PROVE TypeInv'
    OBVIOUS
  <1>1. push.packet \in Packet /\ push.In \in Offset /\ FirstWriteSize \in Nat
    BY WriteSizes DEF TypeInv, TypeOK, PushFirst, PushPending
  <1>2. data' \in [Slot -> Word]
    <2>1. ASSUME NEW o \in Slot, o >= push.In
          PROVE  <<push.packet, o - push.In + 1>> \in Word
      BY <1>1, <2>1, RingAssumption DEF Word, Slot, Offset
    <2>2. ASSUME NEW o \in Slot PROVE data[o] \in Word
      BY DEF TypeInv, TypeOK
    <2> QED
      BY <2>1, <2>2 DEF PushFirst
  <1>3. TypeOK'
    BY <1>2 DEF TypeInv, TypeOK, PushFirst
  <1>4. PushLocals'
    BY DEF TypeInv, TypeOK, PushFirst, PushLocals, PushPending
  <1>5. PopLocals'
    BY DEF TypeInv, PushFirst, PopLocals, PopPending, AvailableSize, FirstReadSize
  <1> QED
    BY <1>3, <1>4, <1>5 DEF TypeInv

LEMMA TypePushSecond == TypeInv /\ PushSecond => TypeInv'
  <1> SUFFICES ASSUME TypeInv, PushSecond PROVE TypeInv'
    OBVIOUS
  <1>1. push.packet \in Packet /\ FirstWriteSize \in Nat
    BY WriteSizes DEF TypeInv, TypeOK, PushSecond, PushPending
  <1>2. data' \in [Slot -> Word]
    <2>1. ASSUME NEW o \in Slot
          PROVE  <<push.packet, FirstWriteSize + o + 1>> \in Word
      BY <1>1, RingAssumption DEF Word, Slot
    <2>2. ASSUME NEW o \in Slot PROVE data[o] \in Word
      BY DEF TypeInv, TypeOK
    <2> QED
      BY <2>1, <2>2 DEF PushSecond
  <1>3. TypeOK'
    BY <1>2 DEF TypeInv, TypeOK, PushSecond
  <1>4. PushLocals'
    BY DEF TypeInv, TypeOK, PushSecond, PushLocals, PushPending
  <1>5. PopLocals'
    BY DEF TypeInv, PushSecond, PopLocals, PopPending, AvailableSize, FirstReadSize
  <1> QED
    BY <1>3, <1>4, <1>5 DEF TypeInv

LEMMA TypePushCommit == TypeInv /\ PushCommit => TypeInv'
  <1> SUFFICES ASSUME TypeInv, PushCommit PROVE TypeInv'
    OBVIOUS
  <1>1. push.packet \in Packet /\ push.In \in Offset
    BY DEF TypeInv, TypeOK
  <1>2. FinalIn \subseteq Offset
    <2>1. /\ FirstWriteSize \in Nat /\ SecondWriteSize \in Nat
          /\ push.In + FirstWriteSize <= DataMaximumSize
          /\ SecondWriteSize <= DataMaximumSize
      BY WriteSizes DEF TypeInv, PushCommit, PushPending
    <2>2. EndOffsets \subseteq Offset
      BY RingAssumption DEF Offset
    <2>3. SecondWriteSize \in Offset /\ push.In + FirstWriteSize \in Offset
      BY <1>1, <2>1, RingAssumption DEF Offset
    <2> QED
      BY <2>2, <2>3 DEF FinalIn
  <1>3. sent' \in Seq(Packet)
    BY <1>1 DEF TypeInv, TypeOK, PushCommit
  <1>4. filled' \in BOOLEAN
    BY DEF PushCommit
  <1>5. TypeOK'
    BY <1>2, <1>3, <1>4, IdleTypes DEF TypeInv, TypeOK, PushCommit
  <1>6. PushLocals'
    BY DEF PushCommit, PushLocals, PushPending, IdlePush
  <1>7. PopLocals'
    BY DEF TypeInv, PushCommit, PopLocals, PopPending, AvailableSize, FirstReadSize
  <1> QED
    BY <1>5, <1>6, <1>7 DEF TypeInv

LEMMA TypePopCall == TypeInv /\ PopCall => TypeInv'
  <1> SUFFICES ASSUME TypeInv, PopCall PROVE TypeInv'
    OBVIOUS
  <1>1. TypeOK'
    BY DEF TypeInv, TypeOK, PopCall
  <1>2. PushLocals'
    BY DEF TypeInv, PopCall, PushLocals, PushPending
  <1>3. PopLocals'
    BY DEF PopCall, PopLocals, PopPending, AvailableSize
  <1> QED
    BY <1>1, <1>2, <1>3 DEF TypeInv

LEMMA TypePopFirst == TypeInv /\ PopFirst => TypeInv'
  <1> SUFFICES ASSUME TypeInv, PopFirst PROVE TypeInv'
    OBVIOUS
  <1> DEFINE b == [i \in 1..FirstReadSize |-> data[pop.Out + i - 1]]
  <1>1. /\ FirstReadSize \in Nat /\ SecondReadSize \in Nat
        /\ FirstReadSize + SecondReadSize = AvailableSize
        /\ pop.Out + FirstReadSize <= DataMaximumSize
        /\ pop.Out \in Offset /\ AvailableSize \in Nat
    BY ReadSizes DEF TypeInv, TypeOK, PopFirst, PopPending
  <1>2. ASSUME NEW i \in 1..FirstReadSize PROVE data[pop.Out + i - 1] \in Word
    BY <1>1, RingAssumption DEF TypeInv, TypeOK, Offset, Slot
  <1>3. b \in Seq(Word) /\ Len(b) = FirstReadSize
    BY <1>1, <1>2
  <1> HIDE DEF b
  <1>4. pop' = [pop EXCEPT !.pc = IF SecondReadSize > 0 THEN "second" ELSE "parse",
                           !.bytes = b]
    BY DEF PopFirst, b
  <1>5. TypeOK'
    BY <1>3, <1>4 DEF TypeInv, TypeOK, PopFirst
  <1>6. PushLocals'
    BY DEF TypeInv, PopFirst, PushLocals, PushPending
  <1>7. /\ AvailableSize' = AvailableSize /\ FirstReadSize' = FirstReadSize
        /\ pop'.bytes = b
        /\ pop'.pc = IF SecondReadSize > 0 THEN "second" ELSE "parse"
    BY <1>4 DEF TypeInv, TypeOK, AvailableSize, FirstReadSize
  <1>8. AvailableSize >= PipePacketHeaderSize
    BY DEF TypeInv, PopLocals, PopPending, PopFirst
  <1>9. PopLocals'
    BY <1>1, <1>3, <1>7, <1>8 DEF PopLocals
  <1> QED
    BY <1>5, <1>6, <1>9 DEF TypeInv

LEMMA TypePopSecond == TypeInv /\ PopSecond => TypeInv'
  <1> SUFFICES ASSUME TypeInv, PopSecond PROVE TypeInv'
    OBVIOUS
  <1> DEFINE r == [i \in 1..SecondReadSize |-> data[i - 1]]
  <1>1. /\ FirstReadSize \in Nat /\ SecondReadSize \in Nat
        /\ FirstReadSize + SecondReadSize = AvailableSize
        /\ SecondReadSize <= DataMaximumSize
        /\ AvailableSize \in Nat
    BY ReadSizes DEF TypeInv, TypeOK, PopSecond, PopPending
  <1>2. ASSUME NEW i \in 1..SecondReadSize PROVE data[i - 1] \in Word
    BY <1>1, RingAssumption DEF TypeInv, TypeOK, Slot
  <1>3. r \in Seq(Word) /\ Len(r) = SecondReadSize
    BY <1>1, <1>2
  <1>4. pop.bytes \in Seq(Word) /\ Len(pop.bytes) = FirstReadSize
    BY DEF TypeInv, TypeOK, PopLocals, PopSecond
  <1> HIDE DEF r
  <1>5. pop.bytes \o r \in Seq(Word) /\ Len(pop.bytes \o r) = AvailableSize
    BY <1>1, <1>3, <1>4
  <1>6. pop' = [pop EXCEPT !.pc = "parse", !.bytes = @ \o r]
    BY DEF PopSecond, r
  <1>7. TypeOK'
    BY <1>5, <1>6 DEF TypeInv, TypeOK, PopSecond
  <1>8. PushLocals'
    BY DEF TypeInv, PopSecond, PushLocals, PushPending
  <1>9. /\ AvailableSize' = AvailableSize
        /\ pop'.bytes = pop.bytes \o r
        /\ pop'.pc = "parse"
    BY <1>6 DEF TypeInv, TypeOK, AvailableSize
  <1>10. AvailableSize >= PipePacketHeaderSize
    BY DEF TypeInv, PopLocals, PopPending, PopSecond
  <1>11. PopLocals'
    BY <1>5, <1>9, <1>10 DEF PopLocals
  <1> QED
    BY <1>7, <1>8, <1>11 DEF TypeInv

LEMMA TypePopThrow == TypeInv /\ PopThrow => TypeInv'
  <1> SUFFICES ASSUME TypeInv, PopThrow PROVE TypeInv'
    OBVIOUS
  <1>1. TypeOK'
    BY IdleTypes DEF TypeInv, TypeOK, PopThrow
  <1>2. PushLocals'
    BY DEF TypeInv, PopThrow, PushLocals, PushPending
  <1>3. PopLocals'
    BY DEF PopThrow, PopLocals, PopPending, IdlePop
  <1> QED
    BY <1>1, <1>2, <1>3 DEF TypeInv

\* What the checks of PopPipePacket establish when none of them throws.
LEMMA ParseFacts ==
  ASSUME TypeInv, pop.pc = "parse", ~PopThrows
  PROVE  /\ Descriptor \in Packet
         /\ Header \in Packet
         /\ pop.bytes[1][2] = 1
         /\ PacketSize(Descriptor) <= AvailableSize
         /\ Descriptor.dataOffset + 1 + Header.content <= Len(pop.bytes)
         /\ Descriptor.dataOffset + 1 \in 1..Len(pop.bytes)
         /\ FinalOut \in Offset
  <1>1. /\ pop.bytes \in Seq(Word) /\ Len(pop.bytes) = AvailableSize
        /\ pop.In \in Offset /\ pop.Out \in Offset
    BY DEF TypeInv, TypeOK, PopLocals
  <1>2. AvailableSize \in 3..DataMaximumSize
    BY ReadSizes DEF TypeInv, PopPending
  <1>3. ASSUME NEW i \in 1..Len(pop.bytes) PROVE pop.bytes[i][1] \in Packet
    <2>1. pop.bytes[i] \in Word
      BY <1>1
    <2> QED
      BY <2>1 DEF Word
  <1>4. 1 \in 1..Len(pop.bytes)
    BY <1>1, <1>2
  <1>5. Descriptor \in Packet
    BY <1>3, <1>4 DEF Descriptor
  <1>6. Len(pop.bytes) >= PacketSize(Descriptor)
    <2>1. ~(Len(pop.bytes) < PacketSize(Descriptor))
      BY DEF PopThrows
    <2> QED
      BY <2>1, <1>1, <1>5, PacketSizes, LenProperties
  <1>7. Descriptor.dataOffset + 1 \in 1..Len(pop.bytes)
    BY <1>1, <1>2, <1>5, <1>6, PacketSizes
  <1>8. Header \in Packet
    BY <1>3, <1>7 DEF Header
  <1>9. Descriptor.dataOffset + 1 + Header.content <= Len(pop.bytes)
    <2>1. ~(Len(pop.bytes) - Descriptor.dataOffset < 1 + Header.content)
      BY DEF PopThrows, PipeHeaderSize
    <2>2. Descriptor.dataOffset \in Nat /\ Header.content \in Nat
      BY <1>5, <1>8, PacketSizes
    <2> QED
      BY <2>1, <2>2, <1>1, LenProperties
  <1>10. pop.bytes[1][2] = 1
    BY DEF PopThrows
  <1>11. FinalOut \in Offset
    <2>1. PacketSize(Descriptor) \in Nat
      BY <1>5, PacketSizes
    <2>2. PacketSize(Descriptor) <= ReadableSize(pop.In, pop.Out)
      BY <1>1, <1>6 DEF AvailableSize
    <2> QED
      BY <1>1, <2>1, <2>2, RingAssumption DEF FinalOut, ReadableSize, Offset
  <1> QED
    BY <1>1, <1>5, <1>6, <1>7, <1>8, <1>9, <1>10, <1>11

LEMMA TypePopCommit == TypeInv /\ PopCommit => TypeInv'
  <1> SUFFICES ASSUME TypeInv, PopCommit PROVE TypeInv'
    OBVIOUS
  <1>1. pop.pc = "parse" /\ ~PopThrows
    BY DEF PopCommit
  <1>2. /\ Descriptor \in Packet /\ Header \in Packet /\ FinalOut \in Offset
        /\ Descriptor.dataOffset + 1 + Header.content <= Len(pop.bytes)
    BY <1>1, ParseFacts
  <1>3. pop.bytes \in Seq(Word)
    BY DEF TypeInv, TypeOK
  <1>4. Content \in Seq(Word)
    <2> DEFINE m == Descriptor.dataOffset + PipeHeaderSize + 1
               n == Descriptor.dataOffset + PipeHeaderSize + Header.content
    <2>1. m \in 1..(Len(pop.bytes) + 1) /\ n \in Int /\ n <= Len(pop.bytes)
      <3>1. Descriptor.dataOffset \in Nat /\ Header.content \in Nat
        BY <1>2, PacketSizes
      <3>2. Len(pop.bytes) \in Nat
        BY <1>3, LenProperties
      <3> QED
        BY <1>2, <3>1, <3>2 DEF PipeHeaderSize
    <2> HIDE DEF m, n
    <2>2. ASSUME NEW i \in m..n PROVE pop.bytes[i] \in Word
      BY <1>3, <2>1
    <2>3. SubSeq(pop.bytes, m, n) \in Seq(Word)
      BY <2>1, <2>2, <1>3, SubSeqProperties
    <2> QED
      BY <2>3 DEF Content, m, n
  <1>5. [packet |-> Descriptor, content |-> Content]
          \in [packet : Packet, content : Seq(Word)]
    BY <1>2, <1>4
  <1>6. delivered' \in Seq([packet : Packet, content : Seq(Word)])
    <2> DEFINE D == [packet : Packet, content : Seq(Word)]
               e == [packet |-> Descriptor, content |-> Content]
    <2>1. delivered \in Seq(D) /\ e \in D /\ delivered' = Append(delivered, e)
      BY <1>5 DEF TypeInv, TypeOK, PopCommit
    <2> HIDE DEF D, e
    <2>2. delivered' \in Seq(D)
      BY <2>1
    <2> QED
      BY <2>2 DEF D
  <1>7. TypeOK'
    BY <1>2, <1>6, IdleTypes DEF TypeInv, TypeOK, PopCommit
  <1>8. PushLocals'
    BY DEF TypeInv, PopCommit, PushLocals, PushPending
  <1>9. PopLocals'
    BY DEF PopCommit, PopLocals, PopPending, IdlePop
  <1> QED
    BY <1>7, <1>8, <1>9 DEF TypeInv

LEMMA TypeStep == TypeInv /\ [Next]_vars => TypeInv'
  <1> SUFFICES ASSUME TypeInv, [Next]_vars PROVE TypeInv'
    OBVIOUS
  <1>1. CASE GetMaximumPushSize BY <1>1, TypeGetMaximumPushSize
  <1>2. CASE PushNothing BY <1>2, TypePushNothing
  <1>3. CASE \E s \in Shapes : PushRefused(s) BY <1>3, TypePushRefused
  <1>4. CASE \E s \in Shapes : PushAccepted(s) BY <1>4, TypePushAccepted
  <1>5. CASE PushFirst BY <1>5, TypePushFirst
  <1>6. CASE PushSecond BY <1>6, TypePushSecond
  <1>7. CASE PushCommit BY <1>7, TypePushCommit
  <1>8. CASE PopCall BY <1>8, TypePopCall
  <1>9. CASE PopFirst BY <1>9, TypePopFirst
  <1>10. CASE PopSecond BY <1>10, TypePopSecond
  <1>11. CASE PopThrow BY <1>11, TypePopThrow
  <1>12. CASE PopCommit BY <1>12, TypePopCommit
  <1>13. CASE UNCHANGED vars
    BY <1>13 DEF vars, TypeInv, TypeOK, PushLocals, PopLocals, PushPending,
       PopPending, AvailableSize, FirstReadSize
  <1> QED
    BY <1>1, <1>2, <1>3, <1>4, <1>5, <1>6, <1>7, <1>8, <1>9, <1>10, <1>11,
       <1>12, <1>13 DEF Next, PushPipePacket, PopPipePacket

\* The type invariant holds, and the copies of both ends stay inside the data
\* area and the buffers the sizes of UioHvDevice.cs were computed for.
THEOREM TypeCorrect == Spec => []TypeOK
  <1>1. Spec => []TypeInv
    BY TypeInit, TypeStep, PTL DEF Spec
  <1>2. TypeInv => TypeOK
    BY DEF TypeInv
  <1> QED
    BY <1>1, <1>2, PTL

-----------------------------------------------------------------------------
(***************************************************************************)
(* The inductive invariant of the ring.  It holds as long as no push has   *)
(* filled the ring; a producer that leaves a gap never does.               *)
(***************************************************************************)

\* The slot d words after offset o.
At(o, d) == IF o + d >= DataMaximumSize THEN o + d - DataMaximumSize ELSE o + d

\* The packets lie back to back in the stream of words.
Stream ==
  /\ \A i \in 1..Len(sent) :
       sent[i].pos = IF i = 1 THEN 0 ELSE End(sent[i - 1])
  /\ \A i, j \in 1..Len(sent) : i < j => End(sent[i]) <= sent[j].pos

\* What was popped is what was pushed.
Prefix ==
  /\ Len(delivered) <= Len(sent)
  /\ \A i \in 1..Len(delivered) :
       /\ delivered[i].packet = sent[i]
       /\ delivered[i].content = ContentOf(sent[i])

\* The offsets of the control block tell how much is in the ring.
Sizes ==
  /\ Outstanding < DataMaximumSize
  /\ ReadableSize(In, Out) = Outstanding

\* Every word not yet popped is in its slot.
Stored ==
  \A i \in 1..Len(sent) : i > Len(delivered) =>
    \A k \in 1..PacketSize(sent[i]) :
      data[At(Out, sent[i].pos - Released + k - 1)] = <<sent[i], k>>

\* A push in progress has room, and the words it has written are in place.
WroteSize ==
  CASE push.pc = "second" -> FirstWriteSize
    [] push.pc = "commit" -> PacketSize(push.packet)
    [] OTHER -> 0

PushInv ==
  /\ PushPending =>
       /\ push.In = In
       /\ push.packet.pos = Written
       /\ Outstanding + PacketSize(push.packet) + Gap <= DataMaximumSize
       /\ \A k \in 1..WroteSize : data[At(In, k - 1)] = <<push.packet, k>>
  /\ push.pc = "sized" =>
       \/ push.limit = 0
       \/ push.limit + PipePacketHeaderSize + ULong <= WritableSize(In, Out)

\* A pop in progress has copied what is in the ring.
PopInv ==
  PopPending =>
    /\ pop.Out = Out
    /\ AvailableSize <= Outstanding
    /\ pop.pc # "first" =>
         \A k \in 1..Len(pop.bytes) : pop.bytes[k] = data[At(Out, k - 1)]

RingInv == Stream /\ Prefix /\ Sizes /\ Stored /\ PushInv /\ PopInv

IInv ==
  /\ TypeInv
  /\ Gap > 0 => ~filled
  /\ ~filled => RingInv

-----------------------------------------------------------------------------
(* Slots.                                                                  *)

\* Words less than DataMaximumSize apart lie in different slots.
LEMMA AtInjective ==
  ASSUME NEW o \in Offset, NEW c \in Nat, NEW d \in Nat,
         c < DataMaximumSize, d < DataMaximumSize, c # d
  PROVE  At(o, c) # At(o, d)
  BY RingAssumption DEF At, Offset

\* The slot a word has after the consumer moved on is the one it had before.
LEMMA AtMoves ==
  ASSUME NEW o \in Offset, NEW f \in Offset, NEW n \in Nat, NEW d \in Nat,
         n + d < DataMaximumSize,
         f = o + n \/ f = o + n - DataMaximumSize
  PROVE  At(f, d) = At(o, n + d)
  BY RingAssumption DEF At, Offset

\* The producer writes right behind the words in the ring.
LEMMA AtBehind ==
  ASSUME NEW i \in Offset, NEW o \in Offset, NEW j \in Nat,
         ReadableSize(i, o) + j < DataMaximumSize
  PROVE  At(i, j) = At(o, ReadableSize(i, o) + j)
  BY RingAssumption DEF At, Offset, ReadableSize

\* Publishing n words makes exactly n more words readable.
LEMMA ReadableGrows ==
  ASSUME NEW i \in Offset, NEW o \in Offset, NEW f \in Offset, NEW n \in Nat,
         ReadableSize(i, o) + n < DataMaximumSize,
         f = i + n \/ f = i + n - DataMaximumSize,
         n > 0
  PROVE  ReadableSize(f, o) = ReadableSize(i, o) + n
  BY RingAssumption DEF Offset, ReadableSize

\* Releasing n words makes exactly n fewer words readable.
LEMMA ReadableShrinks ==
  ASSUME NEW i \in Offset, NEW o \in Offset, NEW f \in Offset, NEW n \in Nat,
         ReadableSize(i, o) < DataMaximumSize, n <= ReadableSize(i, o),
         \/ f = o + n
         \/ f = o + n - DataMaximumSize /\ f > 0
  PROVE  ReadableSize(i, f) = ReadableSize(i, o) - n
  BY RingAssumption DEF Offset, ReadableSize

-----------------------------------------------------------------------------
(* The stream of words.                                                    *)

LEMMA SentTypes ==
  ASSUME TypeOK
  PROVE  /\ Len(sent) \in Nat /\ Len(delivered) \in Nat
         /\ \A i \in 1..Len(sent) : sent[i] \in Packet
         /\ \A i \in 1..Len(delivered) : delivered[i].packet \in Packet
  <1> DEFINE D == [packet : Packet, content : Seq(Word)]
  <1>1. sent \in Seq(Packet) /\ delivered \in Seq(D)
    BY DEF TypeOK
  <1>2. \A i \in 1..Len(delivered) : delivered[i] \in D
    <2> HIDE DEF D
    <2> QED BY <1>1
  <1>3. \A i \in 1..Len(delivered) : delivered[i].packet \in Packet
    BY <1>2
  <1>4. Len(sent) \in Nat /\ Len(delivered) \in Nat
    <2> HIDE DEF D
    <2> QED BY <1>1, LenProperties
  <1> QED
    BY <1>1, <1>3, <1>4

\* Released and Written in terms of sent alone.
LEMMA StreamEnds ==
  ASSUME TypeOK, Prefix
  PROVE  /\ Released = IF Len(delivered) = 0 THEN 0 ELSE End(sent[Len(delivered)])
         /\ Written = IF Len(sent) = 0 THEN 0 ELSE End(sent[Len(sent)])
  <1>1. sent = << >> <=> Len(sent) = 0
    BY DEF TypeOK
  <1>2. delivered = << >> <=> Len(delivered) = 0
    <2> DEFINE D == [packet : Packet, content : Seq(Word)]
    <2>1. delivered \in Seq(D)
      BY DEF TypeOK
    <2> HIDE DEF D
    <2> QED BY <2>1, EmptySeq
  <1>3. Len(delivered) # 0 => delivered[Len(delivered)].packet = sent[Len(delivered)]
    BY SentTypes DEF Prefix
  <1> QED
    BY <1>1, <1>2, <1>3 DEF Written, Released

\* A packet not yet popped lies between the positions of the two ends.
LEMMA PacketInWindow ==
  ASSUME TypeOK, Prefix, Stream, NEW i \in 1..Len(sent), i > Len(delivered)
  PROVE  /\ sent[i].pos \in Nat /\ PacketSize(sent[i]) \in Nat
         /\ Released \in Nat /\ Written \in Nat
         /\ Released <= sent[i].pos
         /\ sent[i].pos + PacketSize(sent[i]) <= Written
         /\ i = Len(delivered) + 1 => sent[i].pos = Released
  <1>1. /\ Len(sent) \in Nat /\ Len(delivered) \in Nat
        /\ \A j \in 1..Len(sent) : sent[j] \in Packet
    BY SentTypes
  <1>2. Released \in Nat /\ Written \in Nat
    BY WrittenType
  <1>3. /\ sent[i].pos \in Nat /\ PacketSize(sent[i]) \in Nat
        /\ End(sent[i]) = sent[i].pos + PacketSize(sent[i])
    BY <1>1, PacketSizes
  <1>4. Released <= sent[i].pos
    <2>1. CASE Len(delivered) = 0
      BY <2>1, <1>3, StreamEnds
    <2>2. CASE Len(delivered) # 0
      <3>1. Len(delivered) \in 1..Len(sent)
        BY <2>2, <1>1 DEF Prefix
      <3>2. End(sent[Len(delivered)]) <= sent[i].pos
        BY <3>1 DEF Stream
      <3> QED
        BY <3>2, <2>2, StreamEnds
    <2> QED BY <2>1, <2>2
  <1>5. End(sent[i]) <= Written
    <2>1. Written = End(sent[Len(sent)])
      BY <1>1, StreamEnds
    <2>2. CASE i = Len(sent)
      BY <2>1, <2>2, <1>3, <1>2
    <2>3. CASE i # Len(sent)
      <3>1. Len(sent) \in 1..Len(sent) /\ i < Len(sent)
        BY <2>3, <1>1
      <3>2. End(sent[i]) <= sent[Len(sent)].pos
        BY <3>1 DEF Stream
      <3>3. /\ sent[Len(sent)].pos \in Nat /\ PacketSize(sent[Len(sent)]) \in Nat
            /\ End(sent[Len(sent)]) = sent[Len(sent)].pos + PacketSize(sent[Len(sent)])
        BY <3>1, <1>1, PacketSizes
      <3> QED
        BY <3>2, <3>3, <2>1, <1>3
    <2> QED BY <2>2, <2>3
  <1>6. i = Len(delivered) + 1 => sent[i].pos = Released
    <2> SUFFICES ASSUME i = Len(delivered) + 1 PROVE sent[i].pos = Released
      OBVIOUS
    <2>1. sent[i].pos = IF i = 1 THEN 0 ELSE End(sent[i - 1])
      BY DEF Stream
    <2>2. i - 1 = Len(delivered) /\ (i = 1 <=> Len(delivered) = 0)
      BY <1>1
    <2> QED
      BY <2>1, <2>2, StreamEnds
  <1> QED
    BY <1>2, <1>3, <1>4, <1>5, <1>6

LEMMA OutstandingType ==
  ASSUME TypeOK, Sizes
  PROVE  /\ Outstanding \in Nat /\ Outstanding < DataMaximumSize
         /\ Outstanding = ReadableSize(In, Out)
         /\ WritableSize(In, Out) = DataMaximumSize - Outstanding
         /\ In \in Offset /\ Out \in Offset
         /\ DataMaximumSize \in Nat /\ Gap \in Nat
  BY SizesNow, RingAssumption DEF Sizes, TypeOK

LEMMA AtSlot ==
  ASSUME NEW o \in Offset, NEW d \in Nat, d < DataMaximumSize
  PROVE  At(o, d) \in Slot
  BY RingAssumption DEF At, Offset, Slot

-----------------------------------------------------------------------------
(* The two writes of a push leave alone what is in the ring.               *)

LEMMA FirstWrite ==
  ASSUME TypeInv, RingInv, PushFirst
  PROVE  /\ \A d \in Nat : d < Outstanding => data'[At(Out, d)] = data[At(Out, d)]
         /\ \A k \in 1..FirstWriteSize : data'[At(In, k - 1)] = <<push.packet, k>>
  <1>1. /\ PushPending /\ push.In = In
        /\ Outstanding + PacketSize(push.packet) + Gap <= DataMaximumSize
    BY DEF PushFirst, PushPending, RingInv, PushInv
  <1>2. /\ FirstWriteSize \in Nat /\ PacketSize(push.packet) \in Nat
        /\ FirstWriteSize <= PacketSize(push.packet)
        /\ In + FirstWriteSize <= DataMaximumSize
    BY <1>1, WriteSizes, PacketSizes DEF TypeInv, TypeOK
  <1>3. /\ Outstanding \in Nat /\ Outstanding < DataMaximumSize
        /\ Outstanding = ReadableSize(In, Out)
        /\ In \in Offset /\ Out \in Offset
        /\ DataMaximumSize \in Nat /\ Gap \in Nat
    BY OutstandingType DEF TypeInv, RingInv
  <1>4. \A o \in Slot : data'[o] = IF o >= In /\ o < In + FirstWriteSize
                                   THEN <<push.packet, o - In + 1>> ELSE data[o]
    BY <1>1 DEF PushFirst
  <1>5. ASSUME NEW d \in Nat, d < Outstanding
        PROVE  data'[At(Out, d)] = data[At(Out, d)]
    <2>1. At(Out, d) \in Slot
      BY <1>3, <1>5, AtSlot
    <2>2. ASSUME At(Out, d) >= In, At(Out, d) < In + FirstWriteSize PROVE FALSE
      <3> DEFINE j == At(Out, d) - In
      <3>1. j \in Nat /\ j < FirstWriteSize /\ In + j < DataMaximumSize
            /\ Outstanding + j < DataMaximumSize /\ In \in Nat
        BY <1>1, <1>2, <1>3, <2>1, <2>2 DEF Slot, Offset
      <3>2. At(In, j) = At(Out, d)
        BY <3>1, <2>1, <1>3 DEF At, Slot
      <3> HIDE DEF j
      <3>3. At(In, j) = At(Out, Outstanding + j)
        BY <3>1, <1>3, AtBehind
      <3>4. Outstanding + j \in Nat /\ d # Outstanding + j /\ d < DataMaximumSize
        BY <3>1, <1>3, <1>5
      <3>5. At(Out, d) # At(Out, Outstanding + j)
        BY <3>1, <3>4, <1>3, AtInjective
      <3> QED
        BY <3>2, <3>3, <3>5
    <2> QED
      BY <1>4, <2>1, <2>2
  <1>6. ASSUME NEW k \in 1..FirstWriteSize
        PROVE  data'[At(In, k - 1)] = <<push.packet, k>>
    <2>1. /\ In + (k - 1) \in Slot /\ In + (k - 1) >= In
          /\ In + (k - 1) < In + FirstWriteSize
          /\ In + (k - 1) - In + 1 = k
      BY <1>2, <1>3 DEF Slot, Offset
    <2>2. At(In, k - 1) = In + (k - 1)
      BY <2>1, <1>2, <1>3 DEF At, Slot, Offset
    <2> DEFINE o == In + (k - 1)
    <2>3. o \in Slot /\ o >= In /\ o < In + FirstWriteSize /\ o - In + 1 = k
      BY <1>2, <1>3 DEF Slot, Offset
    <2> HIDE DEF o
    <2>4. data'[o] = <<push.packet, k>>
      BY <2>3, <1>4
    <2> QED
      BY <2>2, <2>4 DEF o
  <1> QED
    BY <1>5, <1>6

LEMMA SecondWrite ==
  ASSUME TypeInv, RingInv, PushSecond
  PROVE  /\ \A d \in Nat : d < Outstanding => data'[At(Out, d)] = data[At(Out, d)]
         /\ \A k \in 1..PacketSize(push.packet) :
              data'[At(In, k - 1)] = <<push.packet, k>>
  <1>1. /\ PushPending /\ push.In = In /\ WroteSize = FirstWriteSize
        /\ Outstanding + PacketSize(push.packet) + Gap <= DataMaximumSize
        /\ \A k \in 1..WroteSize : data[At(In, k - 1)] = <<push.packet, k>>
    BY DEF PushSecond, PushPending, RingInv, PushInv, WroteSize
  <1>2. /\ FirstWriteSize \in Nat /\ PacketSize(push.packet) \in Nat
        /\ SecondWriteSize \in Nat
        /\ FirstWriteSize + SecondWriteSize = PacketSize(push.packet)
        /\ In + FirstWriteSize <= DataMaximumSize
        /\ SecondWriteSize > 0 => In + FirstWriteSize = DataMaximumSize
    BY <1>1, WriteSizes, PacketSizes DEF TypeInv, TypeOK
  <1>3. /\ Outstanding \in Nat /\ Outstanding < DataMaximumSize
        /\ Outstanding = ReadableSize(In, Out)
        /\ In \in Offset /\ Out \in Offset
        /\ DataMaximumSize \in Nat /\ Gap \in Nat
    BY OutstandingType DEF TypeInv, RingInv
  <1>4. \A o \in Slot : data'[o] = IF o < SecondWriteSize
                                   THEN <<push.packet, FirstWriteSize + o + 1>>
                                   ELSE data[o]
    BY DEF PushSecond
  <1>5. ASSUME NEW o \in Slot, o < SecondWriteSize
        PROVE  /\ FirstWriteSize + o \in Nat
               /\ FirstWriteSize + o < PacketSize(push.packet)
               /\ At(In, FirstWriteSize + o) = o
    BY <1>2, <1>3, <1>5 DEF At, Slot, Offset
  <1>6. ASSUME NEW d \in Nat, d < Outstanding
        PROVE  data'[At(Out, d)] = data[At(Out, d)]
    <2>1. At(Out, d) \in Slot
      BY <1>3, <1>6, AtSlot
    <2>2. ASSUME At(Out, d) < SecondWriteSize PROVE FALSE
      <3> DEFINE j == FirstWriteSize + At(Out, d)
      <3>1. j \in Nat /\ j < PacketSize(push.packet) /\ At(In, j) = At(Out, d)
        BY <2>1, <2>2, <1>5
      <3> HIDE DEF j
      <3>2. Outstanding + j < DataMaximumSize
        BY <3>1, <1>1, <1>2, <1>3
      <3>3. At(In, j) = At(Out, Outstanding + j)
        BY <3>1, <3>2, <1>3, AtBehind
      <3>4. Outstanding + j \in Nat /\ d # Outstanding + j /\ d < DataMaximumSize
        BY <3>1, <1>3, <1>6
      <3>5. At(Out, d) # At(Out, Outstanding + j)
        BY <3>2, <3>4, <1>3, AtInjective
      <3> QED
        BY <3>1, <3>3, <3>5
    <2> QED
      BY <1>4, <2>1, <2>2
  <1>7. ASSUME NEW k \in 1..PacketSize(push.packet)
        PROVE  data'[At(In, k - 1)] = <<push.packet, k>>
    <2>1. CASE k <= FirstWriteSize
      <3>1. k \in 1..FirstWriteSize
        BY <2>1, <1>2
      <3>2. data[At(In, k - 1)] = <<push.packet, k>>
        BY <3>1, <1>1
      <3>3. At(In, k - 1) = In + (k - 1) /\ In + (k - 1) \in Slot
        BY <3>1, <1>2, <1>3 DEF At, Slot, Offset
      <3>4. ~(In + (k - 1) < SecondWriteSize)
        BY <3>1, <1>1, <1>2, <1>3 DEF Offset
      <3> QED
        BY <3>2, <3>3, <3>4, <1>4
    <2>2. CASE k > FirstWriteSize
      <3> DEFINE o == k - 1 - FirstWriteSize
      <3>1. o \in Slot /\ o < SecondWriteSize /\ FirstWriteSize + o = k - 1
            /\ FirstWriteSize + o + 1 = k
        BY <2>2, <1>1, <1>2, <1>3 DEF Slot
      <3> HIDE DEF o
      <3>2. At(In, k - 1) = o
        BY <3>1, <1>5
      <3> QED
        BY <3>1, <3>2, <1>4
    <2> QED
      BY <2>1, <2>2, <1>2
  <1> QED
    BY <1>6, <1>7

\* A step that leaves the words in the ring alone keeps them stored.
LEMMA StoredKept ==
  ASSUME TypeInv, RingInv, UNCHANGED <<Out, sent, delivered>>,
         \A d \in Nat : d < Outstanding => data'[At(Out, d)] = data[At(Out, d)]
  PROVE  Stored'
  <1>1. Released' = Released
    BY DEF Released
  <1>2. SUFFICES ASSUME NEW i \in 1..Len(sent), i > Len(delivered),
                        NEW k \in 1..PacketSize(sent[i])
                 PROVE  data'[At(Out, sent[i].pos - Released + k - 1)] = <<sent[i], k>>
    BY <1>1 DEF Stored
  <1>3. data[At(Out, sent[i].pos - Released + k - 1)] = <<sent[i], k>>
    BY <1>2 DEF RingInv, Stored
  <1>4. /\ sent[i].pos \in Nat /\ PacketSize(sent[i]) \in Nat
        /\ Released \in Nat /\ Written \in Nat
        /\ Released <= sent[i].pos
        /\ sent[i].pos + PacketSize(sent[i]) <= Written
    BY <1>2, PacketInWindow DEF TypeInv, RingInv
  <1>5. /\ sent[i].pos - Released + k - 1 \in Nat
        /\ sent[i].pos - Released + k - 1 < Outstanding
    BY <1>4 DEF Outstanding
  <1> QED
    BY <1>3, <1>5

LEMMA PopInvKept ==
  ASSUME TypeInv, RingInv, UNCHANGED <<Out, sent, delivered, pop>>,
         \A d \in Nat : d < Outstanding => data'[At(Out, d)] = data[At(Out, d)]
  PROVE  PopInv'
  <1>1. Outstanding' = Outstanding
    BY DEF Outstanding, Released, Written
  <1>2. AvailableSize' = AvailableSize
    BY DEF AvailableSize
  <1>3. SUFFICES ASSUME PopPending
                 PROVE /\ pop.Out = Out
                       /\ AvailableSize <= Outstanding
                       /\ pop.pc # "first" =>
                            \A k \in 1..Len(pop.bytes) :
                              pop.bytes[k] = data'[At(Out, k - 1)]
    BY <1>1, <1>2 DEF PopInv, PopPending
  <1>4. pop.Out = Out /\ AvailableSize <= Outstanding
    BY <1>3 DEF RingInv, PopInv
  <1>5. ASSUME pop.pc # "first", NEW k \in 1..Len(pop.bytes)
        PROVE  pop.bytes[k] = data'[At(Out, k - 1)]
    <2>1. pop.bytes[k] = data[At(Out, k - 1)]
      BY <1>3, <1>5 DEF RingInv, PopInv
    <2>a. /\ AvailableSize \in 3..DataMaximumSize /\ FirstReadSize \in Nat
          /\ SecondReadSize \in Nat
          /\ FirstReadSize + SecondReadSize = AvailableSize
      BY <1>3, ReadSizes DEF TypeInv
    <2>2. /\ AvailableSize \in Nat /\ FirstReadSize \in Nat
          /\ FirstReadSize <= AvailableSize
      BY <2>a, RingAssumption
    <2>3. Len(pop.bytes) <= AvailableSize /\ Len(pop.bytes) \in Nat
      BY <2>2, <1>3, <1>5 DEF TypeInv, TypeOK, PopLocals, PopPending
    <2>4. Outstanding \in Nat
      BY OutstandingType DEF TypeInv, RingInv
    <2>5. k - 1 \in Nat /\ k - 1 < Outstanding
      BY <2>2, <2>3, <2>4, <1>4
    <2> QED
      BY <2>1, <2>5
  <1> QED
    BY <1>4, <1>5

-----------------------------------------------------------------------------
(* Every action keeps the invariant of the ring.                           *)

LEMMA SameRing ==
  ASSUME RingInv, UNCHANGED <<In, Out, data, sent, delivered>>
  PROVE  /\ Stream' /\ Prefix' /\ Sizes' /\ Stored'
         /\ Outstanding' = Outstanding /\ Written' = Written /\ Released' = Released
  <1>1. Outstanding' = Outstanding /\ Written' = Written /\ Released' = Released
    BY DEF Outstanding, Written, Released
  <1>2. Stream' /\ Prefix'
    BY DEF RingInv, Stream, Prefix
  <1>3. Sizes'
    BY <1>1 DEF RingInv, Sizes
  <1>4. Stored'
    BY <1>1 DEF RingInv, Stored
  <1> QED
    BY <1>1, <1>2, <1>3, <1>4

LEMMA SamePush ==
  ASSUME RingInv, UNCHANGED <<In, Out, data, sent, delivered, push>>
  PROVE  PushInv'
  <1>1. Outstanding' = Outstanding /\ Written' = Written
    BY SameRing
  <1>2. WroteSize' = WroteSize
    BY DEF WroteSize, FirstWriteSize
  <1> QED
    BY <1>1, <1>2 DEF RingInv, PushInv, PushPending

LEMMA SamePop ==
  ASSUME RingInv, UNCHANGED <<In, Out, data, sent, delivered, pop>>
  PROVE  PopInv'
  <1>1. Outstanding' = Outstanding
    BY SameRing
  <1>2. AvailableSize' = AvailableSize
    BY DEF AvailableSize
  <1> QED
    BY <1>1, <1>2 DEF RingInv, PopInv, PopPending

LEMMA RingGetMaximumPushSize ==
  ASSUME TypeInv, RingInv, GetMaximumPushSize PROVE RingInv'
  <1>1. UNCHANGED <<In, Out, data, sent, delivered, pop>>
    BY DEF GetMaximumPushSize
  <1>2. WritableSize(In, Out) \in Nat
    BY SizesNow DEF TypeInv
  <1>3. push'.pc = "sized" /\ push'.limit = MaximumPush(WritableSize(In, Out))
    BY DEF GetMaximumPushSize, TypeInv, TypeOK
  <1>4. \/ push'.limit = 0
        \/ push'.limit + PipePacketHeaderSize + ULong <= WritableSize(In, Out)
    BY <1>2, <1>3, MaximumPushRange
  <1>5. PushInv'
    BY <1>1, <1>3, <1>4 DEF PushInv, PushPending
  <1> QED
    BY <1>1, <1>5, SameRing, SamePop DEF RingInv

LEMMA RingIdlePush ==
  ASSUME TypeInv, RingInv, push' = IdlePush,
         UNCHANGED <<In, Out, data, sent, delivered, pop>>
  PROVE  RingInv'
  <1>1. PushInv'
    BY DEF PushInv, PushPending, IdlePush
  <1> QED
    BY <1>1, SameRing, SamePop DEF RingInv

LEMMA RingPushAccepted ==
  ASSUME TypeInv, RingInv, NEW s \in Shapes, PushAccepted(s) PROVE RingInv'
  <1> DEFINE p == NewPacket(s, Written)
  <1>1. UNCHANGED <<In, Out, data, sent, delivered, pop>>
    BY DEF PushAccepted
  <1>2. Outstanding' = Outstanding /\ Written' = Written
    BY <1>1, SameRing
  <1>3. p.pos = Written /\ PacketSize(p) \in Nat
    BY WrittenType, NewPacketType, PacketSizes DEF TypeInv
  <1>4. push'.pc = "first" /\ push'.packet = p /\ push'.In = In
    BY DEF PushAccepted
  <1>5. PacketSize(p) + Gap <= WritableSize(In, Out)
    BY DEF PushAccepted, HasSpace
  <1> HIDE DEF p
  <1>6. Outstanding + PacketSize(p) + Gap <= DataMaximumSize
    BY <1>3, <1>5, OutstandingType DEF TypeInv, RingInv
  <1>7. WroteSize' = 0
    BY <1>4 DEF WroteSize
  <1>8. PushInv'
    BY <1>1, <1>2, <1>3, <1>4, <1>6, <1>7 DEF PushInv
  <1> QED
    BY <1>1, <1>8, SameRing, SamePop DEF RingInv

LEMMA RingPushFirst ==
  ASSUME TypeInv, RingInv, PushFirst PROVE RingInv'
  <1>1. UNCHANGED <<In, Out, sent, delivered, pop>>
    BY DEF PushFirst
  <1>2. /\ \A d \in Nat : d < Outstanding => data'[At(Out, d)] = data[At(Out, d)]
        /\ \A k \in 1..FirstWriteSize : data'[At(In, k - 1)] = <<push.packet, k>>
    BY FirstWrite
  <1>3. Outstanding' = Outstanding /\ Written' = Written
    BY <1>1 DEF Outstanding, Written, Released
  <1>4. Stream' /\ Prefix' /\ Sizes'
    BY <1>1, <1>3 DEF RingInv, Stream, Prefix, Sizes
  <1>5. Stored' /\ PopInv'
    BY <1>1, <1>2, StoredKept, PopInvKept
  <1>6. /\ push'.pc = IF SecondWriteSize > 0 THEN "second" ELSE "commit"
        /\ push'.packet = push.packet /\ push'.In = push.In /\ push'.Out = push.Out
    BY DEF PushFirst, TypeInv, TypeOK
  <1>7. FirstWriteSize' = FirstWriteSize
    BY <1>6 DEF FirstWriteSize
  <1>8. WroteSize' = FirstWriteSize
    <2>1. /\ FirstWriteSize \in Nat /\ SecondWriteSize \in Nat
          /\ FirstWriteSize + SecondWriteSize = PacketSize(push.packet)
          /\ PacketSize(push.packet) \in Nat
      BY WriteSizes, PacketSizes DEF TypeInv, TypeOK, PushFirst, PushPending
    <2>2. CASE SecondWriteSize > 0
      BY <2>2, <1>6, <1>7 DEF WroteSize
    <2>3. CASE SecondWriteSize = 0
      <3>1. FirstWriteSize = PacketSize(push.packet)
        BY <2>1, <2>3
      <3>2. push'.pc = "commit"
        BY <2>3, <1>6
      <3> QED
        BY <3>1, <3>2, <1>6 DEF WroteSize
    <2> QED
      BY <2>1, <2>2, <2>3
  <1>9. PushInv'
    BY <1>1, <1>2, <1>3, <1>6, <1>8 DEF PushInv, PushPending, RingInv, PushFirst
  <1> QED
    BY <1>4, <1>5, <1>9 DEF RingInv

LEMMA RingPushSecond ==
  ASSUME TypeInv, RingInv, PushSecond PROVE RingInv'
  <1>1. UNCHANGED <<In, Out, sent, delivered, pop>>
    BY DEF PushSecond
  <1>2. /\ \A d \in Nat : d < Outstanding => data'[At(Out, d)] = data[At(Out, d)]
        /\ \A k \in 1..PacketSize(push.packet) :
             data'[At(In, k - 1)] = <<push.packet, k>>
    BY SecondWrite
  <1>3. Outstanding' = Outstanding /\ Written' = Written
    BY <1>1 DEF Outstanding, Written, Released
  <1>4. Stream' /\ Prefix' /\ Sizes'
    BY <1>1, <1>3 DEF RingInv, Stream, Prefix, Sizes
  <1>5. Stored' /\ PopInv'
    BY <1>1, <1>2, StoredKept, PopInvKept
  <1>6. /\ push'.pc = "commit"
        /\ push'.packet = push.packet /\ push'.In = push.In
    BY DEF PushSecond, TypeInv, TypeOK
  <1>7. WroteSize' = PacketSize(push.packet)
    BY <1>6 DEF WroteSize
  <1>8. PushInv'
    BY <1>1, <1>2, <1>3, <1>6, <1>7 DEF PushInv, PushPending, RingInv, PushSecond
  <1> QED
    BY <1>4, <1>5, <1>8 DEF RingInv

LEMMA RingPopCall ==
  ASSUME TypeInv, RingInv, PopCall PROVE RingInv'
  <1>1. UNCHANGED <<In, Out, data, sent, delivered, push>>
    BY DEF PopCall
  <1>2. Outstanding' = Outstanding
    BY <1>1, SameRing
  <1>3. pop'.pc = "first" /\ pop'.Out = Out /\ pop'.In = In
    BY DEF PopCall
  <1>4. AvailableSize' = Outstanding
    BY <1>3 DEF AvailableSize, RingInv, Sizes
  <1>5. PopInv'
    BY <1>1, <1>2, <1>3, <1>4, OutstandingType DEF PopInv, TypeInv, RingInv
  <1> QED
    BY <1>1, <1>5, SameRing, SamePush DEF RingInv

LEMMA RingPopFirst ==
  ASSUME TypeInv, RingInv, PopFirst PROVE RingInv'
  <1>1. UNCHANGED <<In, Out, data, sent, delivered, push>>
    BY DEF PopFirst
  <1>2. Outstanding' = Outstanding
    BY <1>1, SameRing
  <1>3. PopPending /\ pop.Out = Out /\ AvailableSize <= Outstanding
    BY DEF PopFirst, PopPending, RingInv, PopInv
  <1>4. /\ pop'.Out = pop.Out /\ pop'.In = pop.In
        /\ pop'.bytes = [i \in 1..FirstReadSize |-> data[pop.Out + i - 1]]
    BY DEF PopFirst, TypeInv, TypeOK
  <1>5. AvailableSize' = AvailableSize
    BY <1>4 DEF AvailableSize
  <1>6. /\ FirstReadSize \in Nat /\ pop.Out + FirstReadSize <= DataMaximumSize
        /\ Out \in Offset
    BY <1>3, ReadSizes DEF TypeInv, TypeOK
  <1>7. Len(pop'.bytes) = FirstReadSize
    BY <1>4, <1>6
  <1>8. ASSUME NEW k \in 1..FirstReadSize PROVE pop'.bytes[k] = data[At(Out, k - 1)]
    <2>1. At(Out, k - 1) = Out + k - 1
      BY <1>3, <1>6, RingAssumption DEF At, Offset
    <2> QED
      BY <2>1, <1>3, <1>4
  <1>9. PopInv'
    BY <1>1, <1>2, <1>3, <1>4, <1>5, <1>7, <1>8 DEF PopInv
  <1> QED
    BY <1>1, <1>9, SameRing, SamePush DEF RingInv

LEMMA RingPopSecond ==
  ASSUME TypeInv, RingInv, PopSecond PROVE RingInv'
  <1> DEFINE r == [i \in 1..SecondReadSize |-> data[i - 1]]
  <1>1. UNCHANGED <<In, Out, data, sent, delivered, push>>
    BY DEF PopSecond
  <1>2. Outstanding' = Outstanding
    BY <1>1, SameRing
  <1>3. /\ PopPending /\ pop.Out = Out /\ AvailableSize <= Outstanding
        /\ \A k \in 1..Len(pop.bytes) : pop.bytes[k] = data[At(Out, k - 1)]
        /\ Len(pop.bytes) = FirstReadSize
    BY DEF PopSecond, PopPending, RingInv, PopInv, TypeInv, PopLocals
  <1>4. /\ FirstReadSize \in Nat /\ SecondReadSize \in Nat /\ Out \in Offset
        /\ SecondReadSize > 0 => Out + FirstReadSize = DataMaximumSize
        /\ SecondReadSize <= DataMaximumSize
    BY <1>3, ReadSizes DEF TypeInv, TypeOK
  <1>5. ASSUME NEW i \in 1..SecondReadSize PROVE data[i - 1] \in Word
    BY <1>4, RingAssumption DEF TypeInv, TypeOK, Slot
  <1>6. /\ r \in Seq(Word) /\ Len(r) = SecondReadSize
        /\ \A i \in 1..SecondReadSize : r[i] = data[i - 1]
    BY <1>4, <1>5
  <1>7. pop' = [pop EXCEPT !.pc = "parse", !.bytes = pop.bytes \o r]
    BY DEF PopSecond
  <1> HIDE DEF r
  <1>8. /\ pop'.Out = pop.Out /\ pop'.In = pop.In
        /\ pop'.bytes = pop.bytes \o r
    BY <1>7 DEF TypeInv, TypeOK
  <1>9. AvailableSize' = AvailableSize
    BY <1>8 DEF AvailableSize
  <1>10. pop.bytes \in Seq(Word)
    BY DEF TypeInv, TypeOK
  <1>11. Len(pop'.bytes) = FirstReadSize + SecondReadSize
    BY <1>3, <1>6, <1>8, <1>10, ConcatProperties
  <1>12. ASSUME NEW k \in 1..(FirstReadSize + SecondReadSize)
         PROVE  pop'.bytes[k] = data[At(Out, k - 1)]
    <2>1. (pop.bytes \o r)[k] = IF k <= FirstReadSize THEN pop.bytes[k]
                                ELSE r[k - FirstReadSize]
      BY <1>3, <1>6, <1>10, ConcatProperties
    <2>2. CASE k <= FirstReadSize
      <3>1. k \in 1..Len(pop.bytes)
        BY <2>2, <1>3, <1>4
      <3> QED
        BY <3>1, <2>1, <2>2, <1>3, <1>8
    <2>3. CASE k > FirstReadSize
      <3>1. k - FirstReadSize \in 1..SecondReadSize /\ ~(k <= FirstReadSize)
        BY <2>3, <1>4
      <3>2. r[k - FirstReadSize] = data[k - FirstReadSize - 1]
        BY <3>1, <1>6
      <3>3. At(Out, k - 1) = k - FirstReadSize - 1
        BY <3>1, <1>4, RingAssumption DEF At, Offset
      <3> QED
        BY <3>1, <3>2, <3>3, <2>1, <1>8
    <2> QED
      BY <2>2, <2>3, <1>4
  <1>13. PopInv'
    BY <1>1, <1>2, <1>3, <1>8, <1>9, <1>11, <1>12 DEF PopInv
  <1> QED
    BY <1>1, <1>13, SameRing, SamePush DEF RingInv

LEMMA RingPopThrow ==
  ASSUME TypeInv, RingInv, PopThrow PROVE RingInv'
  <1>1. UNCHANGED <<In, Out, data, sent, delivered, push>>
    BY DEF PopThrow
  <1>2. PopInv'
    BY DEF PopThrow, PopInv, PopPending, IdlePop
  <1> QED
    BY <1>1, <1>2, SameRing, SamePush DEF RingInv

LEMMA EndBelowWritten ==
  ASSUME TypeOK, Prefix, Stream, NEW i \in 1..Len(sent)
  PROVE  End(sent[i]) <= Written
  <1>1. Len(sent) \in Nat /\ Len(sent) \in 1..Len(sent)
    BY SentTypes
  <1>2. /\ sent[Len(sent)] \in Packet /\ Written = End(sent[Len(sent)])
        /\ Written \in Nat
    BY <1>1, SentTypes, StreamEnds, WrittenType
  <1>3. CASE i = Len(sent)
    BY <1>2, <1>3
  <1>4. CASE i # Len(sent)
    <2>1. End(sent[i]) <= sent[Len(sent)].pos
      BY <1>1, <1>4 DEF Stream
    <2>2. /\ sent[Len(sent)].pos \in Nat /\ PacketSize(sent[Len(sent)]) \in Nat
          /\ Written = sent[Len(sent)].pos + PacketSize(sent[Len(sent)])
      BY <1>2, PacketSizes
    <2>3. End(sent[i]) \in Nat
      BY SentTypes, PacketSizes
    <2> QED
      BY <2>1, <2>2, <2>3
  <1> QED
    BY <1>3, <1>4

LEMMA RingPushCommit ==
  ASSUME TypeInv, RingInv, PushCommit, ~filled' PROVE RingInv'
  <1> DEFINE p == push.packet
             n == Len(sent)
  <1>1. /\ UNCHANGED <<Out, data, delivered, pop>> /\ push' = IdlePush
        /\ In' \in FinalIn
    BY DEF PushCommit
  <1>2. /\ push.In = In /\ p.pos = Written
        /\ Outstanding + PacketSize(p) + Gap <= DataMaximumSize
        /\ \A k \in 1..PacketSize(p) : data[At(In, k - 1)] = <<p, k>>
    BY DEF PushCommit, RingInv, PushInv, PushPending, WroteSize
  <1>3. /\ p \in Packet /\ sent \in Seq(Packet) /\ n \in Nat
        /\ \A i \in 1..n : sent[i] \in Packet
    BY SentTypes DEF TypeInv, TypeOK
  <1>4. /\ PacketSize(p) \in Nat /\ PacketSize(p) > 0
        /\ End(p) = Written + PacketSize(p)
        /\ Written \in Nat /\ Released \in Nat
    BY <1>2, <1>3, PacketSizes, WrittenType DEF TypeInv
  <1>5. /\ sent' \in Seq(Packet) /\ Len(sent') = n + 1 /\ sent' # << >>
        /\ \A i \in 1..n : sent'[i] = sent[i]
        /\ sent'[n + 1] = p
    BY <1>3, AppendProperties DEF PushCommit
  <1>6. /\ Written' = End(p) /\ Released' = Released
    BY <1>1, <1>5 DEF Written, Released
  <1>7. /\ Outstanding \in Nat /\ Outstanding = ReadableSize(In, Out)
        /\ In \in Offset /\ Out \in Offset
        /\ DataMaximumSize \in Nat /\ Gap \in Nat
    BY OutstandingType DEF TypeInv, RingInv
  <1>8. Outstanding' = Outstanding + PacketSize(p)
    BY <1>4, <1>6 DEF Outstanding
  <1>9. Outstanding + PacketSize(p) < DataMaximumSize
    <2>1. ~(End(p) - Released >= DataMaximumSize)
      BY DEF PushCommit
    <2> QED
      BY <2>1, <1>4, <1>7 DEF Outstanding
  <1>10. Sizes'
    <2>1. /\ FirstWriteSize \in Nat /\ SecondWriteSize \in Nat
          /\ FirstWriteSize + SecondWriteSize = PacketSize(p)
          /\ SecondWriteSize > 0 => In + FirstWriteSize = DataMaximumSize
      BY <1>2, WriteSizes DEF TypeInv, PushCommit, PushPending
    <2>2. /\ In' \in Offset
          /\ EndOffsets \subseteq {0, DataMaximumSize}
      BY TypePushCommit, RingAssumption DEF TypeInv, TypeOK
    <2>3. \/ In' = In + PacketSize(p)
          \/ In' = In + PacketSize(p) - DataMaximumSize
      <3>1. CASE SecondWriteSize > 0
        <4>1. In' = SecondWriteSize
          BY <3>1, <1>1 DEF FinalIn
        <4> QED
          BY <4>1, <3>1, <2>1, <1>7 DEF Offset
      <3>2. CASE ~(SecondWriteSize > 0)
        <4>1. FirstWriteSize = PacketSize(p)
          BY <3>2, <2>1
        <4>2. \/ In' \in EndOffsets /\ In + FirstWriteSize = DataMaximumSize
              \/ In' = In + FirstWriteSize
          BY <3>2, <1>1, <1>2 DEF FinalIn
        <4>3. \/ (In' = 0 \/ In' = DataMaximumSize) /\ In + FirstWriteSize = DataMaximumSize
              \/ In' = In + FirstWriteSize
          BY <4>2, <2>2
        <4>4. In \in Nat
          BY <1>7 DEF Offset
        <4> QED
          BY <4>1, <4>3, <4>4, <1>4, <1>7
      <3> QED
        BY <3>1, <3>2
    <2>4. ReadableSize(In', Out) = Outstanding + PacketSize(p)
      BY <2>2, <2>3, <1>4, <1>7, <1>9, ReadableGrows
    <2> QED
      BY <2>4, <1>1, <1>8, <1>9 DEF Sizes
  <1>11. Stream'
    <2>1. ASSUME NEW i \in 1..(n + 1)
          PROVE  sent'[i].pos = IF i = 1 THEN 0 ELSE End(sent'[i - 1])
      <3>1. CASE i <= n
        <4>1. i \in 1..n /\ (i # 1 => i - 1 \in 1..n)
          BY <3>1, <1>3
        <4>2. sent[i].pos = IF i = 1 THEN 0 ELSE End(sent[i - 1])
          BY <4>1 DEF RingInv, Stream
        <4> QED
          BY <4>1, <4>2, <1>5
      <3>2. CASE i = n + 1
        <4>1. /\ sent'[i].pos = Written /\ i - 1 = n
              /\ i # 1 => (n \in 1..n /\ sent'[n] = sent[n] /\ n # 0)
          BY <3>2, <1>2, <1>3, <1>5
        <4>2. Written = IF n = 0 THEN 0 ELSE End(sent[n])
          BY StreamEnds DEF TypeInv, RingInv
        <4> QED
          BY <4>1, <4>2, <3>2, <1>3
      <3> QED
        BY <3>1, <3>2, <1>3
    <2>2. ASSUME NEW i \in 1..(n + 1), NEW j \in 1..(n + 1), i < j
          PROVE  End(sent'[i]) <= sent'[j].pos
      <3>1. i \in 1..n
        BY <2>2, <1>3
      <3>2. CASE j <= n
        <4>1. j \in 1..n
          BY <3>2, <1>3
        <4>2. End(sent[i]) <= sent[j].pos
          BY <3>1, <4>1, <2>2 DEF RingInv, Stream
        <4> QED
          BY <4>1, <4>2, <3>1, <1>5
      <3>3. CASE j = n + 1
        <4>1. End(sent[i]) <= Written
          BY <3>1, EndBelowWritten DEF TypeInv, RingInv
        <4> QED
          BY <4>1, <3>1, <3>3, <1>2, <1>5
      <3> QED
        BY <3>2, <3>3, <1>3
    <2> QED
      BY <2>1, <2>2, <1>5 DEF Stream
  <1>12. Prefix'
    <2>1. Len(delivered) \in Nat /\ Len(delivered) <= n
      BY SentTypes DEF TypeInv, RingInv, Prefix
    <2>2. Len(delivered) <= n + 1
      BY <2>1, <1>3
    <2>3. ASSUME NEW i \in 1..Len(delivered)
          PROVE  /\ delivered[i].packet = sent'[i]
                 /\ delivered[i].content = ContentOf(sent'[i])
      <3>1. i \in 1..n
        BY <2>1, <1>3
      <3> QED
        BY <3>1, <1>5 DEF RingInv, Prefix
    <2> QED
      BY <2>2, <2>3, <1>1, <1>5 DEF Prefix
  <1>13. Stored'
    <2>1. SUFFICES ASSUME NEW i \in 1..(n + 1), i > Len(delivered),
                          NEW k \in 1..PacketSize(sent'[i])
                   PROVE  data[At(Out, sent'[i].pos - Released + k - 1)]
                            = <<sent'[i], k>>
      BY <1>1, <1>5, <1>6 DEF Stored
    <2>2. CASE i <= n
      <3>1. i \in 1..n
        BY <2>2, <1>3
      <3> QED
        BY <3>1, <2>1, <1>5 DEF RingInv, Stored
    <2>3. CASE i = n + 1
      <3>1. sent'[i] = p /\ k \in 1..PacketSize(p)
        BY <2>3, <2>1, <1>5
      <3>2. /\ p.pos - Released + k - 1 = Outstanding + (k - 1)
            /\ k - 1 \in Nat
            /\ Outstanding + (k - 1) < DataMaximumSize
        BY <3>1, <1>2, <1>4, <1>7, <1>9 DEF Outstanding
      <3>3. At(In, k - 1) = At(Out, Outstanding + (k - 1))
        BY <3>2, <1>7, AtBehind
      <3>4. data[At(In, k - 1)] = <<p, k>>
        BY <3>1, <1>2
      <3> QED
        BY <3>1, <3>2, <3>3, <3>4
    <2> QED
      BY <2>2, <2>3, <1>3
  <1>14. PushInv'
    BY <1>1 DEF PushInv, PushPending, IdlePush
  <1>15. PopInv'
    <2>1. SUFFICES ASSUME PopPending
                   PROVE  /\ pop.Out = Out
                          /\ AvailableSize <= Outstanding + PacketSize(p)
                          /\ pop.pc # "first" =>
                               \A k \in 1..Len(pop.bytes) :
                                 pop.bytes[k] = data[At(Out, k - 1)]
      BY <1>1, <1>8 DEF PopInv, PopPending, AvailableSize
    <2>2. AvailableSize \in 3..DataMaximumSize
      BY <2>1, ReadSizes DEF TypeInv
    <2>3. /\ pop.Out = Out /\ AvailableSize <= Outstanding
          /\ pop.pc # "first" =>
               \A k \in 1..Len(pop.bytes) : pop.bytes[k] = data[At(Out, k - 1)]
      BY <2>1 DEF RingInv, PopInv
    <2>4. AvailableSize <= Outstanding + PacketSize(p)
      BY <2>2, <2>3, <1>4, <1>7
    <2> QED
      BY <2>3, <2>4
  <1> QED
    BY <1>10, <1>11, <1>12, <1>13, <1>14, <1>15 DEF RingInv

\* What PopPipePacket parses is the oldest packet not yet popped.
LEMMA ParsedPacket ==
  ASSUME TypeInv, RingInv, pop.pc = "parse", ~PopThrows
  PROVE  /\ Len(delivered) + 1 \in 1..Len(sent)
         /\ Descriptor = sent[Len(delivered) + 1]
         /\ sent[Len(delivered) + 1].pos = Released
         /\ PacketSize(Descriptor) <= Outstanding
         /\ Content = ContentOf(Descriptor)
  <1> DEFINE n == Len(delivered) + 1
             q == sent[n]
             b == pop.bytes
  <1>1. /\ PopPending /\ AvailableSize <= Outstanding
        /\ \A k \in 1..Len(b) : b[k] = data[At(Out, k - 1)]
    BY DEF PopPending, RingInv, PopInv
  <1>2. /\ AvailableSize \in 3..DataMaximumSize
        /\ b \in Seq(Word) /\ Len(b) = AvailableSize
    BY <1>1, ReadSizes DEF TypeInv, TypeOK, PopLocals
  <1>3. /\ Outstanding \in Nat /\ DataMaximumSize \in Nat
        /\ Released \in Nat /\ Written \in Nat
    BY OutstandingType, WrittenType DEF TypeInv, RingInv
  <1>4. /\ Len(sent) \in Nat /\ Len(delivered) \in Nat
        /\ \A i \in 1..Len(sent) : sent[i] \in Packet
        /\ Len(delivered) <= Len(sent)
    BY SentTypes DEF TypeInv, RingInv, Prefix
  <1>5. Len(delivered) # Len(sent)
    <2>1. Written - Released >= 3
      BY <1>1, <1>2, <1>3 DEF Outstanding
    <2>2. Written # Released
      BY <2>1, <1>3
    <2> QED
      BY <2>2, StreamEnds DEF TypeInv, RingInv
  <1>6. n \in 1..Len(sent) /\ n > Len(delivered) /\ q \in Packet
    BY <1>4, <1>5
  <1>7. q.pos = Released
    BY <1>6, PacketInWindow DEF TypeInv, RingInv
  <1>8. /\ PacketSize(q) \in Nat /\ q.dataOffset \in Nat /\ q.content \in Nat
        /\ PacketSize(q) = q.dataOffset + 2 + q.content
    BY <1>6, PacketSizes
  <1> HIDE DEF n, q
  <1>9. ASSUME NEW k \in 1..Len(b), k <= PacketSize(q) PROVE b[k] = <<q, k>>
    <2>1. k \in 1..PacketSize(q) /\ q.pos - Released + k - 1 = k - 1
      BY <1>2, <1>3, <1>7, <1>8, <1>9
    <2>2. data[At(Out, q.pos - Released + k - 1)] = <<q, k>>
      BY <2>1, <1>6 DEF RingInv, Stored, q
    <2> QED
      BY <2>1, <2>2, <1>1
  <1>10. 1 \in 1..Len(b) /\ 1 <= PacketSize(q)
    BY <1>2, <1>8
  <1>11. Descriptor = q
    BY <1>9, <1>10 DEF Descriptor
  <1>12. PacketSize(q) <= AvailableSize
    BY <1>11, ParseFacts
  <1>13. Header = q
    <2> DEFINE k == q.dataOffset + 1
    <2>1. k \in 1..Len(b) /\ k <= PacketSize(q)
      BY <1>2, <1>8, <1>12
    <2>2. b[k] = <<q, k>>
      BY <2>1, <1>9
    <2> QED
      BY <2>2, <1>11 DEF Header
  <1>14. Content = ContentOf(q)
    <2> DEFINE m == q.dataOffset + PipeHeaderSize + 1
               e == q.dataOffset + PipeHeaderSize + q.content
    <2>1. /\ m \in Int /\ e \in Int /\ m >= 1 /\ e <= Len(b) /\ e <= PacketSize(q)
          /\ e - m + 1 = q.content
          /\ (IF m <= e THEN e - m + 1 ELSE 0) = q.content
      BY <1>2, <1>8, <1>12 DEF PipeHeaderSize
    <2>2. Content = SubSeq(b, m, e)
      BY <1>11, <1>13 DEF Content
    <2>3. \A i \in 1..q.content :
            m + i - 1 = q.dataOffset + PipeHeaderSize + i /\ m + i - 1 \in m..e
      BY <1>8 DEF PipeHeaderSize
    <2> HIDE DEF m, e
    <2>4. \A i \in m..e : i \in 1..Len(b) /\ i <= PacketSize(q)
      BY <2>1, <1>2, <1>8
    <2>5. \A i \in m..e : b[i] \in Word
      BY <2>4, <1>2
    <2>6. /\ Content \in Seq(Word)
          /\ Len(Content) = q.content
          /\ \A i \in 1..q.content : Content[i] = b[m + i - 1]
      BY <2>1, <2>2, <2>5, SubSeqProperties
    <2>7. \A i \in 1..q.content :
            Content[i] = <<q, q.dataOffset + PipeHeaderSize + i>>
      BY <2>3, <2>4, <2>6, <1>9
    <2>8. Content = [i \in 1..q.content |-> Content[i]]
      BY <2>6
    <2> QED
      BY <2>7, <2>8 DEF ContentOf
  <1> QED
    BY <1>1, <1>2, <1>3, <1>6, <1>7, <1>8, <1>11, <1>12, <1>14 DEF n, q

LEMMA RingPopCommit ==
  ASSUME TypeInv, RingInv, PopCommit PROVE RingInv'
  <1> DEFINE n == Len(delivered) + 1
             q == sent[n]
             D == [packet : Packet, content : Seq(Word)]
             e == [packet |-> Descriptor, content |-> Content]
  <1>1. /\ UNCHANGED <<In, data, push, sent>> /\ pop' = IdlePop
        /\ Out' = FinalOut /\ delivered' = Append(delivered, e)
        /\ pop.pc = "parse" /\ ~PopThrows
    BY DEF PopCommit
  <1>2. /\ n \in 1..Len(sent) /\ Descriptor = q /\ q.pos = Released
        /\ PacketSize(q) <= Outstanding /\ Content = ContentOf(q)
    BY <1>1, ParsedPacket
  <1>3. /\ Len(sent) \in Nat /\ Len(delivered) \in Nat
        /\ \A i \in 1..Len(sent) : sent[i] \in Packet
    BY SentTypes DEF TypeInv
  <1>4. /\ PacketSize(q) \in Nat /\ PacketSize(q) > 0
        /\ End(q) = Released + PacketSize(q)
        /\ Released \in Nat /\ Written \in Nat
    BY <1>2, <1>3, PacketSizes, WrittenType DEF TypeInv
  <1>5. /\ Outstanding \in Nat /\ Outstanding < DataMaximumSize
        /\ Outstanding = ReadableSize(In, Out)
        /\ In \in Offset /\ Out \in Offset
        /\ DataMaximumSize \in Nat /\ Gap \in Nat
    BY OutstandingType DEF TypeInv, RingInv
  <1>6. delivered \in Seq(D) /\ delivered' \in Seq(D)
    BY TypePopCommit DEF TypeInv, TypeOK
  <1>7. /\ Len(delivered') = n /\ delivered' # << >>
        /\ \A i \in 1..Len(delivered) : delivered'[i] = delivered[i]
        /\ delivered'[n] = e
    <2> HIDE DEF D, e
    <2> QED
      BY <1>1, <1>6
  <1>8. /\ delivered'[n].packet = q /\ delivered'[n].content = ContentOf(q)
    BY <1>2, <1>7
  <1> HIDE DEF D, e, q
  <1>9. Released' = Released + PacketSize(q) /\ Written' = Written
    <2>1. Released' = End(q)
      BY <1>7, <1>8 DEF Released
    <2>2. Written' = Written
      BY <1>1 DEF Written
    <2> QED
      BY <2>1, <2>2, <1>4
  <1>10. Outstanding' = Outstanding - PacketSize(q)
    BY <1>4, <1>9 DEF Outstanding
  <1>11. /\ Out' \in Offset
         /\ \/ Out' = Out + PacketSize(q)
            \/ Out' = Out + PacketSize(q) - DataMaximumSize /\ Out' > 0
    <2>1. pop.Out = Out
      BY <1>1 DEF RingInv, PopInv, PopPending
    <2>2. Out' \in Offset /\ Out \in Nat
      BY <1>5, TypePopCommit DEF TypeInv, TypeOK, Offset
    <2>3. \/ Out' = PacketSize(q) - (DataMaximumSize - Out)
             /\ DataMaximumSize - Out < PacketSize(q)
          \/ Out' = Out + PacketSize(q)
      BY <2>1, <1>1, <1>2 DEF FinalOut
    <2> QED
      BY <2>2, <2>3, <1>4, <1>5
  <1>12. ReadableSize(In, Out') = Outstanding - PacketSize(q)
    BY <1>2, <1>4, <1>5, <1>11, ReadableShrinks
  <1>13. Sizes'
    BY <1>1, <1>2, <1>4, <1>5, <1>10, <1>12 DEF Sizes
  <1>14. Stream'
    BY <1>1 DEF RingInv, Stream
  <1>15. Prefix'
    <2>1. n <= Len(sent)
      BY <1>2, <1>3
    <2>2. ASSUME NEW i \in 1..n
          PROVE  /\ delivered'[i].packet = sent[i]
                 /\ delivered'[i].content = ContentOf(sent[i])
      <3>1. CASE i = n
        BY <3>1, <1>8 DEF q
      <3>2. CASE i # n
        <4>1. i \in 1..Len(delivered)
          BY <3>2, <1>3
        <4> QED
          BY <4>1, <1>7 DEF RingInv, Prefix
      <3> QED
        BY <3>1, <3>2
    <2> QED
      BY <2>1, <2>2, <1>1, <1>7 DEF Prefix
  <1>16. Stored'
    <2>1. SUFFICES ASSUME NEW i \in 1..Len(sent), i > n,
                          NEW k \in 1..PacketSize(sent[i])
                   PROVE  data[At(Out', sent[i].pos - (Released + PacketSize(q)) + k - 1)]
                            = <<sent[i], k>>
      BY <1>1, <1>7, <1>9 DEF Stored
    <2>2. i > Len(delivered)
      BY <2>1, <1>3
    <2>3. data[At(Out, sent[i].pos - Released + k - 1)] = <<sent[i], k>>
      BY <2>1, <2>2 DEF RingInv, Stored
    <2>4. /\ sent[i].pos \in Nat /\ PacketSize(sent[i]) \in Nat
          /\ sent[i].pos + PacketSize(sent[i]) <= Written
      BY <2>1, <2>2, PacketInWindow DEF TypeInv, RingInv
    <2>5. Released + PacketSize(q) <= sent[i].pos
      <3>1. End(q) <= sent[i].pos
        BY <2>1, <1>2 DEF RingInv, Stream, q
      <3> QED
        BY <3>1, <1>4
    <2> DEFINE d == sent[i].pos - (Released + PacketSize(q)) + k - 1
    <2>6. /\ d \in Nat
          /\ PacketSize(q) + d = sent[i].pos - Released + k - 1
          /\ PacketSize(q) + d < DataMaximumSize
      <3>1. k \in Nat /\ k >= 1 /\ k <= PacketSize(sent[i])
        BY <2>1, <2>4
      <3>2. Written - Released < DataMaximumSize
        BY <1>5 DEF Outstanding
      <3>3. d \in Nat /\ PacketSize(q) + d = sent[i].pos - Released + k - 1
        <4>1. \A x, r, z \in Nat : r + z <= x =>
                x - (r + z) + k - 1 \in Nat /\ z + (x - (r + z) + k - 1) = x - r + k - 1
          BY <3>1
        <4> QED
          BY <4>1, <2>4, <2>5, <1>4
      <3>4. sent[i].pos + k - 1 < Written
        BY <3>1, <2>4, <1>4
      <3>5. PacketSize(q) + d < DataMaximumSize
        BY <3>1, <3>2, <3>4, <2>4, <1>4, <1>5
      <3> QED
        BY <3>3, <3>5
    <2> HIDE DEF d
    <2>7. At(Out', d) = At(Out, PacketSize(q) + d)
      BY <2>6, <1>4, <1>5, <1>11, AtMoves
    <2> QED
      BY <2>3, <2>6, <2>7 DEF d
  <1>17. PushInv'
    <2>1. PushPending =>
            /\ PacketSize(push.packet) \in Nat
            /\ Outstanding + PacketSize(push.packet) + Gap <= DataMaximumSize
      BY PacketSizes DEF TypeInv, TypeOK, RingInv, PushInv
    <2>2. PushPending => Outstanding - PacketSize(q) + PacketSize(push.packet) + Gap
                           <= DataMaximumSize
      BY <2>1, <1>4, <1>5
    <2>3. WroteSize' = WroteSize
      BY <1>1 DEF WroteSize, FirstWriteSize
    <2>4. WritableSize(In, Out') = DataMaximumSize - (Outstanding - PacketSize(q))
      BY <1>5, <1>11, <1>12, ReadableRange
    <2>5. push.pc = "sized" =>
            \/ push.limit = 0
            \/ push.limit + PipePacketHeaderSize + ULong <= WritableSize(In, Out')
      <3>1. /\ push.limit \in Nat
            /\ push.pc = "sized" =>
                 \/ push.limit = 0
                 \/ push.limit + 4 <= DataMaximumSize - Outstanding
        BY OutstandingType DEF TypeInv, TypeOK, RingInv, PushInv, PipePacketHeaderSize,
           PacketDescriptorSize, PipeHeaderSize, ULong
      <3> QED
        BY <3>1, <2>4, <1>4, <1>5
        DEF PipePacketHeaderSize, PacketDescriptorSize, PipeHeaderSize, ULong
    <2> QED
      BY <2>2, <2>3, <2>5, <1>1, <1>9, <1>10 DEF RingInv, PushInv, PushPending
  <1>18. PopInv'
    BY <1>1 DEF PopInv, PopPending, IdlePop
  <1> QED
    BY <1>13, <1>14, <1>15, <1>16, <1>17, <1>18 DEF RingInv

-----------------------------------------------------------------------------
LEMMA RingInit == Init => IInv
  <1> SUFFICES ASSUME Init PROVE IInv
    OBVIOUS
  <1>1. TypeInv
    BY TypeInit
  <1>2. sent = << >> /\ delivered = << >> /\ In = 0 /\ Out = 0 /\ filled = FALSE
    BY DEF Init
  <1>3. Len(sent) = 0 /\ Len(delivered) = 0
    BY <1>2
  <1>4. Outstanding = 0
    BY <1>2 DEF Outstanding, Written, Released
  <1>5. Stream /\ Prefix /\ Stored
    BY <1>3 DEF Stream, Prefix, Stored
  <1>6. Sizes
    BY <1>2, <1>4, RingAssumption DEF Sizes, ReadableSize
  <1>7. PushInv /\ PopInv
    BY DEF Init, PushInv, PopInv, PushPending, PopPending, IdlePush, IdlePop
  <1> QED
    BY <1>1, <1>2, <1>5, <1>6, <1>7 DEF IInv, RingInv

LEMMA RingStep == IInv /\ [Next]_vars => IInv'
  <1> SUFFICES ASSUME IInv, [Next]_vars PROVE IInv'
    OBVIOUS
  <1>1. TypeInv /\ TypeInv'
    BY TypeStep DEF IInv
  <1>2. CASE PushCommit
    <2>1. ~filled' => ~filled
      BY <1>2 DEF PushCommit
    <2>2. ~filled' => RingInv'
      BY <2>1, <1>1, <1>2, RingPushCommit DEF IInv
    <2>3. ASSUME Gap > 0 PROVE ~filled'
      <3>1. ~filled /\ RingInv
        BY <2>3 DEF IInv
      <3>2. /\ push.packet.pos = Written
            /\ Outstanding + PacketSize(push.packet) + Gap <= DataMaximumSize
        BY <3>1, <1>2 DEF RingInv, PushInv, PushPending, PushCommit
      <3>3. /\ push.packet \in Packet
            /\ Written \in Nat /\ Released \in Nat /\ Gap \in Nat
            /\ DataMaximumSize \in Nat
        BY <1>1, WrittenType, RingAssumption DEF TypeInv, TypeOK
      <3>4. /\ PacketSize(push.packet) \in Nat
            /\ End(push.packet) = Written + PacketSize(push.packet)
        BY <3>2, <3>3, PacketSizes
      <3>5. ~(End(push.packet) - Released >= DataMaximumSize)
        BY <2>3, <3>2, <3>3, <3>4 DEF Outstanding
      <3> QED
        BY <3>1, <3>5, <1>2 DEF PushCommit
    <2> QED
      BY <2>2, <2>3, <1>1 DEF IInv
  <1>3. ASSUME filled' = filled, RingInv => RingInv' PROVE IInv'
    BY <1>1, <1>3 DEF IInv
  <1>4. CASE GetMaximumPushSize
    BY <1>4, <1>3, <1>1, RingGetMaximumPushSize DEF GetMaximumPushSize
  <1>5. CASE PushNothing
    BY <1>5, <1>3, <1>1, RingIdlePush DEF PushNothing
  <1>6. CASE \E s \in Shapes : PushRefused(s)
    BY <1>6, <1>3, <1>1, RingIdlePush DEF PushRefused
  <1>7. CASE \E s \in Shapes : PushAccepted(s)
    <2>1. PICK s \in Shapes : PushAccepted(s)
      BY <1>7
    <2>2. filled' = filled
      BY <2>1 DEF PushAccepted
    <2>3. RingInv => RingInv'
      BY <2>1, <1>1, RingPushAccepted
    <2> QED
      BY <2>2, <2>3, <1>3
  <1>8. CASE PushFirst
    BY <1>8, <1>3, <1>1, RingPushFirst DEF PushFirst
  <1>9. CASE PushSecond
    BY <1>9, <1>3, <1>1, RingPushSecond DEF PushSecond
  <1>10. CASE PopCall
    BY <1>10, <1>3, <1>1, RingPopCall DEF PopCall
  <1>11. CASE PopFirst
    BY <1>11, <1>3, <1>1, RingPopFirst DEF PopFirst
  <1>12. CASE PopSecond
    BY <1>12, <1>3, <1>1, RingPopSecond DEF PopSecond
  <1>13. CASE PopThrow
    BY <1>13, <1>3, <1>1, RingPopThrow DEF PopThrow
  <1>14. CASE PopCommit
    BY <1>14, <1>3, <1>1, RingPopCommit DEF PopCommit
  <1>15. CASE UNCHANGED vars
    <2>1. filled' = filled /\ UNCHANGED <<In, Out, data, sent, delivered, push, pop>>
      BY <1>15 DEF vars
    <2>2. RingInv => RingInv'
      BY <2>1, SameRing, SamePush, SamePop DEF RingInv
    <2> QED
      BY <2>1, <2>2, <1>3
  <1> QED
    BY <1>2, <1>4, <1>5, <1>6, <1>7, <1>8, <1>9, <1>10, <1>11, <1>12, <1>13,
       <1>14, <1>15 DEF Next, PushPipePacket, PopPipePacket

LEMMA RingInvariant == Spec => []IInv
  BY RingInit, RingStep, PTL DEF Spec

\* Until a push fills the ring to the last word, PopPipePacket returns the
\* packets PushPipePacket was given: whole, unchanged and in order, for every
\* size of the data area, every mix of packet sizes and every interleaving.
THEOREM DeliveredIsSentHolds == Spec => []DeliveredIsSent
  <1>1. IInv => DeliveredIsSent
    BY DEF IInv, RingInv, Prefix, DeliveredIsSent
  <1> QED
    BY <1>1, RingInvariant, PTL

\* Until a push fills the ring to the last word, GetAvailableSizeInformation
\* computes the words that are really in the ring.
THEOREM ReadableIsOutstandingHolds == Spec => []ReadableIsOutstanding
  <1>1. IInv => ReadableIsOutstanding
    BY DEF IInv, RingInv, Sizes, ReadableIsOutstanding
  <1> QED
    BY <1>1, RingInvariant, PTL

\* What GetMaximumPushSize allowed still fits when PushPipePacket looks again.
THEOREM SizedPushFitsHolds == Spec => []SizedPushFits
  <1>1. IInv => SizedPushFits
    BY DEF IInv, RingInv, PushInv, SizedPushFits
  <1> QED
    BY <1>1, RingInvariant, PTL

\* A producer that leaves a gap never fills the ring.
THEOREM GapKeepsRoomHolds == Spec => []GapKeepsRoom
  <1>1. IInv => GapKeepsRoom
    BY DEF IInv, GapKeepsRoom
  <1> QED
    BY <1>1, RingInvariant, PTL

-----------------------------------------------------------------------------
(* Refinement.                                                             *)

Popped == [i \in DOMAIN delivered |-> delivered[i].packet]

LEMMA FifoInit == Init => Fifo!Init
  <1> SUFFICES ASSUME Init PROVE sent = << >> /\ Popped = << >>
    BY DEF Fifo!Init, Popped
  <1>1. sent = << >> /\ delivered = << >>
    BY DEF Init
  <1>2. DOMAIN delivered = {}
    BY <1>1
  <1>3. Popped = << >>
    BY <1>2 DEF Popped
  <1> QED
    BY <1>1, <1>3

LEMMA FifoStep ==
  ASSUME IInv, ~filled, [Next]_vars
  PROVE  [Fifo!Next]_(Fifo!fifoVars)
  <1>1. CASE PushCommit
    <2>1. sent' = Append(sent, push.packet) /\ delivered' = delivered
      BY <1>1 DEF PushCommit
    <2>2. sent \in Seq(Packet) /\ push.packet \in Packet /\ Len(sent) \in Nat
      BY DEF IInv, TypeInv, TypeOK
    <2>3. /\ sent' \in Seq(Packet) /\ Len(sent') = Len(sent) + 1
          /\ \A i \in 1..Len(sent) : sent'[i] = sent[i]
      BY <2>1, <2>2, AppendProperties
    <2>4. SubSeq(sent', 1, Len(sent)) = sent
      <3>1. \A i \in 1..Len(sent) : sent'[i] \in Packet
        BY <2>2, <2>3
      <3>2. /\ SubSeq(sent', 1, Len(sent)) \in Seq(Packet)
            /\ Len(SubSeq(sent', 1, Len(sent)))
                 = IF 1 <= Len(sent) THEN Len(sent) - 1 + 1 ELSE 0
            /\ \A i \in 1..(Len(sent) - 1 + 1) :
                 SubSeq(sent', 1, Len(sent))[i] = sent'[1 + i - 1]
        BY <3>1, <2>2, SubSeqProperties
      <3>3. Len(SubSeq(sent', 1, Len(sent))) = Len(sent)
        BY <3>2, <2>2
      <3>4. \A i \in 1..Len(sent) : SubSeq(sent', 1, Len(sent))[i] = sent[i]
        BY <3>2, <2>2, <2>3
      <3> QED
        BY <3>2, <3>3, <3>4, <2>2, SeqEqual
    <2>5. Popped' = Popped
      BY <2>1 DEF Popped
    <2> QED
      BY <2>3, <2>4, <2>5 DEF Fifo!Next, Fifo!Send, Popped
  <1>2. CASE PopCommit
    <2> DEFINE n == Len(delivered) + 1
               D == [packet : Packet, content : Seq(Word)]
               e == [packet |-> Descriptor, content |-> Content]
    <2>1. /\ delivered' = Append(delivered, e) /\ sent' = sent
          /\ pop.pc = "parse" /\ ~PopThrows
      BY <1>2 DEF PopCommit
    <2>2. n \in 1..Len(sent) /\ Descriptor = sent[n]
      BY <2>1, ParsedPacket DEF IInv
    <2>3. delivered \in Seq(D) /\ delivered' \in Seq(D)
      BY <1>2, TypePopCommit DEF IInv, TypeInv, TypeOK
    <2>4. e.packet = sent[n]
      BY <2>2
    <2>5. \A i \in 1..Len(delivered) : delivered[i].packet \in Packet
      BY SentTypes DEF IInv, TypeInv
    <2>6. Len(sent) \in Nat /\ Len(delivered) \in Nat /\ sent[n] \in Packet
      BY <2>2, SentTypes DEF IInv, TypeInv
    <2> HIDE DEF D, e
    <2>7. /\ DOMAIN delivered = 1..Len(delivered)
          /\ DOMAIN delivered' = 1..n
          /\ \A i \in 1..Len(delivered) : delivered'[i] = delivered[i]
          /\ delivered'[n] = e
      BY <2>1, <2>3
    <2>8. /\ Popped \in Seq(Packet) /\ Len(Popped) = Len(delivered)
          /\ \A i \in 1..Len(delivered) : Popped[i] = delivered[i].packet
      BY <2>5, <2>6, <2>7 DEF Popped
    <2>9. /\ Append(Popped, sent[n]) \in Seq(Packet)
          /\ Len(Append(Popped, sent[n])) = n
          /\ \A i \in 1..Len(delivered) :
               Append(Popped, sent[n])[i] = delivered[i].packet
          /\ Append(Popped, sent[n])[n] = sent[n]
      BY <2>6, <2>8, AppendProperties
    <2>10. Popped' = [i \in 1..n |-> delivered'[i].packet]
      BY <2>7 DEF Popped
    <2>11. \A i \in 1..n : delivered'[i].packet = Append(Popped, sent[n])[i]
      BY <2>4, <2>6, <2>7, <2>9
    <2>12. Popped' = Append(Popped, sent[n])
      <3>1. Append(Popped, sent[n]) = [i \in 1..n |-> Append(Popped, sent[n])[i]]
        BY <2>9
      <3> QED
        BY <3>1, <2>10, <2>11
    <2>13. Len(Popped) < Len(sent) /\ n = Len(Popped) + 1
      BY <2>2, <2>6, <2>8
    <2> QED
      BY <2>1, <2>12, <2>13 DEF Fifo!Next, Fifo!Deliver, Popped
  <1>3. ASSUME sent' = sent, delivered' = delivered
        PROVE  [Fifo!Next]_(Fifo!fifoVars)
    BY <1>3 DEF Fifo!fifoVars
  <1>4. CASE ~PushCommit /\ ~PopCommit
    <2>1. sent' = sent /\ delivered' = delivered
      BY <1>4 DEF Next, PushPipePacket, PopPipePacket, GetMaximumPushSize, PushNothing,
         PushRefused, PushAccepted, PushFirst, PushSecond, PopCall, PopFirst,
         PopSecond, PopThrow, vars
    <2> QED
      BY <2>1, <1>3
  <1> QED
    BY <1>1, <1>2, <1>4

\* A ring whose producer leaves a gap, as the host does in the incoming ring,
\* is a FIFO of packets: the two-part copies, the stale snapshots of the
\* control block and the lazy wrap of the offsets are not visible to its ends.
THEOREM RingImplementsFifo == ASSUME Gap > 0 PROVE Spec => ImplementsFifo
  <1>1. IInv => ~filled
    BY DEF IInv
  <1>2. IInv /\ [Next]_vars => [Fifo!Next]_(Fifo!fifoVars)
    BY <1>1, FifoStep
  <1> QED
    BY <1>2, FifoInit, RingInvariant, PTL DEF Spec, ImplementsFifo, Fifo!Spec

=============================================================================
