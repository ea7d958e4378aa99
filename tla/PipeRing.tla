------------------------------ MODULE PipeRing ------------------------------
(***************************************************************************)
(* One ring of a VMBus channel, as HvGin/UioHvDevice.cs reads and writes   *)
(* it: a control block with the offsets In and Out, and a data area of     *)
(* DataMaximumSize words.  The producer runs PushPipePacket, the consumer  *)
(* PopPipePacket; each runs in its own thread (or in the host) and every   *)
(* access to the shared memory is a step of its own.                       *)
(*                                                                         *)
(* The channel has two such rings.  In the outgoing ring the producer is   *)
(* the guest's PushPipePacket and the consumer is the host, the mirror     *)
(* image of PopPipePacket.  In the incoming ring the producer is the host, *)
(* the mirror image of PushPipePacket that in addition keeps Gap words     *)
(* free, and the consumer is the guest's PopPipePacket.                    *)
(*                                                                         *)
(* Sizes and offsets are counted in words of eight bytes: DataMaximumSize, *)
(* the headers, the trailer and every aligned packet length are multiples  *)
(* of eight bytes, so every offset of the code is one too.                 *)
(***************************************************************************)
EXTENDS Integers, Sequences

CONSTANTS
  DataMaximumSize,  \* words in the data area
  MaximumPushSize,  \* words of content GetMaximumPushSize never exceeds
  Shapes,           \* the shapes of the packets the producer may push
  Gap,              \* words the producer leaves free: 0 guest, 1 host
  EndOffsets,       \* what In becomes when a packet ends at the very end
  LastInAccessor,   \* the data area ends where the accessor ends: the incoming ring
  MaxSent           \* bound: the number of packets pushed

(***************************************************************************)
(* Sizes, in words.                                                        *)
(***************************************************************************)
ULong == 1
PacketDescriptorSize == 2
PipeHeaderSize == 1
PipePacketHeaderSize == PacketDescriptorSize + PipeHeaderSize

(***************************************************************************)
(* A packet shape is what the descriptor and the pipe header say.  type    *)
(* and pipe are the two message types, dataOffset where the pipe header    *)
(* starts, content the words of the message.                               *)
(***************************************************************************)
Shape == [type : {"Invalid", "DataInBand", "Completion"},
          pipe : {"Data", "Partial"},
          dataOffset : Nat,
          content : Nat]

ASSUME RingAssumption ==
  /\ DataMaximumSize \in Nat \ {0}
  /\ MaximumPushSize \in Nat
  /\ Gap \in Nat
  /\ MaxSent \in Nat
  /\ EndOffsets \subseteq {0, DataMaximumSize}
  /\ Shapes \subseteq Shape

ASSUME AccessorAssumption == LastInAccessor \in BOOLEAN

ASSUME ShapeAssumption ==
  \A s \in Shapes : s.dataOffset >= PacketDescriptorSize

(***************************************************************************)
(* A packet is a shape and pos, the words sent before it: no two packets   *)
(* of a run are equal.  Word k of packet p is <<p, k>>.                    *)
(***************************************************************************)
Packet == [type : {"Invalid", "DataInBand", "Completion"},
           pipe : {"Data", "Partial"},
           dataOffset : Nat,
           content : Nat,
           pos : Nat]

NewPacket(s, pos) ==
  [type |-> s.type, pipe |-> s.pipe, dataOffset |-> s.dataOffset,
   content |-> s.content, pos |-> pos]

\* The Length field of the descriptor: headers and content.
Length(p) == p.dataOffset + PipeHeaderSize + p.content

\* What the packet takes in the ring: its Length and the trailing word.
PacketSize(p) == Length(p) + ULong

\* The words of the message inside packet p.
ContentOf(p) == [k \in 1..p.content |-> <<p, p.dataOffset + PipeHeaderSize + k>>]

\* The zeroed memory of a fresh ring reads as a packet of type Invalid.
NoPacket == [type |-> "Invalid", pipe |-> "Data", dataOffset |-> 0,
             content |-> 0, pos |-> 0]

Word == Packet \X Nat

Offset == 0..DataMaximumSize
Slot == 0..(DataMaximumSize - 1)

VARIABLES
  In,         \* control block: where the producer writes next
  Out,        \* control block: where the consumer reads next
  data,       \* the data area
  push,       \* the producer's call of PushPipePacket
  pop,        \* the consumer's call of PopPipePacket
  sent,       \* history: the packets published in In
  delivered,  \* history: the packets released in Out, with their content
  filled      \* history: some push left no word of the ring free

vars == <<In, Out, data, push, pop, sent, delivered, filled>>

(***************************************************************************)
(* GetAvailableSizeInformation.                                            *)
(***************************************************************************)
ReadableSize(i, o) ==
  IF i >= o THEN i - o ELSE DataMaximumSize - (o - i)

WritableSize(i, o) ==
  IF i >= o THEN DataMaximumSize - (i - o) ELSE o - i

\* Faulty: the trailing word is not counted.
MaximumPushNoTrailer(available) ==
  LET room == available - PipePacketHeaderSize
  IN  IF room < 0 THEN 0
      ELSE IF room < MaximumPushSize THEN room ELSE MaximumPushSize

\* The content GetMaximumPushSize lets the caller push.
MaximumPush(available) ==
  LET room == available - (PipePacketHeaderSize + ULong)
  IN  IF room < 0 THEN 0
      ELSE IF room < MaximumPushSize THEN room ELSE MaximumPushSize

\* Words of a copy of n words at offset o that fit before the end of the
\* data area, when the other offset tells that it may wrap.
FirstSize(mayWrap, o, n) ==
  IF mayWrap /\ DataMaximumSize - o < n THEN DataMaximumSize - o ELSE n

(***************************************************************************)
(* The stream positions of both ends: words published, words released.     *)
(***************************************************************************)
End(p) == p.pos + PacketSize(p)
Written == IF sent = << >> THEN 0 ELSE End(sent[Len(sent)])
Released == IF delivered = << >> THEN 0
            ELSE End(delivered[Len(delivered)].packet)
Outstanding == Written - Released

(***************************************************************************)
(* PushPipePacket.  push holds the locals of the call: the snapshot of the *)
(* control block, the packet, and the limit a preceding GetMaximumPushSize *)
(* returned (pc = "sized").                                                *)
(***************************************************************************)
IdlePush == [pc |-> "idle", limit |-> 0, packet |-> NoPacket, In |-> 0, Out |-> 0]

FirstWriteSize ==
  FirstSize(push.In >= push.Out, push.In, PacketSize(push.packet))
SecondWriteSize == PacketSize(push.packet) - FirstWriteSize

\* Tcp2VmbusThread asks how much content it may take from the socket.
GetMaximumPushSize ==
  /\ push.pc = "idle"
  /\ Gap = 0
  /\ push' = [push EXCEPT !.pc = "sized",
                          !.limit = MaximumPush(WritableSize(In, Out))]
  /\ UNCHANGED <<In, Out, data, pop, sent, delivered, filled>>

\* The limit or the bytes the socket has available are zero: nothing to push.
PushNothing ==
  /\ push.pc = "sized"
  /\ push' = IdlePush
  /\ UNCHANGED <<In, Out, data, pop, sent, delivered, filled>>

\* The content of a call fits the limit when the caller asked for one.
MayPush(s) ==
  /\ Len(sent) < MaxSent
  /\ \/ push.pc = "idle"
     \/ push.pc = "sized" /\ s.content \in 1..push.limit

\* Faulty: no word is kept free.
HasSpaceNoGap(p) == PacketSize(p) <= WritableSize(In, Out)

\* Otherwise "Insufficient Space" is thrown.
HasSpace(p) == PacketSize(p) + Gap <= WritableSize(In, Out)

PushRefused(s) ==
  /\ MayPush(s)
  /\ ~HasSpace(NewPacket(s, Written))
  /\ push' = IdlePush
  /\ UNCHANGED <<In, Out, data, pop, sent, delivered, filled>>

PushAccepted(s) ==
  /\ MayPush(s)
  /\ HasSpace(NewPacket(s, Written))
  /\ push' = [pc |-> "first", limit |-> 0, packet |-> NewPacket(s, Written),
              In |-> In, Out |-> Out]
  /\ UNCHANGED <<In, Out, data, pop, sent, delivered, filled>>

\* The first WriteArray, up to the end of the data area.
PushFirst ==
  /\ push.pc = "first"
  /\ data' = [o \in Slot |->
                IF o >= push.In /\ o < push.In + FirstWriteSize
                THEN <<push.packet, o - push.In + 1>> ELSE data[o]]
  /\ push' = [push EXCEPT !.pc = IF SecondWriteSize > 0 THEN "second" ELSE "commit"]
  /\ UNCHANGED <<In, Out, pop, sent, delivered, filled>>

\* Faulty: the second part is copied from the start of the packet.
PushSecondFromStart ==
  /\ push.pc = "second"
  /\ data' = [o \in Slot |->
                IF o < SecondWriteSize THEN <<push.packet, o + 1>> ELSE data[o]]
  /\ push' = [push EXCEPT !.pc = "commit"]
  /\ UNCHANGED <<In, Out, pop, sent, delivered, filled>>

\* The second WriteArray, from the start of the data area.
PushSecond ==
  /\ push.pc = "second"
  /\ data' = [o \in Slot |->
                IF o < SecondWriteSize
                THEN <<push.packet, FirstWriteSize + o + 1>> ELSE data[o]]
  /\ push' = [push EXCEPT !.pc = "commit"]
  /\ UNCHANGED <<In, Out, pop, sent, delivered, filled>>

\* Where In may go: a packet that ends at the very end of the data area
\* leaves it there (guest) or, for the host, possibly at the start.
FinalIn ==
  IF SecondWriteSize > 0 THEN {SecondWriteSize}
  ELSE IF push.In + FirstWriteSize = DataMaximumSize THEN EndOffsets
  ELSE {push.In + FirstWriteSize}

PushCommit ==
  /\ push.pc = "commit"
  /\ In' \in FinalIn
  /\ sent' = Append(sent, push.packet)
  /\ filled' = (filled \/ End(push.packet) - Released >= DataMaximumSize)
  /\ push' = IdlePush
  /\ UNCHANGED <<Out, data, pop, delivered>>

(***************************************************************************)
(* PopPipePacket.  pop holds the snapshot of the control block and the     *)
(* bytes copied so far.  A call that finds less than the headers returns   *)
(* an empty array and leaves everything as it is.                          *)
(***************************************************************************)
IdlePop == [pc |-> "idle", In |-> 0, Out |-> 0, bytes |-> << >>]

PopCall ==
  /\ pop.pc = "idle"
  /\ ReadableSize(In, Out) >= PipePacketHeaderSize
  /\ pop' = [pc |-> "first", In |-> In, Out |-> Out, bytes |-> << >>]
  /\ UNCHANGED <<In, Out, data, push, sent, delivered, filled>>

AvailableSize == ReadableSize(pop.In, pop.Out)
FirstReadSize == FirstSize(pop.In < pop.Out, pop.Out, AvailableSize)
SecondReadSize == AvailableSize - FirstReadSize

\* ReadArray (.NET) throws at a position that is not before the end of the
\* accessor, also when it is asked for nothing.
PositionThrows == LastInAccessor /\ pop.Out = DataMaximumSize

\* The first ReadArray: everything available up to the end of the data area.
PopFirst ==
  /\ pop.pc = "first"
  /\ ~PositionThrows
  /\ pop' = [pop EXCEPT !.pc = IF SecondReadSize > 0 THEN "second" ELSE "parse",
                        !.bytes = [i \in 1..FirstReadSize |-> data[pop.Out + i - 1]]]
  /\ UNCHANGED <<In, Out, data, push, sent, delivered, filled>>

\* The second ReadArray: the rest, from the start of the data area.
PopSecond ==
  /\ pop.pc = "second"
  /\ pop' = [pop EXCEPT !.pc = "parse",
                        !.bytes = @ \o [i \in 1..SecondReadSize |-> data[i - 1]]]
  /\ UNCHANGED <<In, Out, data, push, sent, delivered, filled>>

Descriptor == pop.bytes[1][1]
Header == pop.bytes[Descriptor.dataOffset + 1][1]

\* Faulty: a packet that is all there is counts as incomplete.
PopThrowsAtTheLast ==
  \/ pop.bytes[1][2] # 1 \/ Descriptor.type # "DataInBand"
  \/ Len(pop.bytes) <= PacketSize(Descriptor)
  \/ Header.pipe # "Data"

\* The checks of the descriptor and of the pipe header that throw.
PopThrows ==
  \/ pop.bytes[1][2] # 1 \/ Descriptor.type # "DataInBand"
  \/ Descriptor.dataOffset < PacketDescriptorSize
  \/ Descriptor.dataOffset > Len(pop.bytes)
  \/ Descriptor.dataOffset > Length(Descriptor)
  \/ Len(pop.bytes) < PacketSize(Descriptor)
  \/ Header.pipe # "Data"
  \/ Len(pop.bytes) - Descriptor.dataOffset < PipeHeaderSize + Header.content

PopThrow ==
  /\ \/ pop.pc = "first" /\ PositionThrows
     \/ pop.pc = "parse" /\ PopThrows
  /\ pop' = IdlePop
  /\ UNCHANGED <<In, Out, data, push, sent, delivered, filled>>

Content ==
  SubSeq(pop.bytes, Descriptor.dataOffset + PipeHeaderSize + 1,
                    Descriptor.dataOffset + PipeHeaderSize + Header.content)

\* Faulty: Out does not wrap.
FinalOutNeverWraps == pop.Out + PacketSize(Descriptor)

\* Faulty: the trailing word is not skipped.
FinalOutNoTrailer ==
  IF pop.In < pop.Out /\ DataMaximumSize - pop.Out < Length(Descriptor)
  THEN Length(Descriptor) - (DataMaximumSize - pop.Out)
  ELSE pop.Out + Length(Descriptor)

FinalOut ==
  IF pop.In < pop.Out /\ DataMaximumSize - pop.Out < PacketSize(Descriptor)
  THEN PacketSize(Descriptor) - (DataMaximumSize - pop.Out)
  ELSE pop.Out + PacketSize(Descriptor)

PopCommit ==
  /\ pop.pc = "parse"
  /\ ~PopThrows
  /\ Out' = FinalOut
  /\ delivered' = Append(delivered, [packet |-> Descriptor, content |-> Content])
  /\ pop' = IdlePop
  /\ UNCHANGED <<In, data, push, sent, filled>>

-----------------------------------------------------------------------------
Init ==
  /\ In = 0
  /\ Out = 0
  /\ data = [o \in Slot |-> <<NoPacket, 0>>]
  /\ push = IdlePush
  /\ pop = IdlePop
  /\ sent = << >>
  /\ delivered = << >>
  /\ filled = FALSE

PushPipePacket ==
  \/ \E s \in Shapes : PushRefused(s) \/ PushAccepted(s)
  \/ PushFirst
  \/ PushSecond
  \/ PushCommit

PopPipePacket ==
  \/ PopCall
  \/ PopFirst
  \/ PopSecond
  \/ PopThrow
  \/ PopCommit

Next == GetMaximumPushSize \/ PushNothing \/ PushPipePacket \/ PopPipePacket

Spec == Init /\ [][Next]_vars

\* Vmbus2TcpThread calls PopPipePacket in a loop that never waits.
FairSpec == Spec /\ WF_vars(PopPipePacket)

-----------------------------------------------------------------------------
TypeOK ==
  /\ In \in Offset
  /\ Out \in Offset
  /\ data \in [Slot -> Word]
  /\ push \in [pc : {"idle", "sized", "first", "second", "commit"},
               limit : Nat, packet : Packet, In : Offset, Out : Offset]
  /\ pop \in [pc : {"idle", "first", "second", "parse"},
              In : Offset, Out : Offset, bytes : Seq(Word)]
  /\ sent \in Seq(Packet)
  /\ delivered \in Seq([packet : Packet, content : Seq(Word)])
  /\ filled \in BOOLEAN

\* Until a push has filled the ring to the last word, every call of
\* PopPipePacket returns the next packet that was pushed, with exactly the
\* words PushPipePacket wrote: a producer never overwrites words the consumer
\* has not released, and both ends wrap at the same place (UioHvDevice.cs,
\* the snapshots of the control block and the two-part copies).
DeliveredIsSent ==
  ~filled =>
    /\ Len(delivered) <= Len(sent)
    /\ \A i \in 1..Len(delivered) :
         /\ delivered[i].packet = sent[i]
         /\ delivered[i].content = ContentOf(sent[i])

\* Until a push has filled the ring to the last word, what
\* GetAvailableSizeInformation computes from the two offsets is the truth: the
\* readable size is the words published and not yet released.
ReadableIsOutstanding ==
  ~filled => ReadableSize(In, Out) = Outstanding

\* Content taken from the socket within the limit GetMaximumPushSize returned
\* fits when PushPipePacket reads the control block again, whatever the
\* consumer has done in between (until a push has filled the ring to the last
\* word): Tcp2VmbusThread loses no bytes it has already read from the socket
\* to "Insufficient Space".
SizedPushFits ==
  ~filled /\ push.pc = "sized" =>
    \/ push.limit = 0
    \/ push.limit + PipePacketHeaderSize + ULong <= WritableSize(In, Out)

\* A producer that keeps a word free never makes the ring look empty, so the
\* pipe it produces for is a FIFO.
GapKeepsRoom == Gap > 0 => ~filled

\* The pipe is a FIFO of packets.
Fifo == INSTANCE PipeFifo
          WITH delivered <- [i \in DOMAIN delivered |-> delivered[i].packet]
ImplementsFifo == Fifo!Spec

\* Every packet that is pushed is popped in the end, as long as it and those
\* before it are pipe data, and none before it ended at the very end of the
\* data area: Vmbus2TcpThread polls without ever waiting for an interrupt.  What
\* PopPipePacket throws at stays at the head of the ring and holds up everything
\* behind it: packets of other types, and whatever comes once Out is
\* DataMaximumSize, where the first ReadArray throws.
AllData(n) == \A i \in 1..n : sent[i].type = "DataInBand" /\ sent[i].pipe = "Data"
NoneEndsAtTheEnd(n) == \A i \in 1..n : End(sent[i]) % DataMaximumSize # 0
EventuallyDelivered ==
  \A n \in 1..MaxSent :
    (Len(sent) >= n /\ AllData(n) /\ NoneEndsAtTheEnd(n - 1)) ~> (Len(delivered) >= n)

\* "Insufficient Space": a push that is not refused for want of space adds a
\* packet the consumer can see.
AcceptedPushIsReadable == ReadableSize(In, Out) = Outstanding

=============================================================================
