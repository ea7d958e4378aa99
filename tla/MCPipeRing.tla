----------------------------- MODULE MCPipeRing -----------------------------
(***************************************************************************)
(* Instances of PipeRing for TLC.  A data area of a dozen words and        *)
(* packets of four to seven words make every packet after the second wrap, *)
(* end exactly at the end of the data area, or not fit.                    *)
(***************************************************************************)
EXTENDS PipeRing

PipeData(n) == [type |-> "DataInBand", pipe |-> "Data",
                dataOffset |-> PacketDescriptorSize, content |-> n]

\* What PushPipePacket builds.
GuestShapes == {PipeData(1), PipeData(2), PipeData(4)}
GuestEndOffsets == {DataMaximumSize}

\* What the host may put in the incoming ring: pipe data of several sizes, one
\* of them empty, one with a longer descriptor, and packets of other types.
HostShapes ==
  {PipeData(0), PipeData(1), PipeData(2),
   [PipeData(1) EXCEPT !.dataOffset = 3],
   [PipeData(1) EXCEPT !.type = "Completion"],
   [PipeData(1) EXCEPT !.pipe = "Partial"]}
HostEndOffsets == {0, DataMaximumSize}

(***************************************************************************)
(* The same ring in bytes, with a length field just wide enough.           *)
(***************************************************************************)
Bytes == INSTANCE PipeBytes WITH
  DataMaximumSize <- 8 * DataMaximumSize, MaximumPushSize <- 8 * MaximumPushSize,
  UShortMax <- MaximumPushSize + 3, MaxContent <- 8 * MaximumPushSize + 8,
  In <- 8 * In, Out <- 8 * Out

ASSUME ByteSizes == Bytes!BytesAssumption

\* Until a push has filled the ring, every change of In and Out, although it is
\* computed from a snapshot the other end has moved on from, is the one that
\* PushPipePacket and PopPipePacket compute in bytes from the offsets as they are.
ImplementsBytes == Bytes!Init /\ [][filled' \/ Bytes!Next]_<<In, Out>>

\* Wherever the offsets get to, the sizes UioHvDevice.cs computes in bytes, also
\* for content that is no whole number of words, are eight times those in words.
WordsLoseNothing == Bytes!WordsLoseNothing

=============================================================================
