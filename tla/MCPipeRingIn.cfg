\* The incoming ring: the host produces and keeps a word free.  The ring is a
\* FIFO that delivers everything in the end.
SPECIFICATION FairSpec
CONSTANTS
  DataMaximumSize = 12
  MaximumPushSize = 4
  Gap = 1
  MaxSent = 5
  LastInAccessor = TRUE
  Shapes <- HostShapes
  EndOffsets <- HostEndOffsets
INVARIANTS
  TypeOK
  ReadableIsOutstanding
PROPERTIES
  ImplementsFifo
  EventuallyDelivered
CHECK_DEADLOCK FALSE
