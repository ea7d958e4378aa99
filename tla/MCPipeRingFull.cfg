\* The outgoing ring again, for the last word: see the finding.
SPECIFICATION Spec
CONSTANTS
  DataMaximumSize = 12
  MaximumPushSize = 4
  Gap = 0
  MaxSent = 5
  LastInAccessor = FALSE
  Shapes <- GuestShapes
  EndOffsets <- GuestEndOffsets
INVARIANT AcceptedPushIsReadable
