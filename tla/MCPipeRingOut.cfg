\* The outgoing ring: the guest produces, up to the last word.
SPECIFICATION Spec
CONSTANTS
  DataMaximumSize = 12
  MaximumPushSize = 4
  Gap = 0
  MaxSent = 5
  LastInAccessor = FALSE
  Shapes <- GuestShapes
  EndOffsets <- GuestEndOffsets
INVARIANTS
  DeliveredIsSent
  SizedPushFits
  WordsLoseNothing
PROPERTY ImplementsBytes
