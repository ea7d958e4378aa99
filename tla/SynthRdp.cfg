SPECIFICATION Spec
CONSTANTS
  Channels = {c1}
  Kinds = {"data", "empty"}
  MaxStarts = 2
  MaxSessions = 2
  MaxPackets = 2
  MaxChunks = 1
  OutCapacity = 1
INVARIANTS
  TypeOK
  ForwardedInOrder
  UpSessionSkipsNothing
  LateOnce
  OneSessionAfterStop
  CrashCutsNoSession
CHECK_DEADLOCK FALSE
