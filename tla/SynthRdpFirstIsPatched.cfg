SPECIFICATION Spec
CONSTANTS
  Channels = {c1}
  Kinds = {"data"}
  MaxStarts = 1
  MaxSessions = 1
  MaxPackets = 2
  MaxChunks = 0
  OutCapacity = 1
INVARIANT FirstIsPatched
CHECK_DEADLOCK FALSE
