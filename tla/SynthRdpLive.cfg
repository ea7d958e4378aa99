SPECIFICATION FairSpec
CONSTANTS
  Channels = {c1}
  Kinds = {"data", "bad"}
  MaxStarts = 1
  MaxSessions = 2
  MaxPackets = 1
  MaxChunks = 1
  OutCapacity = 1
PROPERTIES
  SessionsAreTornDown
  StopReturns
  PacketsArePopped
CHECK_DEADLOCK FALSE
