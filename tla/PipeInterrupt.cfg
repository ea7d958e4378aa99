SPECIFICATION FairSpec
CONSTANTS
  Devices = {d1, d2}
  Kinds = {"data", "empty"}
  MaxPackets = 4
INVARIANTS
  TypeOK
  NoLostWakeUp
PROPERTY ReceiveReturns
CHECK_DEADLOCK FALSE
