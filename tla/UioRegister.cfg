\* Two devices and minors, all error labels, readers of sysfs and a file.
SPECIFICATION FairSpec
CONSTANTS
  Devices = {d1, d2}
  Managed = {d1}
  HasIrq = {d2}
  UIO_MAX_DEVICES = 2
  Maps = 2
  Ports = 1
  Readers = {r1, r2}
  Files = {f1}
  NoDevice = NoDevice
INVARIANTS
  TypeOK
  ReachableIsReferenced
  NodeLeadsHome
  NothingLeft
  KobjectsBalanced
  ShowsFindInfo
PROPERTY CallsReturn
CHECK_DEADLOCK FALSE
