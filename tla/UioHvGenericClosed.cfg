\* The last close after the driver has gone: see the finding.
SPECIFICATION Spec
CONSTANTS
  Files = {f1}
  MaxEvents = 1
  MaxOpens = 1
INVARIANT ClosedOnLastClose
CHECK_DEADLOCK FALSE
