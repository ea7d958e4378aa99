\* Two processes, probe and its failures, rescind, unbind and remove.
SPECIFICATION FairSpec
CONSTANTS
  Files = {f1, f2}
  MaxEvents = 1
  MaxOpens = 2
INVARIANTS
  TypeOK
  ReferencesAreCounted
  ConnectedWhileOpen
  NothingKept
  LateReadFails
  DisciplinedUseIsSafe
  ReadableDoesNotWait
PROPERTY ReadReturns
CHECK_DEADLOCK FALSE
