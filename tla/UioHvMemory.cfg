\* All layouts of two regions, a subchannel, and a process with the ring file.
SPECIFICATION MemorySpec
CONSTANTS
  Primary = c0
  Subchannels = {c1}
  Processes = {p1}
  MaxFiles = 2
  PAGE_SIZE = 2
  MAX_UIO_MAPS = 2
  MaxSize = 4
INVARIANTS
  MemoryTypeOK
  ShowsItsRegion
  MappedIsConnected
  RingFileShowsLiveRing
  
CHECK_DEADLOCK FALSE
