---------------------------- MODULE UioHvMemory -----------------------------
(***************************************************************************)
(* The two ways to map memory of the device together: mmap() of the UIO    *)
(* device (UioMmap) and mmap() of the sysfs files "ring" (UioHvRingFile).  *)
(* They meet where the driver is removed, and at the open files: mmap()    *)
(* needs one, and a mapping keeps its file open.                           *)
(***************************************************************************)
EXTENDS UioHvRingFile

CONSTANTS
  PAGE_SIZE,
  MAX_UIO_MAPS,
  MaxSize  \* bound: bytes of a region

ASSUME MmapAssumption ==
  /\ PAGE_SIZE \in Nat \ {0}
  /\ MAX_UIO_MAPS \in Nat
  /\ MaxSize \in Nat

VARIABLES mem, info, vma

mmapVars == <<mem, info, vma>>

Mmap == INSTANCE UioMmap

MemoryInit == Init /\ Mmap!Init

\* close() of a file that no mapping holds.
CloseFile ==
  /\ vma.mapped => refcnt > 1
  /\ Release
  /\ UNCHANGED mmapVars

MapRegion(vm_pgoff, pages) ==
  /\ refcnt > 0
  /\ Mmap!uio_mmap(vm_pgoff, pages)
  /\ UNCHANGED vars

\* hv_uio_remove calls uio_unregister_device.
RemoveDevice == Unregister /\ Mmap!Unregister

MemoryNext ==
  \/ CreateRingFile /\ UNCHANGED mmapVars
  \/ Open /\ UNCHANGED mmapVars
  \/ CloseFile
  \/ RemoveRingFile /\ UNCHANGED mmapVars
  \/ RemoveDevice
  \/ FreeRing /\ UNCHANGED mmapVars
  \/ \E c \in Subchannels :
       (OpenSubchannel(c) \/ CreateSubchannelFile(c)) /\ UNCHANGED mmapVars
  \/ \E p \in Processes :
       \/ RingMmapMap(p) /\ UNCHANGED mmapVars
       \/ Munmap(p) /\ UNCHANGED mmapVars
       \/ \E c \in Channels : RingMmapCheck(p, c) /\ UNCHANGED mmapVars
  \/ \E vm_pgoff \in 0..MAX_UIO_MAPS, pages \in Mmap!Lengths : MapRegion(vm_pgoff, pages)
  \/ \E k \in 0..MaxSize : Mmap!uio_vma_fault(k) /\ UNCHANGED vars
  \/ \E n \in Mmap!Lengths :
       (Mmap!MunmapFront(n) \/ Mmap!MunmapBack(n)) /\ UNCHANGED vars
  \/ Mmap!Munmap /\ UNCHANGED vars

MemorySpec == MemoryInit /\ [][MemoryNext]_<<vars, mmapVars>>

-----------------------------------------------------------------------------
MemoryTypeOK == TypeOK /\ Mmap!TypeOK

\* A mapping whose front was never cut off shows the region its offset chose in
\* uio_mmap and nothing else, whatever happens to files, channels and driver.
ShowsItsRegion == Mmap!ShowsItsRegion

\* A process that has mapped the device talks to a host that listens: until the
\* device is unregistered the ring stays connected, whoever opens and closes
\* the device meanwhile.
MappedIsConnected == vma.mapped /\ info => channel[Primary].opened

=============================================================================
