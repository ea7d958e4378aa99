--------------------------- MODULE UioHvRingFile ----------------------------
(***************************************************************************)
(* The file "ring" that uio_hv_generic.c adds to the sysfs directory of a  *)
(* channel, by which a process maps the rings without the UIO device: for  *)
(* the primary channel at the end of hv_uio_probe, for a subchannel in     *)
(* hv_uio_new_channel, which also opens the subchannel.                    *)
(*                                                                         *)
(* hv_uio_ring_mmap is two steps, the test of the channel's state and the  *)
(* mapping: nothing keeps the state as it is in between.  sysfs, which is  *)
(* not in the repository, waits for a call of mmap when it removes a file  *)
(* and takes the mappings made through the file away.  The last close of   *)
(* the device closes the subchannels and frees their rings                 *)
(* (vmbus_disconnect_ring), and their files stay: what ends a subchannel   *)
(* and its directory is code of the VMBus core.                            *)
(***************************************************************************)
EXTENDS Integers

CONSTANTS
  Primary,      \* the primary channel of the device
  Subchannels,  \* the subchannels the host may offer
  Processes,    \* processes that map rings
  MaxFiles      \* bound: files open on the UIO device at once

ASSUME RingFileAssumption ==
  /\ Primary \notin Subchannels
  /\ MaxFiles \in Nat

Channels == {Primary} \cup Subchannels

VARIABLES
  driver,   \* place at the end of hv_uio_probe or in hv_uio_remove
  refcnt,   \* of the driver: open files of the UIO device
  channel,  \* the channels
  process   \* the processes

vars == <<driver, refcnt, channel, process>>

(***************************************************************************)
(* channel[c]: place of hv_uio_new_channel ("ready" when it is over, as    *)
(* always for the primary channel), opened (CHANNEL_OPENED_STATE), ring,   *)
(* and whether the file is there.                                          *)
(*                                                                         *)
(* process[p]: place of hv_uio_ring_mmap, for which channel, and the       *)
(* history outlived: the last close came after the channel's state was     *)
(* tested and before munmap.                                               *)
(***************************************************************************)
NoChannel == [pc |-> "none", opened |-> FALSE, ring |-> "none", file |-> FALSE]
NoMapping == [pc |-> "none", channel |-> Primary, outlived |-> FALSE]

Init ==
  /\ driver = "registered"
  /\ refcnt = 0
  /\ channel = [c \in Channels |->
       IF c = Primary THEN [NoChannel EXCEPT !.pc = "ready", !.ring = "allocated"]
                      ELSE NoChannel]
  /\ process = [p \in Processes |-> NoMapping]

(***************************************************************************)
(* The end of hv_uio_probe.  A failure is only noted.                      *)
(***************************************************************************)
CreateRingFile ==
  /\ driver = "registered"
  /\ driver' = "bound"
  /\ \E created \in BOOLEAN : channel' = [channel EXCEPT ![Primary].file = created]
  /\ UNCHANGED <<refcnt, process>>

\* hv_uio_open: the first one connects the ring.
Open ==
  /\ driver # "unregistered"
  /\ driver # "removed"
  /\ refcnt < MaxFiles
  /\ refcnt' = refcnt + 1
  /\ channel' = [channel EXCEPT ![Primary].opened = TRUE]
  /\ UNCHANGED <<driver, process>>

\* vmbus_disconnect_ring (VMBus) closes the subchannels and frees their rings,
\* then it closes the primary channel, whose ring stays.
DisconnectRing ==
  /\ channel' = [c \in Channels |->
       IF channel[c].opened
       THEN [channel[c] EXCEPT !.opened = FALSE,
                               !.ring = IF c = Primary THEN @ ELSE "freed"]
       ELSE channel[c]]
  /\ process' = [p \in Processes |->
       [process[p] EXCEPT !.outlived = @ \/ process[p].channel # Primary]]

\* Faulty: every close disconnects the ring.
ReleaseDisconnects ==
  /\ driver # "unregistered"
  /\ driver # "removed"
  /\ refcnt > 0
  /\ refcnt' = refcnt - 1
  /\ DisconnectRing
  /\ UNCHANGED driver

\* hv_uio_release: the last one disconnects it.
Release ==
  /\ driver # "unregistered"
  /\ driver # "removed"
  /\ refcnt > 0
  /\ refcnt' = refcnt - 1
  /\ \/ refcnt > 1 /\ UNCHANGED <<channel, process>>
     \/ refcnt = 1 /\ DisconnectRing
  /\ UNCHANGED driver

(***************************************************************************)
(* hv_uio_new_channel, installed by hv_uio_open.                           *)
(***************************************************************************)
OpenSubchannel(c) ==
  /\ channel[c].pc = "none"
  /\ channel[Primary].opened
  /\ \/ channel' = [channel EXCEPT ![c].pc = "ready"]
     \/ channel' = [channel EXCEPT ![c] = [pc |-> "file", opened |-> TRUE,
                                           ring |-> "allocated", file |-> FALSE]]
  /\ UNCHANGED <<driver, refcnt, process>>

\* Faulty: without the file the subchannel stays open.
CreateFailsKeepsOpen(c) == channel' = [channel EXCEPT ![c].pc = "ready"]

\* vmbus_close gives the ring back, if the last close has not done so.
CreateFails(c) ==
  channel' = [channel EXCEPT ![c] = [pc |-> "ready", opened |-> FALSE,
                                     ring |-> "freed", file |-> FALSE]]

CreateSubchannelFile(c) ==
  /\ channel[c].pc = "file"
  /\ \/ channel' = [channel EXCEPT ![c].pc = "ready", ![c].file = TRUE]
     \/ CreateFails(c)
  /\ UNCHANGED <<driver, refcnt, process>>

(***************************************************************************)
(* hv_uio_ring_mmap.                                                       *)
(***************************************************************************)
RingMmapCheck(p, c) ==
  /\ process[p].pc = "none"
  /\ channel[c].file
  /\ channel[c].opened
  /\ process' = [process EXCEPT ![p] = [pc |-> "checked", channel |-> c,
                                        outlived |-> FALSE]]
  /\ UNCHANGED <<driver, refcnt, channel>>

RingMmapMap(p) ==
  /\ process[p].pc = "checked"
  /\ process' = [process EXCEPT ![p].pc = "mapped"]
  /\ UNCHANGED <<driver, refcnt, channel>>

Munmap(p) ==
  /\ process[p].pc = "mapped"
  /\ process' = [process EXCEPT ![p] = NoMapping]
  /\ UNCHANGED <<driver, refcnt, channel>>

(***************************************************************************)
(* hv_uio_remove: the file, the UIO device, the buffers and the ring.      *)
(***************************************************************************)
\* Faulty: the file stays.
RemoveNothing ==
  /\ driver = "bound"
  /\ driver' = "unlinked"
  /\ UNCHANGED <<refcnt, channel, process>>

RemoveRingFile ==
  /\ driver = "bound"
  /\ driver' = "unlinked"
  /\ \A p \in Processes : process[p].pc = "checked" => process[p].channel # Primary
  /\ channel' = [channel EXCEPT ![Primary].file = FALSE]
  /\ process' = [p \in Processes |->
       IF process[p].channel = Primary THEN NoMapping ELSE process[p]]
  /\ UNCHANGED refcnt

Unregister ==
  /\ driver = "unlinked"
  /\ driver' = "unregistered"
  /\ UNCHANGED <<refcnt, channel, process>>

FreeRing ==
  /\ driver = "unregistered"
  /\ driver' = "removed"
  /\ channel' = [channel EXCEPT ![Primary].ring = "freed"]
  /\ UNCHANGED <<refcnt, process>>

-----------------------------------------------------------------------------
Next ==
  \/ CreateRingFile \/ Open \/ Release
  \/ RemoveRingFile \/ Unregister \/ FreeRing
  \/ \E c \in Subchannels : OpenSubchannel(c) \/ CreateSubchannelFile(c)
  \/ \E p \in Processes :
       \/ RingMmapMap(p) \/ Munmap(p)
       \/ \E c \in Channels : RingMmapCheck(p, c)

Spec == Init /\ [][Next]_vars

-----------------------------------------------------------------------------
TypeOK ==
  /\ driver \in {"registered", "bound", "unlinked", "unregistered", "removed"}
  /\ refcnt \in 0..MaxFiles
  /\ channel \in [Channels -> [pc : {"none", "file", "ready"}, opened : BOOLEAN,
                               ring : {"none", "allocated", "freed"}, file : BOOLEAN]]
  /\ process \in [Processes -> [pc : {"none", "checked", "mapped"}, channel : Channels,
                                 outlived : BOOLEAN]]

\* Through a file "ring" no process sees memory of a ring that was freed, unless
\* it keeps a subchannel mapped, or is in the middle of mmap, over the last close
\* of the device: hv_uio_remove takes the file of the primary channel away before
\* it frees the ring, hv_uio_new_channel creates the file after it has opened the
\* subchannel, and hv_uio_ring_mmap refuses a subchannel the last close has
\* closed, although its file is still there.
RingFileShowsLiveRing ==
  \A p \in Processes :
    process[p].pc # "none" =>
      channel[process[p].channel].ring = "allocated" \/ process[p].outlived

\* However hv_uio_new_channel ends, also when the last close comes in its middle,
\* no subchannel stays open whose ring nobody can map, and a file is there
\* without an open subchannel only after the last close.
SubchannelsAreReachable ==
  \A c \in Subchannels :
    channel[c].pc = "ready" =>
      /\ channel[c].opened => channel[c].file
      /\ channel[c].file => channel[c].opened \/ channel[c].ring = "freed"

=============================================================================
