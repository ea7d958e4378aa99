------------------------- MODULE UioHvMemory_proofs -------------------------
(***************************************************************************)
(* Proofs about UioHvMemory, for every set of subchannels and processes,   *)
(* any number of files and every layout of the regions.  The composition   *)
(* implements both of its parts; each part keeps an inductive invariant of *)
(* its own, and the two meet in the open files.                            *)
(***************************************************************************)
EXTENDS UioHvMemory, TLAPS

(***************************************************************************)
(* The files "ring".  That a ring is not freed while it is mapped needs to *)
(* know when the file is there: for the primary channel between the probe  *)
(* and the removal, for a subchannel from the end of hv_uio_new_channel.   *)
(* The file of a subchannel outlives its ring, so it also needs to know    *)
(* that who maps a closed subchannel was there before the last close.      *)
(***************************************************************************)
PrimaryFile ==
  /\ channel[Primary].file => driver = "bound"
  /\ driver # "removed" => channel[Primary].ring = "allocated"
  /\ channel[Primary].opened <=> refcnt > 0

SubchannelFile(c) ==
  /\ channel[c].pc = "none" => ~channel[c].opened /\ ~channel[c].file
  /\ channel[c].pc = "file" =>
       ~channel[c].file /\ (channel[c].opened \/ channel[c].ring = "freed")
  /\ channel[c].pc = "ready" => (channel[c].opened => channel[c].file)
  /\ channel[c].opened => channel[c].ring = "allocated"
  /\ channel[c].file =>
       channel[c].pc = "ready" /\ (channel[c].opened \/ channel[c].ring = "freed")

MappedThroughFile ==
  \A p \in Processes :
    process[p].pc # "none" => channel[process[p].channel].file

OpenOrOutlived ==
  \A p \in Processes :
    process[p].pc # "none" /\ process[p].channel # Primary =>
      channel[process[p].channel].opened \/ process[p].outlived

RingInv ==
  /\ TypeOK /\ PrimaryFile /\ MappedThroughFile /\ OpenOrOutlived
  /\ \A c \in Subchannels : SubchannelFile(c)

ChannelRecord == [pc : {"none", "file", "ready"}, opened : BOOLEAN,
                  ring : {"none", "allocated", "freed"}, file : BOOLEAN]
ProcessRecord == [pc : {"none", "checked", "mapped"}, channel : Channels,
                  outlived : BOOLEAN]

\* The driver is registered, and no subchannel is there.
LEMMA RingInit == Init => RingInv
<1> SUFFICES ASSUME Init
             PROVE  RingInv
  OBVIOUS
<1>1. /\ channel[Primary] = [pc |-> "ready", opened |-> FALSE, ring |-> "allocated",
                             file |-> FALSE]
      /\ \A c \in Subchannels : channel[c] = NoChannel
  BY RingFileAssumption DEF Init, Channels, NoChannel
<1>2. channel \in [Channels -> ChannelRecord]
  BY DEF Init, NoChannel, ChannelRecord
<1>3. process \in [Processes -> ProcessRecord]
  BY DEF Init, NoMapping, ProcessRecord, Channels
<1>4. TypeOK
  BY <1>2, <1>3, RingFileAssumption DEF Init, TypeOK, ChannelRecord, ProcessRecord
<1>5. PrimaryFile
  <2>1. ~(refcnt > 0)
    BY DEF Init
  <2> QED BY <1>1, <2>1 DEF PrimaryFile
<1>6. MappedThroughFile /\ OpenOrOutlived
  BY DEF Init, MappedThroughFile, OpenOrOutlived, NoMapping
<1>7. \A c \in Subchannels : SubchannelFile(c)
  BY <1>1 DEF SubchannelFile, NoChannel
<1> QED BY <1>4, <1>5, <1>6, <1>7 DEF RingInv

\* A step on one channel.
LEMMA ChannelChange ==
  ASSUME TypeOK, NEW c \in Channels, NEW r \in ChannelRecord,
         channel' = [channel EXCEPT ![c] = r]
  PROVE  /\ channel' \in [Channels -> ChannelRecord] /\ channel'[c] = r
         /\ \A d \in Channels \ {c} : channel'[d] = channel[d]
BY DEF TypeOK, ChannelRecord

\* What is known of channels and processes.
LEMMA RingFacts ==
  ASSUME RingInv
  PROVE  /\ channel \in [Channels -> ChannelRecord]
         /\ process \in [Processes -> ProcessRecord]
         /\ Primary \in Channels /\ Subchannels \subseteq Channels
         /\ \A c \in Subchannels : c # Primary
BY RingFileAssumption DEF RingInv, TypeOK, ChannelRecord, ProcessRecord, Channels

\* A step that changes the primary channel and no process.
LEMMA PrimaryKeepsInv ==
  ASSUME RingInv, NEW r \in ChannelRecord,
         channel' = [channel EXCEPT ![Primary] = r], process' = process,
         driver' \in {"registered", "bound", "unlinked", "unregistered", "removed"},
         refcnt' \in 0..MaxFiles,
         r.file => driver' = "bound",
         driver' # "removed" => r.ring = "allocated",
         r.opened <=> refcnt' > 0,
         channel[Primary].file => r.file
  PROVE  RingInv'
<1>1. /\ channel' \in [Channels -> ChannelRecord] /\ channel'[Primary] = r
      /\ \A d \in Channels \ {Primary} : channel'[d] = channel[d]
  BY RingFacts, ChannelChange DEF RingInv
<1>2. TypeOK'
  BY <1>1, RingFacts DEF TypeOK, ChannelRecord, ProcessRecord
<1>3. PrimaryFile'
  BY <1>1 DEF PrimaryFile
<1>4. MappedThroughFile' /\ OpenOrOutlived'
  BY <1>1, RingFacts DEF RingInv, MappedThroughFile, OpenOrOutlived, ProcessRecord
<1>5. \A c \in Subchannels : SubchannelFile(c)'
  BY <1>1, RingFacts DEF RingInv, SubchannelFile
<1> QED BY <1>2, <1>3, <1>4, <1>5 DEF RingInv

\* A step that changes a subchannel and no process.
LEMMA SubchannelKeepsInv ==
  ASSUME RingInv, NEW c \in Subchannels, NEW r \in ChannelRecord,
         channel' = [channel EXCEPT ![c] = r],
         UNCHANGED <<driver, refcnt, process>>,
         ~channel[c].file, SubchannelFile(c)'
  PROVE  RingInv'
<1>1. /\ channel' \in [Channels -> ChannelRecord] /\ channel'[c] = r
      /\ \A d \in Channels \ {c} : channel'[d] = channel[d]
  BY RingFacts, ChannelChange DEF RingInv
<1>2. TypeOK'
  BY <1>1, RingFacts DEF RingInv, TypeOK, ChannelRecord, ProcessRecord
<1>3. PrimaryFile'
  BY <1>1, RingFacts DEF RingInv, PrimaryFile
<1>4. MappedThroughFile' /\ OpenOrOutlived'
  BY <1>1, RingFacts DEF RingInv, MappedThroughFile, OpenOrOutlived, ProcessRecord
<1>5. \A d \in Subchannels : SubchannelFile(d)'
  BY <1>1, RingFacts DEF RingInv, SubchannelFile
<1> QED BY <1>2, <1>3, <1>4, <1>5 DEF RingInv

\* The end of hv_uio_probe, and the end of hv_uio_remove.
LEMMA CreateKeepsInv ==
  ASSUME RingInv, CreateRingFile \/ Unregister \/ FreeRing
  PROVE  RingInv'
<1>1. channel[Primary] \in ChannelRecord /\ refcnt \in 0..MaxFiles /\ PrimaryFile
  BY RingFacts DEF RingInv, TypeOK
<1>2. process' = process /\ refcnt' = refcnt
  BY DEF CreateRingFile, Unregister, FreeRing
<1>3. CASE CreateRingFile
  <2>1. PICK created \in BOOLEAN : channel' = [channel EXCEPT ![Primary].file = created]
    BY <1>3 DEF CreateRingFile
  <2> DEFINE r == [channel[Primary] EXCEPT !.file = created]
  <2>2. channel' = [channel EXCEPT ![Primary] = r]
    BY <2>1, RingFacts
  <2>3. /\ r \in ChannelRecord /\ r.opened = channel[Primary].opened
        /\ r.ring = channel[Primary].ring
    BY <1>1 DEF ChannelRecord
  <2>4. driver = "registered" /\ driver' = "bound"
    BY <1>3 DEF CreateRingFile
  <2> HIDE DEF r
  <2> QED BY <1>1, <1>2, <2>2, <2>3, <2>4, PrimaryKeepsInv DEF PrimaryFile
<1>4. CASE Unregister
  <2>1. driver = "unlinked" /\ driver' = "unregistered" /\ channel' = channel
    BY <1>4 DEF Unregister
  <2>2. channel' = [channel EXCEPT ![Primary] = channel[Primary]]
    BY <2>1, RingFacts
  <2> QED BY <1>1, <1>2, <2>1, <2>2, PrimaryKeepsInv DEF PrimaryFile
<1>5. CASE FreeRing
  <2> DEFINE r == [channel[Primary] EXCEPT !.ring = "freed"]
  <2>1. driver = "unregistered" /\ driver' = "removed"
    BY <1>5 DEF FreeRing
  <2>2. channel' = [channel EXCEPT ![Primary] = r]
    BY <1>5, RingFacts DEF FreeRing
  <2>3. /\ r \in ChannelRecord /\ r.opened = channel[Primary].opened
        /\ r.file = channel[Primary].file
    BY <1>1 DEF ChannelRecord
  <2> HIDE DEF r
  <2> QED BY <1>1, <1>2, <2>1, <2>2, <2>3, PrimaryKeepsInv DEF PrimaryFile
<1> QED BY <1>3, <1>4, <1>5

\* hv_uio_open, and hv_uio_release where files remain: opened follows refcnt.
LEMMA OpenKeepsInv ==
  ASSUME RingInv, Open \/ (Release /\ refcnt > 1)
  PROVE  RingInv'
<1>1. /\ channel[Primary] \in ChannelRecord /\ refcnt \in 0..MaxFiles /\ PrimaryFile
      /\ driver \in {"registered", "bound", "unlinked", "unregistered", "removed"}
  BY RingFacts DEF RingInv, TypeOK
<1>2. process' = process /\ driver' = driver
  BY <1>1, RingFileAssumption DEF Open, Release
<1>3. refcnt' \in 0..MaxFiles /\ refcnt' > 0
  BY <1>1, RingFileAssumption DEF Open, Release
<1> DEFINE r == [channel[Primary] EXCEPT !.opened = TRUE]
<1>4. channel' = [channel EXCEPT ![Primary] = r]
  <2>1. CASE Open
    BY <2>1, RingFacts DEF Open
  <2>2. CASE Release /\ refcnt > 1
    <3>1. channel' = channel
      BY <1>1, <2>2, RingFileAssumption DEF Release
    <3>2. channel[Primary].opened = TRUE
      BY <1>1, <2>2, RingFileAssumption DEF PrimaryFile, ChannelRecord
    <3>3. r = channel[Primary]
      BY <1>1, <3>2 DEF ChannelRecord
    <3> HIDE DEF r
    <3> QED BY <3>1, <3>3, RingFacts
  <2> QED BY <2>1, <2>2
<1>5. /\ r \in ChannelRecord /\ r.opened = TRUE
      /\ r.file = channel[Primary].file /\ r.ring = channel[Primary].ring
  BY <1>1 DEF ChannelRecord
<1> HIDE DEF r
<1> QED BY <1>1, <1>2, <1>3, <1>4, <1>5, PrimaryKeepsInv DEF PrimaryFile

\* vmbus_disconnect_ring, channel by channel and process by process.
LEMMA DisconnectFacts ==
  ASSUME RingInv, DisconnectRing
  PROVE  /\ channel' \in [Channels -> ChannelRecord]
         /\ process' \in [Processes -> ProcessRecord]
         /\ \A c \in Channels :
              /\ ~channel'[c].opened
              /\ channel'[c].pc = channel[c].pc /\ channel'[c].file = channel[c].file
              /\ channel'[c].ring = IF channel[c].opened /\ c # Primary THEN "freed"
                                    ELSE channel[c].ring
         /\ \A p \in Processes :
              /\ process'[p].pc = process[p].pc
              /\ process'[p].channel = process[p].channel
              /\ process[p].channel # Primary => process'[p].outlived
<1>1. \A c \in Channels :
        /\ channel'[c] \in ChannelRecord /\ ~channel'[c].opened
        /\ channel'[c].pc = channel[c].pc /\ channel'[c].file = channel[c].file
        /\ channel'[c].ring = IF channel[c].opened /\ c # Primary THEN "freed"
                              ELSE channel[c].ring
  <2> SUFFICES ASSUME NEW c \in Channels
               PROVE  /\ channel'[c] \in ChannelRecord /\ ~channel'[c].opened
                      /\ channel'[c].pc = channel[c].pc
                      /\ channel'[c].file = channel[c].file
                      /\ channel'[c].ring =
                           IF channel[c].opened /\ c # Primary THEN "freed"
                           ELSE channel[c].ring
    OBVIOUS
  <2>1. channel[c] \in ChannelRecord
    BY RingFacts
  <2>2. CASE channel[c].opened
    <3>1. channel'[c] = [channel[c] EXCEPT !.opened = FALSE,
                           !.ring = IF c = Primary THEN channel[c].ring ELSE "freed"]
      BY <2>2 DEF DisconnectRing
    <3> QED BY <2>1, <2>2, <3>1 DEF ChannelRecord
  <2>3. CASE ~channel[c].opened
    BY <2>1, <2>3 DEF DisconnectRing
  <2> QED BY <2>2, <2>3
<1>2. \A p \in Processes :
        /\ process'[p] \in ProcessRecord
        /\ process'[p].pc = process[p].pc /\ process'[p].channel = process[p].channel
        /\ process[p].channel # Primary => process'[p].outlived
  <2> SUFFICES ASSUME NEW p \in Processes
               PROVE  /\ process'[p] \in ProcessRecord
                      /\ process'[p].pc = process[p].pc
                      /\ process'[p].channel = process[p].channel
                      /\ process[p].channel # Primary => process'[p].outlived
    OBVIOUS
  <2>1. process[p] \in ProcessRecord
    BY RingFacts
  <2>2. process'[p] = [process[p] EXCEPT !.outlived = process[p].outlived
                                                     \/ process[p].channel # Primary]
    BY DEF DisconnectRing
  <2>3. (process[p].outlived \/ process[p].channel # Primary) \in BOOLEAN
    OBVIOUS
  <2> QED BY <2>1, <2>2, <2>3 DEF ProcessRecord
<1>3. DOMAIN channel' = Channels /\ DOMAIN process' = Processes
  BY DEF DisconnectRing
<1>4. /\ channel' = [c \in Channels |-> channel'[c]]
      /\ process' = [p \in Processes |-> process'[p]]
  BY DEF DisconnectRing
<1> QED BY <1>1, <1>2, <1>3, <1>4

\* The last hv_uio_release: the subchannels are closed under their files.
LEMMA LastReleaseKeepsInv ==
  ASSUME RingInv, Release, refcnt = 1
  PROVE  RingInv'
<1>1. DisconnectRing /\ driver' = driver /\ refcnt' = 0
  BY DEF Release
<1>2. TypeOK'
  BY <1>1, DisconnectFacts, RingFileAssumption
     DEF RingInv, TypeOK, ChannelRecord, ProcessRecord
<1>3. PrimaryFile'
  <2>1. ~(refcnt' > 0)
    BY <1>1
  <2> QED BY <1>1, <2>1, DisconnectFacts, RingFacts DEF RingInv, PrimaryFile
<1>4. MappedThroughFile' /\ OpenOrOutlived'
  BY <1>1, DisconnectFacts, RingFacts
     DEF RingInv, MappedThroughFile, OpenOrOutlived, ProcessRecord
<1>5. \A c \in Subchannels : SubchannelFile(c)'
  BY <1>1, DisconnectFacts, RingFacts DEF RingInv, SubchannelFile
<1> QED BY <1>2, <1>3, <1>4, <1>5 DEF RingInv

\* hv_uio_open and hv_uio_release.
LEMMA OpenCloseKeepInv ==
  ASSUME RingInv, Open \/ Release
  PROVE  RingInv'
<1>1. Release => refcnt > 1 \/ refcnt = 1
  BY DEF Release
<1> QED BY <1>1, OpenKeepsInv, LastReleaseKeepsInv

\* hv_uio_new_channel: a subchannel gets its file after its ring.
LEMMA NewChannelKeepsInv ==
  ASSUME RingInv, NEW c \in Subchannels, OpenSubchannel(c) \/ CreateSubchannelFile(c)
  PROVE  RingInv'
<1>1. /\ channel[c] \in ChannelRecord /\ channel \in [Channels -> ChannelRecord]
      /\ c \in Channels /\ SubchannelFile(c)
      /\ UNCHANGED <<driver, refcnt, process>>
  BY RingFacts DEF RingInv, OpenSubchannel, CreateSubchannelFile
<1>2. ~channel[c].file
  BY <1>1 DEF SubchannelFile, OpenSubchannel, CreateSubchannelFile
<1>3. \E r \in ChannelRecord :
        /\ channel' = [channel EXCEPT ![c] = r]
        /\ r.pc # "none"
        /\ r.pc = "file" => ~r.file /\ (r.opened \/ r.ring = "freed")
        /\ r.pc = "ready" => (r.opened => r.file)
        /\ r.opened => r.ring = "allocated"
        /\ r.file => r.pc = "ready" /\ (r.opened \/ r.ring = "freed")
  <2>1. CASE channel[c].pc = "none" /\ channel' = [channel EXCEPT ![c].pc = "ready"]
    <3> DEFINE r == [channel[c] EXCEPT !.pc = "ready"]
    <3>1. /\ r \in ChannelRecord /\ r.pc = "ready" /\ r.file = channel[c].file
          /\ r.opened = channel[c].opened
      BY <1>1 DEF ChannelRecord
    <3>2. channel' = [channel EXCEPT ![c] = r]
      BY <1>1, <2>1
    <3>3. ~channel[c].opened /\ ~channel[c].file
      BY <1>1, <2>1 DEF SubchannelFile
    <3> HIDE DEF r
    <3> QED BY <3>1, <3>2, <3>3
  <2>2. CASE /\ channel[c].pc = "file"
             /\ channel' = [channel EXCEPT ![c].pc = "ready", ![c].file = TRUE]
    <3> DEFINE r == [channel[c] EXCEPT !.pc = "ready", !.file = TRUE]
    <3>1. /\ r \in ChannelRecord /\ r.pc = "ready" /\ r.file
          /\ r.opened = channel[c].opened /\ r.ring = channel[c].ring
      BY <1>1 DEF ChannelRecord
    <3>2. channel' = [channel EXCEPT ![c] = r]
      BY <1>1, <2>2
    <3>3. IF channel[c].opened THEN channel[c].ring = "allocated"
          ELSE channel[c].ring = "freed"
      BY <1>1, <2>2 DEF SubchannelFile
    <3> HIDE DEF r
    <3> QED BY <3>1, <3>2, <3>3
  <2>3. CASE channel' = [channel EXCEPT ![c] = [pc |-> "file", opened |-> TRUE,
                                                ring |-> "allocated", file |-> FALSE]]
    <3> DEFINE r == [pc |-> "file", opened |-> TRUE, ring |-> "allocated",
                     file |-> FALSE]
    <3>1. /\ r \in ChannelRecord /\ r.pc = "file" /\ ~r.file /\ r.opened
          /\ r.ring = "allocated"
      BY DEF ChannelRecord
    <3> QED BY <2>3, <3>1
  <2>4. CASE CreateFails(c)
    <3> DEFINE r == [pc |-> "ready", opened |-> FALSE, ring |-> "freed", file |-> FALSE]
    <3>1. r \in ChannelRecord /\ r.pc = "ready" /\ ~r.file /\ ~r.opened
      BY DEF ChannelRecord
    <3> QED BY <2>4, <3>1 DEF CreateFails
  <2> QED BY <2>1, <2>2, <2>3, <2>4 DEF OpenSubchannel, CreateSubchannelFile
<1>4. PICK r \in ChannelRecord :
        /\ channel' = [channel EXCEPT ![c] = r]
        /\ r.pc # "none"
        /\ r.pc = "file" => ~r.file /\ (r.opened \/ r.ring = "freed")
        /\ r.pc = "ready" => (r.opened => r.file)
        /\ r.opened => r.ring = "allocated"
        /\ r.file => r.pc = "ready" /\ (r.opened \/ r.ring = "freed")
  BY <1>3
<1>5. channel'[c] = r
  BY <1>1, <1>4
<1>6. SubchannelFile(c)'
  BY <1>4, <1>5 DEF SubchannelFile
<1> QED BY <1>1, <1>2, <1>4, <1>6, SubchannelKeepsInv

\* hv_uio_ring_mmap goes through a file that is there.
LEMMA RingMmapKeepsInv ==
  ASSUME RingInv, NEW p \in Processes,
         \/ RingMmapMap(p) \/ Munmap(p)
         \/ \E c \in Channels : RingMmapCheck(p, c)
  PROVE  RingInv'
<1>1. UNCHANGED <<driver, refcnt, channel>>
  BY DEF RingMmapMap, Munmap, RingMmapCheck
<1>2. process' \in [Processes -> ProcessRecord]
  <2>1. NoMapping \in ProcessRecord /\ process[p] \in ProcessRecord
    BY RingFacts DEF NoMapping, ProcessRecord
  <2>2. [process[p] EXCEPT !.pc = "mapped"] \in ProcessRecord
    BY <2>1 DEF ProcessRecord
  <2>3. \A c \in Channels :
          [pc |-> "checked", channel |-> c, outlived |-> FALSE] \in ProcessRecord
    BY DEF ProcessRecord
  <2> QED BY <2>1, <2>2, <2>3, RingFacts DEF RingMmapMap, Munmap, RingMmapCheck
<1>3. MappedThroughFile' /\ OpenOrOutlived'
  <2> DEFINE Sound(m) == /\ channel[m.channel].file
                         /\ \/ m.channel = Primary \/ channel[m.channel].opened
                            \/ m.outlived
  <2> SUFFICES ASSUME NEW q \in Processes, process'[q].pc # "none"
               PROVE  Sound(process'[q])
    BY <1>1 DEF MappedThroughFile, OpenOrOutlived
  <2>1. process[q].pc # "none" => Sound(process[q])
    BY DEF RingInv, MappedThroughFile, OpenOrOutlived
  <2>2. CASE RingMmapMap(p)
    <3>1. /\ process'[q].channel = process[q].channel /\ process[q].pc # "none"
          /\ process'[q].outlived = process[q].outlived
      BY <2>2, RingFacts DEF RingMmapMap, ProcessRecord
    <3> QED BY <2>1, <3>1
  <2>3. CASE Munmap(p)
    BY <2>1, <2>3, RingFacts DEF Munmap, NoMapping
  <2>4. ASSUME NEW c \in Channels, RingMmapCheck(p, c)
        PROVE  Sound(process'[q])
    BY <2>1, <2>4, RingFacts DEF RingMmapCheck
  <2> QED BY <2>2, <2>3, <2>4
<1>4. TypeOK'
  BY <1>1, <1>2 DEF RingInv, TypeOK, ProcessRecord
<1>5. PrimaryFile' /\ \A c \in Subchannels : SubchannelFile(c)'
  BY <1>1 DEF RingInv, PrimaryFile, SubchannelFile
<1> QED BY <1>3, <1>4, <1>5 DEF RingInv

\* hv_uio_remove takes the file away, and with it the mappings made through it.
LEMMA RemoveKeepsInv ==
  ASSUME RingInv, RemoveRingFile
  PROVE  RingInv'
<1> DEFINE r == [channel[Primary] EXCEPT !.file = FALSE]
<1>1. /\ r \in ChannelRecord /\ ~r.file /\ r.ring = channel[Primary].ring
      /\ r.opened = channel[Primary].opened
  BY RingFacts DEF ChannelRecord
<1>2. /\ channel' = [channel EXCEPT ![Primary] = r] /\ refcnt' = refcnt
      /\ driver = "bound" /\ driver' = "unlinked"
  BY RingFacts DEF RemoveRingFile
<1> HIDE DEF r
<1>3. /\ channel' \in [Channels -> ChannelRecord] /\ channel'[Primary] = r
      /\ \A d \in Channels \ {Primary} : channel'[d] = channel[d]
  BY <1>1, <1>2, RingFacts, ChannelChange DEF RingInv
<1>4. process' \in [Processes -> ProcessRecord]
  <2>1. NoMapping \in ProcessRecord
    BY RingFacts DEF NoMapping, ProcessRecord
  <2> QED BY <2>1, RingFacts DEF RemoveRingFile
<1>5. TypeOK'
  BY <1>2, <1>3, <1>4 DEF RingInv, TypeOK, ChannelRecord, ProcessRecord
<1>6. PrimaryFile'
  BY <1>1, <1>2, <1>3 DEF RingInv, PrimaryFile
<1>7. MappedThroughFile' /\ OpenOrOutlived'
  <2> SUFFICES ASSUME NEW q \in Processes, process'[q].pc # "none"
               PROVE  /\ channel'[process'[q].channel].file
                      /\ channel'[process'[q].channel].opened \/ process'[q].outlived
    BY DEF MappedThroughFile, OpenOrOutlived
  <2>1. process'[q] = process[q] /\ process[q].channel # Primary
    BY DEF RemoveRingFile, NoMapping
  <2>2. process[q].channel \in Channels \ {Primary}
    BY <2>1, RingFacts DEF ProcessRecord
  <2> QED BY <1>3, <2>1, <2>2 DEF RingInv, MappedThroughFile, OpenOrOutlived
<1>8. \A c \in Subchannels : SubchannelFile(c)'
  BY <1>3, RingFacts DEF RingInv, SubchannelFile
<1> QED BY <1>5, <1>6, <1>7, <1>8 DEF RingInv

\* Every step of the files "ring" keeps the invariant.
LEMMA RingNext == RingInv /\ [Next]_vars => RingInv'
<1> SUFFICES ASSUME RingInv, [Next]_vars
             PROVE  RingInv'
  OBVIOUS
<1>1. CASE UNCHANGED vars
  BY <1>1 DEF vars, RingInv, TypeOK, PrimaryFile, MappedThroughFile, OpenOrOutlived,
              SubchannelFile
<1>2. CASE Next
  BY <1>2, CreateKeepsInv, OpenCloseKeepInv, RemoveKeepsInv, NewChannelKeepsInv,
     RingMmapKeepsInv DEF Next
<1> QED BY <1>1, <1>2

-----------------------------------------------------------------------------
\* What \div gives.
LEMMA DivBounds ==
  ASSUME NEW n \in Nat, NEW d \in Nat \ {0}
  PROVE  /\ n \div d \in Int /\ d * (n \div d) <= n /\ n < d * (n \div d) + d
OBVIOUS

\* Multiplication is monotone.
LEMMA MulMono ==
  ASSUME NEW d \in Nat \ {0}, NEW i \in Int, NEW j \in Int, i <= j
  PROVE  d * i <= d * j
OBVIOUS

\* The quotient is the only number between these bounds.
LEMMA DivUnique ==
  ASSUME NEW n \in Nat, NEW d \in Nat \ {0}, NEW k \in Int, d * k <= n, n < d * k + d
  PROVE  n \div d = k
<1> DEFINE q == n \div d
<1>1. q \in Int /\ d * q <= n /\ n < d * q + d
  BY DivBounds
<1> HIDE DEF q
<1>2. CASE q < k
  <2>1. d * (q + 1) <= d * k
    BY <1>1, <1>2, MulMono
  <2>2. d * (q + 1) = d * q + d
    BY <1>1
  <2> QED BY <1>1, <2>1, <2>2
<1>3. CASE k < q
  <2>1. d * (k + 1) <= d * q
    BY <1>1, <1>3, MulMono
  <2>2. d * (k + 1) = d * k + d
    OBVIOUS
  <2> QED BY <1>1, <2>1, <2>2
<1> QED BY <1>1, <1>2, <1>3 DEF q

\* The k-th of the pages that actual_pages counts has a byte of the region: the
\* rounding in uio_mmap gives no page away.
LEMMA PageHasByte ==
  ASSUME NEW d \in Nat \ {0}, NEW a \in 0..(d - 1), NEW s \in Nat \ {0}, NEW k \in Nat,
         k < (a + s + d - 1) \div d
  PROVE  \E b \in 0..(s - 1) : (a + b) \div d = k
<1> DEFINE x == a + s + d - 1
           q == x \div d
<1>1. x \in Nat /\ q \in Int /\ d * q <= x
  BY DivBounds
<1>2. k + 1 <= q
  BY <1>1
<1> HIDE DEF q
<1>3. d * (k + 1) <= d * q /\ d * (k + 1) = d * k + d
  BY <1>1, <1>2, MulMono
<1>4. d * k \in Nat
  OBVIOUS
<1>5. d * k <= a + s - 1
  BY <1>1, <1>3, <1>4
<1>6. CASE d * k <= a
  <2>1. k = 0
    <3>1. CASE k >= 1
      BY <1>6, <3>1, MulMono
    <3> QED BY <3>1
  <2>2. a \div d = 0
    BY DivUnique
  <2> QED BY <2>1, <2>2
<1>7. CASE d * k > a
  <2> DEFINE b == d * k - a
  <2>1. b \in 0..(s - 1) /\ a + b = d * k
    BY <1>4, <1>5, <1>7
  <2>2. (a + b) \div d = k
    BY <1>4, <2>1, DivUnique
  <2> QED BY <2>1, <2>2
<1> QED BY <1>4, <1>6, <1>7

(***************************************************************************)
(* mmap() of the device.  A mapping shows its region only because its      *)
(* length was compared with actual_pages when it was made, and because a   *)
(* fault finds the region by vm_pgoff as long as the front is whole.       *)
(***************************************************************************)
VmaRecord == [mapped : BOOLEAN, vm_pgoff : Nat, pages : Nat, faults : BOOLEAN,
              pte : UNION {[D -> Mmap!Maps \X Nat] : D \in SUBSET Nat},
              region : Nat, cut : Nat]

MemRecord == [addr : 0..(PAGE_SIZE - 1), size : Nat,
              memtype : {"phys", "dma", "logical", "none"}]

LengthWasChecked ==
  /\ ~vma.mapped => vma.pages = 0
  /\ vma.mapped /\ vma.cut = 0 =>
       /\ vma.region \in Mmap!Maps /\ mem[vma.region].size > 0
       /\ vma.pages <= Mmap!actual_pages(vma.region)

PagesInPlace ==
  vma.cut = 0 => \A k \in DOMAIN vma.pte : vma.pte[k] = <<vma.region, k>>

MmapInv == Mmap!TypeOK /\ vma \in VmaRecord /\ LengthWasChecked /\ PagesInPlace

\* Nothing is mapped.
LEMMA NoVmaFacts ==
  /\ Mmap!NoVma \in VmaRecord /\ DOMAIN Mmap!NoVma.pte = {}
  /\ Mmap!NoVma.pages = 0 /\ ~Mmap!NoVma.mapped
  /\ Mmap!NoVma.vm_pgoff = 0 /\ Mmap!NoVma.region = 0 /\ Mmap!NoVma.cut = 0
<1>1. << >> \in [{} -> Mmap!Maps \X Nat]
  OBVIOUS
<1>2. << >> \in UNION {[D -> Mmap!Maps \X Nat] : D \in SUBSET Nat}
  BY <1>1
<1> QED BY <1>2 DEF Mmap!NoVma, VmaRecord

\* A process without a mapping.
LEMMA UnmappedInv ==
  ASSUME mem \in [Mmap!Maps -> MemRecord], info \in BOOLEAN, vma = Mmap!NoVma
  PROVE  MmapInv
BY NoVmaFacts DEF MmapInv, Mmap!TypeOK, MemRecord, LengthWasChecked, PagesInPlace

\* At first nothing is mapped.
LEMMA MmapInit == Mmap!Init => MmapInv
<1> SUFFICES ASSUME Mmap!Init
             PROVE  MmapInv
  OBVIOUS
<1>1. mem \in [Mmap!Maps -> MemRecord]
  BY MmapAssumption DEF Mmap!Init, MemRecord
<1> QED BY <1>1, UnmappedInv DEF Mmap!Init

\* What is known of the regions and of the mapping.
LEMMA MmapFacts ==
  ASSUME MmapInv
  PROVE  /\ mem \in [Mmap!Maps -> MemRecord] /\ info \in BOOLEAN /\ vma \in VmaRecord
         /\ vma.pages \in Nat /\ vma.cut \in Nat /\ vma.region \in Nat
         /\ vma.vm_pgoff \in Nat /\ vma.vm_pgoff = vma.region + vma.cut
         /\ DOMAIN vma.pte \subseteq 0..(vma.pages - 1)
         /\ \A k \in DOMAIN vma.pte : vma.pte[k] \in Mmap!Maps \X Nat
BY DEF MmapInv, Mmap!TypeOK, MemRecord, VmaRecord

\* uio_mmap compares the length with the pages of the region it has found.
LEMMA MapKeepsInv ==
  ASSUME MmapInv, NEW vm_pgoff \in 0..MAX_UIO_MAPS, NEW pages \in Mmap!Lengths,
         Mmap!uio_mmap(vm_pgoff, pages)
  PROVE  MmapInv'
<1>1. pages \in Nat
  BY MmapAssumption DEF Mmap!Lengths
<1>2. Mmap!uio_find_mem_index(vm_pgoff) >= 0
  BY DEF Mmap!uio_mmap
<1>3. /\ Mmap!uio_find_mem_index(vm_pgoff) = vm_pgoff
      /\ vm_pgoff \in Mmap!Maps /\ mem[vm_pgoff].size > 0
  BY <1>2 DEF Mmap!uio_find_mem_index
<1>4. pages <= Mmap!actual_pages(vm_pgoff) /\ UNCHANGED <<mem, info>>
  BY <1>3 DEF Mmap!uio_mmap
<1> DEFINE t == IF mem[vm_pgoff].memtype = "logical" THEN << >>
                ELSE [k \in 0..(pages - 1) |-> <<vm_pgoff, k>>]
           fl == mem[vm_pgoff].memtype = "logical"
<1>5. vma' = [mapped |-> TRUE, vm_pgoff |-> vm_pgoff, pages |-> pages, faults |-> fl,
              pte |-> t, region |-> vm_pgoff, cut |-> 0]
  BY <1>3 DEF Mmap!uio_mmap, Mmap!PgoffAfter
<1>6. /\ t \in UNION {[D -> Mmap!Maps \X Nat] : D \in SUBSET Nat}
      /\ DOMAIN t \subseteq 0..(pages - 1)
      /\ \A k \in DOMAIN t : t[k] = <<vm_pgoff, k>>
  <2>1. << >> \in [{} -> Mmap!Maps \X Nat] /\ DOMAIN << >> = {}
    OBVIOUS
  <2>2. 0..(pages - 1) \in SUBSET Nat
    BY <1>1
  <2>3. \A k \in 0..(pages - 1) : <<vm_pgoff, k>> \in Mmap!Maps \X Nat
    BY <1>1, <1>3
  <2>4. [k \in 0..(pages - 1) |-> <<vm_pgoff, k>>] \in [0..(pages - 1) -> Mmap!Maps \X Nat]
    BY <2>3
  <2>5. CASE fl
    BY <2>1, <2>5
  <2>6. CASE ~fl
    BY <2>2, <2>4, <2>6
  <2> QED BY <2>5, <2>6
<1>7. fl \in BOOLEAN /\ vm_pgoff \in Nat
  OBVIOUS
<1> HIDE DEF t, fl
<1>8. vma' \in VmaRecord
  BY <1>1, <1>5, <1>6, <1>7 DEF VmaRecord
<1>9. /\ vma'.mapped /\ vma'.cut = 0 /\ vma'.region = vm_pgoff /\ vma'.pages = pages
      /\ vma'.vm_pgoff = vm_pgoff /\ vma'.pte = t
  BY <1>5
<1>10. Mmap!TypeOK'
  BY <1>4, <1>6, <1>7, <1>9 DEF MmapInv, Mmap!TypeOK
<1>11. LengthWasChecked'
  BY <1>3, <1>4, <1>9 DEF LengthWasChecked, Mmap!actual_pages
<1>12. PagesInPlace'
  BY <1>6, <1>9 DEF PagesInPlace
<1> QED BY <1>8, <1>10, <1>11, <1>12 DEF MmapInv

\* A fault finds the region by vm_pgoff, which nobody has changed.
LEMMA FaultKeepsInv ==
  ASSUME MmapInv, NEW k \in 0..MaxSize, Mmap!uio_vma_fault(k)
  PROVE  MmapInv'
<1>1. Mmap!uio_find_mem_index(vma.vm_pgoff) >= 0
  BY DEF Mmap!uio_vma_fault
<1>2. /\ Mmap!uio_find_mem_index(vma.vm_pgoff) = vma.vm_pgoff
      /\ vma.vm_pgoff \in Mmap!Maps
  BY <1>1 DEF Mmap!uio_find_mem_index
<1>3. /\ k \in 0..(vma.pages - 1) /\ vma.mapped /\ k \in Nat
      /\ UNCHANGED <<mem, info>>
  BY MmapAssumption DEF Mmap!uio_vma_fault
<1>4. Mmap!FaultOffset(k, vma.vm_pgoff) = k
  BY <1>3, MmapFacts DEF Mmap!FaultOffset
<1> DEFINE t == [j \in DOMAIN vma.pte \cup {k} |->
                   IF j = k THEN <<vma.vm_pgoff, k>> ELSE vma.pte[j]]
<1>5. vma' = [vma EXCEPT !.pte = t]
  BY <1>2, <1>4 DEF Mmap!uio_vma_fault
<1>6. /\ t \in UNION {[D -> Mmap!Maps \X Nat] : D \in SUBSET Nat}
      /\ DOMAIN t = DOMAIN vma.pte \cup {k} /\ t[k] = <<vma.vm_pgoff, k>>
      /\ \A j \in DOMAIN vma.pte : j # k => t[j] = vma.pte[j]
  <2>1. DOMAIN vma.pte \cup {k} \in SUBSET Nat
    BY <1>3, MmapFacts
  <2>2. <<vma.vm_pgoff, k>> \in Mmap!Maps \X Nat
    BY <1>2, <1>3
  <2>3. t \in [DOMAIN vma.pte \cup {k} -> Mmap!Maps \X Nat]
    BY <2>2, MmapFacts
  <2> QED BY <2>1, <2>3
<1> HIDE DEF t
<1>7. /\ vma' \in VmaRecord /\ vma'.pte = t /\ vma'.mapped = vma.mapped
      /\ vma'.pages = vma.pages /\ vma'.cut = vma.cut /\ vma'.region = vma.region
      /\ vma'.vm_pgoff = vma.vm_pgoff
  BY <1>5, <1>6, MmapFacts DEF VmaRecord
<1>8. Mmap!TypeOK'
  BY <1>3, <1>6, <1>7, MmapFacts DEF MmapInv, Mmap!TypeOK
<1>9. LengthWasChecked'
  BY <1>3, <1>7 DEF MmapInv, LengthWasChecked, Mmap!actual_pages
<1>10. PagesInPlace'
  <2>1. vma.cut = 0 => vma.vm_pgoff = vma.region
    BY MmapFacts
  <2> QED BY <1>6, <1>7, <2>1 DEF MmapInv, PagesInPlace
<1> QED BY <1>7, <1>8, <1>9, <1>10 DEF MmapInv

\* A mapping that lost its front is no longer spoken of.
LEMMA MunmapFrontKeepsInv ==
  ASSUME MmapInv, NEW n \in Mmap!Lengths, Mmap!MunmapFront(n)
  PROVE  MmapInv'
<1>1. n \in Nat /\ n >= 1 /\ n < vma.pages /\ UNCHANGED <<mem, info>>
  BY MmapAssumption DEF Mmap!Lengths, Mmap!MunmapFront
<1> DEFINE S == {j - n : j \in {i \in DOMAIN vma.pte : i >= n}}
           t == [k \in S |-> vma.pte[k + n]]
<1>2. vma' = [vma EXCEPT !.vm_pgoff = vma.vm_pgoff + n, !.pages = vma.pages - n,
                         !.cut = vma.cut + n, !.pte = t]
  BY DEF Mmap!MunmapFront
<1>3. S \in SUBSET Nat /\ \A k \in S : k + n \in DOMAIN vma.pte
  BY <1>1, MmapFacts
<1>4. t \in [S -> Mmap!Maps \X Nat]
  BY <1>3, MmapFacts
<1>5. t \in UNION {[D -> Mmap!Maps \X Nat] : D \in SUBSET Nat}
  BY <1>3, <1>4
<1>6. DOMAIN t \subseteq 0..(vma.pages - n - 1)
  BY <1>1, <1>3, MmapFacts
<1>7. /\ vma.pages - n \in Nat /\ vma.cut + n \in Nat \ {0} /\ vma.vm_pgoff + n \in Nat
      /\ vma.vm_pgoff + n = vma.region + (vma.cut + n)
      /\ vma.pages - n - 1 = (vma.pages - n) - 1
  BY <1>1, MmapFacts
<1> HIDE DEF t
<1>8. /\ vma' \in VmaRecord /\ vma'.pte = t /\ vma'.mapped = vma.mapped
      /\ vma'.pages = vma.pages - n /\ vma'.cut = vma.cut + n
      /\ vma'.region = vma.region /\ vma'.vm_pgoff = vma.vm_pgoff + n
  BY <1>2, <1>5, <1>7, MmapFacts DEF VmaRecord
<1>9. Mmap!TypeOK'
  BY <1>1, <1>6, <1>7, <1>8, MmapFacts DEF MmapInv, Mmap!TypeOK
<1>10. vma.mapped /\ vma'.cut # 0
  BY <1>1, <1>7, <1>8 DEF MmapInv, LengthWasChecked
<1>11. LengthWasChecked' /\ PagesInPlace'
  BY <1>8, <1>10 DEF LengthWasChecked, PagesInPlace
<1> QED BY <1>8, <1>9, <1>11 DEF MmapInv

\* What is left of a mapping that lost its back is where it was.
LEMMA MunmapBackKeepsInv ==
  ASSUME MmapInv, NEW n \in Mmap!Lengths, Mmap!MunmapBack(n)
  PROVE  MmapInv'
<1>1. n \in Nat /\ n >= 1 /\ n < vma.pages /\ UNCHANGED <<mem, info>>
  BY MmapAssumption DEF Mmap!Lengths, Mmap!MunmapBack
<1> DEFINE S == DOMAIN vma.pte \cap 0..(vma.pages - n - 1)
           t == [k \in S |-> vma.pte[k]]
<1>2. vma' = [vma EXCEPT !.pages = vma.pages - n, !.pte = t]
  BY DEF Mmap!MunmapBack
<1>3. /\ t \in [S -> Mmap!Maps \X Nat] /\ S \in SUBSET Nat
      /\ \A k \in S : t[k] = vma.pte[k]
  BY MmapFacts
<1>4. t \in UNION {[D -> Mmap!Maps \X Nat] : D \in SUBSET Nat} /\ DOMAIN t = S
  BY <1>3
<1>5. vma.pages - n \in Nat /\ vma.pages - n - 1 = (vma.pages - n) - 1
  BY <1>1, MmapFacts
<1> HIDE DEF t
<1>6. /\ vma' \in VmaRecord /\ vma'.pte = t /\ vma'.mapped = vma.mapped
      /\ vma'.pages = vma.pages - n /\ vma'.cut = vma.cut
      /\ vma'.region = vma.region /\ vma'.vm_pgoff = vma.vm_pgoff
  BY <1>2, <1>4, <1>5, MmapFacts DEF VmaRecord
<1>7. Mmap!TypeOK'
  BY <1>1, <1>4, <1>5, <1>6, MmapFacts DEF MmapInv, Mmap!TypeOK
<1>8. vma.mapped
  BY <1>1 DEF MmapInv, LengthWasChecked
<1>9. LengthWasChecked'
  <2>1. vma.cut = 0 => vma.pages - n <= Mmap!actual_pages(vma.region)
    <3>1. vma.cut = 0 => /\ vma.pages <= Mmap!actual_pages(vma.region)
                         /\ Mmap!actual_pages(vma.region) \in Int
      <4>1. CASE vma.cut = 0
        <5>1. vma.region \in Mmap!Maps
          BY <1>8, <4>1 DEF MmapInv, LengthWasChecked
        <5>2. mem[vma.region].addr \in Nat /\ mem[vma.region].size \in Nat
          BY <5>1, MmapFacts, MmapAssumption DEF MemRecord
        <5>3. mem[vma.region].addr + mem[vma.region].size + PAGE_SIZE - 1 \in Nat
          BY <5>2, MmapAssumption
        <5>4. Mmap!actual_pages(vma.region) \in Int
          BY <5>3, DivBounds, MmapAssumption DEF Mmap!actual_pages
        <5> QED BY <1>8, <4>1, <5>4 DEF MmapInv, LengthWasChecked
      <4> QED BY <4>1
    <3> QED BY <1>1, <3>1, MmapFacts
  <2> QED BY <1>1, <1>6, <1>8, <2>1 DEF MmapInv, LengthWasChecked, Mmap!actual_pages
<1>10. PagesInPlace'
  BY <1>3, <1>4, <1>6 DEF MmapInv, PagesInPlace
<1> QED BY <1>6, <1>7, <1>9, <1>10 DEF MmapInv

\* Every step of the mapping keeps the invariant.
LEMMA MmapNext == MmapInv /\ [Mmap!Next]_mmapVars => MmapInv'
<1> SUFFICES ASSUME MmapInv, [Mmap!Next]_mmapVars
             PROVE  MmapInv'
  OBVIOUS
<1>1. ASSUME UNCHANGED <<mem, vma>>, info' \in BOOLEAN
      PROVE  MmapInv'
  BY <1>1 DEF MmapInv, Mmap!TypeOK, LengthWasChecked, PagesInPlace, Mmap!actual_pages
<1>2. CASE UNCHANGED mmapVars
  BY <1>1, <1>2, MmapFacts DEF mmapVars
<1>3. CASE Mmap!Unregister
  BY <1>1, <1>3 DEF Mmap!Unregister
<1>4. CASE Mmap!Munmap
  <2>1. mem' \in [Mmap!Maps -> MemRecord] /\ info' \in BOOLEAN /\ vma' = Mmap!NoVma
    BY <1>4, MmapFacts DEF Mmap!Munmap
  <2> QED BY <2>1, NoVmaFacts DEF MmapInv, Mmap!TypeOK, MemRecord, LengthWasChecked,
                                  PagesInPlace
<1> QED BY <1>2, <1>3, <1>4, MapKeepsInv, FaultKeepsInv, MunmapFrontKeepsInv,
           MunmapBackKeepsInv DEF Mmap!Next

-----------------------------------------------------------------------------
\* A step of the composition is a step of each part or leaves it alone.
LEMMA MemoryStep ==
  ASSUME [MemoryNext]_<<vars, mmapVars>>
  PROVE  [Next]_vars /\ [Mmap!Next]_mmapVars
<1>1. CASE UNCHANGED <<vars, mmapVars>>
  BY <1>1
<1>2. ASSUME UNCHANGED mmapVars,
             \/ CreateRingFile \/ Open \/ Release \/ RemoveRingFile \/ FreeRing
             \/ \E c \in Subchannels : OpenSubchannel(c) \/ CreateSubchannelFile(c)
             \/ \E p \in Processes : \/ RingMmapMap(p) \/ Munmap(p)
                                     \/ \E c \in Channels : RingMmapCheck(p, c)
      PROVE  [Next]_vars /\ [Mmap!Next]_mmapVars
  BY <1>2 DEF Next
<1>3. CASE RemoveDevice
  BY <1>3 DEF RemoveDevice, Next, Mmap!Next
<1>4. ASSUME UNCHANGED vars,
             \/ \E vm_pgoff \in 0..MAX_UIO_MAPS, pages \in Mmap!Lengths :
                  Mmap!uio_mmap(vm_pgoff, pages)
             \/ \E k \in 0..MaxSize : Mmap!uio_vma_fault(k)
             \/ \E n \in Mmap!Lengths : Mmap!MunmapFront(n) \/ Mmap!MunmapBack(n)
             \/ Mmap!Munmap
      PROVE  [Next]_vars /\ [Mmap!Next]_mmapVars
  BY <1>4 DEF Mmap!Next
<1> QED BY <1>1, <1>2, <1>3, <1>4 DEF MemoryNext, CloseFile, MapRegion

\* The device with both ways to map its memory implements the specification of
\* each: what is proved or checked of uio_mmap alone, and of the files "ring"
\* alone, holds where uio_hv_generic.c has both.
THEOREM MemoryImplementsParts == MemorySpec => Spec /\ Mmap!Spec
<1>1. MemoryInit => Init /\ Mmap!Init
  BY DEF MemoryInit
<1>2. [MemoryNext]_<<vars, mmapVars>> => [Next]_vars /\ [Mmap!Next]_(Mmap!vars)
  BY MemoryStep DEF mmapVars, Mmap!vars
<1> QED BY <1>1, <1>2, PTL DEF MemorySpec, Spec, Mmap!Spec

(***************************************************************************)
(* Where the parts meet: a mapping of the device holds one of its files.   *)
(***************************************************************************)
MappingHoldsFile == vma.mapped => refcnt > 0

MemoryInv == RingInv /\ MmapInv /\ MappingHoldsFile

\* The invariants of the parts hold together.
LEMMA MemoryKeepsInv == MemoryInv /\ [MemoryNext]_<<vars, mmapVars>> => MemoryInv'
<1> SUFFICES ASSUME MemoryInv, [MemoryNext]_<<vars, mmapVars>>
             PROVE  MemoryInv'
  OBVIOUS
<1>1. RingInv' /\ MmapInv'
  BY MemoryStep, RingNext, MmapNext DEF MemoryInv
<1>2. refcnt \in Nat
  BY RingFileAssumption DEF MemoryInv, RingInv, TypeOK
<1>3. MappingHoldsFile'
  <2>1. CASE UNCHANGED <<refcnt, vma>>
    BY <2>1 DEF MemoryInv, MappingHoldsFile
  <2>2. CASE Open /\ UNCHANGED mmapVars
    BY <1>2, <2>2 DEF Open, MappingHoldsFile
  <2>3. CASE CloseFile
    BY <1>2, <2>3 DEF CloseFile, Release, mmapVars, MappingHoldsFile
  <2>4. ASSUME NEW vm_pgoff, NEW pages, MapRegion(vm_pgoff, pages)
        PROVE  MappingHoldsFile'
    BY <2>4 DEF MapRegion, vars, MappingHoldsFile
  <2>5. ASSUME UNCHANGED vars, vma'.mapped => vma.mapped
        PROVE  MappingHoldsFile'
    BY <2>5 DEF vars, MemoryInv, MappingHoldsFile
  <2>6. ASSUME NEW k, Mmap!uio_vma_fault(k)
        PROVE  vma'.mapped => vma.mapped
    BY <2>6 DEF Mmap!uio_vma_fault
  <2>7. ASSUME NEW n \in Mmap!Lengths, Mmap!MunmapFront(n) \/ Mmap!MunmapBack(n)
        PROVE  vma'.mapped => vma.mapped
    <3>1. n < vma.pages /\ n \in Nat
      BY <2>7, MmapAssumption DEF Mmap!MunmapFront, Mmap!MunmapBack, Mmap!Lengths
    <3> QED BY <3>1 DEF MemoryInv, MmapInv, LengthWasChecked
  <2>8. CASE Mmap!Munmap
    BY <2>8 DEF Mmap!Munmap, Mmap!NoVma, MappingHoldsFile
  <2>9. CASE \/ UNCHANGED <<vars, mmapVars>>
             \/ CreateRingFile /\ UNCHANGED mmapVars
             \/ RemoveRingFile /\ UNCHANGED mmapVars
             \/ RemoveDevice
             \/ FreeRing /\ UNCHANGED mmapVars
    BY <2>1, <2>9 DEF vars, mmapVars, CreateRingFile, RemoveRingFile, RemoveDevice,
                      Unregister, Mmap!Unregister, FreeRing
  <2>10. ASSUME NEW c, OpenSubchannel(c) \/ CreateSubchannelFile(c), UNCHANGED mmapVars
         PROVE  MappingHoldsFile'
    BY <2>1, <2>10 DEF OpenSubchannel, CreateSubchannelFile, mmapVars
  <2>11. ASSUME NEW p, UNCHANGED mmapVars,
                \/ RingMmapMap(p) \/ Munmap(p)
                \/ \E c \in Channels : RingMmapCheck(p, c)
         PROVE  MappingHoldsFile'
    BY <2>1, <2>11 DEF RingMmapMap, Munmap, RingMmapCheck, mmapVars
  <2> QED BY <2>2, <2>3, <2>4, <2>5, <2>6, <2>7, <2>8, <2>9, <2>10, <2>11 DEF MemoryNext
<1> QED BY <1>1, <1>3 DEF MemoryInv

\* The inductive invariant holds in every behaviour.
LEMMA MemorySpecKeepsInv == MemorySpec => []MemoryInv
<1>1. MemoryInit => MemoryInv
  <2> SUFFICES ASSUME MemoryInit
               PROVE  MemoryInv
    OBVIOUS
  <2>1. RingInv /\ MmapInv
    BY RingInit, MmapInit DEF MemoryInit
  <2>2. ~vma.mapped
    BY DEF MemoryInit, Mmap!Init, Mmap!NoVma
  <2> QED BY <2>1, <2>2 DEF MemoryInv, MappingHoldsFile
<1> QED BY <1>1, MemoryKeepsInv, PTL DEF MemorySpec

\* All variables of both parts keep their types.
THEOREM MemoryTypeCorrect == MemorySpec => []MemoryTypeOK
<1>1. MemoryInv => MemoryTypeOK
  BY DEF MemoryInv, RingInv, MmapInv, MemoryTypeOK
<1> QED BY <1>1, MemorySpecKeepsInv, PTL

\* For every page size and every layout of the regions, aligned or not, a
\* mapping whose front is whole shows, at each page, that page of the region its
\* offset has chosen, and each of these pages has a byte of the region.
THEOREM ShowsItsRegionHolds == MemorySpec => []ShowsItsRegion
<1>1. MemoryInv => ShowsItsRegion
  <2> SUFFICES ASSUME MmapInv, vma.cut = 0, NEW k \in DOMAIN vma.pte
               PROVE  /\ vma.pte[k] = <<vma.region, k>>
                      /\ vma.pte[k] \in Mmap!RegionPages(vma.region)
    BY DEF MemoryInv, ShowsItsRegion, Mmap!ShowsItsRegion
  <2>1. vma.pte[k] = <<vma.region, k>>
    BY DEF MmapInv, PagesInPlace
  <2>2. k \in 0..(vma.pages - 1) /\ vma.pages \in Nat
    BY MmapFacts
  <2>3. /\ vma.region \in Mmap!Maps /\ mem[vma.region].size > 0
        /\ vma.pages <= Mmap!actual_pages(vma.region)
    BY <2>2 DEF MmapInv, LengthWasChecked
  <2> DEFINE a == mem[vma.region].addr
             s == mem[vma.region].size
  <2>4. a \in 0..(PAGE_SIZE - 1) /\ s \in Nat \ {0}
    BY <2>3, MmapFacts DEF MemRecord
  <2>5. /\ (a + s + PAGE_SIZE - 1) \div PAGE_SIZE \in Int
        /\ vma.pages <= (a + s + PAGE_SIZE - 1) \div PAGE_SIZE
    <3>1. a + s + PAGE_SIZE - 1 \in Nat
      BY <2>4, MmapAssumption
    <3> QED BY <2>3, <3>1, DivBounds, MmapAssumption DEF Mmap!actual_pages
  <2>6. k \in Nat /\ k < (a + s + PAGE_SIZE - 1) \div PAGE_SIZE
    BY <2>2, <2>5
  <2> HIDE DEF a, s
  <2>7. PICK b \in 0..(s - 1) : (a + b) \div PAGE_SIZE = k
    <3>1. PAGE_SIZE \in Nat \ {0}
      BY MmapAssumption
    <3>2. \A x \in 0..(PAGE_SIZE - 1), y \in Nat \ {0}, z \in Nat :
            z < (x + y + PAGE_SIZE - 1) \div PAGE_SIZE =>
              \E b \in 0..(y - 1) : (x + b) \div PAGE_SIZE = z
      BY <3>1, PageHasByte
    <3> QED BY <2>4, <2>6, <3>2
  <2>8. <<vma.region, k>> \in Mmap!RegionPages(vma.region)
    BY <2>7 DEF Mmap!RegionPages, a, s
  <2> QED BY <2>1, <2>8
<1> QED BY <1>1, MemorySpecKeepsInv, PTL

\* Until the device is unregistered, a process that has mapped it has its ring
\* connected: the mapping holds a file, and refcnt counts the files.
THEOREM MappedIsConnectedHolds == MemorySpec => []MappedIsConnected
<1>1. MemoryInv => MappedIsConnected
  BY DEF MemoryInv, MappingHoldsFile, RingInv, PrimaryFile, MappedIsConnected
<1> QED BY <1>1, MemorySpecKeepsInv, PTL

\* However many subchannels come and however the removal and the last close meet
\* calls of mmap: through a file "ring" no process sees a ring that was freed,
\* unless it was there before a last close that freed the ring of its subchannel.
THEOREM RingFileShowsLiveRingHolds == MemorySpec => []RingFileShowsLiveRing
<1>1. MemoryInv => RingFileShowsLiveRing
  <2> SUFFICES ASSUME RingInv, NEW p \in Processes, process[p].pc # "none",
                      ~process[p].outlived
               PROVE  channel[process[p].channel].ring = "allocated"
    BY DEF MemoryInv, RingFileShowsLiveRing
  <2>1. /\ process[p].channel \in Channels /\ channel[process[p].channel].file
        /\ process[p].channel = Primary \/ channel[process[p].channel].opened
    BY RingFacts DEF RingInv, MappedThroughFile, OpenOrOutlived, ProcessRecord
  <2> QED BY <2>1 DEF RingInv, PrimaryFile, SubchannelFile, Channels
<1> QED BY <1>1, MemorySpecKeepsInv, PTL

\* However hv_uio_new_channel ends, an open subchannel has its file, and a file
\* without an open subchannel is there only after the last close.
THEOREM SubchannelsAreReachableHolds == MemorySpec => []SubchannelsAreReachable
<1>1. MemoryInv => SubchannelsAreReachable
  BY DEF MemoryInv, RingInv, SubchannelFile, SubchannelsAreReachable
<1> QED BY <1>1, MemorySpecKeepsInv, PTL

=============================================================================
