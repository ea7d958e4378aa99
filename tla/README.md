# HvGin: a TLA+ verification of the VMBus pipe, the RDP relay and the UIO driver

HvGin lets a Linux guest of Hyper-V serve enhanced-session RDP: a C# program
(`src/HvGin`) maps the ring buffers of VMBus channels through a UIO device and
relays packets between the host and a local RDP server; a kernel module
(`src/uio_hv_generic`) binds the channels to UIO. This directory holds TLA+
models translated from that code, TLC runs that check them on small instances,
and TLAPS proofs, for every value of the constants, of the safety properties
those runs check.

## The system

| Part | State it keeps | Operations | Correct when |
|---|---|---|---|
| Ring access, `UioHvDevice.cs` | `In`, `Out` and the data area of two rings shared with the host | `GetMaximumPushSize`, `PushPipePacket`, `PopPipePacket` | packets come out as they went in, in order, none lost or overwritten |
| Device file, `UioHvDevice.cs`, `UioHv.cs` | the mapping, the interrupt mask | `SignalHost`, `WaitHost`, `Send`, `Receive`, constructor, `RegisterDevice`, `GetDeviceInformation` | a waiting receiver gets the packet it waits for |
| Formats, `PacketDescriptor.cs`, `PipeHeader.cs`, `SynthRdp*.cs` | none | field accessors, `BytesToStructure`, `StructureToBytes` | what is written is what is read |
| RDP relay, `SynthRdp.cs` | `IsRunning`, `ServiceThread`, per session `ShouldRunning`, a socket and two threads | `Start`, `Stop`, `ServiceMain`, the relay threads | packets are relayed in order and none is skipped, sessions end completely |
| UIO core, `uio.c` | class and major number, minors, `struct uio_device` with its references, `info`, `event`, sysfs kobjects; per file a listener | init, exit, register, open, read, write, mmap, page fault, poll, release, show functions, notify, unregister | no reference lost, no wake-up lost, no use of a driver that is gone, a mapping shows its region |
| Hyper-V driver, `uio_hv_generic.c` | ring, buffers and gpadls, `refcnt`, `info.irq`, the channel, its subchannels and their `ring` files | probe, open, release, irqcontrol, channel, rescind and subchannel callbacks, mmap of the ring file, remove | the ring is connected while a file is open, everything is given back, no freed ring is shown |
| Native tool, `main.cpp` | none | mount of a Plan 9 share, registration of a class id | - |

The parts meet in three places. The relay threads and the host share the rings,
without any lock: `In` belongs to the producer, `Out` to the consumer. The
relay and the driver meet at the device file: `write` changes the interrupt
mask and signals the host, `read` waits for the event counter. The driver and
the UIO core call each other: `uio_open` calls `hv_uio_open` under `info_lock`,
the channel callback calls `uio_event_notify`, and rescind, unbind and remove
run beside all of it.

What is hard here: copies around the end of the ring with snapshots that grow
stale; the last byte of the ring; relay threads nobody joins, which meet the
next session on the same ring; a socket that takes a part of a packet; a
`Receive` that waits and then returns nothing, and a mask that one side sets and
the other clears; read, rescind and unregistration at the same time; a probe that fails half way
while the device file is already visible; a minor that is free before its node
is gone; sysfs files removed under a lock their readers may want. `PROJECT.json` lists each hazard at
its line, with the properties that are about it. Where the code does go wrong in
a hazard's own case, the case is in the model, a history variable marks it, and
the properties around it say that nothing else goes wrong; such a hazard names no
property and says why.

## Modules

### `PipeFifo`

What one direction of a pipe promises: packets leave in the order they came,
unchanged, once each. `PipeRing` implements it.

### `PipeRing` and `MCPipeRing`

One ring of a channel. A step is one access to the shared memory: read of the
control block, each of the two `WriteArray` or `ReadArray` copies, the write of
`In` or of `Out`. (Every accessor call of .NET takes and drops a reference of
its handle with an interlocked operation, so the accesses of one thread are not
reordered.) `push` and `pop` are the locals of the two calls. Offsets and sizes
are words of eight bytes, which loses nothing: `PacketDescriptor.Length` and
`DataOffset` round up to eight, the header sizes and the data area are multiples
of eight, and `GetMaximumPushSize` rounds down to eight. A word of the data area
is a packet and an index in it; the packets of a run are all different, because
each carries the number of words sent before it.

The same module is both rings. `Gap` is what the producer keeps free: 0 for
`PushPipePacket`, 1 for the host, which never fills a ring. `EndOffsets` is
what `In` becomes when a packet ends at the very end of the data area: the guest
leaves `In` at `DataMaximumSize`, the host may also write 0. `Shapes` are the
packets pushed: what `PushPipePacket` builds, or what a host may send, which
includes empty packets, longer descriptors and types `PopPipePacket` refuses. In
all of them the lengths in the descriptor and in the pipe header agree.
`LastInAccessor` says that nothing follows the data area in the mapping, as with the
incoming ring: there the first `ReadArray` throws when `Out` is `DataMaximumSize`
(`PositionThrows`), even though it is asked for nothing. The packet before has
then ended at the very end of the data area, and nothing behind it is ever popped;
`EventuallyDelivered` is about the packets up to there.

`sent`, `delivered` and `filled` are history variables. `filled` records that a
push has used the last free word; the properties that start with `~filled` say
what is true until then, and the finding below what happens after.

### `PipeBytes`

The same sizes and offsets in bytes, with the accessors of `PacketDescriptor`
(rounding, a field of 16 bits, the exception of `Convert.ToUInt16` before `Min`
can clamp) and C#'s signed remainder. `Words` is an instance of `PipeRing` with
every number divided by eight; `WordsLoseNothing` says that each size the code
computes is eight times what `PipeRing` computes, so that `PipeRing` may count
words. Only the two offsets are state: the order of copies and offset writes is
`PipeRing`'s. `MCPipeRing` instantiates it the other way round, with every number
of `PipeRing` times eight: `ImplementsBytes` says that each step of `PipeRing` that
moves an offset is a step of `PipeBytes`, although `PipeRing` computes it from a
snapshot and `PipeBytes` from the offsets as they are.

### `PipeInterrupt`

How a packet wakes up `Receive`, a composition of user space, driver and host:
the constructor clears the interrupt mask of the incoming ring, the host
interrupts when it puts a packet in an empty ring whose mask is clear,
`hv_uio_channel_cb` sets the mask and then counts an event, `WaitHost` takes the
event, `SignalHost` clears the mask. The ring is a queue here, which
`PipeRing` justifies, and a `read` one step, which `ReadReturns` of `UioHvGeneric`
justifies (the unregistration, whose wake-up can be lost, is not in this module). Several `UioHvDevice` objects share the channel, because sessions
leave theirs to the finalizer. `spent` is a history variable: the device has
taken an event and not cleared the mask since, outside of a wait. Until then no
wake-up is lost; afterwards one may be: the callback has set the mask, `Receive`
clears it only when it returns content, and a `Receive` that finds the ring empty
again waits for an interrupt the host does not send. The relay calls `Receive`
once per device (`SynthRdp.cs:69`, `:90`), so it stays on the good side.

### `SynthRdp`

`ServiceMain`, `Start`, `Stop` and the two relay threads of every session, with
the host and the RDP server around them. The rings are abstracted to a sequence
of packets and the number released (`PipeRing` justifies that), and to the
numbers of chunks published and read. A pop stays two steps, read and release,
and a push two, look and commit, because threads of two sessions may work on the
same ring; a commit that comes late sets `In` back. Packets are `"data"`,
`"empty"`, or `"bad"` for those `PopPipePacket` throws at, which includes whatever
lies behind a packet that ended at the end of the data area.

The socket does not block, so `Send` may take a part of a packet and return the
count, which the code ignores, or throw, with or without a part taken. `forwarded`
records each packet the RDP server got and whether it got the `whole` of it; the
rest of one that was cut is lost in the code. `UpSessionSkipsNothing` therefore
promises the head of every packet: there is no other place where the relay loses
something.

An exception in a relay thread ends it, an exception in the service
thread ends the process (`failed`, `invalid`). That is what
happens when a call of the handshake throws, when the RDP server refuses the
connection, and when a data channel
disappears between the search that found it and the constructor that opens it. `BytesToStructure` of an empty
array reads what lies behind it, so `WaitVersion` may go either way. A search
for a channel ends with any channel on offer: the list of instances is tried in
order, but over and over while the offers change.

### `UioHvGeneric`

One device: `hv_uio_probe` with its error labels, registration in the UIO core,
several files in `open`, `read`, `write`, `mmap` and `close`, interrupts, rescind,
`poll`, unbind, unregistration. A section under `info_lock` or `minor_lock` is one
step, everything else is cut at each access to shared state; `hv_uio_cleanup`, at
its label and in `hv_uio_remove`, goes buffer by buffer. `read` is four places: the
check of `irq`, the change of the task state, the comparison, and `schedule()`.
`poll` makes the same check and comparison, with `poll_wait` for the change of
state. The unregistration may come between check and change of state: it wakes up
a task that is not asleep, the event counter does not move, and the reader sleeps
until a signal comes. The history `missed` marks such a call, and `ReadReturns`
says that no other wake-up is lost.

The last close waits for a callback that is running and drops one that is
pending, as `vmbus_disconnect_ring` does. The thread of the VMBus that handles a
rescind has a place of its own (`chan.rescind`): `hv_uio_rescind`, if it is
installed, clears `irq`, notifies, and has the device removed, which waits for the
end of a probe or a remove. `hv_uio_open` installs that callback, and neither
release nor remove takes it back.

`oops` marks the use of driver data that is missing or freed and stops the model.
Three ways lead there, and all are real. A file opened before `hv_set_drvdata`, or
left open across `hv_uio_remove`, lets the channel callback run without driver
data. A file opened between `device_add` and a failure of `uio_dev_add_attributes`
keeps a pointer to freed data. And after an open and a close a rescind beside or
after `hv_uio_remove` runs `hv_uio_rescind` without driver data (`crossed`), however
careful the processes were. `DisciplinedUseIsSafe` says that these are all: whoever
opens only after the probe and closes before the removal meets, in all
interleavings, nothing but the third.

### `UioRegister`

The UIO core as a registry of several devices: the module's init with its
unwinding and its exit, minors handed out and taken back, `device_add`, the
loops of `uio_dev_add_attributes` with their four error labels, the interrupt,
the managed variant with devres, and unregistration. Around it readers of sysfs
files (`map_type_show`, `portio_type_show`, `name_show`, `version_show`) and
processes that open a device through its node. sysfs is external: removing a
file waits for the calls in progress and admits no new ones. `UioHvGeneric` has
one device and all of its file operations; this module has many devices and
what they share.

One exception is built into two invariants, because the code has it.
`uio_unregister_device` frees the minor before it removes the node, so another
device may take the minor while the old node is there; its own `device_add`
then fails on the name, but a process that opens the old node meanwhile finds the
new device, possibly before `device_initialize` sets its count (`reused`). The
invariants say that nothing else goes wrong.

### `UioMmap`, `UioHvRingFile` and `UioHvMemory`

`UioMmap` is the mapping of UIO regions: the offset of `mmap()` as the number of a region, the number of pages a region
lies on, the tests of the three ways to map, and the page a fault puts in, with
pages of two bytes. The kernel's part is external: `munmap` of the front of a
mapping moves `vm_pgoff`. `ShowsItsRegion` is about mappings whose front was
never cut off, and the exception is real: `uio_vma_fault` looks the region up by
the `vm_pgoff` of the moment, so what is left of a logical or virtual region of
several pages faults in pages of a later region, or none.

`UioHvRingFile` is the sysfs file `ring` of the primary channel and of each subchannel: its
creation at the end of the probe and in `hv_uio_new_channel`, its `mmap` in two
steps (the test of the channel's state, the mapping), and its removal before the
ring is freed. The last close of the device closes the subchannels, too
(`vmbus_disconnect_ring`), and frees their rings, while their files and the
mappings made through them stay. A process that was past the test of the state
then sees freed memory (`outlived`); `RingFileShowsLiveRing` says that nobody else
does. What ends a subchannel and its directory is code of the VMBus core.

`UioHvMemory` composes the two. They share the removal of the driver, and the open
files: `mmap()` of the device needs one and a mapping keeps it open, so that the
count of `hv_uio_release` does not reach zero under a process that has closed its
descriptor and still uses the rings.

Operators marked `Faulty` in these modules are variants of the definition after
them with a plausible mistake. No specification uses them; `PROJECT.json`
pairs each with a property that it breaks.

## Runs

| Run | Question | Bounds |
|---|---|---|
| `ring_in` | Is the incoming ring a FIFO that delivers everything in the end, and do its offsets tell the truth? | 12 words, 6 shapes of 4 to 6 words, 5 packets |
| `ring_out` | Does the host get what `PushPipePacket` was given, does content within `GetMaximumPushSize` always fit, and is it all the same in bytes? | 12 words, 3 shapes of 5 to 8 words, 5 packets; content of 0 to 40 bytes |
| `ring_full` | violation: a push that was not refused is readable | as `ring_out` |
| `wakeup` | Is a waiting `Receive` woken up by a packet? | 2 devices, 4 packets |
| `relay` | What do the RDP server and the rings see when sessions, threads and `Stop` overlap? | 1 channel, 2 starts, 2 sessions, 2 packets, 1 chunk |
| `relay_live` | Do sessions end, do packets leave the ring, does `Stop` return? | 1 channel, 1 start, 2 sessions, 1 packet, 1 chunk |
| `first_pdu` | violation: the first packet the RDP server gets is patched | 1 session |
| `version_answer` | violation: an invalid response means that the host refused | 1 start |
| `driver` | References, connection, resources, late reads, poll and safe use; does a read with something to report return? | 2 files, 1 interrupt, 2 opens |
| `last_close` | violation: the channel is closed on the last close | 1 file, 1 open |
| `registry` | Do minors, nodes and references stay in order over all failures, are the attributes unwound exactly, do readers and removal come apart again? | 2 devices, 2 minors, 2 maps, 1 port, 2 readers, 1 file |
| `memory` | Does a mapping show its region and nothing else, and a ring file no freed ring? | 2 regions of 0 to 4 bytes, pages of 2 bytes, 1 subchannel, 1 process at the ring file, 2 files |

The bounds are small but not so small that the cases are missing. With 12
words every third packet wraps, and all of "ends at the last word", "does not
fit", "splits in the header" and "splits in the content" occur; the proofs
remove the bounds. Two sessions on one channel are what it takes for threads of
an old session to meet a new one; a second start adds the case after `Stop`.
Two files are a first and a last open with one more in between, and two readers
of one event; an interrupt and the rescind are two notifications. Two devices on
a channel are what it takes for one to clear the mask behind the other's back, and
four packets let each of them go through a wait twice. Two devices are enough for
one to inherit the minor of the other while its node is still there; two maps and
a port make each error label unwind something. Regions of up to four bytes with
pages of two are empty, smaller than a page, whole pages, and unaligned at either
end.

Fairness. `ring_in` assumes that the consumer runs: `Vmbus2TcpThread` polls
without waiting. `relay_live` assumes that each thread of the process runs; the
host and the RDP server owe nothing. `driver` assumes that the kernel runs
the driver's work, its callbacks and runnable readers; processes and the host
owe nothing. `wakeup` assumes that a raised interrupt's callback runs and that a
`read` with an event returns; the host need not send, nobody need call `Receive`.
`registry` assumes that a call in progress in the kernel goes on; nobody need make
one. All of it is weak fairness, what any scheduler gives.

Deadlock is checked in the outgoing ring. Elsewhere the environment may fall
silent for good, which is a legal end, and the configurations say so.

## Findings

1. `ring_full`: `PushPipePacket` accepts a packet that takes exactly the free
   size, and `GetMaximumPushSize` offers that size. Then `In = Out`, and the full
   ring is empty for everyone.
2. `first_pdu`: the first PDU of a session is forwarded without the patch when it
   comes after `Receive` has looked at the ring.
3. `version_answer`: the service gives up on a version the host accepted when the
   answer comes after `Receive` has looked at the ring.
4. `last_close`: a file closed after `hv_uio_remove` does not close the channel.

Eight more are described above and not run as violations, because no line of the
repository says otherwise: the throw of `ReadArray` once a packet has ended at the
end of the incoming ring, the rest of a packet of which `Send` took a part, the
wake-up lost to a second `Receive`, the wake-up of the unregistration lost to a
reader not yet asleep, the three ways to `oops`, the ring of a subchannel freed
under a mapping by the last close, the minor that is free before its node is gone,
and the region a fault finds after `munmap` of the front of a mapping. One is
outside the models: a mapping made by `remap_pfn_range` holds no reference to the
ring, so a process that keeps one across `hv_uio_remove` sees freed memory.

## Proofs

`PipeRing_proofs` proves with TLAPS, for every size of the ring, every set of
shapes and every `Gap`, from `RingAssumption` and `ShapeAssumption` alone (the
ring has at least one word; a shape's pipe header comes after the descriptor):

- `TypeCorrect`, `DeliveredIsSentHolds`, `ReadableIsOutstandingHolds`,
  `SizedPushFitsHolds`: invariants of the runs;
- `GapKeepsRoomHolds`: a producer that keeps a word free never fills the ring;
- `RingImplementsFifo`: with `Gap > 0`, `PipeRing` implements `PipeFifo`.

None of these is inductive: that a pop returns a packet depends on what lies in
the data area, which depends on where every earlier packet was put. The
inductive invariant is

    IInv == TypeInv /\ (Gap > 0 => ~filled) /\ (~filled => RingInv)

and `RingInv` has six parts. `Stream`: the packets in `sent` follow each other
without gaps in one endless stream of words. `Prefix`: the delivered packets
are the first of the sent ones, with their content. `Sizes`: `In` and `Out` are
the stream positions modulo the ring, and less than the ring lies between them.
`Stored`: each word of the stream that was published and not yet released is at
its place in the data area. `PushInv` and `PopInv`: the same for the words a
call in progress has written or copied, and that its snapshot is still good
for what it does, however far the other end has gone on. The argument is that
the producer writes only places whose stream positions are free, and the consumer
reads only published ones; as fewer than `DataMaximumSize` words are in between,
two positions in use never share a place. `filled` is where that last step
fails, so it is a hypothesis of all of them.

`PipeBytes_proofs` proves, for every size of the ring, of the push limit and of
the length field that `BytesAssumption` admits, `BytesTypeCorrect`,
`WordsLoseNothingHolds` and `SizedPushIsAcceptedHolds` (content within the limit
fits the length field and the free size). The assumption is a hypothesis of each
theorem; `MCPipeRing` has TLC evaluate it on its instance. Inductive are the types
together with `In % 8 = 0` and `Out % 8 = 0`; the rest is arithmetic, in lemmas
about `GetAlignedSize`, `FinalOffset` and `MaximumPush`.

`PipeInterrupt_proofs` proves, for every set of devices and any number of
packets, `InterruptTypeCorrect` and `NoLostWakeUpHolds`. `NoLostWakeUp` alone is
not inductive: it says nothing of a device that is about to wait. The
strengthening is `MaskedIsTold`: when the mask is set, each device that has not
spent its event has one to take, or the callback that set the mask is about to
count it. So a device begins to wait at an empty ring either with the mask
clear, and then the next packet raises an interrupt, or with its event ahead. The
step that needs the order of the callback's two halves is the one that sets the
mask.

`MCPipeRing_proofs` joins the two rings. `RingWordsLoseNothing` holds in every
state of `PipeRing`. `RingImplementsBytes` has one hypothesis, `GuestProduces`:
the producer is `PushPipePacket`, so it leaves `In` at the end of the data area,
puts the pipe header right behind the descriptor and keeps to the limit of
`GetMaximumPushSize`. `ring_out` is an instance of it; that `PipeBytes` has the
sizes it wants follows from `RingAssumption` (`ByteSizesHold`). The hard step is
that `PipeRing` moves an offset by a snapshot and `PipeBytes` by the offsets of
the moment. What decides is on which side of its own offset a call sees the
other one, because only then may a copy wrap. Before a push fills the ring,
`RingInv` fixes how far apart the two are, and a copy that reaches the end of
the data area is too long for the other side: the other offset is now where the
snapshot has it.

`UioHvGeneric_proofs` proves all seven invariants of the run `driver`, for any
finite set of files, any number of events and opens. `IInv` adds to them what is
true at each place of `hv_uio_probe` and `hv_uio_remove`: what is held
(`HeldByPlace`), which pointers are set (`PlacesAgree`), that a call in progress
has an event to take or has failed its check (`CallsAreOK`), and that wherever
the driver's data is missing only an exposed file or a crossed rescind can meet it
(`MissingIsExposed`), which `DisciplinedUseIsSafe` needs: the `oops` comes several
steps after the open, or the rescind, that made it possible. The files are finite so that they
can be counted.

`UioHvMemory_proofs` proves that the composition implements both of its parts
(`MemoryImplementsParts`: `MemorySpec => Spec /\ Mmap!Spec`), then the invariant of
each part once, and the five invariants of `memory` from both. `RingInv` says
when a file `ring` is there (`PrimaryFile`, `SubchannelFile`), that whoever maps
does it through one (`MappedThroughFile`), and that the channel is still open
under it unless the last close came meanwhile (`OpenOrOutlived`). `MmapInv` keeps what `uio_mmap`
has checked: the length of a mapping that is whole, and what its pages show. The
one link is `MappingHoldsFile`. Pages have any size and regions any layout; that
the pages of a region are enough for its bytes is arithmetic about
`actual_pages`.

`UioRegister_proofs` proves the six invariants of `registry` for any number of
devices, minors, regions, readers and (finitely many) files. `UIO_MAX_DEVICES` is
not 0, as `1U << MINORBITS` is not. `IInv` has for each device which kobjects,
directories and fields there are at each place of the loops and of their error
labels (`DevicesOK`); that the idr and the directory of nodes hold exactly the
devices that own an entry (`Owned`); that a show function in progress holds what
it was called through (`ReadersOK`), so that removal waits for it; and the count
of references with the fact that makes it right, that nobody has found a device
before `device_initialize` (`References`, `UnreachedYet`, `NotFoundYet`). The
last three leave out the devices of `reused`, for the reason given above.

`SynthRdp_proofs` proves the six invariants of `relay` for any set of channels
and any number of starts, sessions, packets and chunks. `ServiceOK`, `StopOK` and
`SocketsOK` tie the service thread's place to its fields and to the one session
that may have a socket; `SessionsOK` bounds what a thread of an ended session
may still do. `ForwardedInOrder` is about threads nobody joins, so it needs two
more parts. `RelaysOK`: on a channel without overlap, what a session has
forwarded is in order and behind `Out`, and each packet between its start and
`Out` has reached the server, at least with its head, or is the one in hand. `AllAlone`: there, an earlier
session has stopped popping before a later one starts, and all it forwarded lies
before the later one's start. The thread that pops for a session is first the
service thread and then `Vmbus2Tcp`; `Place` makes them one, so that each kind of
step is argued once.

`IInv` of `UioHvGeneric_proofs`, `UioRegister_proofs` and `SynthRdp_proofs`, and
`RingInv` of `UioHvMemory_proofs`, also hold in TLC on the instances of `driver`,
`registry`, `relay` and `memory`. The proofs found no invariant false; they made explicit that files must be finitely
many and that there is a minor to hand out.

Only model-checked: the liveness properties (`EventuallyDelivered`,
`PacketsArePopped`, `SessionsAreTornDown`, `StopReturns`, `ReadReturns`,
`ReceiveReturns`, `CallsReturn`), because the prover has no fairness, and the four
violations, which are counterexamples. Every invariant of a passing run is a
theorem.

## Not modelled

- The bit layout of the version fields, whose setters OR into a field; each is
  called once, on a fresh structure.
- Packets of the host whose `Length` and `DataSize` do not agree: the checks of
  `UioHvDevice.cs:109` and `:122` compare them with what is readable, and the
  models have only the case where a packet is not all there.
- The parsing of sysfs files, `DebugMode` output, `PrintBytes`.
- `fasync`, and the interrupt handlers of devices with a hardware interrupt, which
  this driver does not have. `event_show`, which reads one counter.
- What ends a subchannel's directory, and the rest of the VMBus core: not in the repository.
- The native tool: a chain of system calls without state. It ignores the result
  of `fclose`, where a write to `new_id` would report its failure.
- The vendored `Mile.HyperV` and `Mile.Mobility` headers, `hyperv_vmbus.h` and
  `hv_trace.h`. They are nine tenths of the lines of the repository's C and C++
  files and hold declarations only (types, constants, trace formats), so a map
  from definitions to lines of behaviour has nothing to name there; of the C that
  has behaviour, `uio.c` and `uio_hv_generic.c`, the modules cover almost every
  function, and of the C# all of the ring, device and relay code.

## Plan

1. Fewer steps in the long proofs: one lemma about a change to a single device of
   `UioRegister`, and one about a change to a single session of `SynthRdp`, where
   several actions now repeat the same argument.
2. Action properties from the same invariants, where one says more than the
   invariant: that `Out` never goes back on a channel without overlap, and that a
   session, once ended, forwards nothing more.
