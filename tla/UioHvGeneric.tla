---------------------------- MODULE UioHvGeneric ----------------------------
(***************************************************************************)
(* One VMBus device bound to the driver uio_hv_generic, and the UIO core   *)
(* that makes it a file: probe and its unwinding, open, read, poll, write, *)
(* mmap and close of several files at once, interrupts, rescind, remove.   *)
(*                                                                         *)
(* A section under info_lock or minor_lock is one step.  What is not under *)
(* a lock is a step of its own: the lookup of the minor, the snapshot of   *)
(* the event counter, the two halves of the interrupt callback, the three  *)
(* parts of the rescind callback, the phases of unregistration, the labels *)
(* of the unwinding, and in uio_read the test of irq, the change of the    *)
(* task state, the comparison of the counters and schedule().  The thread  *)
(* of the VMBus that handles a rescind runs beside probe and remove.       *)
(***************************************************************************)
EXTENDS Naturals, FiniteSets

CONSTANTS
  Files,      \* struct files that processes may open on the device
  MaxEvents,  \* bound: interrupts of the channel
  MaxOpens    \* bound: calls of open() that find the minor

ASSUME UioAssumption ==
  /\ IsFiniteSet(Files)
  /\ MaxEvents \in Nat
  /\ MaxOpens \in Nat

\* A buffer is held with its gpadl, or not at all.
Buffers == {"recv", "send"}
Resources == {"ring", "device"} \cup Buffers

VARIABLES
  driver,  \* place in hv_uio_probe or hv_uio_remove
  held,    \* what the driver has allocated and not yet given back
  idev,    \* the struct uio_device
  chan,    \* the VMBus channel and the driver's data about it
  file,    \* the files
  oops     \* history: freed or missing driver data was used

vars == <<driver, held, idev, chan, file, oops>>

(***************************************************************************)
(* idev: minor (in the idr), info ("null", "set", or "dangling" when the   *)
(* driver data it points to is gone), refs of the struct device, event,    *)
(* and the history exposed: a file was opened before the probe was over,   *)
(* or was open when the device was unregistered.                           *)
(*                                                                         *)
(* chan: offered by the host; connected, the state of the ring; refcnt,    *)
(* irq (info.irq is not 0) and drvdata of the driver; the mask; interrupt  *)
(* ("none", "raised" until the callback runs, "masked" between its         *)
(* halves), whether hv_uio_rescind is installed (callback), the place of   *)
(* the VMBus thread that handles the rescind, and the history crossed:     *)
(* hv_uio_rescind ran while the driver was not bound.                      *)
(*                                                                         *)
(* file[f]: place of open(), release and of a call of read() or, if poll   *)
(* is set, of poll(); the listener's event_count, asleep (the task state), *)
(* and the histories late (this call began when info.irq was already 0),   *)
(* ready (the call before was a poll that said so), missed (the wake-up of *)
(* the unregistration came between this call's test of irq and its change  *)
(* of the task state) and result, what the last call reported.             *)
(***************************************************************************)
ClosedFile == [pc |-> "closed", read |-> "none", event_count |-> 0, asleep |-> FALSE,
               poll |-> FALSE, late |-> FALSE, ready |-> FALSE,
               missed |-> FALSE, result |-> "none"]

Init ==
  /\ driver = "unbound"
  /\ held = {}
  /\ idev = [minor |-> FALSE, info |-> "null", refs |-> 0, event |-> 0, opens |-> 0,
             exposed |-> FALSE]
  /\ chan = [offered |-> TRUE, connected |-> FALSE, refcnt |-> 0, irq |-> FALSE,
             drvdata |-> FALSE, mask |-> TRUE, interrupt |-> "none",
             callback |-> FALSE, interrupts |-> 0, rescind |-> "none",
             crossed |-> FALSE]
  /\ file = [f \in Files |-> ClosedFile]
  /\ oops = FALSE

(***************************************************************************)
(* hv_uio_probe and its labels fail_close and fail_free_ring.              *)
(***************************************************************************)
\* Faulty: the receive buffer is forgotten.
NoMemoryFreesRingOnly(b) == "fail_free_ring"

\* Where a failure of vzalloc goes: the first buffer has nothing to close.
NoMemoryLabel(b) == IF b = "recv" THEN "fail_free_ring" ELSE "fail_close"

ProbeRing ==
  /\ driver = "unbound"
  /\ chan.offered
  /\ \/ driver' = "failed" /\ UNCHANGED <<held, chan>>
     \/ /\ driver' = "recv"
        /\ held' = held \cup {"ring"}
        /\ chan' = [chan EXCEPT !.irq = TRUE, !.refcnt = 0]
  /\ UNCHANGED <<idev, file, oops>>

\* vzalloc and vmbus_establish_gpadl for one of the two buffers.  Without its
\* gpadl a buffer is freed at once, or given up if its pages stay decrypted.
ProbeBuffer(b, next) ==
  /\ driver = b
  /\ \/ driver' = next /\ held' = held \cup {b}
     \/ driver' \in {NoMemoryLabel(b), "fail_close"} /\ UNCHANGED held
  /\ UNCHANGED <<idev, chan, file, oops>>

\* uio_register_device up to device_add: from now on the file can be opened.
RegisterDevice ==
  /\ driver = "register"
  /\ \/ driver' = "fail_close" /\ UNCHANGED <<held, idev>>
     \/ /\ driver' = "attributes"
        /\ held' = held \cup {"device"}
        /\ idev' = [idev EXCEPT !.minor = TRUE, !.info = "set", !.refs = 1]
  /\ UNCHANGED <<chan, file, oops>>

\* uio_dev_add_attributes.  When it fails the device is taken back, but a file
\* opened in between keeps idev, which still points to the driver's data.
RegisterAttributes ==
  /\ driver = "attributes"
  /\ \/ driver' = "drvdata" /\ UNCHANGED <<held, idev>>
     \/ /\ driver' = "fail_close"
        /\ idev' = [idev EXCEPT !.minor = FALSE, !.refs = @ - 1]
        /\ held' = held \ {"device"}
  /\ UNCHANGED <<chan, file, oops>>

\* hv_uio_cleanup, at fail_close or in hv_uio_remove: one buffer after the other,
\* if it has a gpadl.  One whose pages could not be encrypted again after the
\* teardown is given up instead of freed; the driver is done with it either way.
Cleanup(b, from, next) ==
  /\ driver = from
  /\ driver' = next
  /\ held' = held \ {b}
  /\ UNCHANGED <<idev, chan, file, oops>>

\* fail_free_ring is the end of the probe: the driver core frees the private data.
FailFreeRing ==
  /\ driver = "fail_free_ring"
  /\ driver' = "failed"
  /\ held' = held \ {"ring"}
  /\ idev' = [idev EXCEPT !.info = IF @ = "set" THEN "dangling" ELSE @]
  /\ UNCHANGED <<chan, file, oops>>

SetDrvdata ==
  /\ driver = "drvdata"
  /\ driver' = "bound"
  /\ chan' = [chan EXCEPT !.drvdata = TRUE]
  /\ UNCHANGED <<held, idev, file, oops>>

(***************************************************************************)
(* uio_open and uio_release.                                               *)
(***************************************************************************)
FileGoto(f, from, to) ==
  /\ file[f].pc = from
  /\ file' = [file EXCEPT ![f].pc = to]

\* Faulty: no put_device.
PutDeviceKeepsReference(f) ==
  /\ file' = [file EXCEPT ![f] = ClosedFile]
  /\ UNCHANGED idev

\* The listener is freed and the reference to the device dropped.
PutDevice(f) ==
  /\ file' = [file EXCEPT ![f] = ClosedFile]
  /\ idev' = [idev EXCEPT !.refs = @ - 1]

\* idr_find and get_device under minor_lock.
OpenFind(f) ==
  /\ FileGoto(f, "closed", "found")
  /\ idev.minor
  /\ idev.opens < MaxOpens
  /\ idev' = [idev EXCEPT !.refs = @ + 1, !.opens = @ + 1,
                          !.exposed = @ \/ driver \in {"attributes", "drvdata"}]
  /\ UNCHANGED <<driver, held, chan, oops>>

\* try_module_get and kmalloc may fail; else the event counter is copied.
OpenListener(f) ==
  /\ file[f].pc = "found"
  /\ \/ PutDevice(f)
     \/ /\ file' = [file EXCEPT ![f].pc = "listening", ![f].event_count = idev.event]
        /\ UNCHANGED idev
  /\ UNCHANGED <<driver, held, chan, oops>>

\* Faulty: refcnt does not go back when the connection fails.
ConnectFailsKeepsCount == chan' = [chan EXCEPT !.callback = TRUE, !.refcnt = 1]

\* vmbus_connect_ring fails: the callbacks stay installed, refcnt goes back.
ConnectFails == chan' = [chan EXCEPT !.callback = TRUE]

\* hv_uio_open: the first one connects the ring.
OpenInfo(f) ==
  /\ file[f].pc = "listening"
  /\ \/ /\ idev.info = "null"
        /\ PutDevice(f)
        /\ UNCHANGED <<chan, oops>>
     \/ /\ idev.info = "dangling"
        /\ oops' = TRUE
        /\ UNCHANGED <<chan, file, idev>>
     \/ /\ idev.info = "set"
        /\ chan.refcnt > 0
        /\ chan' = [chan EXCEPT !.refcnt = @ + 1]
        /\ FileGoto(f, "listening", "open")
        /\ UNCHANGED <<idev, oops>>
     \/ /\ idev.info = "set"
        /\ chan.refcnt = 0
        /\ chan' = [chan EXCEPT !.refcnt = 1, !.callback = TRUE, !.connected = TRUE,
                                !.mask = TRUE]
        /\ FileGoto(f, "listening", "open")
        /\ UNCHANGED <<idev, oops>>
     \/ /\ idev.info = "set"
        /\ chan.refcnt = 0
        /\ ConnectFails
        /\ PutDevice(f)
        /\ UNCHANGED oops
  /\ UNCHANGED <<driver, held>>

\* Faulty: an interrupt already raised still runs the callback.
DisconnectLeavesCallback ==
  chan' = [chan EXCEPT !.refcnt = @ - 1, !.connected = @ /\ chan.refcnt > 1]

\* hv_uio_release: the last close disconnects the ring.  vmbus_disconnect_ring
\* (VMBus) waits for a callback that is running and drops one that is not.
Disconnect ==
  \/ chan.refcnt > 1 /\ chan' = [chan EXCEPT !.refcnt = @ - 1]
  \/ /\ chan.refcnt = 1
     /\ chan.interrupt # "masked"
     /\ chan' = [chan EXCEPT !.refcnt = 0, !.connected = FALSE, !.interrupt = "none"]

\* The driver is told if it is still there.
Release(f) ==
  /\ file[f].pc = "open"
  /\ file[f].read = "none"
  /\ \/ /\ idev.info = "null"
        /\ PutDevice(f)
        /\ UNCHANGED <<chan, oops>>
     \/ /\ idev.info = "dangling"
        /\ oops' = TRUE
        /\ UNCHANGED <<chan, file, idev>>
     \/ /\ idev.info = "set"
        /\ Disconnect
        /\ PutDevice(f)
        /\ UNCHANGED oops
  /\ UNCHANGED <<driver, held>>

(***************************************************************************)
(* uio_mmap goes through info, too; the mappings themselves are in         *)
(* UioHvMemory.  A process that has opened the file may have mapped the    *)
(* rings and keeps them, whatever becomes of info: it clears the mask.     *)
(***************************************************************************)
Mmap(f) ==
  /\ file[f].pc = "open"
  /\ idev.info = "dangling"
  /\ oops' = TRUE
  /\ UNCHANGED <<driver, held, idev, chan, file>>

UserUnmask(f) ==
  /\ file[f].pc = "open"
  /\ chan.mask
  /\ chan' = [chan EXCEPT !.mask = FALSE]
  /\ UNCHANGED <<driver, held, idev, file, oops>>

(***************************************************************************)
(* uio_write: hv_uio_irqcontrol sets the mask.                             *)
(***************************************************************************)
Write(f, irq_on) ==
  /\ file[f].pc = "open"
  /\ \/ /\ idev.info = "dangling"
        /\ oops' = TRUE
        /\ UNCHANGED chan
     \/ /\ idev.info = "set" /\ chan.irq
        /\ chan' = [chan EXCEPT !.mask = ~irq_on]
        /\ UNCHANGED oops
  /\ UNCHANGED <<driver, held, idev, file>>

(***************************************************************************)
(* uio_read and uio_poll.  Both test irq and then compare the counters.    *)
(* poll_wait, between the two, is to a poll what the change of the task    *)
(* state is to a read.                                                     *)
(***************************************************************************)
\* Faulty: info->irq is not looked at.
NoInfo == idev.info = "null"

\* The condition under which read and poll give -EIO.
NoIrq == idev.info = "null" \/ ~chan.irq

\* Rescinded or unregistered.
DeviceGone == idev.info = "null" \/ ~chan.irq

ReadCall(f, poll) ==
  /\ file[f].pc = "open"
  /\ file[f].read = "none"
  /\ file' = [file EXCEPT ![f].read = "check", ![f].poll = poll, ![f].late = DeviceGone,
                          ![f].ready = file[f].result = "readable",
                          ![f].missed = FALSE, ![f].result = "none"]
  /\ UNCHANGED <<driver, held, idev, chan, oops>>

\* The call ends; an error (EIO, EFAULT, EINTR, EAGAIN) reports "none".
Return(f, result) ==
  file' = [file EXCEPT ![f].read = "none", ![f].asleep = FALSE, ![f].poll = FALSE,
                       ![f].ready = FALSE, ![f].missed = FALSE, ![f].result = result]

ReturnEvent(f) ==
  file' = [file EXCEPT ![f].read = "none", ![f].asleep = FALSE, ![f].ready = FALSE,
                       ![f].missed = FALSE, ![f].event_count = idev.event,
                       ![f].result = "event"]

\* The test of irq under info_lock.  A poll that was woken up is still queued.
ReadCheck(f) ==
  /\ file[f].read \in {"check", "recheck"}
  /\ \/ idev.info = "dangling" /\ oops' = TRUE /\ UNCHANGED file
     \/ idev.info # "dangling" /\ NoIrq /\ Return(f, "none") /\ UNCHANGED oops
     \/ /\ idev.info # "dangling" /\ ~NoIrq
        /\ file' = [file EXCEPT ![f].read = IF @ = "check" THEN "state" ELSE "compare"]
        /\ UNCHANGED oops
  /\ UNCHANGED <<driver, held, idev, chan>>

\* set_current_state in uio_read, poll_wait in uio_poll: no lock is held.
ReadSetState(f) ==
  /\ file[f].read = "state"
  /\ file' = [file EXCEPT ![f].read = "compare", ![f].asleep = TRUE]
  /\ UNCHANGED <<driver, held, idev, chan, oops>>

\* Faulty: an event already read counts.
AnyEvent(f) == idev.event > 0

\* The comparison of uio_poll.
Readable(f) == idev.event # file[f].event_count

PollCompare(f) ==
  /\ file[f].read = "compare"
  /\ file[f].poll
  /\ \/ Readable(f) /\ Return(f, "readable")
     \/ ~Readable(f) /\ file' = [file EXCEPT ![f].read = "schedule"]
  /\ UNCHANGED <<driver, held, idev, chan, oops>>

\* Faulty: the task state is set after the comparison.
ReadCompareThenSleep(f) ==
  /\ file[f].read = "compare"
  /\ ~file[f].poll
  /\ \/ idev.event # file[f].event_count /\ ReturnEvent(f)
     \/ /\ idev.event = file[f].event_count
        /\ file' = [file EXCEPT ![f].read = "schedule", ![f].asleep = TRUE]
  /\ UNCHANGED <<driver, held, idev, chan, oops>>

\* When copy_to_user fails the event stays unread.
ReadCompare(f) ==
  /\ file[f].read = "compare"
  /\ ~file[f].poll
  /\ \/ idev.event # file[f].event_count /\ ReturnEvent(f)
     \/ idev.event # file[f].event_count /\ Return(f, "none")
     \/ /\ idev.event = file[f].event_count
        /\ file' = [file EXCEPT ![f].read = "schedule"]
  /\ UNCHANGED <<driver, held, idev, chan, oops>>

\* A pending signal, O_NONBLOCK, or the timeout of a poll ends the call instead.
ReadInterrupted(f) ==
  /\ file[f].read = "schedule"
  /\ Return(f, "none")
  /\ UNCHANGED <<driver, held, idev, chan, oops>>

\* schedule() returns when the task was woken up.  The kernel arms a poll again
\* before it calls uio_poll a second time.
ReadSchedule(f) ==
  /\ file[f].read = "schedule"
  /\ ~file[f].asleep
  /\ \/ ~file[f].poll /\ file' = [file EXCEPT ![f].read = "check"]
     \/ file[f].poll /\ file' = [file EXCEPT ![f].read = "recheck", ![f].asleep = TRUE]
  /\ UNCHANGED <<driver, held, idev, chan, oops>>

WakeUp == file' = [f \in Files |-> [file[f] EXCEPT !.asleep = FALSE]]

(***************************************************************************)
(* Interrupts.  The host raises one for an unmasked connected channel.     *)
(***************************************************************************)
Interrupt ==
  /\ chan.offered /\ chan.connected /\ ~chan.mask
  /\ chan.interrupt = "none"
  /\ chan.interrupts < MaxEvents
  /\ chan' = [chan EXCEPT !.interrupt = "raised", !.interrupts = @ + 1]
  /\ UNCHANGED <<driver, held, idev, file, oops>>

\* hv_uio_channel_cb masks the channel, then notifies.
ChannelCallback ==
  /\ chan.interrupt = "raised"
  /\ chan' = [chan EXCEPT !.interrupt = "masked", !.mask = TRUE]
  /\ UNCHANGED <<driver, held, idev, file, oops>>

\* uio_event_notify goes from the driver's data to idev.
CanNotify == chan.drvdata /\ idev.refs > 0

EventNotify ==
  /\ idev' = [idev EXCEPT !.event = @ + 1]
  /\ WakeUp

CallbackNotify ==
  /\ chan.interrupt = "masked"
  /\ chan' = [chan EXCEPT !.interrupt = "none"]
  /\ \/ CanNotify /\ EventNotify /\ UNCHANGED oops
     \/ ~CanNotify /\ oops' = TRUE /\ UNCHANGED <<idev, file>>
  /\ UNCHANGED <<driver, held>>

(***************************************************************************)
(* The host rescinds the channel.  The VMBus calls hv_uio_rescind if it is *)
(* installed, and hv_uio_open never takes it back, nor do release and      *)
(* remove; else it unregisters the device itself.                          *)
(***************************************************************************)
Rescind ==
  /\ chan.offered
  /\ chan' = [chan EXCEPT !.offered = FALSE,
                          !.rescind = IF chan.callback THEN "irq" ELSE "unregister",
                          !.crossed = chan.callback /\ driver # "bound"]
  /\ UNCHANGED <<driver, held, idev, file, oops>>

RescindIrq ==
  /\ chan.rescind = "irq"
  /\ \/ /\ chan.drvdata
        /\ chan' = [chan EXCEPT !.irq = FALSE, !.rescind = "notify"]
        /\ UNCHANGED oops
     \/ ~chan.drvdata /\ oops' = TRUE /\ UNCHANGED chan
  /\ UNCHANGED <<driver, held, idev, file>>

RescindNotify ==
  /\ chan.rescind = "notify"
  /\ \/ /\ CanNotify /\ EventNotify
        /\ chan' = [chan EXCEPT !.rescind = "unregister"]
        /\ UNCHANGED oops
     \/ ~CanNotify /\ oops' = TRUE /\ UNCHANGED <<idev, chan, file>>
  /\ UNCHANGED <<driver, held>>

\* vmbus_device_unregister takes the lock of the device, so it waits for the end
\* of a probe or a remove; a driver that is bound is removed.
RescindUnregister ==
  /\ chan.rescind = "unregister"
  /\ \/ driver = "bound" /\ driver' = "remove"
     \/ driver \in {"unbound", "failed", "removed"} /\ UNCHANGED driver
  /\ chan' = [chan EXCEPT !.rescind = "done"]
  /\ UNCHANGED <<held, idev, file, oops>>

(***************************************************************************)
(* hv_uio_remove, after a rescind or when the driver is unbound.           *)
(***************************************************************************)
Unbind ==
  /\ driver = "bound"
  /\ driver' = "remove"
  /\ chan' = [chan EXCEPT !.crossed = @ \/ chan.rescind \in {"irq", "notify"}]
  /\ UNCHANGED <<held, idev, file, oops>>

Holding == {f \in Files : file[f].pc # "closed"}

\* uio_unregister_device, first under info_lock.
UnregisterInfo ==
  /\ driver = "remove"
  /\ idev' = [idev EXCEPT !.info = "null", !.exposed = @ \/ Holding # {}]
  /\ driver' = "wake"
  /\ UNCHANGED <<held, chan, file, oops>>

\* wake_up_interruptible without a change of the event counter: a task that is
\* not yet asleep is not told.
UnregisterWake ==
  /\ driver = "wake"
  /\ file' = [f \in Files |->
       [file[f] EXCEPT !.asleep = FALSE, !.missed = @ \/ file[f].read = "state"]]
  /\ driver' = "minor"
  /\ UNCHANGED <<held, idev, chan, oops>>

UnregisterMinor ==
  /\ driver = "minor"
  /\ idev' = [idev EXCEPT !.minor = FALSE]
  /\ driver' = "put"
  /\ UNCHANGED <<held, chan, file, oops>>

\* Faulty: one put_device too many.
UnregisterPutTwice ==
  /\ driver = "put"
  /\ idev' = [idev EXCEPT !.refs = @ - 2]
  /\ held' = held \ {"device"}
  /\ driver' = "cleanup"
  /\ UNCHANGED <<chan, file, oops>>

UnregisterPut ==
  /\ driver = "put"
  /\ idev' = [idev EXCEPT !.refs = @ - 1]
  /\ held' = held \ {"device"}
  /\ driver' = "cleanup"
  /\ UNCHANGED <<chan, file, oops>>

\* The driver core frees the driver's data after the ring.
RemoveFreeRing ==
  /\ driver = "free_ring"
  /\ driver' = "removed"
  /\ held' = held \ {"ring"}
  /\ chan' = [chan EXCEPT !.drvdata = FALSE]
  /\ UNCHANGED <<idev, file, oops>>

-----------------------------------------------------------------------------
Probe ==
  \/ ProbeRing \/ ProbeBuffer("recv", "send") \/ ProbeBuffer("send", "register")
  \/ RegisterDevice \/ RegisterAttributes \/ SetDrvdata
  \/ Cleanup("send", "fail_close", "fail_recv")
  \/ Cleanup("recv", "fail_recv", "fail_free_ring")
  \/ FailFreeRing

Remove ==
  \/ UnregisterInfo \/ UnregisterWake \/ UnregisterMinor \/ UnregisterPut
  \/ Cleanup("send", "cleanup", "cleanup_recv")
  \/ Cleanup("recv", "cleanup_recv", "free_ring")
  \/ RemoveFreeRing

RescindWork == RescindIrq \/ RescindNotify \/ RescindUnregister

Callback == ChannelCallback \/ CallbackNotify

Reader(f) ==
  \/ ReadCheck(f) \/ ReadSetState(f) \/ ReadCompare(f) \/ PollCompare(f)
  \/ ReadSchedule(f)

User(f) ==
  \/ OpenFind(f) \/ OpenListener(f) \/ OpenInfo(f) \/ Release(f)
  \/ Mmap(f) \/ UserUnmask(f) \/ ReadInterrupted(f)
  \/ \E poll \in BOOLEAN : ReadCall(f, poll)
  \/ \E irq_on \in BOOLEAN : Write(f, irq_on)

Next ==
  /\ ~oops
  /\ \/ Probe \/ Remove \/ RescindWork \/ Callback
     \/ Interrupt \/ Rescind \/ Unbind
     \/ \E f \in Files : Reader(f) \/ User(f)

Spec == Init /\ [][Next]_vars

\* The kernel runs the threads of the driver, of the VMBus and of the readers,
\* and its callbacks; processes and the host owe nothing.
FairSpec ==
  /\ Spec
  /\ WF_vars(~oops /\ (Probe \/ Remove))
  /\ WF_vars(~oops /\ RescindWork)
  /\ WF_vars(~oops /\ Callback)
  /\ \A f \in Files : WF_vars(~oops /\ Reader(f))

-----------------------------------------------------------------------------
Opened == {f \in Files : file[f].pc = "open"}

Places == {"unbound", "recv", "send", "register", "attributes", "drvdata", "bound",
           "fail_close", "fail_recv", "fail_free_ring", "failed", "remove", "wake",
           "minor", "put", "cleanup", "cleanup_recv", "free_ring", "removed"}

IdevRecord == [minor : BOOLEAN, info : {"null", "set", "dangling"}, refs : Nat,
               event : Nat, opens : Nat, exposed : BOOLEAN]

ChanRecord ==
  [offered : BOOLEAN, connected : BOOLEAN, refcnt : Nat, irq : BOOLEAN,
   drvdata : BOOLEAN, mask : BOOLEAN, interrupt : {"none", "raised", "masked"},
   callback : BOOLEAN, interrupts : Nat, crossed : BOOLEAN,
   rescind : {"none", "irq", "notify", "unregister", "done"}]

FileRecord ==
  [pc : {"closed", "found", "listening", "open"},
   read : {"none", "check", "recheck", "state", "compare", "schedule"},
   event_count : Nat, asleep : BOOLEAN,
   poll : BOOLEAN, late : BOOLEAN, ready : BOOLEAN, missed : BOOLEAN,
   result : {"none", "event", "readable"}]

TypeOK ==
  /\ driver \in Places
  /\ held \subseteq Resources
  /\ idev \in IdevRecord
  /\ chan \in ChanRecord
  /\ file \in [Files -> FileRecord]
  /\ oops \in BOOLEAN

\* The references of the struct device are those of the registration and of the
\* files in or past open(), so idev is freed when, and only when, the last of
\* them is gone, in whatever order unregistration and the closes come (uio.c,
\* get_device under minor_lock, put_device in uio_release and on the error
\* paths of uio_open, device_unregister).
ReferencesAreCounted ==
  idev.refs = Cardinality(Holding) + (IF "device" \in held THEN 1 ELSE 0)

\* As long as the driver is there, the ring is connected exactly while some
\* file is open, whatever opens failed on the way (uio_hv_generic.c, "VMBus
\* primary channel is opened on first use").
ConnectedWhileOpen ==
  idev.info = "set" =>
    /\ chan.refcnt = Cardinality(Opened)
    /\ chan.connected <=> Opened # {}

\* However a probe fails and whenever the device is removed, everything the
\* driver took is given back, except memory the hypervisor may still see.
NothingKept == driver \in {"failed", "removed"} => held = {}

\* "Next read for event will return -EIO": a read or poll that begins after the
\* rescind callback or the unregistration never reports an event.
LateReadFails ==
  \A f \in Files : file[f].late => file[f].result \notin {"event", "readable"}

\* A read that follows a poll that said "readable" does not wait, whatever the
\* other files have read in between: each file has its own event_count.
ReadableDoesNotWait ==
  \A f \in Files : file[f].ready /\ ~file[f].poll => file[f].read # "schedule"

\* Calls and callbacks find the driver data they use, as long as no file is
\* opened before hv_uio_probe is over, none is open at hv_uio_remove, and the
\* rescind callback that hv_uio_open leaves installed does not run beside or after
\* hv_uio_remove, however opens, closes, interrupts and rescinds come otherwise.
DisciplinedUseIsSafe == oops => idev.exposed \/ chan.crossed

\* A read or poll for which there is an event returns, and so does one that has
\* only the end of the device to report, unless the wake-up of the unregistration
\* came between its test of irq and its change of the task state: apart from that
\* place no wake-up is lost on the way to schedule().
ReadReturns ==
  \A f \in Files :
    LET event == idev.event # file[f].event_count
    IN  (file[f].read # "none" /\ (event \/ (DeviceGone /\ ~file[f].missed)))
          ~> (file[f].read = "none" \/ oops \/ (file[f].missed /\ ~event))

\* "VMBus primary channel is closed on last close".
ClosedOnLastClose == chan.connected => Holding # {}

=============================================================================
