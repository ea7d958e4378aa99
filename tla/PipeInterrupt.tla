--------------------------- MODULE PipeInterrupt ----------------------------
(***************************************************************************)
(* How a packet of the host wakes up Receive: the constructor, Receive,    *)
(* Send and SignalHost of UioHvDevice.cs together with hv_uio_channel_cb   *)
(* and hv_uio_irqcontrol of the driver, and the rule by which the host     *)
(* interrupts.  They share the interrupt mask of the incoming ring, which  *)
(* the guest clears and the callback sets, and the event counter that      *)
(* every open file compares with the value it has seen last.               *)
(*                                                                         *)
(* The ring is a queue here (PipeRing shows that it is one) and a read of  *)
(* the device file one step (UioHvGeneric shows that a read with an event  *)
(* to report returns).  Several devices on one channel are what successive *)
(* sessions of SynthRdp leave behind: nothing disposes of a UioHvDevice.   *)
(***************************************************************************)
EXTENDS Naturals, Sequences

CONSTANTS
  Devices,    \* UioHvDevice objects on the channel
  Kinds,      \* packets of the host: "data", or "empty" for one without content
  MaxPackets  \* bound: packets the host sends

ASSUME InterruptAssumption ==
  /\ Kinds \subseteq {"data", "empty"}
  /\ MaxPackets \in Nat

VARIABLES
  ring,    \* packets in the incoming ring
  chan,    \* the channel: mask, raised, callback, irq
  event,   \* the event counter of the struct uio_device
  device,  \* the devices
  sent     \* packets sent so far

vars == <<ring, chan, event, device, sent>>

(***************************************************************************)
(* chan: the interrupt mask; raised, an interrupt whose callback has not   *)
(* begun; callback, whether it is between its two halves ("notify"); irq,  *)
(* FALSE after a rescind.                                                  *)
(*                                                                         *)
(* device[d]: its place ("wait" and "skip" are both WaitHost, reached from *)
(* an empty ring and from a packet without content), the event_count of    *)
(* its listener, and the history spent: a WaitHost of this device has      *)
(* taken an event since the device last cleared the mask outside a wait.   *)
(***************************************************************************)
NoDevice == [pc |-> "none", event_count |-> 0, spent |-> FALSE]

Init ==
  /\ ring = << >>
  /\ chan = [mask |-> TRUE, raised |-> FALSE, callback |-> "none", irq |-> TRUE]
  /\ event = 0
  /\ device = [d \in Devices |-> NoDevice]
  /\ sent = 0

Constructed == {d \in Devices : device[d].pc \in {"idle", "signal", "wait", "skip"}}
HasFile == {d \in Devices : device[d].pc # "none"}

\* Device d clears the mask and goes on at pc.
Unmask(d, pc) ==
  /\ device' = [device EXCEPT ![d].pc = pc, ![d].spent = FALSE]
  /\ chan' = [chan EXCEPT !.mask = FALSE]

(***************************************************************************)
(* The constructor: open() copies the event counter, and the first open()  *)
(* connects an empty ring and masks it; then the mask is cleared.          *)
(***************************************************************************)
\* Faulty: the event counter is copied too late.
ListenFromNextEvent(d) ==
  device' = [device EXCEPT ![d].pc = "opened", ![d].event_count = event + 1]

Listen(d) == device' = [device EXCEPT ![d].pc = "opened", ![d].event_count = event]

Open(d) ==
  /\ device[d].pc = "none"
  /\ chan.irq
  /\ Listen(d)
  /\ \/ HasFile # {} /\ UNCHANGED <<chan, ring>>
     \/ /\ HasFile = {}
        /\ chan' = [chan EXCEPT !.mask = TRUE]
        /\ ring' = << >>
  /\ UNCHANGED <<event, sent>>

ClearMask(d) ==
  /\ device[d].pc = "opened"
  /\ Unmask(d, "idle")
  /\ UNCHANGED <<ring, event, sent>>

\* The finalizer of a device nobody uses any more closes the file.  The last
\* close disconnects the ring, after a callback that is running.
Close(d) ==
  /\ device[d].pc = "idle"
  /\ device' = [device EXCEPT ![d] = NoDevice]
  /\ \/ HasFile # {d} /\ UNCHANGED chan
     \/ /\ HasFile = {d}
        /\ chan.callback = "none"
        /\ chan' = [chan EXCEPT !.raised = FALSE]
  /\ UNCHANGED <<ring, event, sent>>

(***************************************************************************)
(* Receive.                                                                *)
(***************************************************************************)
DeviceGoto(d, from, to) ==
  /\ device[d].pc = from
  /\ device' = [device EXCEPT ![d].pc = to]

ReceivePop(d) ==
  /\ \/ ring = << >> /\ DeviceGoto(d, "idle", "wait") /\ UNCHANGED ring
     \/ /\ ring # << >>
        /\ DeviceGoto(d, "idle", IF Head(ring) = "empty" THEN "skip" ELSE "signal")
        /\ ring' = Tail(ring)
  /\ UNCHANGED <<chan, event, sent>>

\* InterruptControl(true) throws when the device is gone.
ReceiveSignal(d) ==
  /\ \/ chan.irq /\ device[d].pc = "signal" /\ Unmask(d, "idle")
     \/ ~chan.irq /\ DeviceGoto(d, "signal", "idle") /\ UNCHANGED chan
  /\ UNCHANGED <<ring, event, sent>>

Waiting(d) == device[d].pc \in {"wait", "skip"}

\* Faulty: the comparison is off by one.
TwoNewEvents(d) == event > device[d].event_count + 1

NewEvent(d) == event # device[d].event_count

\* WaitHost.  The read takes the event, or fails because the device is gone.
WaitHost(d) ==
  /\ Waiting(d)
  /\ \/ /\ chan.irq
        /\ NewEvent(d)
        /\ device' = [device EXCEPT ![d] = [pc |-> "idle", event_count |-> event,
                                            spent |-> TRUE]]
     \/ ~chan.irq /\ DeviceGoto(d, device[d].pc, "idle")
  /\ UNCHANGED <<ring, chan, event, sent>>

\* EINTR: the read gives up and leaves the event.
WaitInterrupted(d) ==
  /\ Waiting(d)
  /\ DeviceGoto(d, device[d].pc, "idle")
  /\ UNCHANGED <<ring, chan, event, sent>>

(***************************************************************************)
(* What other threads do with a device: SignalHost at the end of a push,   *)
(* and PopPipePacket of Vmbus2TcpThread, which never waits.                *)
(***************************************************************************)
Send(d) ==
  /\ d \in Constructed
  /\ chan.irq
  /\ chan' = [chan EXCEPT !.mask = FALSE]
  /\ device' = [device EXCEPT ![d].spent = @ /\ device[d].pc # "idle"]
  /\ UNCHANGED <<ring, event, sent>>

PollPop(d) ==
  /\ d \in Constructed
  /\ ring # << >>
  /\ ring' = Tail(ring)
  /\ UNCHANGED <<chan, event, device, sent>>

(***************************************************************************)
(* The host interrupts when it puts a packet in an empty ring and the mask *)
(* is clear; an interrupt on top of one that is pending adds nothing.      *)
(***************************************************************************)
HostSend(kind) ==
  /\ HasFile # {} /\ chan.irq
  /\ sent < MaxPackets
  /\ ring' = Append(ring, kind)
  /\ sent' = sent + 1
  /\ chan' = [chan EXCEPT !.raised = @ \/ (ring = << >> /\ ~chan.mask)]
  /\ UNCHANGED <<event, device>>

\* hv_uio_channel_cb masks the channel ...
CallbackMask ==
  /\ chan.raised /\ chan.callback = "none"
  /\ chan' = [chan EXCEPT !.raised = FALSE, !.callback = "notify", !.mask = TRUE]
  /\ UNCHANGED <<ring, event, device, sent>>

\* ... and then counts the event.
CallbackNotify ==
  /\ chan.callback = "notify"
  /\ chan' = [chan EXCEPT !.callback = "none"]
  /\ event' = event + 1
  /\ UNCHANGED <<ring, device, sent>>

Rescind ==
  /\ chan.irq
  /\ chan' = [chan EXCEPT !.irq = FALSE]
  /\ event' = event + 1
  /\ UNCHANGED <<ring, device, sent>>

-----------------------------------------------------------------------------
\* Faulty: notifies first and masks afterwards.
NotifyThenMask ==
  /\ \/ /\ chan.raised /\ chan.callback = "none"
        /\ chan' = [chan EXCEPT !.raised = FALSE, !.callback = "notify"]
        /\ event' = event + 1
     \/ /\ chan.callback = "notify"
        /\ chan' = [chan EXCEPT !.callback = "none", !.mask = TRUE]
        /\ UNCHANGED event
  /\ UNCHANGED <<ring, device, sent>>

Callback == CallbackMask \/ CallbackNotify

Next ==
  \/ Callback \/ Rescind
  \/ \E kind \in Kinds : HostSend(kind)
  \/ \E d \in Devices :
       \/ Open(d) \/ ClearMask(d) \/ Close(d)
       \/ ReceivePop(d) \/ ReceiveSignal(d) \/ WaitHost(d) \/ WaitInterrupted(d)
       \/ Send(d) \/ PollPop(d)

Spec == Init /\ [][Next]_vars

\* The kernel runs the callback of a raised interrupt, and a thread whose read
\* can return.
FairSpec ==
  /\ Spec
  /\ WF_vars(Callback)
  /\ \A d \in Devices : WF_vars(WaitHost(d))

-----------------------------------------------------------------------------
TypeOK ==
  /\ ring \in Seq(Kinds)
  /\ chan \in [mask : BOOLEAN, raised : BOOLEAN, callback : {"none", "notify"},
               irq : BOOLEAN]
  /\ event \in Nat
  /\ device \in [Devices ->
       [pc : {"none", "opened", "idle", "signal", "wait", "skip"},
        event_count : 0..event, spent : BOOLEAN]]
  /\ sent \in Nat

\* A device that has not taken an event since it last cleared the mask never
\* waits beside a packet with nothing under way that ends the wait: the event is
\* counted, or the callback that will count it is pending, whatever the other
\* devices and threads on the channel do.  It rests on the order in
\* hv_uio_channel_cb, mask first and event second.
NoLostWakeUp ==
  \A d \in Devices :
    (device[d].pc = "wait" /\ ring # << >> /\ ~device[d].spent)
      => \/ event # device[d].event_count
         \/ chan.raised
         \/ chan.callback = "notify"

\* Such a wait ends: one of a device that has not used up its event, as in the
\* one Receive that SynthRdp.cs makes on each device it opens.
ReceiveReturns ==
  \A d \in Devices :
    (device[d].pc = "wait" /\ ring # << >> /\ ~device[d].spent) ~> ~Waiting(d)

=============================================================================
