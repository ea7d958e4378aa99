------------------------ MODULE PipeInterrupt_proofs ------------------------
(***************************************************************************)
(* Proofs about PipeInterrupt, for every set of devices on the channel,    *)
(* every set of kinds of packets and any number of packets.                *)
(***************************************************************************)
EXTENDS PipeInterrupt, TLAPS

(***************************************************************************)
(* NoLostWakeUp is not inductive: it says nothing of a device before it    *)
(* waits.  What is missing is that the mask is never left set without the  *)
(* device being told, by an event it has not seen or by a callback that    *)
(* will count one.                                                         *)
(***************************************************************************)
Told(d) == event # device[d].event_count \/ chan.callback = "notify"

MaskedIsTold ==
  \A d \in Devices :
    (d \in Constructed /\ ~device[d].spent /\ chan.mask) => Told(d)

IInv == TypeOK /\ MaskedIsTold /\ NoLostWakeUp

Record(e) == [pc : {"none", "opened", "idle", "signal", "wait", "skip"},
              event_count : 0..e, spent : BOOLEAN]

\* A step that changes the record of one device keeps the types if it keeps
\* those of the ring, the channel and the counters.
LEMMA DeviceChange ==
  ASSUME TypeOK, NEW d \in Devices, NEW r \in Record(event),
         device' = [device EXCEPT ![d] = r], event' = event
  PROVE  device' \in [Devices -> Record(event')]
BY DEF TypeOK, Record

\* The parts of a record that assignments to its fields leave alone.
LEMMA RecordFields ==
  ASSUME TypeOK, NEW d \in Devices
  PROVE  /\ device[d] \in Record(event)
         /\ device[d].event_count \in 0..event
         /\ device[d].spent \in BOOLEAN
         /\ device[d].pc \in {"none", "opened", "idle", "signal", "wait", "skip"}
BY DEF TypeOK, Record

\* A new place.
LEMMA GotoType ==
  ASSUME TypeOK, NEW d \in Devices,
         NEW to \in {"none", "opened", "idle", "signal", "wait", "skip"},
         device' = [device EXCEPT ![d].pc = to], event' = event
  PROVE  device' \in [Devices -> Record(event')]
<1>1. [device[d] EXCEPT !.pc = to] \in Record(event)
  BY RecordFields DEF Record
<1>2. device' = [device EXCEPT ![d] = [device[d] EXCEPT !.pc = to]]
  BY DEF TypeOK
<1> QED BY <1>1, <1>2, DeviceChange

\* A new place with the mask clear.
LEMMA UnmaskType ==
  ASSUME TypeOK, NEW d \in Devices, Unmask(d, "idle"), event' = event
  PROVE  device' \in [Devices -> Record(event')]
<1>1. [device[d] EXCEPT !.pc = "idle", !.spent = FALSE] \in Record(event)
  BY RecordFields DEF Record
<1>2. device' = [device EXCEPT ![d] = [device[d] EXCEPT !.pc = "idle", !.spent = FALSE]]
  BY DEF TypeOK, Unmask
<1> QED BY <1>1, <1>2, DeviceChange

\* Before any device there is nothing to tell.
LEMMA InitInv == Init => IInv
<1> SUFFICES ASSUME Init
             PROVE  IInv
  OBVIOUS
<1>1. TypeOK
  BY DEF Init, TypeOK, NoDevice
<1>2. MaskedIsTold /\ NoLostWakeUp
  BY DEF Init, MaskedIsTold, NoLostWakeUp, NoDevice, Constructed
<1> QED BY <1>1, <1>2 DEF IInv

\* A device that opens has seen every event; the first one finds no other.
LEMMA OpenKeepsInv ==
  ASSUME IInv, NEW d \in Devices, Open(d)
  PROVE  IInv'
<1> USE DEF IInv
<1>1. TypeOK'
  <2> event \in 0..event
    BY DEF TypeOK
  <2>1. [device[d] EXCEPT !.pc = "opened", !.event_count = event] \in Record(event)
    BY RecordFields DEF Record
  <2>2. device' = [device EXCEPT ![d] =
                     [device[d] EXCEPT !.pc = "opened", !.event_count = event]]
    BY DEF TypeOK, Open, Listen
  <2>3. device' \in [Devices -> Record(event')]
    BY <2>1, <2>2, DeviceChange DEF Open
  <2>4. ring' \in Seq(Kinds)
    <3>1. ring' = ring \/ ring' = << >>
      BY DEF Open
    <3>2. ring \in Seq(Kinds) /\ << >> \in Seq(Kinds)
      BY DEF TypeOK
    <3> QED BY <3>1, <3>2
  <2>5. chan' \in [mask : BOOLEAN, raised : BOOLEAN, callback : {"none", "notify"},
                   irq : BOOLEAN]
    BY DEF TypeOK, Open
  <2>6. event' \in Nat /\ sent' \in Nat
    BY DEF TypeOK, Open
  <2> QED BY <2>3, <2>4, <2>5, <2>6 DEF TypeOK, Record
<1>2. MaskedIsTold'
  BY DEF TypeOK, MaskedIsTold, Told, Constructed, HasFile, Open, Listen
<1>3. NoLostWakeUp'
  BY DEF TypeOK, NoLostWakeUp, HasFile, Open, Listen
<1> QED BY <1>1, <1>2, <1>3

\* With the mask clear nobody has to be told.
LEMMA UnmaskKeepsInv ==
  ASSUME IInv, NEW d \in Devices, ClearMask(d) \/ ReceiveSignal(d) \/ Send(d)
  PROVE  IInv'
<1> USE DEF IInv
<1>1. TypeOK'
  <2>1. CASE ClearMask(d)
    <3>1. device' \in [Devices -> Record(event')]
      BY <2>1, UnmaskType DEF ClearMask
    <3> QED BY <2>1, <3>1 DEF TypeOK, Record, ClearMask, Unmask
  <2>2. CASE ReceiveSignal(d)
    <3>1. device' \in [Devices -> Record(event')]
      BY <2>2, UnmaskType, GotoType DEF ReceiveSignal, DeviceGoto
    <3> QED BY <2>2, <3>1 DEF TypeOK, Record, ReceiveSignal, Unmask
  <2>3. CASE Send(d)
    <3>1. (device[d].spent /\ device[d].pc # "idle") \in BOOLEAN
      OBVIOUS
    <3>2. [device[d] EXCEPT !.spent = device[d].spent /\ device[d].pc # "idle"]
            \in Record(event)
      BY <3>1, RecordFields DEF Record
    <3>3. device' = [device EXCEPT ![d] =
             [device[d] EXCEPT !.spent = device[d].spent /\ device[d].pc # "idle"]]
      BY <2>3 DEF TypeOK, Send
    <3>4. device' \in [Devices -> Record(event')]
      BY <2>3, <3>2, <3>3, DeviceChange DEF Send
    <3> QED BY <2>3, <3>4 DEF TypeOK, Record, Send
  <2> QED BY <2>1, <2>2, <2>3
<1>2. MaskedIsTold'
  BY DEF TypeOK, MaskedIsTold, Told, Constructed, ClearMask, ReceiveSignal, Send, Unmask,
         DeviceGoto
<1>3. NoLostWakeUp'
  BY DEF TypeOK, NoLostWakeUp, ClearMask, ReceiveSignal, Send, Unmask, DeviceGoto
<1> QED BY <1>1, <1>2, <1>3

\* Only the last close drops a raised interrupt, when no device is left.
LEMMA CloseKeepsInv ==
  ASSUME IInv, NEW d \in Devices, Close(d)
  PROVE  IInv'
<1> USE DEF IInv
<1>1. TypeOK'
  <2>1. NoDevice \in Record(event)
    BY DEF Record, NoDevice, TypeOK
  <2>2. device' \in [Devices -> Record(event')]
    BY <2>1, DeviceChange DEF Close
  <2> QED BY <2>2 DEF TypeOK, Record, Close
<1>2. MaskedIsTold'
  BY DEF TypeOK, MaskedIsTold, Told, Constructed, Close, NoDevice
<1>3. NoLostWakeUp'
  BY DEF TypeOK, NoLostWakeUp, HasFile, Close, NoDevice
<1> QED BY <1>1, <1>2, <1>3

\* A device begins to wait only at an empty ring.
LEMMA ReceiveKeepsInv ==
  ASSUME IInv, NEW d \in Devices,
         ReceivePop(d) \/ WaitHost(d) \/ WaitInterrupted(d) \/ PollPop(d)
  PROVE  IInv'
<1> USE DEF IInv
<1>1. TypeOK'
  <2>1. CASE ReceivePop(d)
    <3> DEFINE to == IF ring = << >> THEN "wait"
                     ELSE IF Head(ring) = "empty" THEN "skip" ELSE "signal"
    <3>1. device' = [device EXCEPT ![d].pc = to] /\ event' = event
      BY <2>1 DEF ReceivePop, DeviceGoto
    <3>2. to \in {"none", "opened", "idle", "signal", "wait", "skip"}
      OBVIOUS
    <3> HIDE DEF to
    <3>3. device' \in [Devices -> Record(event')]
      BY <3>1, <3>2, GotoType
    <3>4. ring' \in Seq(Kinds)
      <4>1. ring' = ring \/ (ring # << >> /\ ring' = Tail(ring))
        BY <2>1 DEF ReceivePop
      <4>2. ring \in Seq(Kinds)
        BY DEF TypeOK
      <4> QED BY <4>1, <4>2
    <3> QED BY <2>1, <3>3, <3>4 DEF TypeOK, Record, ReceivePop
  <2>2. CASE WaitHost(d)
    <3>1. [pc |-> "idle", event_count |-> event, spent |-> TRUE] \in Record(event)
      BY DEF Record, TypeOK
    <3>2. device' \in [Devices -> Record(event')]
      BY <2>2, <3>1, GotoType, DeviceChange DEF WaitHost, DeviceGoto
    <3> QED BY <2>2, <3>2 DEF TypeOK, Record, WaitHost
  <2>3. CASE WaitInterrupted(d)
    <3>1. device' \in [Devices -> Record(event')]
      BY <2>3, GotoType DEF WaitInterrupted, DeviceGoto
    <3> QED BY <2>3, <3>1 DEF TypeOK, Record, WaitInterrupted
  <2>4. CASE PollPop(d)
    BY <2>4 DEF TypeOK, PollPop
  <2> QED BY <2>1, <2>2, <2>3, <2>4
<1>2. MaskedIsTold'
  <2>1. CASE \E to \in {"wait", "skip", "signal", "idle"} :
               /\ device' = [device EXCEPT ![d].pc = to]
               /\ device[d].pc \in {"idle", "wait", "skip"}
               /\ event' = event /\ chan' = chan
    <3> SUFFICES ASSUME NEW e \in Devices, (e \in Constructed)', ~device'[e].spent,
                        chan'.mask
                 PROVE  Told(e)'
      BY DEF MaskedIsTold
    <3>1. /\ device'[e].event_count = device[e].event_count
          /\ device'[e].spent = device[e].spent
          /\ device'[e].pc = device[e].pc \/ e = d
      BY <2>1 DEF TypeOK
    <3>2. e \in Constructed
      BY <2>1, <3>1 DEF Constructed
    <3> QED BY <2>1, <3>1, <3>2 DEF MaskedIsTold, Told
  <2>2. CASE ReceivePop(d)
    BY <2>1, <2>2 DEF ReceivePop, DeviceGoto
  <2>3. CASE WaitHost(d)
    <3>1. CASE ~chan.irq
      BY <2>1, <2>3, <3>1 DEF WaitHost, DeviceGoto, Waiting
    <3>2. CASE chan.irq
      BY <2>3, <3>2 DEF TypeOK, MaskedIsTold, Told, Constructed, WaitHost
    <3> QED BY <3>1, <3>2
  <2>4. CASE WaitInterrupted(d)
    BY <2>1, <2>4 DEF WaitInterrupted, DeviceGoto, Waiting
  <2>5. CASE PollPop(d)
    BY <2>5 DEF MaskedIsTold, Told, Constructed, PollPop
  <2> QED BY <2>2, <2>3, <2>4, <2>5
<1>3. NoLostWakeUp'
  <2>1. CASE ReceivePop(d)
    <3> SUFFICES ASSUME NEW e \in Devices, device'[e].pc = "wait", ring' # << >>,
                        ~device'[e].spent
                 PROVE  event' # device'[e].event_count \/ chan'.raised
                        \/ chan'.callback = "notify"
      BY DEF NoLostWakeUp
    <3>1. PICK to \in {"wait", "skip", "signal"} :
            /\ device' = [device EXCEPT ![d].pc = to]
            /\ to = "wait" => ring' = << >>
      <4>1. CASE ring = << >>
        BY <2>1, <4>1 DEF ReceivePop, DeviceGoto
      <4>2. CASE ring # << >>
        BY <2>1, <4>2 DEF ReceivePop, DeviceGoto
      <4> QED BY <4>1, <4>2
    <3>2. ring # << >> /\ event' = event /\ chan' = chan
      BY <2>1 DEF ReceivePop
    <3>3. e # d
      BY <3>1 DEF TypeOK
    <3>4. device'[e] = device[e]
      BY <3>1, <3>3 DEF TypeOK
    <3> QED BY <3>2, <3>4 DEF NoLostWakeUp
  <2>2. CASE WaitHost(d)
    BY <2>2 DEF TypeOK, NoLostWakeUp, WaitHost, DeviceGoto
  <2>3. CASE WaitInterrupted(d)
    BY <2>3 DEF TypeOK, NoLostWakeUp, WaitInterrupted, DeviceGoto
  <2>4. CASE PollPop(d)
    BY <2>4 DEF NoLostWakeUp, PollPop
  <2> QED BY <2>1, <2>2, <2>3, <2>4
<1> QED BY <1>1, <1>2, <1>3

\* A packet in an empty ring interrupts, or finds the mask set and the device told.
LEMMA HostKeepsInv ==
  ASSUME IInv, NEW kind \in Kinds, HostSend(kind)
  PROVE  IInv'
<1> USE DEF IInv
<1>1. TypeOK'
  BY DEF TypeOK, HostSend
<1>2. MaskedIsTold'
  BY DEF TypeOK, MaskedIsTold, Told, Constructed, HostSend
<1>3. NoLostWakeUp'
  BY DEF TypeOK, NoLostWakeUp, MaskedIsTold, Told, Constructed, HostSend
<1> QED BY <1>1, <1>2, <1>3

\* The first half of the callback sets the mask, the second counts the event.
LEMMA CallbackMaskKeepsInv ==
  ASSUME IInv, CallbackMask
  PROVE  IInv'
<1> USE DEF IInv
<1>1. TypeOK'
  BY DEF TypeOK, CallbackMask
<1>2. chan'.callback = "notify"
  BY DEF TypeOK, CallbackMask
<1>3. MaskedIsTold' /\ NoLostWakeUp'
  BY <1>2 DEF MaskedIsTold, Told, NoLostWakeUp
<1> QED BY <1>1, <1>3

\* A new event is one that no device has seen.
LEMMA NotifyKeepsInv ==
  ASSUME IInv, CallbackNotify \/ Rescind
  PROVE  IInv'
<1> USE DEF IInv
<1>1. event' = event + 1 /\ device' = device /\ ring' = ring /\ sent' = sent
  BY DEF CallbackNotify, Rescind
<1>2. \A d \in Devices : device[d].event_count # event'
  BY <1>1, RecordFields DEF TypeOK
<1>3. MaskedIsTold' /\ NoLostWakeUp'
  BY <1>1, <1>2 DEF MaskedIsTold, Told, NoLostWakeUp
<1>4. device' \in [Devices -> Record(event')]
  <2>1. \A d \in Devices : device[d] \in Record(event')
    BY <1>1 DEF TypeOK, Record
  <2> QED BY <1>1, <2>1 DEF TypeOK
<1>5. chan' \in [mask : BOOLEAN, raised : BOOLEAN, callback : {"none", "notify"},
                 irq : BOOLEAN]
  BY DEF TypeOK, CallbackNotify, Rescind
<1>6. TypeOK'
  BY <1>1, <1>4, <1>5 DEF TypeOK, Record
<1> QED BY <1>3, <1>6

\* Every step keeps the invariant.
LEMMA NextKeepsInv == IInv /\ [Next]_vars => IInv'
<1> SUFFICES ASSUME IInv, [Next]_vars
             PROVE  IInv'
  OBVIOUS
<1>1. CASE UNCHANGED vars
  BY <1>1 DEF vars, IInv, TypeOK, MaskedIsTold, Told, Constructed, NoLostWakeUp
<1>2. CASE Next
  BY <1>2, OpenKeepsInv, UnmaskKeepsInv, CloseKeepsInv, ReceiveKeepsInv, HostKeepsInv,
     CallbackMaskKeepsInv, NotifyKeepsInv DEF Next, Callback
<1> QED BY <1>1, <1>2

\* The inductive invariant holds in every behaviour.
LEMMA SpecKeepsInv == Spec => []IInv
<1> QED BY InitInv, NextKeepsInv, PTL DEF Spec

\* No listener is ever ahead of the event counter, and all other variables have
\* their types, however devices open and close.
THEOREM InterruptTypeCorrect == Spec => []TypeOK
<1>1. IInv => TypeOK
  BY DEF IInv
<1> QED BY <1>1, SpecKeepsInv, PTL

\* However many devices share the channel, none that has not taken an event
\* since it cleared the mask waits beside a packet with no event to come.
THEOREM NoLostWakeUpHolds == Spec => []NoLostWakeUp
<1>1. IInv => NoLostWakeUp
  BY DEF IInv
<1> QED BY <1>1, SpecKeepsInv, PTL

=============================================================================
