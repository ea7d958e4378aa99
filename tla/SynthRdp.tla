------------------------------ MODULE SynthRdp ------------------------------
(***************************************************************************)
(* The RDP relay of HvGin/SynthRdp.cs: the service thread (version         *)
(* handshake, search for a data channel, connection to the RDP server,     *)
(* first PDU, supervision) and, for each session, the two relay threads    *)
(* Vmbus2Tcp and Tcp2Vmbus, with the host and the RDP server around them.  *)
(*                                                                         *)
(* Nothing joins the relay threads of an ended session, so they may still  *)
(* run when the next session starts on the same data channel.  Therefore   *)
(* PopPipePacket and PushPipePacket are two steps each here: one reads the *)
(* control block, and a later one writes Out or In from what was read.     *)
(* Everything else about the rings is in PipeRing.                         *)
(***************************************************************************)
EXTENDS Naturals, Sequences

CONSTANTS
  Channels,     \* offers of data channels by the host, each with its rings
  Kinds,        \* kinds of packets the host sends: "data", "bad", "empty"
  MaxStarts,    \* bound: calls of Start that start the service
  MaxSessions,  \* bound: sessions
  MaxPackets,   \* bound: packets the host sends on one channel
  MaxChunks,    \* bound: chunks the RDP server sends in one session
  OutCapacity   \* chunks that fit in the outgoing ring of a channel

ASSUME RelayAssumption ==
  /\ Kinds \subseteq {"data", "bad", "empty"}
  /\ {MaxStarts, MaxSessions, MaxPackets, MaxChunks, OutCapacity} \subseteq Nat

Session == 1..MaxSessions
NoChannel == "none"

VARIABLES
  service,  \* the static fields and the locals of the service thread
  control,  \* the control channel
  channel,  \* the data channels
  session,  \* the sessions
  overlap   \* history: channels that had the threads of two sessions at once

vars == <<service, control, channel, session, overlap>>

(***************************************************************************)
(* service: IsRunning; ServiceThread ("null", "set", or "joining" while    *)
(* Stop waits in Join); the place pc and the locals DataChannel and n, the *)
(* number of sessions so far; event, an interrupt of the data channel that *)
(* was not read yet; the counts starts and, taken by Stop, nAtStop.        *)
(*                                                                         *)
(* control: requests not yet answered, answers not yet read, an interrupt  *)
(* not yet read, and the history answered of what the host said.           *)
(*                                                                         *)
(* channel[c]: offer ("no", "yes", "gone"); inbound, all packets the host  *)
(* has put in the incoming ring, of which Out are released; In, the chunks *)
(* published in the outgoing ring, of which the host has taken read.  A    *)
(* "bad" packet is one PopPipePacket throws at: a broken one, or any that  *)
(* is behind one that ended at the end of the data area (see PipeRing).    *)
(*                                                                         *)
(* session[m]: its channel, ShouldRunning, the socket, the places of the   *)
(* two relay threads, packet (the one popped last), rx and received (the   *)
(* chunks waiting in the socket and taken from it), at (In as              *)
(* PushPipePacket found it), and the histories start (Out when it began),  *)
(* first (what became of the first PDU), forwarded (what the RDP server    *)
(* got, and of which packets it got the whole), latePops and latePushes    *)
(* (what the threads did to the rings after ShouldRunning became false).   *)
(***************************************************************************)
NoSession == [channel |-> NoChannel, ShouldRunning |-> FALSE, socket |-> "none",
              vmbus2tcp |-> "none", tcp2vmbus |-> "none", packet |-> 0,
              rx |-> 0, received |-> 0, at |-> 0, start |-> 0, first |-> "none",
              forwarded |-> << >>, latePops |-> 0, latePushes |-> 0]

Init ==
  /\ service = [IsRunning |-> TRUE, ServiceThread |-> "null", pc |-> "exited",
                DataChannel |-> NoChannel, n |-> 0, event |-> FALSE,
                starts |-> 0, nAtStop |-> 0]
  /\ control = [requests |-> 0, unread |-> << >>, event |-> FALSE, answered |-> {}]
  /\ channel = [c \in Channels |-> [offer |-> "no", inbound |-> << >>, Out |-> 0,
                                    In |-> 0, read |-> 0]]
  /\ session = [m \in Session |-> NoSession]
  /\ overlap = {}

n == service.n
DataChannel == service.DataChannel
Gone(c) == channel[c].offer = "gone"
Alive(place) == place \notin {"none", "dead"}

\* An exception that leaves the service thread ends the process.
Crashed == service.pc \in {"failed", "invalid"}

\* The service thread goes from one place to another.
Goto(from, to) ==
  /\ service.pc = from
  /\ service' = [service EXCEPT !.pc = to]

(***************************************************************************)
(* Start and Stop.  A call that throws leaves everything as it is.         *)
(***************************************************************************)
Start ==
  /\ service.ServiceThread = "null"
  /\ service.starts < MaxStarts
  /\ service' = [service EXCEPT !.IsRunning = TRUE, !.ServiceThread = "set",
                                !.pc = "open", !.starts = @ + 1]
  /\ UNCHANGED <<control, channel, session, overlap>>

Stop ==
  /\ service.ServiceThread = "set"
  /\ service' = [service EXCEPT !.IsRunning = FALSE, !.ServiceThread = "joining",
                                !.nAtStop = n]
  /\ UNCHANGED <<control, channel, session, overlap>>

Joined ==
  /\ service.ServiceThread = "joining"
  /\ service.pc = "exited"
  /\ service' = [service EXCEPT !.ServiceThread = "null"]
  /\ UNCHANGED <<control, channel, session, overlap>>

(***************************************************************************)
(* The handshake on the control channel.                                   *)
(***************************************************************************)
OpenControl ==
  /\ \/ Goto("open", "failed") /\ UNCHANGED control
     \/ Goto("open", "request") /\ control' = [control EXCEPT !.event = FALSE]
  /\ UNCHANGED <<channel, session, overlap>>

\* Whatever is thrown in the handshake leaves the service thread.
SendVersionRequest ==
  /\ \/ /\ Goto("request", "response")
        /\ control' = [control EXCEPT !.requests = @ + 1]
     \/ Goto("request", "failed") /\ UNCHANGED control
  /\ UNCHANGED <<channel, session, overlap>>

AfterVersion(accepted) == IF accepted THEN "loop" ELSE "invalid"

\* Receive finds the answer in the ring, or goes on to wait for an interrupt;
\* PopPipePacket and SignalHost may throw.
ReceiveVersion ==
  /\ \/ /\ control.unread # << >>
        /\ Goto("response", AfterVersion(Head(control.unread)))
        /\ control' = [control EXCEPT !.unread = Tail(@)]
     \/ /\ control.unread = << >>
        /\ Goto("response", "wait")
        /\ UNCHANGED control
     \/ Goto("response", "failed") /\ UNCHANGED control
  /\ UNCHANGED <<channel, session, overlap>>

\* After the interrupt Receive returns an empty array without looking at the
\* ring again.  BytesToStructure then reads past the end of the array: the
\* answer the service thread looks at is arbitrary.  WaitHost throws when the
\* device is gone.
WaitVersion ==
  /\ \/ /\ control.event
        /\ \E accepted \in BOOLEAN : Goto("wait", AfterVersion(accepted))
        /\ control' = [control EXCEPT !.event = FALSE]
     \/ Goto("wait", "failed") /\ UNCHANGED control
  /\ UNCHANGED <<channel, session, overlap>>

(***************************************************************************)
(* The loop of the service thread.                                         *)
(***************************************************************************)
\* Faulty: IsRunning is not looked at.
CheckNothing ==
  /\ Goto("loop", "find")
  /\ UNCHANGED <<control, channel, session, overlap>>

CheckIsRunning ==
  /\ Goto("loop", IF service.IsRunning THEN "find" ELSE "exited")
  /\ UNCHANGED <<control, channel, session, overlap>>

\* The search ends when some instance is there.
WaitForDataChannel(c) ==
  /\ service.pc = "find"
  /\ n < MaxSessions
  /\ channel[c].offer = "yes"
  /\ service' = [service EXCEPT !.pc = "device", !.DataChannel = c]
  /\ UNCHANGED <<control, channel, session, overlap>>

\* The instance is looked up again and opened; it may be gone by then.
OpenDataChannel ==
  /\ service.pc = "device"
  /\ service' = [service EXCEPT !.pc = IF Gone(DataChannel) THEN "failed" ELSE "connect",
                                !.event = FALSE]
  /\ UNCHANGED <<control, channel, session, overlap>>

\* Some thread of an earlier session on channel c has not ended yet.
StaleThreads(c) ==
  \E m \in 1..n : /\ session[m].channel = c
                  /\ Alive(session[m].vmbus2tcp) \/ Alive(session[m].tcp2vmbus)

ConnectRdpServer ==
  /\ service.pc = "connect"
  /\ \/ /\ Goto("connect", "failed")
        /\ UNCHANGED <<session, overlap>>
     \/ /\ service' = [service EXCEPT !.pc = "first", !.n = @ + 1]
        /\ session' = [session EXCEPT ![n + 1] =
             [NoSession EXCEPT !.channel = DataChannel, !.socket = "open",
                               !.start = channel[DataChannel].Out]]
        /\ overlap' = overlap \cup {c \in {DataChannel} : StaleThreads(c)}
  /\ UNCHANGED <<control, channel>>

(***************************************************************************)
(* PopPipePacket: read the packet after the released ones, then release.   *)
(***************************************************************************)
\* Faulty: the ring is looked at only after an interrupt.
RingEmptyUntilInterrupt(c) ==
  channel[c].Out = Len(channel[c].inbound) \/ ~service.event
RingEmpty(c) == channel[c].Out = Len(channel[c].inbound)
NextKind(c) == channel[c].inbound[channel[c].Out + 1]
Popped(m) == channel[session[m].channel].inbound[session[m].packet]
\* Faulty: Out goes too far.
ReleaseOneTooMany(m) ==
  channel' = [channel EXCEPT ![session[m].channel].Out = session[m].packet + 1]
\* Faulty: Out is not written.
ReleaseNothing(m) == UNCHANGED channel
Release(m) == channel' = [channel EXCEPT ![session[m].channel].Out = session[m].packet]

(***************************************************************************)
(* The first PDU of a session, in the service thread.  Whatever is thrown  *)
(* is caught, and the relay threads start all the same.                    *)
(***************************************************************************)
FirstPop ==
  /\ service.pc = "first"
  /\ \/ /\ RingEmpty(DataChannel)
        /\ Goto("first", "firstWait")
        /\ UNCHANGED session
     \/ /\ ~RingEmpty(DataChannel) /\ NextKind(DataChannel) = "bad"
        /\ Goto("first", "spawn")
        /\ session' = [session EXCEPT ![n].first = "missed"]
     \/ /\ ~RingEmpty(DataChannel) /\ NextKind(DataChannel) # "bad"
        /\ Goto("first", "firstRelease")
        /\ session' = [session EXCEPT ![n].packet = channel[DataChannel].Out + 1]
  /\ UNCHANGED <<control, channel, overlap>>

\* An empty packet is taken for an empty ring.
FirstRelease ==
  /\ Goto("firstRelease", IF Popped(n) = "empty" THEN "firstWait" ELSE "firstSend")
  /\ Release(n)
  /\ UNCHANGED <<control, session, overlap>>

\* WaitHost returns, or throws because the device is gone; either way there is
\* no byte to patch.
FirstWait ==
  /\ service.pc = "firstWait"
  /\ service.event \/ Gone(DataChannel)
  /\ service' = [service EXCEPT !.pc = "spawn", !.event = FALSE]
  /\ session' = [session EXCEPT ![n].first = "missed"]
  /\ UNCHANGED <<control, channel, overlap>>

(***************************************************************************)
(* The RDP server gets the packet session m has popped: all of it, or its  *)
(* head.  The socket does not block, so Send may take only a part, and     *)
(* then either return the count, which nobody looks at, or throw.          *)
(***************************************************************************)
Forward(m, isPatched, isWhole) ==
  Append(session[m].forwarded,
         [packet |-> session[m].packet, patched |-> isPatched, whole |-> isWhole])

\* SignalHost, the patch and Send, each of which may throw.
FirstSend ==
  /\ Goto("firstSend", "spawn")
  /\ \/ /\ ~Gone(DataChannel) /\ session[n].socket = "open"
        /\ \E isWhole \in BOOLEAN, outcome \in {"patched", "lost"} :
             /\ isWhole => outcome = "patched"
             /\ session' = [session EXCEPT ![n].first = outcome,
                                           ![n].forwarded = Forward(n, TRUE, isWhole)]
     \/ session' = [session EXCEPT ![n].first = "lost"]
  /\ UNCHANGED <<control, channel, overlap>>

StartThreads ==
  /\ Goto("spawn", "watch")
  /\ session' = [session EXCEPT ![n].ShouldRunning = TRUE,
                                ![n].vmbus2tcp = "check", ![n].tcp2vmbus = "check"]
  /\ UNCHANGED <<control, channel, overlap>>

\* Faulty: waits for both threads to end.
SuperviseBoth ==
  /\ Goto("watch", "close")
  /\ ~Alive(session[n].vmbus2tcp) /\ ~Alive(session[n].tcp2vmbus)
  /\ session' = [session EXCEPT ![n].ShouldRunning = FALSE]
  /\ UNCHANGED <<control, channel, overlap>>

\* The service thread sees that a thread has ended and tells the other.
Supervise ==
  /\ Goto("watch", "close")
  /\ ~Alive(session[n].vmbus2tcp) \/ ~Alive(session[n].tcp2vmbus)
  /\ session' = [session EXCEPT ![n].ShouldRunning = FALSE]
  /\ UNCHANGED <<control, channel, overlap>>

\* Faulty: the connection stays open.
CloseNothing ==
  /\ Goto("close", "loop")
  /\ UNCHANGED <<control, channel, session, overlap>>

CloseRdpServer ==
  /\ Goto("close", "loop")
  /\ session' = [session EXCEPT ![n].socket = "closed"]
  /\ UNCHANGED <<control, channel, overlap>>

(***************************************************************************)
(* Vmbus2TcpThread of session m.                                           *)
(***************************************************************************)
VmbusGoto(m, from, to) ==
  /\ session[m].vmbus2tcp = from
  /\ session' = [session EXCEPT ![m].vmbus2tcp = to]

Late(m) == IF session[m].ShouldRunning THEN 0 ELSE 1

\* Faulty: ShouldRunning is not looked at.
VmbusCheckNothing(m) ==
  /\ VmbusGoto(m, "check", "pop")
  /\ UNCHANGED <<service, control, channel, overlap>>

VmbusCheck(m) ==
  /\ VmbusGoto(m, "check", IF session[m].ShouldRunning THEN "pop" ELSE "dead")
  /\ UNCHANGED <<service, control, channel, overlap>>

VmbusPop(m) ==
  LET c == session[m].channel
  IN  /\ session[m].vmbus2tcp = "pop"
      /\ \/ RingEmpty(c) /\ VmbusGoto(m, "pop", "check")
         \/ ~RingEmpty(c) /\ NextKind(c) = "bad" /\ VmbusGoto(m, "pop", "dead")
         \/ /\ ~RingEmpty(c) /\ NextKind(c) # "bad"
            /\ session' = [session EXCEPT ![m].vmbus2tcp = "release",
                                          ![m].packet = channel[c].Out + 1]
      /\ UNCHANGED <<service, control, channel, overlap>>

VmbusRelease(m) ==
  /\ session[m].vmbus2tcp = "release"
  /\ Release(m)
  /\ session' = [session EXCEPT
       ![m].vmbus2tcp = IF Popped(m) = "empty" THEN "check" ELSE "send",
       ![m].latePops = @ + Late(m)]
  /\ UNCHANGED <<service, control, overlap>>

\* Faulty: an exception of Send does not end the thread.
VmbusSendGoesOn(m) ==
  /\ session[m].vmbus2tcp = "send"
  /\ \/ /\ session[m].socket = "open"
        /\ \E isWhole \in BOOLEAN :
             session' = [session EXCEPT ![m].vmbus2tcp = "check",
                                        ![m].forwarded = Forward(m, FALSE, isWhole)]
     \/ VmbusGoto(m, "send", "check")
  /\ UNCHANGED <<service, control, channel, overlap>>

\* Send takes the packet or a part of it and the thread goes on, or it throws
\* and the thread ends, also after it has taken a part.  A server that has
\* closed may still take bytes it will never read.
VmbusSend(m) ==
  /\ session[m].vmbus2tcp = "send"
  /\ \/ /\ session[m].socket = "open"
        /\ \E isWhole \in BOOLEAN, next \in {"check", "dead"} :
             /\ isWhole => next = "check"
             /\ session' = [session EXCEPT ![m].vmbus2tcp = next,
                                           ![m].forwarded = Forward(m, FALSE, isWhole)]
     \/ session[m].socket = "peerClosed" /\ VmbusGoto(m, "send", "check")
     \/ VmbusGoto(m, "send", "dead")
  /\ UNCHANGED <<service, control, channel, overlap>>

(***************************************************************************)
(* Tcp2VmbusThread of session m.                                           *)
(***************************************************************************)
TcpGoto(m, from, to) ==
  /\ session[m].tcp2vmbus = from
  /\ session' = [session EXCEPT ![m].tcp2vmbus = to]

TcpCheck(m) ==
  /\ TcpGoto(m, "check", IF session[m].ShouldRunning THEN "receive" ELSE "dead")
  /\ UNCHANGED <<service, control, channel, overlap>>

\* When In was set back behind read, the ring looks full but for the chunks
\* between the two.
HasRoom(c) == channel[c].In >= channel[c].read =>
                channel[c].In - channel[c].read < OutCapacity

\* As much is taken from the socket as it has and as the ring has room for.
TcpReceive(m) ==
  LET ready == session[m].rx > 0 /\ HasRoom(session[m].channel)
  IN  /\ session[m].tcp2vmbus = "receive"
      /\ \/ session[m].socket = "closed" /\ TcpGoto(m, "receive", "dead")
         \/ session[m].socket # "closed" /\ ~ready /\ TcpGoto(m, "receive", "check")
         \/ /\ session[m].socket # "closed" /\ ready
            /\ session' = [session EXCEPT ![m].tcp2vmbus = "push", ![m].rx = @ - 1,
                                          ![m].received = @ + 1]
      /\ UNCHANGED <<service, control, channel, overlap>>

\* PushPipePacket reads In and Out and throws when the ring has no room.
TcpPush(m) ==
  /\ session[m].tcp2vmbus = "push"
  /\ \/ /\ HasRoom(session[m].channel)
        /\ session' = [session EXCEPT ![m].tcp2vmbus = "commit",
                                      ![m].at = channel[session[m].channel].In]
     \/ /\ ~HasRoom(session[m].channel)
        /\ TcpGoto(m, "push", "dead")
  /\ UNCHANGED <<service, control, channel, overlap>>

\* The packet is in the ring, and In becomes what it was, as read, plus the
\* packet: a thread of another session that pushed meanwhile is overwritten.
TcpCommit(m) ==
  /\ session[m].tcp2vmbus = "commit"
  /\ channel' = [channel EXCEPT ![session[m].channel].In = session[m].at + 1]
  /\ session' = [session EXCEPT ![m].tcp2vmbus = "signal", ![m].at = 0,
                                ![m].latePushes = @ + Late(m)]
  /\ UNCHANGED <<service, control, overlap>>

\* SignalHost fails when the device is gone.
TcpSignal(m) ==
  /\ TcpGoto(m, "signal", IF Gone(session[m].channel) THEN "dead" ELSE "check")
  /\ UNCHANGED <<service, control, channel, overlap>>

(***************************************************************************)
(* The host and the RDP server.                                            *)
(***************************************************************************)
AnswerVersion(accepted) ==
  /\ control.requests > 0
  /\ control' = [requests |-> control.requests - 1,
                 unread |-> Append(control.unread, accepted), event |-> TRUE,
                 answered |-> control.answered \cup {accepted}]
  /\ UNCHANGED <<service, channel, session, overlap>>

Offer(c) ==
  /\ channel[c].offer = "no"
  /\ channel' = [channel EXCEPT ![c].offer = "yes"]
  /\ UNCHANGED <<service, control, session, overlap>>

Rescind(c) ==
  /\ channel[c].offer = "yes"
  /\ channel' = [channel EXCEPT ![c].offer = "gone"]
  /\ UNCHANGED <<service, control, session, overlap>>

\* The host interrupts when it puts a packet in an empty ring.
HostSend(c, kind) ==
  /\ channel[c].offer = "yes"
  /\ Len(channel[c].inbound) < MaxPackets
  /\ channel' = [channel EXCEPT ![c].inbound = Append(@, kind)]
  /\ service' = [service EXCEPT !.event = @ \/ (c = DataChannel /\ RingEmpty(c))]
  /\ UNCHANGED <<control, session, overlap>>

HostRead(c) ==
  /\ channel[c].offer = "yes"
  /\ channel[c].read < channel[c].In
  /\ channel' = [channel EXCEPT ![c].read = @ + 1]
  /\ UNCHANGED <<service, control, session, overlap>>

ServerSend(m) ==
  /\ session[m].socket = "open"
  /\ session[m].rx + session[m].received < MaxChunks
  /\ session' = [session EXCEPT ![m].rx = @ + 1]
  /\ UNCHANGED <<service, control, channel, overlap>>

ServerClose(m) ==
  /\ session[m].socket = "open"
  /\ session' = [session EXCEPT ![m].socket = "peerClosed"]
  /\ UNCHANGED <<service, control, channel, overlap>>

-----------------------------------------------------------------------------
ServiceMain ==
  \/ OpenControl \/ SendVersionRequest \/ ReceiveVersion \/ WaitVersion
  \/ CheckIsRunning
  \/ \E c \in Channels : WaitForDataChannel(c)
  \/ OpenDataChannel \/ ConnectRdpServer
  \/ FirstPop \/ FirstRelease \/ FirstWait \/ FirstSend
  \/ StartThreads \/ Supervise \/ CloseRdpServer

Vmbus2Tcp(m) == VmbusCheck(m) \/ VmbusPop(m) \/ VmbusRelease(m) \/ VmbusSend(m)
Tcp2Vmbus(m) == TcpCheck(m) \/ TcpReceive(m) \/ TcpPush(m) \/ TcpCommit(m)
                \/ TcpSignal(m)

Host ==
  \/ \E accepted \in BOOLEAN : AnswerVersion(accepted)
  \/ \E c \in Channels : Offer(c) \/ Rescind(c) \/ HostRead(c)
  \/ \E c \in Channels, kind \in Kinds : HostSend(c, kind)

RdpServer == \E m \in Session : ServerSend(m) \/ ServerClose(m)

Next ==
  /\ ~Crashed
  /\ \/ Start \/ Stop \/ Joined
     \/ ServiceMain
     \/ \E m \in Session : Vmbus2Tcp(m) \/ Tcp2Vmbus(m)
     \/ Host
     \/ RdpServer

Spec == Init /\ [][Next]_vars

\* Every thread of the process runs in the end; the host and the RDP server
\* owe nothing.
FairSpec ==
  /\ Spec
  /\ WF_vars(~Crashed /\ ServiceMain)
  /\ WF_vars(~Crashed /\ Joined)
  /\ \A m \in Session : /\ WF_vars(~Crashed /\ Vmbus2Tcp(m))
                        /\ WF_vars(~Crashed /\ Tcp2Vmbus(m))

-----------------------------------------------------------------------------
ServicePlaces ==
  {"open", "request", "response", "wait", "loop", "find", "device", "connect", "first",
   "firstRelease", "firstWait", "firstSend", "spawn", "watch", "close", "exited",
   "failed", "invalid"}
ServiceRecord ==
  [IsRunning : BOOLEAN, ServiceThread : {"null", "set", "joining"}, pc : ServicePlaces,
   DataChannel : Channels \cup {NoChannel}, n : 0..MaxSessions, event : BOOLEAN,
   starts : 0..MaxStarts, nAtStop : 0..MaxSessions]
ControlRecord ==
  [requests : Nat, unread : Seq(BOOLEAN), event : BOOLEAN, answered : SUBSET BOOLEAN]
ChannelRecord ==
  [offer : {"no", "yes", "gone"}, inbound : Seq(Kinds), Out : Nat, In : Nat, read : Nat]
Forwarded == [packet : Nat, patched : BOOLEAN, whole : BOOLEAN]
SessionRecord ==
  [channel : Channels \cup {NoChannel}, ShouldRunning : BOOLEAN,
   socket : {"none", "open", "peerClosed", "closed"},
   vmbus2tcp : {"none", "check", "pop", "release", "send", "dead"},
   tcp2vmbus : {"none", "check", "receive", "push", "commit", "signal", "dead"},
   packet : Nat, rx : Nat, received : Nat, at : Nat, start : Nat,
   first : {"none", "missed", "patched", "lost"}, forwarded : Seq(Forwarded),
   latePops : Nat, latePushes : Nat]

TypeOK ==
  /\ service \in ServiceRecord
  /\ control \in ControlRecord
  /\ channel \in [Channels -> ChannelRecord]
  /\ \A c \in Channels : channel[c].Out <= Len(channel[c].inbound)
  /\ session \in [Session -> SessionRecord]
  /\ overlap \subseteq Channels

\* On a channel whose sessions never overlapped, no RDP server gets a packet
\* twice, or after a later one, across all sessions on that channel: Out only
\* moves forward as long as one thread at a time pops (SynthRdp.cs, a session
\* starts without joining the threads of the one before).
ForwardedInOrder ==
  \A a, b \in Session :
    /\ a <= b
    /\ session[a].channel = session[b].channel
    /\ session[a].channel \notin overlap
    => \A i \in 1..Len(session[a].forwarded), j \in 1..Len(session[b].forwarded) :
         a < b \/ i < j =>
           session[a].forwarded[i].packet < session[b].forwarded[j].packet

\* While a session is up, alone on its channel and connected, the RDP server
\* has got every packet the session has popped, or at least its head where Send
\* took only a part, unless Send threw at the first PDU: the relay loses bytes
\* inside Send and nowhere else, neither between the first PDU and the threads
\* nor between the pop and the Send.
UpSessionSkipsNothing ==
  \A m \in Session :
    LET s == session[m]
    IN  /\ s.vmbus2tcp \in {"check", "pop"} /\ s.socket = "open"
        /\ s.first # "lost" /\ s.channel \notin overlap
        => \A i \in (s.start + 1)..channel[s.channel].Out :
             \/ channel[s.channel].inbound[i] = "empty"
             \/ \E j \in 1..Len(s.forwarded) : s.forwarded[j].packet = i

\* A thread that outlives its session takes at most one packet from, and puts
\* at most one packet in, the rings that the next session may already use.
LateOnce ==
  \A m \in Session : session[m].latePops <= 1 /\ session[m].latePushes <= 1

\* Once Stop was called, at most one more session begins (SynthRdp.cs looks at
\* IsRunning before the search for a channel and not after it).
OneSessionAfterStop ==
  service.ServiceThread = "joining" => n <= service.nAtStop + 1

\* An exception that ends the process, a data channel that is gone again or an
\* RDP server that refuses, never cuts a session that is up: by then every
\* earlier session has closed its connection, also across Stop and Start.
CrashCutsNoSession ==
  Crashed => \A m \in Session : session[m].socket \in {"none", "closed"}

\* A packet that waits in the ring of a session that is up is popped in the
\* end, without any interrupt, unless the session ends first.
Waiting(m, i) ==
  /\ Alive(session[m].vmbus2tcp) /\ session[m].ShouldRunning
  /\ Len(channel[session[m].channel].inbound) >= i
PacketsArePopped ==
  \A m \in Session : \A i \in 1..MaxPackets :
    Waiting(m, i) ~> \/ Crashed \/ ~session[m].ShouldRunning
                     \/ channel[session[m].channel].Out >= i
                     \/ m # n

\* When one relay thread of a session ends, the other one ends too, and the
\* connection to the RDP server is closed, unless the process is gone.
SessionsAreTornDown ==
  \A m \in Session :
    (session[m].vmbus2tcp = "dead" \/ session[m].tcp2vmbus = "dead")
      ~> \/ Crashed
         \/ /\ session[m].vmbus2tcp = "dead" /\ session[m].tcp2vmbus = "dead"
            /\ session[m].socket = "closed"

\* Stop returns once the session it waits for has lost a relay thread, unless
\* the process is gone: no new session can keep it (SynthRdp.cs, Join).
StopReturns ==
  (/\ service.ServiceThread = "joining" /\ service.pc = "watch"
   /\ ~Alive(session[n].vmbus2tcp) \/ ~Alive(session[n].tcp2vmbus))
    ~> (service.ServiceThread = "null" \/ Crashed)

\* "X.224 Connection Request PDU (Patched)": the first packet of a session the
\* RDP server gets is patched to ask for PROTOCOL_RDP.
FirstIsPatched ==
  \A m \in Session :
    session[m].forwarded # << >> => session[m].forwarded[1].patched

\* "SynthRdpVersionResponse Invalid" is thrown only if the host has refused
\* the version.
InvalidMeansRefused == service.pc = "invalid" => FALSE \in control.answered

=============================================================================
