-------------------------- MODULE SynthRdp_proofs ---------------------------
(***************************************************************************)
(* Proofs about SynthRdp, for every set of channels, any number of starts, *)
(* sessions, packets and chunks, and any capacity of the rings.            *)
(***************************************************************************)
EXTENDS SynthRdp, TLAPS

(***************************************************************************)
(* The inductive invariant ties the place of the service thread to the     *)
(* sessions: only the last session can be without relay threads or have a  *)
(* connection, and Stop stops the service thread at its next look at       *)
(* IsRunning.  On a channel without overlap it also says where the one     *)
(* popping thread stands between reading Out and writing it.               *)
(***************************************************************************)
FirstPlaces == {"first", "firstRelease", "firstWait", "firstSend"}
BeforeThreads == FirstPlaces \cup {"spawn"}
SessionPlaces == BeforeThreads \cup {"watch", "close"}
Searching == {"open", "request", "response", "wait", "find", "device", "connect"}

ServiceOK ==
  /\ service.ServiceThread = "null" => service.pc = "exited"
  /\ service.pc \in {"device", "connect"} \cup SessionPlaces => DataChannel \in Channels
  /\ service.pc \in {"device", "connect"} => n < MaxSessions
  /\ service.pc \in SessionPlaces => n >= 1 /\ session[n].channel = DataChannel
  /\ service.pc \in FirstPlaces => session[n].first = "none"

StopOK ==
  service.ServiceThread = "joining" =>
    /\ ~service.IsRunning
    /\ n <= service.nAtStop + 1
    /\ service.pc \in Searching => n <= service.nAtStop

SocketsOK ==
  \A m \in Session :
    session[m].socket \in {"open", "peerClosed"} => m = n /\ service.pc \in SessionPlaces

\* A thread of an ended session is at most once at a place where it writes.
LateOK(s) ==
  /\ s.latePops <= 1 /\ s.latePushes <= 1
  /\ s.ShouldRunning \/ s.vmbus2tcp \in {"none", "pop", "release"} => s.latePops = 0
  /\ s.ShouldRunning \/ s.tcp2vmbus \in {"none", "receive", "push", "commit"} =>
       s.latePushes = 0

SessionOK(m) ==
  /\ m > n => session[m] = NoSession
  /\ m <= n =>
       /\ session[m].channel \in Channels
       /\ session[m].packet <= Len(channel[session[m].channel].inbound)
       /\ session[m].vmbus2tcp = "none" <=> m = n /\ service.pc \in BeforeThreads
       /\ session[m].tcp2vmbus = "none" <=> m = n /\ service.pc \in BeforeThreads
  /\ LateOK(session[m])

SessionsOK == \A m \in Session : SessionOK(m)

(***************************************************************************)
(* The thread that pops for session m is the service thread until the      *)
(* first PDU is done, and then Vmbus2Tcp.                                  *)
(***************************************************************************)
Place(m) ==
  IF m = n /\ service.pc = "firstRelease" THEN "release"
  ELSE IF m = n /\ service.pc = "firstSend" THEN "send"
  ELSE session[m].vmbus2tcp

\* Packet i was empty or has reached the RDP server.
Reached(s, i, inbound) ==
  \/ inbound[i] = "empty"
  \/ \E j \in 1..Len(s.forwarded) : s.forwarded[j].packet = i

RelayOK(s, place, Out, inbound) ==
  /\ s.start <= Out
  /\ \A i \in 1..Len(s.forwarded) :
       s.start < s.forwarded[i].packet /\ s.forwarded[i].packet <= Out
  /\ \A i, j \in 1..Len(s.forwarded) :
       i < j => s.forwarded[i].packet < s.forwarded[j].packet
  /\ place = "release" => s.packet = Out + 1
  /\ place = "send" => /\ s.packet = Out /\ s.start < Out
                       /\ \A i \in 1..Len(s.forwarded) : s.forwarded[i].packet < Out
  /\ place # "dead" /\ s.socket = "open" /\ s.first # "lost" =>
       \A i \in (s.start + 1)..(IF place = "send" THEN Out - 1 ELSE Out) :
         Reached(s, i, inbound)

RelaysOK ==
  \A m \in 1..n :
    session[m].channel \notin overlap =>
      RelayOK(session[m], Place(m), channel[session[m].channel].Out,
              channel[session[m].channel].inbound)

\* On a channel without overlap an earlier session has stopped popping before a
\* later one starts.
Alone(a, b) ==
  a < b /\ session[a].channel = session[b].channel /\ session[a].channel \notin overlap =>
    /\ session[a].vmbus2tcp = "dead"
    /\ \A i \in 1..Len(session[a].forwarded) :
         session[a].forwarded[i].packet <= session[b].start

AllAlone == \A a, b \in 1..n : Alone(a, b)

IInv ==
  /\ TypeOK /\ ServiceOK /\ StopOK /\ SocketsOK /\ SessionsOK
  /\ RelaysOK /\ AllAlone

-----------------------------------------------------------------------------
(***************************************************************************)
(* What the steps of the popping thread do to one session.                 *)
(***************************************************************************)
\* The parts of a session that the relay is about.
LEMMA SessionFields ==
  ASSUME NEW s \in SessionRecord
  PROVE  /\ s.packet \in Nat /\ s.start \in Nat /\ s.forwarded \in Seq(Forwarded)
         /\ Len(s.forwarded) \in Nat
         /\ \A i \in 1..Len(s.forwarded) : s.forwarded[i].packet \in Nat
         /\ s.latePops \in Nat /\ s.latePushes \in Nat /\ s.rx \in Nat /\ s.received \in Nat
         /\ s.at \in Nat
         /\ s.ShouldRunning \in BOOLEAN /\ s.channel \in Channels \cup {NoChannel}
<1>1. /\ s.packet \in Nat /\ s.start \in Nat /\ s.forwarded \in Seq(Forwarded)
      /\ s.latePops \in Nat /\ s.latePushes \in Nat /\ s.rx \in Nat /\ s.received \in Nat
      /\ s.at \in Nat
      /\ s.ShouldRunning \in BOOLEAN /\ s.channel \in Channels \cup {NoChannel}
  BY DEF SessionRecord
<1>2. Len(s.forwarded) \in Nat /\ \A i \in 1..Len(s.forwarded) : s.forwarded[i] \in Forwarded
  BY <1>1
<1> QED BY <1>1, <1>2 DEF Forwarded

\* A step that forwards nothing, takes nothing and moves to a place where less
\* or the same is said.
LEMMA RelayMoves ==
  ASSUME NEW s \in SessionRecord, NEW s2 \in SessionRecord, NEW p, NEW p2,
         NEW Out \in Nat, NEW inb,
         RelayOK(s, p, Out, inb),
         s2.start = s.start, s2.forwarded = s.forwarded,
         p2 = "release" => s2.packet = Out + 1,
         p2 = "send" => p = "send" /\ s2.packet = s.packet,
         p2 # "dead" /\ s2.socket = "open" /\ s2.first # "lost" =>
           /\ p # "dead" /\ s.socket = "open" /\ s.first # "lost"
           /\ p = "send" => p2 = "send"
  PROVE  RelayOK(s2, p2, Out, inb)
<1>1. \A i : Reached(s2, i, inb) <=> Reached(s, i, inb)
  BY DEF Reached
<1> QED BY <1>1, SessionFields DEF RelayOK

\* The host puts one more packet in the ring.
LEMMA RelayInbound ==
  ASSUME NEW s \in SessionRecord, NEW p, NEW Out \in Nat, NEW inb \in Seq(Kinds),
         NEW kind \in Kinds, Out <= Len(inb), RelayOK(s, p, Out, inb)
  PROVE  RelayOK(s, p, Out, Append(inb, kind))
<1>1. \A i \in 1..Len(inb) : Append(inb, kind)[i] = inb[i]
  OBVIOUS
<1>2. Len(inb) \in Nat /\ s.start \in Nat
  BY SessionFields
<1>3. ASSUME NEW i \in (s.start + 1)..(IF p = "send" THEN Out - 1 ELSE Out)
      PROVE  i \in 1..Len(inb)
  BY <1>2
<1>4. ASSUME NEW i \in (s.start + 1)..(IF p = "send" THEN Out - 1 ELSE Out),
             Reached(s, i, inb)
      PROVE  Reached(s, i, Append(inb, kind))
  BY <1>1, <1>3, <1>4 DEF Reached
<1> QED BY <1>4 DEF RelayOK

\* The packet that was read is released.
LEMMA RelayReleases ==
  ASSUME NEW s \in SessionRecord, NEW Out \in Nat, NEW inb,
         RelayOK(s, "release", Out, inb),
         NEW s2 \in SessionRecord, s2.start = s.start, s2.forwarded = s.forwarded,
         s2.packet = s.packet, s2.socket = s.socket, s2.first = s.first,
         NEW p2, p2 = "send" \/ inb[s.packet] = "empty",
         p2 # "release"
  PROVE  RelayOK(s2, p2, s.packet, inb)
<1>1. /\ s.packet = Out + 1 /\ s.start <= Out /\ s.packet - 1 = Out
      /\ s.packet \in Nat /\ s.start \in Nat
  <2>1. s.packet = Out + 1 /\ s.start <= Out
    BY DEF RelayOK
  <2>2. s.packet \in Nat /\ s.start \in Nat
    BY SessionFields
  <2> QED BY <2>1, <2>2
<1>2. \A i : Reached(s2, i, inb) <=> Reached(s, i, inb)
  BY DEF Reached
<1>3. inb[s.packet] = "empty" => Reached(s2, s.packet, inb)
  BY DEF Reached
<1>4. /\ s2.start <= s.packet
      /\ \A i \in 1..Len(s2.forwarded) :
           s2.start < s2.forwarded[i].packet /\ s2.forwarded[i].packet <= s.packet
      /\ \A i, j \in 1..Len(s2.forwarded) :
           i < j => s2.forwarded[i].packet < s2.forwarded[j].packet
  BY <1>1, SessionFields DEF RelayOK
<1>5. p2 = "send" => /\ s2.packet = s.packet /\ s2.start < s.packet
                     /\ \A i \in 1..Len(s2.forwarded) : s2.forwarded[i].packet < s.packet
  BY <1>1, SessionFields DEF RelayOK
<1>6. ASSUME p2 # "dead", s2.socket = "open", s2.first # "lost",
             NEW i \in (s2.start + 1)..(IF p2 = "send" THEN s.packet - 1 ELSE s.packet)
      PROVE  Reached(s2, i, inb)
  <2>1. CASE i = s.packet
    BY <1>1, <1>3, <1>6, <2>1
  <2>2. CASE i # s.packet
    <3>1. i \in (s.start + 1)..Out
      BY <1>1, <1>6, <2>2
    <3>2. \A k \in (s.start + 1)..Out : Reached(s, k, inb)
      BY <1>6 DEF RelayOK
    <3> QED BY <1>2, <3>1, <3>2
  <2> QED BY <2>1, <2>2
<1> QED BY <1>4, <1>5, <1>6 DEF RelayOK

\* The packet that was released reaches the RDP server.
LEMMA RelayForwards ==
  ASSUME NEW s \in SessionRecord, NEW Out \in Nat, NEW inb, NEW isPatched \in BOOLEAN,
         NEW isWhole \in BOOLEAN,
         RelayOK(s, "send", Out, inb),
         NEW s2 \in SessionRecord, s2.start = s.start,
         s2.forwarded =
           Append(s.forwarded,
                  [packet |-> s.packet, patched |-> isPatched, whole |-> isWhole]),
         s2.socket = s.socket, s2.first # "lost" => s.first # "lost",
         NEW p2, p2 \notin {"release", "send"}
  PROVE  RelayOK(s2, p2, Out, inb)
<1> DEFINE e == [packet |-> s.packet, patched |-> isPatched, whole |-> isWhole]
           L == Len(s.forwarded)
<1>1. /\ s.packet = Out /\ s.start < Out /\ s.start \in Nat /\ e.packet = Out
      /\ \A i \in 1..L : s.forwarded[i].packet < Out
  BY SessionFields DEF RelayOK
<1>2. /\ L \in Nat /\ Len(s2.forwarded) = L + 1
      /\ s2.forwarded[L + 1] = e
      /\ \A i \in 1..L : s2.forwarded[i] = s.forwarded[i]
  <2>1. s.forwarded \in Seq(Forwarded) /\ e \in Forwarded
    BY SessionFields DEF Forwarded
  <2> QED BY <2>1
<1> HIDE DEF e, L
<1>3. \A i \in 1..(L + 1) : i \in 1..L \/ i = L + 1
  BY <1>2
<1>4. \A i \in 1..(L + 1) : s2.forwarded[i].packet \in Nat
  BY <1>1, <1>2, <1>3, SessionFields DEF L
<1>5. \A i \in 1..Len(s2.forwarded) :
        s2.start < s2.forwarded[i].packet /\ s2.forwarded[i].packet <= Out
  BY <1>1, <1>2, <1>3, <1>4 DEF RelayOK, L
<1>6. \A i, j \in 1..Len(s2.forwarded) :
        i < j => s2.forwarded[i].packet < s2.forwarded[j].packet
  <2> SUFFICES ASSUME NEW i \in 1..(L + 1), NEW j \in 1..(L + 1), i < j
               PROVE  s2.forwarded[i].packet < s2.forwarded[j].packet
    BY <1>2
  <2>1. i \in 1..L
    BY <1>2
  <2>2. CASE j = L + 1
    BY <1>1, <1>2, <2>1, <2>2
  <2>3. CASE j \in 1..L
    BY <1>2, <2>1, <2>3 DEF RelayOK, L
  <2> QED BY <1>3, <2>2, <2>3
<1>7. \A i : Reached(s, i, inb) => Reached(s2, i, inb)
  <2> SUFFICES ASSUME NEW i, Reached(s, i, inb), inb[i] # "empty"
               PROVE  Reached(s2, i, inb)
    BY DEF Reached
  <2>1. PICK j \in 1..L : s.forwarded[j].packet = i
    BY DEF Reached, L
  <2>2. j \in 1..Len(s2.forwarded) /\ s2.forwarded[j].packet = i
    BY <1>2, <2>1
  <2> QED BY <2>2 DEF Reached
<1>8. Reached(s2, Out, inb)
  BY <1>1, <1>2 DEF Reached
<1>9. ASSUME s2.socket = "open", s2.first # "lost", NEW i \in (s2.start + 1)..Out
      PROVE  Reached(s2, i, inb)
  <2>1. CASE i = Out
    BY <1>8, <2>1
  <2>2. CASE i # Out
    <3>1. i \in (s.start + 1)..(Out - 1)
      BY <1>1, <1>9, <2>2
    <3>2. \A k \in (s.start + 1)..(Out - 1) : Reached(s, k, inb)
      BY <1>9 DEF RelayOK
    <3> QED BY <1>7, <3>1, <3>2
  <2> QED BY <2>1, <2>2
<1> QED BY <1>1, <1>5, <1>6, <1>9 DEF RelayOK

\* Another session goes on, on the ring of a session that has stopped popping.
LEMMA RelayIsDead ==
  ASSUME NEW s \in SessionRecord, NEW Out \in Nat, NEW Out2 \in Nat, Out <= Out2,
         NEW inb, NEW inb2, RelayOK(s, "dead", Out, inb)
  PROVE  RelayOK(s, "dead", Out2, inb2)
BY SessionFields DEF RelayOK

\* A session begins with the ring as it finds it.
LEMMA RelayBegins ==
  ASSUME NEW s \in SessionRecord, NEW Out \in Nat, NEW inb, s.start = Out,
         s.forwarded = << >>
  PROVE  RelayOK(s, "none", Out, inb)
<1>1. Len(s.forwarded) = 0 /\ \A i : i \notin 1..Len(s.forwarded)
  OBVIOUS
<1>2. \A i : i \notin (s.start + 1)..Out
  OBVIOUS
<1> QED BY <1>1, <1>2 DEF RelayOK

-----------------------------------------------------------------------------
(***************************************************************************)
(* Steps of the threads, the host and the RDP server.                      *)
(***************************************************************************)
InboundOf(m) == channel[session[m].channel].inbound
OutOf(m) == channel[session[m].channel].Out

\* What the invariant says of one session.
LEMMA SessionFacts ==
  ASSUME IInv, NEW m \in Session, m <= n
  PROVE  /\ session \in [Session -> SessionRecord] /\ session[m] \in SessionRecord
         /\ session[m].channel \in Channels /\ m \in 1..n
         /\ InboundOf(m) \in Seq(Kinds) /\ OutOf(m) \in Nat
         /\ Len(InboundOf(m)) \in Nat /\ OutOf(m) <= Len(InboundOf(m))
         /\ session[m].packet \in Nat /\ session[m].packet <= Len(InboundOf(m))
         /\ LateOK(session[m])
         /\ session[m].channel \notin overlap =>
              RelayOK(session[m], Place(m), OutOf(m), InboundOf(m))
<1>1. /\ session \in [Session -> SessionRecord] /\ session[m] \in SessionRecord
      /\ channel \in [Channels -> ChannelRecord] /\ n \in Nat
  BY DEF IInv, TypeOK, ServiceRecord, n
<1>2. /\ session[m].channel \in Channels /\ LateOK(session[m])
      /\ session[m].packet <= Len(InboundOf(m))
  BY DEF IInv, SessionsOK, SessionOK, InboundOf
<1>3. channel[session[m].channel] \in ChannelRecord
  BY <1>1, <1>2
<1>4. InboundOf(m) \in Seq(Kinds) /\ OutOf(m) \in Nat
  BY <1>3 DEF ChannelRecord, InboundOf, OutOf
<1>5. m \in 1..n /\ session[m].packet \in Nat /\ Len(InboundOf(m)) \in Nat
  BY <1>1, <1>4, SessionFields DEF Session
<1>6. OutOf(m) <= Len(InboundOf(m))
  BY <1>2 DEF IInv, TypeOK, InboundOf, OutOf
<1> QED BY <1>1, <1>2, <1>4, <1>5, <1>6 DEF IInv, RelaysOK, InboundOf, OutOf

LEMMA ServiceFacts ==
  ASSUME IInv
  PROVE  /\ service \in ServiceRecord /\ control \in ControlRecord
         /\ channel \in [Channels -> ChannelRecord] /\ overlap \subseteq Channels
         /\ n \in 0..MaxSessions /\ n \in Nat /\ MaxSessions \in Nat
         /\ service.nAtStop \in Nat /\ service.pc \in ServicePlaces
         /\ n >= 1 => n \in Session
<1>1. service \in ServiceRecord /\ control \in ControlRecord
  BY DEF IInv, TypeOK
<1>2. n \in 0..MaxSessions /\ MaxSessions \in Nat /\ service.nAtStop \in 0..MaxSessions
  BY <1>1, RelayAssumption DEF ServiceRecord, n
<1> QED BY <1>1, <1>2 DEF IInv, TypeOK, ServiceRecord, Session

\* A session changes, and with it the place of the service thread if it is the
\* last session.
LEMMA SessionStep ==
  ASSUME IInv, NEW m \in Session, m <= n, NEW s2 \in SessionRecord,
         session' = [session EXCEPT ![m] = s2],
         UNCHANGED <<control, overlap>>, service' \in ServiceRecord, service'.n = n,
         m = n \/ service' = service,
         channel' \in [Channels -> ChannelRecord],
         \A c \in Channels : /\ channel'[c].Out = channel[c].Out
                             /\ channel'[c].inbound = channel[c].inbound,
         s2.channel = session[m].channel, s2.start = session[m].start,
         s2.packet <= Len(InboundOf(m)),
         s2.vmbus2tcp = "none" <=> m = n /\ service'.pc \in BeforeThreads,
         s2.tcp2vmbus = "none" <=> m = n /\ service'.pc \in BeforeThreads,
         LateOK(s2),
         s2.socket \in {"open", "peerClosed"} =>
           session[m].socket \in {"open", "peerClosed"} /\ service'.pc \in SessionPlaces,
         session[m].vmbus2tcp = "dead" =>
           s2.vmbus2tcp = "dead" /\ s2.forwarded = session[m].forwarded,
         session[m].channel \notin overlap =>
           RelayOK(s2, Place(m)', OutOf(m), InboundOf(m))
  PROVE  TypeOK' /\ SocketsOK' /\ SessionsOK' /\ RelaysOK' /\ AllAlone'
<1>1. /\ session' \in [Session -> SessionRecord] /\ session'[m] = s2
      /\ \A k \in Session \ {m} : session'[k] = session[k]
  BY SessionFacts
<1>2. n' = n /\ n \in Nat /\ \A k \in 1..n : k \in Session
  BY ServiceFacts DEF n, Session
<1>3. TypeOK'
  BY <1>1 DEF IInv, TypeOK
<1>4. SocketsOK'
  <2> SUFFICES ASSUME NEW k \in Session, session'[k].socket \in {"open", "peerClosed"}
               PROVE  k = n /\ service'.pc \in SessionPlaces
    BY <1>2 DEF SocketsOK
  <2>1. CASE k = m
    BY <1>1, <2>1 DEF IInv, SocketsOK
  <2>2. CASE k # m
    BY <1>1, <2>2 DEF IInv, SocketsOK
  <2> QED BY <2>1, <2>2
<1>5. SessionsOK'
  <2> SUFFICES ASSUME NEW k \in Session
               PROVE  SessionOK(k)'
    BY DEF SessionsOK
  <2>0. SessionOK(k)
    BY DEF IInv, SessionsOK
  <2>1. CASE k = m
    <3>1. s2.channel \in Channels /\ channel'[s2.channel].inbound = InboundOf(m)
      BY SessionFacts DEF InboundOf
    <3>2. ~(m > n)
      BY <1>2 DEF Session
    <3> QED BY <1>1, <1>2, <2>1, <3>1, <3>2 DEF SessionOK
  <2>2. CASE k # m
    <3>1. session'[k] = session[k]
      BY <1>1, <2>2
    <3>2. k = n => service' = service
      BY <2>2
    <3>3. k <= n => channel'[session[k].channel].inbound = channel[session[k].channel].inbound
      BY <2>0 DEF SessionOK
    <3> QED BY <1>2, <2>0, <3>1, <3>2, <3>3 DEF SessionOK
  <2> QED BY <2>1, <2>2
<1>6. RelaysOK'
  <2> SUFFICES ASSUME NEW k \in 1..n, session'[k].channel \notin overlap
               PROVE  RelayOK(session'[k], Place(k)', channel'[session'[k].channel].Out,
                              channel'[session'[k].channel].inbound)
    BY <1>2 DEF RelaysOK
  <2>1. k \in Session /\ k <= n
    BY <1>2
  <2>2. CASE k = m
    BY <1>1, <2>2, SessionFacts DEF InboundOf, OutOf
  <2>3. CASE k # m
    <3>1. session'[k] = session[k] /\ session[k].channel \in Channels
      BY <1>1, <2>1, <2>3, SessionFacts
    <3>2. Place(k)' = Place(k)
      BY <1>2, <2>3, <3>1 DEF Place
    <3> QED BY <2>1, <3>1, <3>2, SessionFacts DEF InboundOf, OutOf
  <2> QED BY <2>2, <2>3
<1>7. AllAlone'
  <2> SUFFICES ASSUME NEW a \in 1..n, NEW b \in 1..n
               PROVE  Alone(a, b)'
    BY <1>2 DEF AllAlone
  <2>1. Alone(a, b) /\ a \in Session /\ b \in Session
    BY <1>2 DEF IInv, AllAlone
  <2>2. \A k \in Session : /\ session'[k].channel = session[k].channel
                           /\ session'[k].start = session[k].start
                           /\ session[k].vmbus2tcp = "dead" =>
                                /\ session'[k].vmbus2tcp = "dead"
                                /\ session'[k].forwarded = session[k].forwarded
    BY <1>1
  <2> QED BY <2>1, <2>2 DEF Alone
<1> QED BY <1>3, <1>4, <1>5, <1>6, <1>7

\* A relay thread, the host or the RDP server changes a session.
LEMMA ThreadStep ==
  ASSUME IInv, NEW m \in Session, m <= n, NEW s2 \in SessionRecord,
         session' = [session EXCEPT ![m] = s2],
         UNCHANGED <<service, control, overlap>>,
         channel' \in [Channels -> ChannelRecord],
         \A c \in Channels : /\ channel'[c].Out = channel[c].Out
                             /\ channel'[c].inbound = channel[c].inbound,
         s2.channel = session[m].channel, s2.start = session[m].start,
         s2.first = session[m].first,
         s2.packet <= Len(InboundOf(m)),
         s2.vmbus2tcp = "none" <=> session[m].vmbus2tcp = "none",
         s2.tcp2vmbus = "none" <=> session[m].tcp2vmbus = "none",
         LateOK(s2),
         s2.socket \in {"open", "peerClosed"} => session[m].socket \in {"open", "peerClosed"},
         session[m].vmbus2tcp = "dead" =>
           s2.vmbus2tcp = "dead" /\ s2.forwarded = session[m].forwarded,
         session[m].channel \notin overlap =>
           RelayOK(s2, Place(m)', OutOf(m), InboundOf(m))
  PROVE  IInv'
<1>1. /\ session'[m] = s2
      /\ \A k \in Session \ {m} : session'[k] = session[k]
  BY SessionFacts
<1>2. n' = n /\ service' \in ServiceRecord /\ service'.n = n /\ service' = service
  BY ServiceFacts DEF n
<1>3. ServiceOK'
  <2>1. n >= 1 => n \in Session
    BY ServiceFacts
  <2>2. n >= 1 => session'[n].channel = session[n].channel /\ session'[n].first = session[n].first
    BY <1>1, <2>1
  <2>3. service.pc \in FirstPlaces => service.pc \in SessionPlaces
    BY DEF BeforeThreads, SessionPlaces
  <2> QED BY <1>2, <2>2, <2>3 DEF IInv, ServiceOK, DataChannel
<1>4. StopOK'
  BY <1>2 DEF IInv, StopOK
<1>5. SessionOK(m)
  BY DEF IInv, SessionsOK
<1>6. /\ s2.vmbus2tcp = "none" <=> m = n /\ service'.pc \in BeforeThreads
      /\ s2.tcp2vmbus = "none" <=> m = n /\ service'.pc \in BeforeThreads
  BY <1>2, <1>5 DEF SessionOK
<1>7. s2.socket \in {"open", "peerClosed"} =>
           session[m].socket \in {"open", "peerClosed"} /\ service'.pc \in SessionPlaces
  BY <1>2 DEF IInv, SocketsOK
<1>8. TypeOK' /\ SocketsOK' /\ SessionsOK' /\ RelaysOK' /\ AllAlone'
  BY <1>2, <1>6, <1>7, SessionStep
<1> QED BY <1>3, <1>4, <1>8 DEF IInv

\* Vmbus2Tcp pops once it was started.
LEMMA PlaceOfThread ==
  ASSUME IInv, NEW m \in Session, m <= n, session[m].vmbus2tcp # "none"
  PROVE  Place(m) = session[m].vmbus2tcp
<1>1. ~(m = n /\ service.pc \in BeforeThreads)
  BY DEF IInv, SessionsOK, SessionOK
<1> QED BY <1>1 DEF Place, BeforeThreads, FirstPlaces

\* A session with a thread or a connection has begun.
LEMMA HasBegun ==
  ASSUME IInv, NEW m \in Session,
         \/ session[m].vmbus2tcp # "none" \/ session[m].tcp2vmbus # "none"
         \/ session[m].socket # "none"
  PROVE  m <= n
<1>1. m > n => session[m] = NoSession
  BY DEF IInv, SessionsOK, SessionOK
<1>2. m \in Nat /\ n \in Nat
  BY ServiceFacts DEF Session
<1> QED BY <1>1, <1>2 DEF NoSession

\* Vmbus2Tcp goes to another place and does nothing else.
LEMMA VmbusMoveKeepsInv ==
  ASSUME IInv, NEW m \in Session, NEW p \in {"check", "pop", "send"},
         NEW q \in {"check", "pop", "dead"}, VmbusGoto(m, p, q),
         UNCHANGED <<service, control, channel, overlap>>,
         q = "pop" => session[m].latePops = 0,
         p = "send" => q = "dead" \/ session[m].socket # "open"
  PROVE  IInv'
<1> DEFINE s == session[m]
           s2 == [session[m] EXCEPT !.vmbus2tcp = q]
<1>0. session[m].vmbus2tcp = p /\ m <= n
  BY HasBegun DEF VmbusGoto
<1>1. /\ s2 \in SessionRecord /\ s2.vmbus2tcp = q /\ s2.tcp2vmbus = s.tcp2vmbus
      /\ s2.channel = s.channel /\ s2.start = s.start /\ s2.first = s.first
      /\ s2.packet = s.packet /\ s2.socket = s.socket /\ s2.forwarded = s.forwarded
      /\ s2.latePops = s.latePops /\ s2.latePushes = s.latePushes
      /\ s2.ShouldRunning = s.ShouldRunning
  BY <1>0, SessionFacts DEF SessionRecord
<1>2. session' = [session EXCEPT ![m] = s2]
  BY DEF VmbusGoto
<1> HIDE DEF s2
<1>3. LateOK(s2)
  BY <1>0, <1>1, SessionFacts DEF LateOK
<1>4. Place(m) = p /\ Place(m)' = q
  <2>1. Place(m) = p /\ ~(m = n /\ service.pc \in BeforeThreads)
    BY <1>0, PlaceOfThread DEF IInv, SessionsOK, SessionOK
  <2>2. session'[m] = s2
    BY <1>0, <1>2, SessionFacts
  <2> QED BY <1>1, <2>1, <2>2 DEF Place, n, BeforeThreads, FirstPlaces
<1>5. ASSUME session[m].channel \notin overlap
      PROVE  RelayOK(s2, q, OutOf(m), InboundOf(m))
  BY <1>0, <1>1, <1>4, <1>5, SessionFacts, RelayMoves
<1> QED BY <1>0, <1>1, <1>2, <1>3, <1>4, <1>5, SessionFacts, ServiceFacts, ThreadStep

LEMMA VmbusCheckKeepsInv ==
  ASSUME IInv, NEW m \in Session, VmbusCheck(m)
  PROVE  IInv'
<1>1. session[m].vmbus2tcp = "check" /\ m <= n
  BY HasBegun DEF VmbusCheck, VmbusGoto
<1>2. session[m].ShouldRunning => session[m].latePops = 0
  BY <1>1, SessionFacts DEF LateOK
<1>3. CASE session[m].ShouldRunning
  BY <1>2, <1>3, VmbusMoveKeepsInv DEF VmbusCheck
<1>4. CASE ~session[m].ShouldRunning
  BY <1>4, VmbusMoveKeepsInv DEF VmbusCheck
<1> QED BY <1>3, <1>4

\* The packet after the released ones is read.
LEMMA VmbusPopKeepsInv ==
  ASSUME IInv, NEW m \in Session, VmbusPop(m)
  PROVE  IInv'
<1> DEFINE s == session[m]
           c == session[m].channel
<1>0. /\ session[m].vmbus2tcp = "pop" /\ m <= n
      /\ UNCHANGED <<service, control, channel, overlap>>
  BY HasBegun DEF VmbusPop
<1>1. CASE VmbusGoto(m, "pop", "check") \/ VmbusGoto(m, "pop", "dead")
  BY <1>0, <1>1, VmbusMoveKeepsInv
<1>2. CASE /\ ~RingEmpty(c)
           /\ session' = [session EXCEPT ![m].vmbus2tcp = "release",
                                         ![m].packet = channel[c].Out + 1]
  <2> DEFINE s2 == [session[m] EXCEPT !.vmbus2tcp = "release", !.packet = OutOf(m) + 1]
  <2>1. OutOf(m) + 1 \in Nat /\ OutOf(m) + 1 <= Len(InboundOf(m))
    BY <1>0, <1>2, SessionFacts DEF RingEmpty, OutOf, InboundOf
  <2>2. /\ s2 \in SessionRecord /\ s2.vmbus2tcp = "release" /\ s2.tcp2vmbus = s.tcp2vmbus
        /\ s2.channel = s.channel /\ s2.start = s.start /\ s2.first = s.first
        /\ s2.packet = OutOf(m) + 1 /\ s2.socket = s.socket /\ s2.forwarded = s.forwarded
        /\ s2.latePops = s.latePops /\ s2.latePushes = s.latePushes
        /\ s2.ShouldRunning = s.ShouldRunning
    BY <1>0, <2>1, SessionFacts DEF SessionRecord
  <2>3. session' = [session EXCEPT ![m] = s2]
    BY <1>2 DEF OutOf
  <2> HIDE DEF s2
  <2>4. LateOK(s2)
    BY <1>0, <2>2, SessionFacts DEF LateOK
  <2>5. Place(m) = "pop" /\ Place(m)' = "release"
    <3>1. Place(m) = "pop" /\ ~(m = n /\ service.pc \in BeforeThreads)
      BY <1>0, PlaceOfThread DEF IInv, SessionsOK, SessionOK
    <3>2. session'[m] = s2
      BY <1>0, <2>3, SessionFacts
    <3> QED BY <1>0, <2>2, <3>1, <3>2 DEF Place, n, BeforeThreads, FirstPlaces
  <2>6. ASSUME session[m].channel \notin overlap
        PROVE  RelayOK(s2, "release", OutOf(m), InboundOf(m))
    BY <1>0, <2>2, <2>5, <2>6, SessionFacts, RelayMoves
  <2> QED BY <1>0, <2>1, <2>2, <2>3, <2>4, <2>5, <2>6, SessionFacts, ServiceFacts, ThreadStep
<1> QED BY <1>1, <1>2 DEF VmbusPop

\* The packet popped or its head reaches the RDP server, or the thread ends.
LEMMA VmbusSendKeepsInv ==
  ASSUME IInv, NEW m \in Session, VmbusSend(m)
  PROVE  IInv'
<1> DEFINE s == session[m]
<1>0. /\ session[m].vmbus2tcp = "send" /\ m <= n
      /\ UNCHANGED <<service, control, channel, overlap>>
  BY HasBegun DEF VmbusSend
<1>1. CASE session[m].socket = "peerClosed" /\ VmbusGoto(m, "send", "check")
  BY <1>0, <1>1, VmbusMoveKeepsInv
<1>2. CASE VmbusGoto(m, "send", "dead")
  BY <1>0, <1>2, VmbusMoveKeepsInv
<1>3. ASSUME NEW isWhole \in BOOLEAN, NEW next \in {"check", "dead"},
             session' = [session EXCEPT ![m].vmbus2tcp = next,
                                        ![m].forwarded = Forward(m, FALSE, isWhole)]
      PROVE  IInv'
  <2> DEFINE e == [packet |-> session[m].packet, patched |-> FALSE, whole |-> isWhole]
             s2 == [session[m] EXCEPT !.vmbus2tcp = next,
                                      !.forwarded = Forward(m, FALSE, isWhole)]
  <2>1. Forward(m, FALSE, isWhole) \in Seq(Forwarded)
    <3>1. session[m].forwarded \in Seq(Forwarded) /\ session[m].packet \in Nat
      BY <1>0, SessionFacts, SessionFields
    <3>2. e \in Forwarded
      BY <3>1 DEF Forwarded
    <3> QED BY <3>1, <3>2 DEF Forward
  <2>2. /\ s2 \in SessionRecord /\ s2.vmbus2tcp = next /\ s2.tcp2vmbus = s.tcp2vmbus
        /\ s2.channel = s.channel /\ s2.start = s.start /\ s2.first = s.first
        /\ s2.packet = s.packet /\ s2.socket = s.socket
        /\ s2.forwarded = Forward(m, FALSE, isWhole)
        /\ s2.latePops = s.latePops /\ s2.latePushes = s.latePushes
        /\ s2.ShouldRunning = s.ShouldRunning
    BY <1>0, <2>1, SessionFacts DEF SessionRecord
  <2>3. session' = [session EXCEPT ![m] = s2]
    BY <1>3
  <2> HIDE DEF s2
  <2>4. LateOK(s2)
    BY <1>0, <2>2, SessionFacts DEF LateOK
  <2>5. Place(m) = "send" /\ Place(m)' = next
    <3>1. Place(m) = "send" /\ ~(m = n /\ service.pc \in BeforeThreads)
      BY <1>0, PlaceOfThread DEF IInv, SessionsOK, SessionOK
    <3>2. session'[m] = s2
      BY <1>0, <2>3, SessionFacts
    <3> QED BY <1>0, <2>2, <3>1, <3>2 DEF Place, n, BeforeThreads, FirstPlaces
  <2>6. ASSUME session[m].channel \notin overlap
        PROVE  RelayOK(s2, next, OutOf(m), InboundOf(m))
    <3>1. RelayOK(session[m], "send", OutOf(m), InboundOf(m))
      BY <1>0, <2>5, <2>6, SessionFacts
    <3>2. s2.forwarded = Append(session[m].forwarded, e)
      BY <2>2 DEF Forward
    <3> QED BY <1>0, <2>2, <3>1, <3>2, SessionFacts, RelayForwards
  <2> QED BY <1>0, <2>2, <2>3, <2>4, <2>5, <2>6, SessionFacts, ServiceFacts, ThreadStep
<1> QED BY <1>1, <1>2, <1>3 DEF VmbusSend

-----------------------------------------------------------------------------
\* A step of Tcp2Vmbus or of the RDP server, which has nothing to do with the
\* packets of the host.
LEMMA OtherDirectionKeepsInv ==
  ASSUME IInv, NEW m \in Session, m <= n, NEW s2 \in SessionRecord,
         session' = [session EXCEPT ![m] = s2],
         UNCHANGED <<service, control, overlap>>,
         channel' \in [Channels -> ChannelRecord],
         \A c \in Channels : /\ channel'[c].Out = channel[c].Out
                             /\ channel'[c].inbound = channel[c].inbound,
         s2.channel = session[m].channel, s2.start = session[m].start,
         s2.first = session[m].first, s2.packet = session[m].packet,
         s2.vmbus2tcp = session[m].vmbus2tcp, s2.forwarded = session[m].forwarded,
         s2.tcp2vmbus = "none" <=> session[m].tcp2vmbus = "none",
         LateOK(s2),
         \/ s2.socket = session[m].socket
         \/ session[m].socket = "open" /\ s2.socket = "peerClosed"
  PROVE  IInv'
<1>1. Place(m)' = Place(m)
  <2>1. session'[m] = s2
    BY SessionFacts
  <2> QED BY <2>1 DEF Place, n
<1>2. ASSUME session[m].channel \notin overlap
      PROVE  RelayOK(s2, Place(m), OutOf(m), InboundOf(m))
  <2>1. RelayOK(session[m], Place(m), OutOf(m), InboundOf(m))
    BY <1>2, SessionFacts
  <2>2. Place(m) = "release" => s2.packet = OutOf(m) + 1
    BY <2>1 DEF RelayOK
  <2> QED BY <2>1, <2>2, SessionFacts, RelayMoves
<1> QED BY <1>1, <1>2, SessionFacts, ThreadStep

LEMMA TcpMoveKeepsInv ==
  ASSUME IInv, NEW m \in Session, NEW p \in {"check", "receive", "push", "signal"},
         NEW q \in {"check", "receive", "dead"}, TcpGoto(m, p, q),
         UNCHANGED <<service, control, channel, overlap>>,
         q = "receive" => session[m].latePushes = 0
  PROVE  IInv'
<1> DEFINE s == session[m]
           s2 == [session[m] EXCEPT !.tcp2vmbus = q]
<1>0. session[m].tcp2vmbus = p /\ m <= n
  BY HasBegun DEF TcpGoto
<1>1. /\ s2 \in SessionRecord /\ s2.vmbus2tcp = s.vmbus2tcp /\ s2.tcp2vmbus = q
      /\ s2.channel = s.channel /\ s2.start = s.start /\ s2.first = s.first
      /\ s2.packet = s.packet /\ s2.socket = s.socket /\ s2.forwarded = s.forwarded
      /\ s2.latePops = s.latePops /\ s2.latePushes = s.latePushes
      /\ s2.ShouldRunning = s.ShouldRunning
  BY <1>0, SessionFacts DEF SessionRecord
<1>2. session' = [session EXCEPT ![m] = s2]
  BY DEF TcpGoto
<1> HIDE DEF s2
<1>3. LateOK(s2)
  BY <1>0, <1>1, SessionFacts DEF LateOK
<1> QED BY <1>0, <1>1, <1>2, <1>3, ServiceFacts, OtherDirectionKeepsInv

LEMMA TcpCheckKeepsInv ==
  ASSUME IInv, NEW m \in Session, TcpCheck(m)
  PROVE  IInv'
<1>1. session[m].tcp2vmbus = "check" /\ m <= n
  BY HasBegun DEF TcpCheck, TcpGoto
<1>2. session[m].ShouldRunning => session[m].latePushes = 0
  BY <1>1, SessionFacts DEF LateOK
<1>3. CASE session[m].ShouldRunning
  BY <1>2, <1>3, TcpMoveKeepsInv DEF TcpCheck
<1>4. CASE ~session[m].ShouldRunning
  BY <1>4, TcpMoveKeepsInv DEF TcpCheck
<1> QED BY <1>3, <1>4

LEMMA TcpReceiveKeepsInv ==
  ASSUME IInv, NEW m \in Session, TcpReceive(m)
  PROVE  IInv'
<1> DEFINE s == session[m]
<1>0. /\ session[m].tcp2vmbus = "receive" /\ m <= n
      /\ UNCHANGED <<service, control, channel, overlap>>
  BY HasBegun DEF TcpReceive
<1>1. CASE TcpGoto(m, "receive", "dead") \/ TcpGoto(m, "receive", "check")
  BY <1>0, <1>1, TcpMoveKeepsInv
<1>2. CASE /\ s.rx > 0
           /\ session' = [session EXCEPT ![m].tcp2vmbus = "push", ![m].rx = @ - 1,
                                         ![m].received = @ + 1]
  <2> DEFINE s2 == [session[m] EXCEPT !.tcp2vmbus = "push", !.rx = @ - 1, !.received = @ + 1]
  <2>1. s.rx - 1 \in Nat /\ s.received + 1 \in Nat
    BY <1>0, <1>2, SessionFacts, SessionFields
  <2>2. /\ s2 \in SessionRecord /\ s2.vmbus2tcp = s.vmbus2tcp /\ s2.tcp2vmbus = "push"
        /\ s2.channel = s.channel /\ s2.start = s.start /\ s2.first = s.first
        /\ s2.packet = s.packet /\ s2.socket = s.socket /\ s2.forwarded = s.forwarded
        /\ s2.latePops = s.latePops /\ s2.latePushes = s.latePushes
        /\ s2.ShouldRunning = s.ShouldRunning
    BY <1>0, <2>1, SessionFacts DEF SessionRecord
  <2>3. session' = [session EXCEPT ![m] = s2]
    BY <1>2
  <2> HIDE DEF s2
  <2>4. LateOK(s2)
    BY <1>0, <2>2, SessionFacts DEF LateOK
  <2> QED BY <1>0, <2>2, <2>3, <2>4, ServiceFacts, OtherDirectionKeepsInv
<1> QED BY <1>0, <1>1, <1>2 DEF TcpReceive

LEMMA TcpPushKeepsInv ==
  ASSUME IInv, NEW m \in Session, TcpPush(m)
  PROVE  IInv'
<1> DEFINE s == session[m]
           c == session[m].channel
<1>0. /\ session[m].tcp2vmbus = "push" /\ m <= n
      /\ UNCHANGED <<service, control, channel, overlap>>
  BY HasBegun DEF TcpPush
<1>1. CASE TcpGoto(m, "push", "dead")
  BY <1>0, <1>1, TcpMoveKeepsInv
<1>2. CASE session' = [session EXCEPT ![m].tcp2vmbus = "commit", ![m].at = channel[c].In]
  <2> DEFINE s2 == [session[m] EXCEPT !.tcp2vmbus = "commit", !.at = channel[c].In]
  <2>1. channel[c].In \in Nat
    <3>1. c \in Channels /\ channel[c] \in ChannelRecord
      BY <1>0, SessionFacts, ServiceFacts
    <3> QED BY <3>1 DEF ChannelRecord
  <2>2. /\ s2 \in SessionRecord /\ s2.vmbus2tcp = s.vmbus2tcp /\ s2.tcp2vmbus = "commit"
        /\ s2.channel = s.channel /\ s2.start = s.start /\ s2.first = s.first
        /\ s2.packet = s.packet /\ s2.socket = s.socket /\ s2.forwarded = s.forwarded
        /\ s2.latePops = s.latePops /\ s2.latePushes = s.latePushes
        /\ s2.ShouldRunning = s.ShouldRunning
    BY <1>0, <2>1, SessionFacts DEF SessionRecord
  <2>3. session' = [session EXCEPT ![m] = s2]
    BY <1>2
  <2> HIDE DEF s2
  <2>4. LateOK(s2)
    BY <1>0, <2>2, SessionFacts DEF LateOK
  <2> QED BY <1>0, <2>2, <2>3, <2>4, ServiceFacts, OtherDirectionKeepsInv
<1> QED BY <1>0, <1>1, <1>2 DEF TcpPush

\* In is written, also by a thread whose session has ended.
LEMMA TcpCommitKeepsInv ==
  ASSUME IInv, NEW m \in Session, TcpCommit(m)
  PROVE  IInv'
<1> DEFINE s == session[m]
           c == session[m].channel
<1>0. /\ session[m].tcp2vmbus = "commit" /\ m <= n /\ UNCHANGED <<service, control, overlap>>
  BY HasBegun DEF TcpCommit
<1>1. /\ channel' \in [Channels -> ChannelRecord]
      /\ \A x \in Channels : /\ channel'[x].Out = channel[x].Out
                             /\ channel'[x].inbound = channel[x].inbound
  <2>1. c \in Channels /\ channel[c] \in ChannelRecord /\ s.at + 1 \in Nat
    BY <1>0, SessionFacts, ServiceFacts, SessionFields
  <2> DEFINE r == [channel[c] EXCEPT !.In = s.at + 1]
  <2>2. r \in ChannelRecord /\ r.Out = channel[c].Out /\ r.inbound = channel[c].inbound
    BY <2>1 DEF ChannelRecord
  <2>3. channel' = [channel EXCEPT ![c] = r]
    BY DEF TcpCommit
  <2> HIDE DEF r
  <2> QED BY <2>1, <2>2, <2>3, ServiceFacts
<1> DEFINE s2 == [session[m] EXCEPT !.tcp2vmbus = "signal", !.at = 0,
                                    !.latePushes = @ + Late(m)]
<1>2. /\ s.latePushes = 0 /\ Late(m) \in {0, 1}
      /\ s.ShouldRunning => Late(m) = 0
      /\ s.latePushes + Late(m) \in Nat
  BY <1>0, SessionFacts DEF LateOK, Late
<1>3. /\ s2 \in SessionRecord /\ s2.vmbus2tcp = s.vmbus2tcp /\ s2.tcp2vmbus = "signal"
      /\ s2.channel = s.channel /\ s2.start = s.start /\ s2.first = s.first
      /\ s2.packet = s.packet /\ s2.socket = s.socket /\ s2.forwarded = s.forwarded
      /\ s2.latePops = s.latePops /\ s2.latePushes = s.latePushes + Late(m)
      /\ s2.ShouldRunning = s.ShouldRunning
  <2>1. s \in SessionRecord
    BY <1>0, SessionFacts
  <2> DEFINE late == s.latePushes + Late(m)
  <2>2. late \in Nat
    BY <1>2
  <2>3. s2 = [s EXCEPT !.tcp2vmbus = "signal", !.at = 0, !.latePushes = late]
    OBVIOUS
  <2> HIDE DEF s, late, s2
  <2>4. s2 \in SessionRecord
    BY <2>1, <2>2, <2>3 DEF SessionRecord
  <2>5. /\ s2.vmbus2tcp = s.vmbus2tcp /\ s2.tcp2vmbus = "signal"
        /\ s2.channel = s.channel /\ s2.start = s.start /\ s2.first = s.first
        /\ s2.packet = s.packet /\ s2.socket = s.socket /\ s2.forwarded = s.forwarded
        /\ s2.latePops = s.latePops /\ s2.latePushes = late
        /\ s2.ShouldRunning = s.ShouldRunning
    BY <2>1, <2>3 DEF SessionRecord
  <2> QED BY <2>4, <2>5 DEF late
<1>4. session' = [session EXCEPT ![m] = s2]
  BY DEF TcpCommit
<1> HIDE DEF s2
<1>5. LateOK(s2)
  <2>1. s2.latePushes = Late(m)
    BY <1>2, <1>3
  <2> QED BY <1>0, <1>2, <1>3, <2>1, SessionFacts DEF LateOK
<1> QED BY <1>0, <1>1, <1>3, <1>4, <1>5, OtherDirectionKeepsInv

LEMMA TcpSignalKeepsInv ==
  ASSUME IInv, NEW m \in Session, TcpSignal(m)
  PROVE  IInv'
<1>1. CASE TcpGoto(m, "signal", "dead")
  BY <1>1, TcpMoveKeepsInv DEF TcpSignal
<1>2. CASE TcpGoto(m, "signal", "check")
  BY <1>2, TcpMoveKeepsInv DEF TcpSignal
<1> QED BY <1>1, <1>2 DEF TcpSignal

\* The RDP server sends a chunk or closes the connection.
LEMMA RdpServerKeepsInv ==
  ASSUME IInv, RdpServer
  PROVE  IInv'
<1>0. PICK m \in Session : ServerSend(m) \/ ServerClose(m)
  BY DEF RdpServer
<1> DEFINE s == session[m]
<1>1. /\ session[m].socket = "open" /\ m <= n
      /\ UNCHANGED <<service, control, channel, overlap>>
  BY <1>0, HasBegun DEF ServerSend, ServerClose
<1>2. CASE ServerSend(m)
  <2> DEFINE s2 == [session[m] EXCEPT !.rx = @ + 1]
  <2>1. s.rx + 1 \in Nat
    BY <1>1, SessionFacts, SessionFields
  <2>2. /\ s2 \in SessionRecord /\ s2.vmbus2tcp = s.vmbus2tcp /\ s2.tcp2vmbus = s.tcp2vmbus
        /\ s2.channel = s.channel /\ s2.start = s.start /\ s2.first = s.first
        /\ s2.packet = s.packet /\ s2.socket = s.socket /\ s2.forwarded = s.forwarded
        /\ s2.latePops = s.latePops /\ s2.latePushes = s.latePushes
        /\ s2.ShouldRunning = s.ShouldRunning
    BY <1>1, <2>1, SessionFacts DEF SessionRecord
  <2>3. session' = [session EXCEPT ![m] = s2]
    BY <1>2 DEF ServerSend
  <2> HIDE DEF s2
  <2>4. LateOK(s2)
    BY <1>1, <2>2, SessionFacts DEF LateOK
  <2> QED BY <1>1, <2>2, <2>3, <2>4, ServiceFacts, OtherDirectionKeepsInv
<1>3. CASE ServerClose(m)
  <2> DEFINE s2 == [session[m] EXCEPT !.socket = "peerClosed"]
  <2>2. /\ s2 \in SessionRecord /\ s2.vmbus2tcp = s.vmbus2tcp /\ s2.tcp2vmbus = s.tcp2vmbus
        /\ s2.channel = s.channel /\ s2.start = s.start /\ s2.first = s.first
        /\ s2.packet = s.packet /\ s2.socket = "peerClosed" /\ s2.forwarded = s.forwarded
        /\ s2.latePops = s.latePops /\ s2.latePushes = s.latePushes
        /\ s2.ShouldRunning = s.ShouldRunning
    BY <1>1, SessionFacts DEF SessionRecord
  <2>3. session' = [session EXCEPT ![m] = s2]
    BY <1>3 DEF ServerClose
  <2> HIDE DEF s2
  <2>4. LateOK(s2)
    BY <1>1, <2>2, SessionFacts DEF LateOK
  <2> QED BY <1>1, <2>2, <2>3, <2>4, ServiceFacts, OtherDirectionKeepsInv
<1> QED BY <1>0, <1>2, <1>3

-----------------------------------------------------------------------------
\* Out is written: the packet counts as released.  On a channel without overlap
\* no other session pops, so Out moves one packet forward.
LEMMA ReleaseStep ==
  ASSUME IInv, NEW m \in Session, m <= n, Place(m) = "release",
         session[m].vmbus2tcp # "dead", Release(m),
         NEW s2 \in SessionRecord, session' = [session EXCEPT ![m] = s2],
         UNCHANGED <<control, overlap>>, service' \in ServiceRecord, service'.n = n,
         m = n \/ service' = service,
         s2.channel = session[m].channel, s2.start = session[m].start,
         s2.first = session[m].first, s2.packet = session[m].packet,
         s2.socket = session[m].socket, s2.forwarded = session[m].forwarded,
         s2.vmbus2tcp = "none" <=> m = n /\ service'.pc \in BeforeThreads,
         s2.tcp2vmbus = "none" <=> m = n /\ service'.pc \in BeforeThreads,
         LateOK(s2),
         service.pc \in SessionPlaces => service'.pc \in SessionPlaces,
         Place(m)' # "release", Place(m)' = "send" \/ Popped(m) = "empty"
  PROVE  TypeOK' /\ SocketsOK' /\ SessionsOK' /\ RelaysOK' /\ AllAlone'
<1> DEFINE c == session[m].channel
           r == [channel[c] EXCEPT !.Out = session[m].packet]
<1>1. /\ session' \in [Session -> SessionRecord] /\ session'[m] = s2
      /\ \A k \in Session \ {m} : session'[k] = session[k]
  BY SessionFacts
<1>2. n' = n /\ n \in Nat /\ \A k \in 1..n : k \in Session
  BY ServiceFacts DEF n, Session
<1>3. c \in Channels /\ channel \in [Channels -> ChannelRecord] /\ session[m].packet \in Nat
  BY SessionFacts, ServiceFacts
<1>4. /\ r \in ChannelRecord /\ r.Out = session[m].packet /\ r.inbound = channel[c].inbound
  BY <1>3 DEF ChannelRecord
<1>5. /\ channel' \in [Channels -> ChannelRecord]
      /\ channel'[c] = r /\ \A x \in Channels \ {c} : channel'[x] = channel[x]
  <2>1. channel' = [channel EXCEPT ![c] = r]
    BY DEF Release
  <2> HIDE DEF r
  <2> QED BY <1>3, <1>4, <2>1
<1> HIDE DEF r
<1>6. \A x \in Channels : channel'[x].inbound = channel[x].inbound
  BY <1>4, <1>5
<1>7. TypeOK'
  <2>1. \A x \in Channels : channel'[x].Out <= Len(channel'[x].inbound)
    <3>1. session[m].packet <= Len(channel[c].inbound)
      BY SessionFacts DEF InboundOf
    <3> QED BY <1>4, <1>5, <3>1 DEF IInv, TypeOK
  <2> QED BY <1>1, <1>5, <2>1 DEF IInv, TypeOK
<1>8. SocketsOK'
  <2> SUFFICES ASSUME NEW k \in Session, session'[k].socket \in {"open", "peerClosed"}
               PROVE  k = n /\ service'.pc \in SessionPlaces
    BY <1>2 DEF SocketsOK
  <2>1. session'[k].socket = session[k].socket
    BY <1>1
  <2> QED BY <2>1 DEF IInv, SocketsOK
<1>9. SessionsOK'
  <2> SUFFICES ASSUME NEW k \in Session
               PROVE  SessionOK(k)'
    BY DEF SessionsOK
  <2>0. SessionOK(k)
    BY DEF IInv, SessionsOK
  <2>1. CASE k = m
    <3>1. /\ s2.channel \in Channels
          /\ s2.packet <= Len(channel'[s2.channel].inbound)
      BY <1>6, SessionFacts DEF InboundOf
    <3>2. ~(m > n)
      BY <1>2 DEF Session
    <3> QED BY <1>1, <1>2, <2>1, <3>1, <3>2 DEF SessionOK
  <2>2. CASE k # m
    <3>1. session'[k] = session[k]
      BY <1>1, <2>2
    <3>2. k = n => service' = service
      BY <2>2
    <3>3. k <= n => channel'[session[k].channel].inbound = channel[session[k].channel].inbound
      BY <1>6, <2>0 DEF SessionOK
    <3> QED BY <1>2, <2>0, <3>1, <3>2, <3>3 DEF SessionOK
  <2> QED BY <2>1, <2>2
<1>10. RelaysOK'
  <2> SUFFICES ASSUME NEW k \in 1..n, session'[k].channel \notin overlap
               PROVE  RelayOK(session'[k], Place(k)', channel'[session'[k].channel].Out,
                              channel'[session'[k].channel].inbound)
    BY <1>2 DEF RelaysOK
  <2>1. k \in Session /\ k <= n
    BY <1>2
  <2>2. session'[k].channel = session[k].channel /\ session[k].channel \in Channels
    BY <1>1, <2>1, SessionFacts
  <2>3. RelayOK(session[k], Place(k), OutOf(k), InboundOf(k))
    BY <2>1, <2>2, SessionFacts
  <2>4. CASE k = m
    <3>1. RelayOK(session[m], "release", OutOf(m), InboundOf(m))
      BY <2>3, <2>4
    <3>2. Place(m)' = "send" \/ InboundOf(m)[session[m].packet] = "empty"
      BY DEF Popped, InboundOf
    <3>3. OutOf(m) \in Nat /\ session[m] \in SessionRecord
      BY SessionFacts
    <3>4. RelayOK(s2, Place(m)', session[m].packet, InboundOf(m))
      BY <3>1, <3>2, <3>3, RelayReleases
    <3> QED BY <1>1, <1>4, <1>5, <2>4, <3>4 DEF InboundOf
  <2>5. CASE k # m /\ session[k].channel # c
    <3>1. session'[k] = session[k] /\ channel'[session[k].channel] = channel[session[k].channel]
      BY <1>1, <1>5, <2>1, <2>2, <2>5
    <3>2. Place(k)' = Place(k)
      BY <1>2, <2>5, <3>1 DEF Place
    <3> QED BY <2>3, <3>1, <3>2 DEF InboundOf, OutOf
  <2>6. CASE k # m /\ session[k].channel = c
    <3>1. session'[k] = session[k]
      BY <1>1, <2>1, <2>6
    <3>2. session[k].vmbus2tcp = "dead"
      <4>1. m \in 1..n /\ Alone(k, m) /\ Alone(m, k)
        BY SessionFacts DEF IInv, AllAlone
      <4>2. k < m \/ m < k
        BY <1>2, <2>6 DEF Session
      <4> QED BY <2>2, <2>6, <4>1, <4>2 DEF Alone
    <3>3. Place(k)' = Place(k) /\ Place(k) = "dead"
      BY <1>2, <2>1, <2>6, <3>1, <3>2, PlaceOfThread DEF Place
    <3>4. session[m].packet = OutOf(m) + 1
      <4>1. RelayOK(session[m], "release", OutOf(m), InboundOf(m))
        BY <2>2, <2>6, SessionFacts
      <4> QED BY <4>1 DEF RelayOK
    <3>5. /\ OutOf(k) = OutOf(m) /\ OutOf(m) \in Nat /\ OutOf(m) <= session[m].packet
          /\ session[k] \in SessionRecord
      BY <1>3, <2>1, <2>6, <3>4, SessionFacts DEF OutOf
    <3>6. RelayOK(session[k], "dead", session[m].packet, channel'[c].inbound)
      BY <1>3, <2>3, <3>3, <3>5, RelayIsDead
    <3> QED BY <1>4, <1>5, <2>6, <3>1, <3>3, <3>6
  <2> QED BY <2>4, <2>5, <2>6
<1>11. AllAlone'
  <2> SUFFICES ASSUME NEW a \in 1..n, NEW b \in 1..n
               PROVE  Alone(a, b)'
    BY <1>2 DEF AllAlone
  <2>1. Alone(a, b) /\ a \in Session /\ b \in Session
    BY <1>2 DEF IInv, AllAlone
  <2>2. \A k \in Session : /\ session'[k].channel = session[k].channel
                           /\ session'[k].start = session[k].start
                           /\ session[k].vmbus2tcp = "dead" =>
                                /\ session'[k].vmbus2tcp = "dead"
                                /\ session'[k].forwarded = session[k].forwarded
    BY <1>1
  <2> QED BY <2>1, <2>2 DEF Alone
<1> QED BY <1>7, <1>8, <1>9, <1>10, <1>11

LEMMA VmbusReleaseKeepsInv ==
  ASSUME IInv, NEW m \in Session, VmbusRelease(m)
  PROVE  IInv'
<1> DEFINE s == session[m]
           q == IF Popped(m) = "empty" THEN "check" ELSE "send"
           s2 == [session[m] EXCEPT !.vmbus2tcp = q, !.latePops = @ + Late(m)]
<1>0. /\ session[m].vmbus2tcp = "release" /\ m <= n /\ Release(m)
      /\ UNCHANGED <<service, control, overlap>>
  BY HasBegun DEF VmbusRelease
<1>1. q \in {"check", "send"} /\ (q = "send" \/ Popped(m) = "empty")
  OBVIOUS
<1> HIDE DEF q
<1>2. /\ s.latePops = 0 /\ Late(m) \in {0, 1} /\ (s.ShouldRunning => Late(m) = 0)
      /\ s.latePops + Late(m) \in Nat
  BY <1>0, SessionFacts DEF LateOK, Late
<1>3. /\ s2 \in SessionRecord /\ s2.vmbus2tcp = q /\ s2.tcp2vmbus = s.tcp2vmbus
      /\ s2.channel = s.channel /\ s2.start = s.start /\ s2.first = s.first
      /\ s2.packet = s.packet /\ s2.socket = s.socket /\ s2.forwarded = s.forwarded
      /\ s2.latePops = s.latePops + Late(m) /\ s2.latePushes = s.latePushes
      /\ s2.ShouldRunning = s.ShouldRunning
  BY <1>0, <1>1, <1>2, SessionFacts DEF SessionRecord
<1>4. session' = [session EXCEPT ![m] = s2]
  BY DEF VmbusRelease, q
<1> HIDE DEF s2
<1>5. LateOK(s2)
  <2>1. s2.latePops = Late(m)
    BY <1>2, <1>3
  <2> QED BY <1>0, <1>1, <1>2, <1>3, <2>1, SessionFacts DEF LateOK
<1>6. /\ ~(m = n /\ service.pc \in BeforeThreads)
      /\ session[m].tcp2vmbus # "none"
  BY <1>0 DEF IInv, SessionsOK, SessionOK
<1>7. Place(m) = "release" /\ Place(m)' = q
  <2>1. session'[m] = s2
    BY <1>0, <1>4, SessionFacts
  <2> QED BY <1>0, <1>3, <1>6, <2>1, PlaceOfThread DEF Place, n, BeforeThreads, FirstPlaces
<1>8. /\ service' \in ServiceRecord /\ service'.n = n
      /\ s2.vmbus2tcp # "none" /\ s2.tcp2vmbus # "none"
  BY <1>0, <1>1, <1>3, <1>6, ServiceFacts DEF n
<1>9. TypeOK' /\ SocketsOK' /\ SessionsOK' /\ RelaysOK' /\ AllAlone'
  <2>1. /\ s2.vmbus2tcp = "none" <=> m = n /\ service'.pc \in BeforeThreads
        /\ s2.tcp2vmbus = "none" <=> m = n /\ service'.pc \in BeforeThreads
    BY <1>0, <1>6, <1>8
  <2>2. Place(m)' # "release" /\ (Place(m)' = "send" \/ Popped(m) = "empty")
    BY <1>1, <1>7
  <2> QED BY <1>0, <1>3, <1>4, <1>5, <1>7, <1>8, <2>1, <2>2, ReleaseStep
<1>10. ServiceOK' /\ StopOK'
  <2>1. n >= 1 => n \in Session
    BY ServiceFacts
  <2>2. \A k \in Session : /\ session'[k].channel = session[k].channel
                           /\ session'[k].first = session[k].first
    BY <1>0, <1>3, <1>4, SessionFacts
  <2>3. service.pc \in FirstPlaces => service.pc \in SessionPlaces
    BY DEF BeforeThreads, SessionPlaces
  <2> QED BY <1>0, <2>1, <2>2, <2>3 DEF IInv, ServiceOK, StopOK, DataChannel, n
<1> QED BY <1>9, <1>10 DEF IInv

\* Steps of the host: the service and the sessions stay as they are, but for
\* the interrupt.
LEMMA HostStep ==
  ASSUME IInv, UNCHANGED <<session, overlap>>, control' \in ControlRecord,
         service' \in ServiceRecord, service'.pc = service.pc, service'.n = service.n,
         service'.ServiceThread = service.ServiceThread,
         service'.IsRunning = service.IsRunning, service'.nAtStop = service.nAtStop,
         service'.DataChannel = service.DataChannel,
         channel' \in [Channels -> ChannelRecord],
         \A c \in Channels :
           /\ channel'[c].Out = channel[c].Out
           /\ \/ channel'[c].inbound = channel[c].inbound
              \/ \E kind \in Kinds : channel'[c].inbound = Append(channel[c].inbound, kind)
  PROVE  IInv'
<1>1. n' = n /\ DataChannel' = DataChannel
  BY DEF n, DataChannel
<1>2. \A c \in Channels : /\ channel[c].inbound \in Seq(Kinds) /\ channel[c].Out \in Nat
                          /\ Len(channel[c].inbound) \in Nat
                          /\ channel[c].Out <= Len(channel[c].inbound)
  <2>1. \A c \in Channels : channel[c].inbound \in Seq(Kinds) /\ channel[c].Out \in Nat
    BY ServiceFacts DEF ChannelRecord
  <2> QED BY <2>1 DEF IInv, TypeOK
<1>3. \A c \in Channels : /\ Len(channel'[c].inbound) \in Nat
                          /\ Len(channel[c].inbound) <= Len(channel'[c].inbound)
  <2> SUFFICES ASSUME NEW c \in Channels
               PROVE  /\ Len(channel'[c].inbound) \in Nat
                      /\ Len(channel[c].inbound) <= Len(channel'[c].inbound)
    OBVIOUS
  <2>1. CASE channel'[c].inbound = channel[c].inbound
    BY <1>2, <2>1
  <2>2. CASE \E kind \in Kinds : channel'[c].inbound = Append(channel[c].inbound, kind)
    BY <1>2, <2>2
  <2> QED BY <2>1, <2>2
<1>4. TypeOK'
  <2>1. \A c \in Channels : channel'[c].Out <= Len(channel'[c].inbound)
    BY <1>2, <1>3
  <2> QED BY <2>1 DEF IInv, TypeOK
<1>5. ServiceOK' /\ StopOK' /\ SocketsOK'
  BY <1>1 DEF IInv, ServiceOK, StopOK, SocketsOK
<1>6. SessionsOK'
  <2> SUFFICES ASSUME NEW m \in Session
               PROVE  SessionOK(m)'
    BY DEF SessionsOK
  <2>0. SessionOK(m)
    BY DEF IInv, SessionsOK
  <2>1. ASSUME m <= n
        PROVE  session[m].packet <= Len(channel'[session[m].channel].inbound)
    BY <1>2, <1>3, <2>1, SessionFacts DEF InboundOf
  <2> QED BY <1>1, <2>0, <2>1 DEF SessionOK
<1>7. RelaysOK'
  <2> SUFFICES ASSUME NEW m \in 1..n, session[m].channel \notin overlap
               PROVE  RelayOK(session[m], Place(m)', channel'[session[m].channel].Out,
                              channel'[session[m].channel].inbound)
    BY <1>1 DEF RelaysOK
  <2>1. m \in Session /\ m <= n
    BY ServiceFacts DEF Session
  <2>2. Place(m)' = Place(m)
    BY <1>1 DEF Place
  <2>3. /\ RelayOK(session[m], Place(m), OutOf(m), InboundOf(m))
        /\ session[m].channel \in Channels /\ session[m] \in SessionRecord
        /\ OutOf(m) \in Nat /\ InboundOf(m) \in Seq(Kinds) /\ OutOf(m) <= Len(InboundOf(m))
    BY <2>1, SessionFacts
  <2>4. ASSUME NEW kind \in Kinds
        PROVE  RelayOK(session[m], Place(m), OutOf(m), Append(InboundOf(m), kind))
    BY <2>3, RelayInbound
  <2> QED BY <2>2, <2>3, <2>4 DEF OutOf, InboundOf
<1>8. AllAlone'
  BY <1>1 DEF IInv, AllAlone, Alone
<1> QED BY <1>4, <1>5, <1>6, <1>7, <1>8 DEF IInv

LEMMA HostKeepsInv ==
  ASSUME IInv, Host
  PROVE  IInv'
<1> USE ServiceFacts
<1>1. ASSUME NEW accepted \in BOOLEAN, AnswerVersion(accepted)
      PROVE  IInv'
  <2>1. /\ control.requests - 1 \in Nat
        /\ Append(control.unread, accepted) \in Seq(BOOLEAN)
        /\ control.answered \cup {accepted} \subseteq BOOLEAN
    <3>1. /\ control.requests \in Nat /\ control.unread \in Seq(BOOLEAN)
          /\ control.answered \subseteq BOOLEAN
      BY DEF ControlRecord
    <3> QED BY <1>1, <3>1 DEF AnswerVersion
  <2>2. control' \in ControlRecord
    BY <1>1, <2>1 DEF AnswerVersion, ControlRecord
  <2> QED BY <1>1, <2>2, HostStep DEF AnswerVersion
<1>2. ASSUME NEW c \in Channels, NEW r \in ChannelRecord,
             channel' = [channel EXCEPT ![c] = r], UNCHANGED <<control, session, overlap>>,
             service' \in ServiceRecord, service'.pc = service.pc, service'.n = service.n,
             service'.ServiceThread = service.ServiceThread,
             service'.IsRunning = service.IsRunning, service'.nAtStop = service.nAtStop,
             service'.DataChannel = service.DataChannel,
             r.Out = channel[c].Out,
             \/ r.inbound = channel[c].inbound
             \/ \E kind \in Kinds : r.inbound = Append(channel[c].inbound, kind)
      PROVE  IInv'
  <2>1. /\ channel' \in [Channels -> ChannelRecord] /\ channel'[c] = r
        /\ \A x \in Channels \ {c} : channel'[x] = channel[x]
    BY <1>2
  <2>2. \A x \in Channels :
           /\ channel'[x].Out = channel[x].Out
           /\ \/ channel'[x].inbound = channel[x].inbound
              \/ \E kind \in Kinds : channel'[x].inbound = Append(channel[x].inbound, kind)
    BY <1>2, <2>1
  <2> QED BY <1>2, <2>1, <2>2, HostStep
<1>3. ASSUME NEW c \in Channels, Offer(c) \/ Rescind(c)
      PROVE  IInv'
  <2>1. PICK o \in {"yes", "gone"} : channel' = [channel EXCEPT ![c].offer = o]
    BY <1>3 DEF Offer, Rescind
  <2> DEFINE r == [channel[c] EXCEPT !.offer = o]
  <2>2. r \in ChannelRecord /\ r.Out = channel[c].Out /\ r.inbound = channel[c].inbound
    BY DEF ChannelRecord
  <2>3. channel' = [channel EXCEPT ![c] = r]
    BY <2>1
  <2> HIDE DEF r
  <2>4. UNCHANGED <<service, control, session, overlap>>
    BY <1>3 DEF Offer, Rescind
  <2> QED BY <1>2, <2>2, <2>3, <2>4
<1>4. ASSUME NEW c \in Channels, HostRead(c)
      PROVE  IInv'
  <2> DEFINE r == [channel[c] EXCEPT !.read = @ + 1]
  <2>1. channel[c].read + 1 \in Nat
    BY DEF ChannelRecord
  <2>2. r \in ChannelRecord /\ r.Out = channel[c].Out /\ r.inbound = channel[c].inbound
    BY <2>1 DEF ChannelRecord
  <2>3. channel' = [channel EXCEPT ![c] = r]
    BY <1>4 DEF HostRead
  <2> HIDE DEF r
  <2>4. UNCHANGED <<service, control, session, overlap>>
    BY <1>4 DEF HostRead
  <2> QED BY <1>2, <2>2, <2>3, <2>4
<1>5. ASSUME NEW c \in Channels, NEW kind \in Kinds, HostSend(c, kind)
      PROVE  IInv'
  <2> DEFINE r == [channel[c] EXCEPT !.inbound = Append(@, kind)]
             e == service.event \/ (c = DataChannel /\ RingEmpty(c))
  <2>1. Append(channel[c].inbound, kind) \in Seq(Kinds)
    <3>1. channel[c].inbound \in Seq(Kinds)
      BY DEF ChannelRecord
    <3> QED BY <3>1
  <2>2. r \in ChannelRecord /\ r.Out = channel[c].Out
        /\ r.inbound = Append(channel[c].inbound, kind)
    BY <2>1 DEF ChannelRecord
  <2>3. channel' = [channel EXCEPT ![c] = r] /\ service' = [service EXCEPT !.event = e]
    BY <1>5 DEF HostSend
  <2>4. e \in BOOLEAN
    OBVIOUS
  <2> HIDE DEF r, e
  <2>5. /\ service' \in ServiceRecord /\ service'.pc = service.pc /\ service'.n = service.n
        /\ service'.ServiceThread = service.ServiceThread
        /\ service'.IsRunning = service.IsRunning /\ service'.nAtStop = service.nAtStop
        /\ service'.DataChannel = service.DataChannel
    BY <2>3, <2>4 DEF ServiceRecord
  <2>6. UNCHANGED <<control, session, overlap>>
    BY <1>5 DEF HostSend
  <2> QED BY <1>2, <2>2, <2>3, <2>5, <2>6
<1> QED BY <1>1, <1>3, <1>4, <1>5 DEF Host

-----------------------------------------------------------------------------
(***************************************************************************)
(* Steps of the service thread, of Start and of Stop.                      *)
(***************************************************************************)
\* A step that touches no session.
LEMMA ServiceMove ==
  ASSUME IInv, UNCHANGED <<channel, session, overlap>>, control' \in ControlRecord,
         service' \in ServiceRecord, service'.n = n,
         service'.pc \in BeforeThreads <=> service.pc \in BeforeThreads,
         service.pc \in SessionPlaces => service'.pc \in SessionPlaces,
         service'.pc = "firstRelease" <=> service.pc = "firstRelease",
         service'.pc = "firstSend" <=> service.pc = "firstSend"
  PROVE  TypeOK' /\ SocketsOK' /\ SessionsOK' /\ RelaysOK' /\ AllAlone'
<1>1. n' = n
  BY DEF n
<1>2. TypeOK' /\ SocketsOK'
  BY <1>1 DEF IInv, TypeOK, SocketsOK
<1>3. SessionsOK'
  BY <1>1 DEF IInv, SessionsOK, SessionOK
<1>4. \A m : Place(m)' = Place(m)
  BY <1>1 DEF Place
<1>5. RelaysOK' /\ AllAlone'
  BY <1>1, <1>4 DEF IInv, RelaysOK, AllAlone, Alone
<1> QED BY <1>2, <1>3, <1>5

\* Outside the sessions the service thread only goes to another place.
OutsidePlaces == Searching \cup {"loop", "exited", "failed", "invalid"}

LEMMA OutsideStep ==
  ASSUME IInv, UNCHANGED <<channel, session, overlap>>, control' \in ControlRecord,
         service' \in ServiceRecord, service'.n = n,
         service.pc \in OutsidePlaces, service'.pc \in OutsidePlaces,
         service'.ServiceThread = "null" => service'.pc = "exited",
         service'.pc \in {"device", "connect"} =>
           service'.DataChannel \in Channels /\ n < MaxSessions,
         StopOK'
  PROVE  IInv'
<1>1. /\ service.pc \notin SessionPlaces /\ service'.pc \notin SessionPlaces
      /\ service.pc \notin BeforeThreads /\ service'.pc \notin BeforeThreads
      /\ service.pc \notin FirstPlaces /\ service'.pc \notin FirstPlaces
      /\ service.pc \notin {"firstRelease", "firstSend"}
      /\ service'.pc \notin {"firstRelease", "firstSend"}
  BY DEF OutsidePlaces, Searching, SessionPlaces, BeforeThreads, FirstPlaces
<1>2. TypeOK' /\ SocketsOK' /\ SessionsOK' /\ RelaysOK' /\ AllAlone'
  BY <1>1, ServiceMove
<1>3. ServiceOK'
  BY <1>1 DEF ServiceOK, DataChannel, n
<1> QED BY <1>2, <1>3 DEF IInv

\* A step of the service thread that leaves IsRunning, ServiceThread and the
\* sessions alone.
LEMMA GotoOutside ==
  ASSUME IInv, NEW from \in OutsidePlaces, NEW to \in OutsidePlaces, Goto(from, to),
         UNCHANGED <<channel, session, overlap>>, control' \in ControlRecord,
         from # "exited",
         to = "connect" => from = "device", to # "device",
         to \in Searching => from \in Searching \/ service.IsRunning
  PROVE  IInv'
<1>1. to \in ServicePlaces
  BY DEF OutsidePlaces, Searching, ServicePlaces
<1>2. /\ service' \in ServiceRecord /\ service'.pc = to /\ service'.n = n
      /\ service'.ServiceThread = service.ServiceThread
      /\ service'.IsRunning = service.IsRunning /\ service'.nAtStop = service.nAtStop
      /\ service'.DataChannel = service.DataChannel /\ service.pc = from
  BY <1>1, ServiceFacts DEF Goto, ServiceRecord, n
<1>3. StopOK'
  BY <1>2 DEF IInv, StopOK, n
<1>4. service.ServiceThread # "null"
  BY <1>2 DEF IInv, ServiceOK
<1>5. to = "connect" => service.DataChannel \in Channels /\ n < MaxSessions
  BY <1>2 DEF IInv, ServiceOK, DataChannel
<1> QED BY <1>2, <1>3, <1>4, <1>5, OutsideStep

\* Start and Stop.
LEMMA StartStopKeepsInv ==
  ASSUME IInv, Start \/ Stop \/ Joined
  PROVE  IInv'
<1> USE ServiceFacts
<1>1. CASE Start
  <2>1. service.starts + 1 \in 0..MaxStarts
    <3>1. service.starts \in 0..MaxStarts /\ MaxStarts \in Nat
      BY RelayAssumption DEF ServiceRecord
    <3> QED BY <1>1, <3>1 DEF Start
  <2>2. "open" \in ServicePlaces
    BY DEF ServicePlaces
  <2>3. /\ service' \in ServiceRecord /\ service'.pc = "open" /\ service'.n = n
        /\ service'.ServiceThread = "set"
    BY <1>1, <2>1, <2>2 DEF Start, ServiceRecord, n
  <2>4. service.pc = "exited" /\ UNCHANGED <<channel, session, overlap, control>>
    BY <1>1 DEF IInv, ServiceOK, Start
  <2>5. StopOK'
    BY <2>3 DEF StopOK
  <2> QED BY <2>3, <2>4, <2>5, OutsideStep DEF OutsidePlaces, Searching
<1>2. CASE Stop
  <2>1. /\ service' \in ServiceRecord /\ service'.pc = service.pc /\ service'.n = n
        /\ service'.ServiceThread = "joining" /\ ~service'.IsRunning
        /\ service'.nAtStop = n /\ service'.DataChannel = service.DataChannel
        /\ UNCHANGED <<channel, session, overlap, control>>
    BY <1>2 DEF Stop, ServiceRecord, n
  <2>2. TypeOK' /\ SocketsOK' /\ SessionsOK' /\ RelaysOK' /\ AllAlone'
    BY <2>1, ServiceMove
  <2>3. n' = n /\ DataChannel' = DataChannel
    BY <2>1 DEF n, DataChannel
  <2>4. ServiceOK' /\ StopOK'
    BY <2>1, <2>3 DEF IInv, ServiceOK, StopOK
  <2> QED BY <2>2, <2>4 DEF IInv
<1>3. CASE Joined
  <2>1. /\ service' \in ServiceRecord /\ service'.pc = "exited" /\ service'.n = n
        /\ service'.ServiceThread = "null" /\ service.pc = "exited"
        /\ UNCHANGED <<channel, session, overlap, control>>
    BY <1>3 DEF Joined, ServiceRecord, n
  <2>2. StopOK'
    BY <2>1 DEF StopOK
  <2> QED BY <2>1, <2>2, OutsideStep DEF OutsidePlaces
<1> QED BY <1>1, <1>2, <1>3

LEMMA TailOfSeq ==
  ASSUME NEW S, NEW q \in Seq(S), q # << >>
  PROVE  Tail(q) \in Seq(S)
OBVIOUS

\* The handshake, and the loop up to the search.
LEMMA HandshakeKeepsInv ==
  ASSUME IInv,
         \/ OpenControl \/ SendVersionRequest \/ ReceiveVersion \/ WaitVersion
         \/ CheckIsRunning
  PROVE  IInv'
<1>0. /\ control \in ControlRecord /\ control.requests \in Nat
      /\ control.unread \in Seq(BOOLEAN) /\ UNCHANGED <<channel, session, overlap>>
  <2>1. control \in ControlRecord
    BY ServiceFacts
  <2> QED BY <2>1 DEF ControlRecord, OpenControl, SendVersionRequest, ReceiveVersion,
                      WaitVersion, CheckIsRunning
<1> USE DEF OutsidePlaces, Searching
<1>1. CASE OpenControl
  <2>1. control' \in ControlRecord
    BY <1>0, <1>1 DEF OpenControl, ControlRecord
  <2>2. CASE Goto("open", "failed")
    BY <1>0, <2>1, <2>2, GotoOutside
  <2>3. CASE Goto("open", "request")
    BY <1>0, <2>1, <2>3, GotoOutside
  <2> QED BY <1>1, <2>2, <2>3 DEF OpenControl
<1>2. CASE SendVersionRequest
  <2>1. control.requests + 1 \in Nat
    BY <1>0
  <2>2. control' \in ControlRecord
    BY <1>0, <1>2, <2>1 DEF SendVersionRequest, ControlRecord
  <2>3. CASE Goto("request", "failed")
    BY <1>0, <2>2, <2>3, GotoOutside
  <2>4. CASE Goto("request", "response")
    BY <1>0, <2>2, <2>4, GotoOutside
  <2> QED BY <1>2, <2>3, <2>4 DEF SendVersionRequest
<1>3. ASSUME NEW from \in {"response", "wait"}, NEW accepted,
             Goto(from, AfterVersion(accepted)), control' \in ControlRecord
      PROVE  IInv'
  <2>1. AfterVersion(accepted) \in {"loop", "invalid"}
    BY DEF AfterVersion
  <2> QED BY <1>0, <1>3, <2>1, GotoOutside
<1>4. CASE ReceiveVersion
  <2>1. CASE control.unread # << >> /\ control' = [control EXCEPT !.unread = Tail(@)]
                /\ Goto("response", AfterVersion(Head(control.unread)))
    <3>1. Tail(control.unread) \in Seq(BOOLEAN)
      BY <1>0, <2>1, TailOfSeq
    <3>2. control' \in ControlRecord
      BY <1>0, <2>1, <3>1 DEF ControlRecord
    <3> QED BY <1>3, <2>1, <3>2
  <2>2. CASE Goto("response", "wait") /\ UNCHANGED control
    BY <1>0, <2>2, GotoOutside
  <2>3. CASE Goto("response", "failed") /\ UNCHANGED control
    BY <1>0, <2>3, GotoOutside
  <2> QED BY <1>4, <2>1, <2>2, <2>3 DEF ReceiveVersion
<1>5. CASE WaitVersion
  <2>1. control' \in ControlRecord
    BY <1>0, <1>5 DEF WaitVersion, ControlRecord
  <2>2. CASE Goto("wait", "failed")
    BY <1>0, <2>1, <2>2, GotoOutside
  <2>3. CASE \E accepted \in BOOLEAN : Goto("wait", AfterVersion(accepted))
    BY <1>3, <2>1, <2>3
  <2> QED BY <1>5, <2>2, <2>3 DEF WaitVersion
<1>6. CASE CheckIsRunning
  <2>1. UNCHANGED control
    BY <1>6 DEF CheckIsRunning
  <2>2. CASE service.IsRunning
    BY <1>0, <1>6, <2>1, <2>2, GotoOutside DEF CheckIsRunning
  <2>3. CASE ~service.IsRunning
    BY <1>0, <1>6, <2>1, <2>3, GotoOutside DEF CheckIsRunning
  <2> QED BY <2>2, <2>3
<1> QED BY <1>1, <1>2, <1>4, <1>5, <1>6

\* A data channel is found and opened, or is gone again.
LEMMA DataChannelKeepsInv ==
  ASSUME IInv, OpenDataChannel \/ \E c \in Channels : WaitForDataChannel(c)
  PROVE  IInv'
<1> USE ServiceFacts
<1>1. CASE OpenDataChannel
  <2> DEFINE to == IF Gone(DataChannel) THEN "failed" ELSE "connect"
  <2>1. to \in {"failed", "connect"} /\ to \in ServicePlaces
    BY DEF ServicePlaces
  <2>2. service.pc = "device" /\ service' = [service EXCEPT !.pc = to, !.event = FALSE]
        /\ UNCHANGED <<channel, session, overlap, control>>
    BY <1>1 DEF OpenDataChannel
  <2> HIDE DEF to
  <2>3. /\ service' \in ServiceRecord /\ service'.pc = to /\ service'.n = n
        /\ service'.ServiceThread = service.ServiceThread
        /\ service'.IsRunning = service.IsRunning /\ service'.nAtStop = service.nAtStop
        /\ service'.DataChannel = service.DataChannel
    BY <2>1, <2>2 DEF ServiceRecord, n
  <2>4. StopOK'
    BY <2>1, <2>2, <2>3 DEF IInv, StopOK, n, Searching
  <2>5. /\ service.ServiceThread # "null"
        /\ service.DataChannel \in Channels /\ n < MaxSessions
    BY <2>2 DEF IInv, ServiceOK, DataChannel
  <2>6. service.pc \in OutsidePlaces /\ service'.pc \in OutsidePlaces
    BY <2>1, <2>2, <2>3 DEF OutsidePlaces, Searching
  <2> QED BY <2>1, <2>2, <2>3, <2>4, <2>5, <2>6, OutsideStep
<1>2. ASSUME NEW c \in Channels, WaitForDataChannel(c)
      PROVE  IInv'
  <2>1. "device" \in ServicePlaces
    BY DEF ServicePlaces
  <2>2. /\ service' \in ServiceRecord /\ service'.pc = "device" /\ service'.n = n
        /\ service'.ServiceThread = service.ServiceThread
        /\ service'.IsRunning = service.IsRunning /\ service'.nAtStop = service.nAtStop
        /\ service'.DataChannel = c /\ service.pc = "find" /\ n < MaxSessions
        /\ UNCHANGED <<channel, session, overlap, control>>
    BY <1>2, <2>1 DEF WaitForDataChannel, ServiceRecord, n
  <2>3. StopOK'
    BY <2>2 DEF IInv, StopOK, n, Searching
  <2>4. service.ServiceThread # "null"
    BY <2>2 DEF IInv, ServiceOK
  <2>5. service.pc \in OutsidePlaces /\ service'.pc \in OutsidePlaces
    BY <2>2 DEF OutsidePlaces, Searching
  <2> QED BY <2>2, <2>3, <2>4, <2>5, OutsideStep
<1> QED BY <1>1, <1>2

-----------------------------------------------------------------------------
(***************************************************************************)
(* Steps of the service thread within a session, which is the last one.    *)
(***************************************************************************)
LEMMA LastSession ==
  ASSUME IInv, service.pc \in SessionPlaces
  PROVE  /\ n \in Session /\ session[n].channel = DataChannel /\ DataChannel \in Channels
         /\ service.ServiceThread # "null"
         /\ (session[n].vmbus2tcp = "none" <=> service.pc \in BeforeThreads)
         /\ (session[n].tcp2vmbus = "none" <=> service.pc \in BeforeThreads)
         /\ service.pc \in FirstPlaces => session[n].first = "none"
<1>1. /\ n >= 1 /\ session[n].channel = DataChannel /\ DataChannel \in Channels
      /\ service.pc \in FirstPlaces => session[n].first = "none"
  BY DEF IInv, ServiceOK
<1>2. n \in Session /\ n <= n
  BY <1>1, ServiceFacts
<1>3. SessionOK(n)
  BY <1>2 DEF IInv, SessionsOK
<1>4. service.pc # "exited"
  BY DEF SessionPlaces, BeforeThreads, FirstPlaces
<1> QED BY <1>1, <1>2, <1>3, <1>4 DEF IInv, ServiceOK, SessionOK

\* The service thread goes on and changes the last session.
LEMMA LastSessionStep ==
  ASSUME IInv, NEW m \in Session, m = n, NEW s2 \in SessionRecord,
         NEW to \in SessionPlaces \cup {"loop"}, NEW event \in BOOLEAN,
         service.pc \in SessionPlaces,
         service' = [service EXCEPT !.pc = to, !.event = event],
         session' = [session EXCEPT ![m] = s2],
         UNCHANGED <<control, channel, overlap>>,
         s2.channel = session[m].channel, s2.start = session[m].start,
         s2.packet <= Len(InboundOf(m)),
         s2.vmbus2tcp = "none" <=> to \in BeforeThreads,
         s2.tcp2vmbus = "none" <=> to \in BeforeThreads,
         LateOK(s2),
         s2.socket \in {"open", "peerClosed"} =>
           session[m].socket \in {"open", "peerClosed"} /\ to \in SessionPlaces,
         session[m].vmbus2tcp = "dead" =>
           s2.vmbus2tcp = "dead" /\ s2.forwarded = session[m].forwarded,
         to \in FirstPlaces => s2.first = "none",
         session[m].channel \notin overlap =>
           RelayOK(s2, IF to = "firstRelease" THEN "release"
                       ELSE IF to = "firstSend" THEN "send"
                       ELSE s2.vmbus2tcp, OutOf(m), InboundOf(m))
  PROVE  IInv'
<1>1. to \in ServicePlaces
  BY DEF ServicePlaces, SessionPlaces, BeforeThreads, FirstPlaces
<1>2. /\ service' \in ServiceRecord /\ service'.pc = to /\ service'.n = n
      /\ service'.ServiceThread = service.ServiceThread
      /\ service'.IsRunning = service.IsRunning /\ service'.nAtStop = service.nAtStop
      /\ service'.DataChannel = service.DataChannel
  BY <1>1, ServiceFacts DEF ServiceRecord, n
<1>3. n' = n /\ DataChannel' = DataChannel /\ m <= n /\ n \in Nat
  BY <1>2, ServiceFacts DEF n, DataChannel
<1>4. session'[m] = s2
  BY <1>3, SessionFacts
<1>5. Place(m)' = IF to = "firstRelease" THEN "release"
                  ELSE IF to = "firstSend" THEN "send" ELSE s2.vmbus2tcp
  BY <1>2, <1>3, <1>4 DEF Place
<1>6. channel' \in [Channels -> ChannelRecord] /\ UNCHANGED <<control, overlap>>
  BY ServiceFacts
<1>7. TypeOK' /\ SocketsOK' /\ SessionsOK' /\ RelaysOK' /\ AllAlone'
  BY <1>2, <1>3, <1>5, <1>6, SessionStep
<1>8. ServiceOK'
  <2>1. /\ service.ServiceThread # "null" /\ session[n].channel = DataChannel
        /\ DataChannel \in Channels /\ n >= 1
    BY <1>3, LastSession DEF Session
  <2>2. to \notin {"device", "connect"}
    BY DEF SessionPlaces, BeforeThreads, FirstPlaces
  <2> QED BY <1>2, <1>3, <1>4, <2>1, <2>2 DEF ServiceOK
<1>9. StopOK'
  <2>1. to \notin Searching
    BY DEF Searching, SessionPlaces, BeforeThreads, FirstPlaces
  <2> QED BY <1>2, <1>3, <2>1 DEF IInv, StopOK
<1> QED BY <1>7, <1>8, <1>9 DEF IInv

\* Every place of the first PDU but the two in the middle of PopPipePacket.
LEMMA PlaceOfService ==
  ASSUME IInv, NEW m \in Session, m = n, service.pc \in SessionPlaces
  PROVE  Place(m) = IF service.pc = "firstRelease" THEN "release"
                    ELSE IF service.pc = "firstSend" THEN "send"
                    ELSE session[m].vmbus2tcp
BY DEF Place

LEMMA FirstPopKeepsInv ==
  ASSUME IInv, FirstPop
  PROVE  IInv'
<1>0. service.pc = "first" /\ UNCHANGED <<control, channel, overlap>>
  BY DEF FirstPop
<1>1. service.pc \in SessionPlaces /\ service.pc \in BeforeThreads /\ service.pc \in FirstPlaces
  BY <1>0 DEF SessionPlaces, BeforeThreads, FirstPlaces
<1>2. PICK m \in Session : m = n
  BY <1>1, LastSession
<1> DEFINE s == session[m]
<1>3. /\ m <= n /\ n \in Nat /\ s.channel = DataChannel /\ s.first = "none"
      /\ s.vmbus2tcp = "none" /\ s.tcp2vmbus = "none" /\ service.event \in BOOLEAN
      /\ service = [service EXCEPT !.event = service.event]
      /\ Place(m) = "none"
  BY <1>0, <1>1, <1>2, LastSession, ServiceFacts, PlaceOfService DEF ServiceRecord
<1>4. /\ s \in SessionRecord /\ session \in [Session -> SessionRecord] /\ LateOK(s)
      /\ s.packet <= Len(InboundOf(m)) /\ OutOf(m) \in Nat /\ Len(InboundOf(m)) \in Nat
      /\ OutOf(m) <= Len(InboundOf(m))
      /\ s.channel \notin overlap => RelayOK(s, "none", OutOf(m), InboundOf(m))
  BY <1>3, SessionFacts
<1>5. s.socket \in {"open", "peerClosed"} => "first" \in SessionPlaces
  BY <1>0, <1>1
<1>6. CASE Goto("first", "firstWait") /\ UNCHANGED session
  <2>1. session' = [session EXCEPT ![m] = s]
    BY <1>4, <1>6
  <2>2. service' = [service EXCEPT !.pc = "firstWait", !.event = service.event]
    BY <1>6, ServiceFacts DEF Goto, ServiceRecord
  <2>3. "firstWait" \in SessionPlaces /\ "firstWait" \in BeforeThreads
    BY DEF SessionPlaces, BeforeThreads, FirstPlaces
  <2> QED BY <1>0, <1>1, <1>2, <1>3, <1>4, <2>1, <2>2, <2>3, LastSessionStep, ZenonT(60)
<1>7. CASE Goto("first", "spawn") /\ session' = [session EXCEPT ![n].first = "missed"]
  <2> DEFINE s2 == [session[m] EXCEPT !.first = "missed"]
  <2>1. session' = [session EXCEPT ![m] = s2]
    BY <1>2, <1>7
  <2>2. /\ s2 \in SessionRecord /\ s2.vmbus2tcp = "none" /\ s2.tcp2vmbus = "none"
        /\ s2.channel = s.channel /\ s2.start = s.start /\ s2.first = "missed"
        /\ s2.packet = s.packet /\ s2.socket = s.socket /\ s2.forwarded = s.forwarded
        /\ s2.latePops = s.latePops /\ s2.latePushes = s.latePushes
        /\ s2.ShouldRunning = s.ShouldRunning
    BY <1>3, <1>4 DEF SessionRecord
  <2> HIDE DEF s2
  <2>3. LateOK(s2)
    BY <1>3, <1>4, <2>2 DEF LateOK
  <2>4. service' = [service EXCEPT !.pc = "spawn", !.event = service.event]
    BY <1>7, ServiceFacts DEF Goto, ServiceRecord
  <2>5. /\ "spawn" \in SessionPlaces /\ "spawn" \in BeforeThreads /\ "spawn" \notin FirstPlaces
    BY DEF SessionPlaces, BeforeThreads, FirstPlaces
  <2>6. ASSUME s.channel \notin overlap
        PROVE  RelayOK(s2, "none", OutOf(m), InboundOf(m))
    BY <1>3, <1>4, <2>2, <2>6, RelayMoves
  <2> QED BY <1>0, <1>1, <1>2, <1>3, <1>4, <2>1, <2>2, <2>3, <2>4, <2>5, <2>6, LastSessionStep, ZenonT(60)
<1>8. CASE /\ ~RingEmpty(DataChannel) /\ Goto("first", "firstRelease")
           /\ session' = [session EXCEPT ![n].packet = channel[DataChannel].Out + 1]
  <2> DEFINE s2 == [session[m] EXCEPT !.packet = OutOf(m) + 1]
  <2>0. OutOf(m) + 1 \in Nat /\ OutOf(m) + 1 <= Len(InboundOf(m))
    BY <1>3, <1>4, <1>8 DEF RingEmpty, OutOf, InboundOf
  <2>1. session' = [session EXCEPT ![m] = s2]
    BY <1>2, <1>3, <1>8 DEF OutOf
  <2>2. /\ s2 \in SessionRecord /\ s2.vmbus2tcp = "none" /\ s2.tcp2vmbus = "none"
        /\ s2.channel = s.channel /\ s2.start = s.start /\ s2.first = s.first
        /\ s2.packet = OutOf(m) + 1 /\ s2.socket = s.socket /\ s2.forwarded = s.forwarded
        /\ s2.latePops = s.latePops /\ s2.latePushes = s.latePushes
        /\ s2.ShouldRunning = s.ShouldRunning
    BY <1>3, <1>4, <2>0 DEF SessionRecord
  <2> HIDE DEF s2
  <2>3. LateOK(s2)
    BY <1>3, <1>4, <2>2 DEF LateOK
  <2>4. service' = [service EXCEPT !.pc = "firstRelease", !.event = service.event]
    BY <1>8, ServiceFacts DEF Goto, ServiceRecord
  <2>5. "firstRelease" \in SessionPlaces /\ "firstRelease" \in BeforeThreads
    BY DEF SessionPlaces, BeforeThreads, FirstPlaces
  <2>6. ASSUME s.channel \notin overlap
        PROVE  RelayOK(s2, "release", OutOf(m), InboundOf(m))
    BY <1>3, <1>4, <2>2, <2>6, RelayMoves
  <2> QED BY <1>0, <1>1, <1>2, <1>3, <1>4, <2>0, <2>1, <2>2, <2>3, <2>4, <2>5, <2>6, LastSessionStep, ZenonT(60)
<1> QED BY <1>6, <1>7, <1>8 DEF FirstPop

\* What the invariant says of the last session.
LEMMA LastFacts ==
  ASSUME IInv, NEW m \in Session, m = n, service.pc \in SessionPlaces
  PROVE  /\ m <= n /\ session[m].channel = DataChannel /\ service.event \in BOOLEAN
         /\ session \in [Session -> SessionRecord] /\ session[m] \in SessionRecord
         /\ LateOK(session[m]) /\ session[m].packet <= Len(InboundOf(m))
         /\ OutOf(m) \in Nat
         /\ (session[m].vmbus2tcp = "none" <=> service.pc \in BeforeThreads)
         /\ (session[m].tcp2vmbus = "none" <=> service.pc \in BeforeThreads)
         /\ service.pc \in FirstPlaces => session[m].first = "none"
         /\ session[m].channel \notin overlap =>
              RelayOK(session[m], Place(m), OutOf(m), InboundOf(m))
<1>1. m <= n
  BY ServiceFacts
<1>2. service.event \in BOOLEAN
  BY ServiceFacts DEF ServiceRecord
<1> QED BY <1>1, <1>2, SessionFacts, LastSession

\* The first packet counts as released.
LEMMA FirstReleaseKeepsInv ==
  ASSUME IInv, FirstRelease
  PROVE  IInv'
<1> DEFINE to == IF Popped(n) = "empty" THEN "firstWait" ELSE "firstSend"
<1>0. /\ service.pc = "firstRelease" /\ service' = [service EXCEPT !.pc = to]
      /\ Release(n) /\ UNCHANGED <<control, session, overlap>>
      /\ to \in {"firstWait", "firstSend"} /\ (to = "firstSend" \/ Popped(n) = "empty")
  BY DEF FirstRelease, Goto
<1> HIDE DEF to
<1>1. /\ service.pc \in SessionPlaces /\ service.pc \in BeforeThreads
      /\ service.pc \in FirstPlaces /\ to \in SessionPlaces /\ to \in BeforeThreads
      /\ to \in ServicePlaces /\ to \notin Searching /\ to \notin {"device", "connect"}
  BY <1>0 DEF SessionPlaces, BeforeThreads, FirstPlaces, ServicePlaces, Searching
<1>2. PICK m \in Session : m = n
  BY <1>1, LastSession
<1>3. /\ service' \in ServiceRecord /\ service'.pc = to /\ service'.n = n
      /\ service'.ServiceThread = service.ServiceThread
      /\ service'.IsRunning = service.IsRunning /\ service'.nAtStop = service.nAtStop
      /\ service'.DataChannel = service.DataChannel
  BY <1>0, <1>1, ServiceFacts DEF ServiceRecord, n
<1>4. n' = n /\ DataChannel' = DataChannel
  BY <1>3 DEF n, DataChannel
<1>5. /\ m <= n /\ session[m].vmbus2tcp = "none" /\ session[m].tcp2vmbus = "none"
      /\ session[m].first = "none" /\ LateOK(session[m]) /\ session[m] \in SessionRecord
      /\ session[m].channel = DataChannel /\ session \in [Session -> SessionRecord]
  BY <1>1, <1>2, LastFacts
<1>6. session' = [session EXCEPT ![m] = session[m]]
  BY <1>0, <1>5
<1>7. Place(m) = "release" /\ Place(m)' = IF to = "firstSend" THEN "send" ELSE "none"
  BY <1>0, <1>2, <1>3, <1>4, <1>5 DEF Place
<1>8. TypeOK' /\ SocketsOK' /\ SessionsOK' /\ RelaysOK' /\ AllAlone'
  <2>1. Place(m)' # "release" /\ (Place(m)' = "send" \/ Popped(m) = "empty")
    BY <1>0, <1>2, <1>7
  <2>2. Release(m)
    BY <1>0, <1>2
  <2> QED BY <1>0, <1>1, <1>2, <1>3, <1>5, <1>6, <1>7, <2>1, <2>2, ReleaseStep
<1>9. ServiceOK' /\ StopOK'
  BY <1>0, <1>1, <1>3, <1>4 DEF IInv, ServiceOK, StopOK
<1> QED BY <1>8, <1>9 DEF IInv

\* There was no byte to patch.
LEMMA FirstWaitKeepsInv ==
  ASSUME IInv, FirstWait
  PROVE  IInv'
<1>0. /\ service.pc = "firstWait"
      /\ service' = [service EXCEPT !.pc = "spawn", !.event = FALSE]
      /\ session' = [session EXCEPT ![n].first = "missed"]
      /\ UNCHANGED <<control, channel, overlap>>
  BY DEF FirstWait
<1>1. /\ service.pc \in SessionPlaces /\ service.pc \in BeforeThreads
      /\ service.pc \in FirstPlaces
      /\ "spawn" \in SessionPlaces /\ "spawn" \in BeforeThreads /\ "spawn" \notin FirstPlaces
  BY <1>0 DEF SessionPlaces, BeforeThreads, FirstPlaces
<1>2. PICK m \in Session : m = n
  BY <1>1, LastSession
<1> DEFINE s == session[m]
           s2 == [session[m] EXCEPT !.first = "missed"]
<1>3. /\ s.vmbus2tcp = "none" /\ s.tcp2vmbus = "none" /\ s.first = "none" /\ LateOK(s)
      /\ s \in SessionRecord /\ OutOf(m) \in Nat /\ s.packet <= Len(InboundOf(m))
      /\ s.channel \notin overlap => RelayOK(s, "none", OutOf(m), InboundOf(m))
  BY <1>0, <1>1, <1>2, LastFacts, PlaceOfService
<1>4. session' = [session EXCEPT ![m] = s2]
  BY <1>0, <1>2
<1>5. /\ s2 \in SessionRecord /\ s2.vmbus2tcp = "none" /\ s2.tcp2vmbus = "none"
      /\ s2.channel = s.channel /\ s2.start = s.start /\ s2.first = "missed"
      /\ s2.packet = s.packet /\ s2.socket = s.socket /\ s2.forwarded = s.forwarded
      /\ s2.latePops = s.latePops /\ s2.latePushes = s.latePushes
      /\ s2.ShouldRunning = s.ShouldRunning
  BY <1>3 DEF SessionRecord
<1> HIDE DEF s2
<1>6. LateOK(s2)
  BY <1>3, <1>5 DEF LateOK
<1>7. ASSUME s.channel \notin overlap
      PROVE  RelayOK(s2, "none", OutOf(m), InboundOf(m))
  BY <1>3, <1>5, <1>7, RelayMoves
<1> QED BY <1>0, <1>1, <1>2, <1>3, <1>4, <1>5, <1>6, <1>7, LastSessionStep, ZenonT(60)

\* The first packet reaches the RDP server, or something is thrown.
LEMMA FirstSendKeepsInv ==
  ASSUME IInv, FirstSend
  PROVE  IInv'
<1>0. /\ service.pc = "firstSend" /\ service' = [service EXCEPT !.pc = "spawn"]
      /\ UNCHANGED <<control, channel, overlap>>
  BY DEF FirstSend, Goto
<1>1. /\ service.pc \in SessionPlaces /\ service.pc \in BeforeThreads
      /\ service.pc \in FirstPlaces
      /\ "spawn" \in SessionPlaces /\ "spawn" \in BeforeThreads /\ "spawn" \notin FirstPlaces
  BY <1>0 DEF SessionPlaces, BeforeThreads, FirstPlaces
<1>2. PICK m \in Session : m = n
  BY <1>1, LastSession
<1> DEFINE s == session[m]
<1>3. /\ s.vmbus2tcp = "none" /\ s.tcp2vmbus = "none" /\ s.first = "none" /\ LateOK(s)
      /\ s \in SessionRecord /\ OutOf(m) \in Nat /\ s.packet <= Len(InboundOf(m))
      /\ service.event \in BOOLEAN
      /\ s.channel \notin overlap => RelayOK(s, "send", OutOf(m), InboundOf(m))
  BY <1>0, <1>1, <1>2, LastFacts, PlaceOfService
<1>4. service' = [service EXCEPT !.pc = "spawn", !.event = service.event]
  BY <1>0, ServiceFacts DEF ServiceRecord
<1>5. ASSUME NEW isWhole \in BOOLEAN, NEW outcome \in {"patched", "lost"},
             session' = [session EXCEPT ![n].first = outcome,
                                        ![n].forwarded = Forward(n, TRUE, isWhole)]
      PROVE  IInv'
  <2> DEFINE e == [packet |-> s.packet, patched |-> TRUE, whole |-> isWhole]
             s2 == [session[m] EXCEPT !.first = outcome,
                                      !.forwarded = Forward(m, TRUE, isWhole)]
  <2>1. Forward(m, TRUE, isWhole) \in Seq(Forwarded)
    <3>1. s.forwarded \in Seq(Forwarded) /\ s.packet \in Nat
      BY <1>3, SessionFields
    <3>2. e \in Forwarded
      BY <3>1 DEF Forwarded
    <3> QED BY <3>1, <3>2 DEF Forward
  <2>2. /\ s2 \in SessionRecord /\ s2.vmbus2tcp = "none" /\ s2.tcp2vmbus = "none"
        /\ s2.channel = s.channel /\ s2.start = s.start /\ s2.first = outcome
        /\ s2.packet = s.packet /\ s2.socket = s.socket
        /\ s2.forwarded = Forward(m, TRUE, isWhole)
        /\ s2.latePops = s.latePops /\ s2.latePushes = s.latePushes
        /\ s2.ShouldRunning = s.ShouldRunning
    BY <1>3, <2>1 DEF SessionRecord
  <2>3. session' = [session EXCEPT ![m] = s2]
    BY <1>2, <1>5
  <2> HIDE DEF s2
  <2>4. LateOK(s2)
    BY <1>3, <2>2 DEF LateOK
  <2>5. ASSUME s.channel \notin overlap
        PROVE  RelayOK(s2, "none", OutOf(m), InboundOf(m))
    <3>1. s2.forwarded = Append(s.forwarded, e)
      BY <2>2 DEF Forward
    <3> QED BY <1>3, <2>2, <2>5, <3>1, RelayForwards
  <2> QED BY <1>0, <1>1, <1>2, <1>3, <1>4, <2>2, <2>3, <2>4, <2>5, LastSessionStep, ZenonT(60)
<1>6. CASE session' = [session EXCEPT ![n].first = "lost"]
  <2> DEFINE s2 == [session[m] EXCEPT !.first = "lost"]
  <2>2. /\ s2 \in SessionRecord /\ s2.vmbus2tcp = "none" /\ s2.tcp2vmbus = "none"
        /\ s2.channel = s.channel /\ s2.start = s.start /\ s2.first = "lost"
        /\ s2.packet = s.packet /\ s2.socket = s.socket /\ s2.forwarded = s.forwarded
        /\ s2.latePops = s.latePops /\ s2.latePushes = s.latePushes
        /\ s2.ShouldRunning = s.ShouldRunning
    BY <1>3 DEF SessionRecord
  <2>3. session' = [session EXCEPT ![m] = s2]
    BY <1>2, <1>6
  <2> HIDE DEF s2
  <2>4. LateOK(s2)
    BY <1>3, <2>2 DEF LateOK
  <2>5. ASSUME s.channel \notin overlap
        PROVE  RelayOK(s2, "none", OutOf(m), InboundOf(m))
    BY <1>3, <2>2, <2>5, RelayMoves
  <2> QED BY <1>0, <1>1, <1>2, <1>3, <1>4, <2>2, <2>3, <2>4, <2>5, LastSessionStep, ZenonT(60)
<1> QED BY <1>5, <1>6 DEF FirstSend

\* The relay threads start, one of them ends, the connection is closed.
LEMMA WatchKeepsInv ==
  ASSUME IInv, StartThreads \/ Supervise \/ CloseRdpServer
  PROVE  IInv'
<1>0. /\ \/ service.pc = "spawn" /\ service' = [service EXCEPT !.pc = "watch"]
         \/ service.pc = "watch" /\ service' = [service EXCEPT !.pc = "close"]
         \/ service.pc = "close" /\ service' = [service EXCEPT !.pc = "loop"]
      /\ UNCHANGED <<control, channel, overlap>>
  BY DEF StartThreads, Supervise, CloseRdpServer, Goto
<1>1. /\ service.pc \in SessionPlaces
      /\ service.pc \in BeforeThreads <=> service.pc = "spawn"
      /\ {"watch", "close"} \subseteq SessionPlaces
      /\ {"watch", "close", "loop"} \cap BeforeThreads = {}
      /\ {"watch", "close", "loop"} \cap FirstPlaces = {}
      /\ "loop" \notin SessionPlaces
  BY <1>0 DEF SessionPlaces, BeforeThreads, FirstPlaces
<1>2. PICK m \in Session : m = n
  BY <1>1, LastSession
<1> DEFINE s == session[m]
<1>3. /\ s \in SessionRecord /\ LateOK(s) /\ s.packet <= Len(InboundOf(m))
      /\ OutOf(m) \in Nat /\ service.event \in BOOLEAN
      /\ (s.vmbus2tcp = "none" <=> service.pc = "spawn")
      /\ (s.tcp2vmbus = "none" <=> service.pc = "spawn")
      /\ s.channel \notin overlap => RelayOK(s, s.vmbus2tcp, OutOf(m), InboundOf(m))
  BY <1>0, <1>1, <1>2, LastFacts, PlaceOfService
<1>4. service \in ServiceRecord
  BY ServiceFacts
<1>5. CASE StartThreads
  <2> DEFINE s2 == [session[m] EXCEPT !.ShouldRunning = TRUE, !.vmbus2tcp = "check",
                                      !.tcp2vmbus = "check"]
  <2>1. /\ s2 \in SessionRecord /\ s2.vmbus2tcp = "check" /\ s2.tcp2vmbus = "check"
        /\ s2.channel = s.channel /\ s2.start = s.start /\ s2.first = s.first
        /\ s2.packet = s.packet /\ s2.socket = s.socket /\ s2.forwarded = s.forwarded
        /\ s2.latePops = s.latePops /\ s2.latePushes = s.latePushes
        /\ s2.ShouldRunning = TRUE
    BY <1>3 DEF SessionRecord
  <2>2. session' = [session EXCEPT ![m] = s2]
    BY <1>2, <1>5 DEF StartThreads
  <2> HIDE DEF s2
  <2>3. /\ service.pc = "spawn"
        /\ service' = [service EXCEPT !.pc = "watch", !.event = service.event]
    BY <1>4, <1>5 DEF StartThreads, Goto, ServiceRecord
  <2>4. LateOK(s2)
    BY <1>3, <2>1, <2>3 DEF LateOK
  <2>5. ASSUME s.channel \notin overlap
        PROVE  RelayOK(s2, "check", OutOf(m), InboundOf(m))
    <3>1. RelayOK(s, "none", OutOf(m), InboundOf(m))
      BY <1>3, <2>3, <2>5
    <3> QED BY <1>3, <2>1, <3>1, RelayMoves
  <2> QED BY <1>0, <1>1, <1>2, <1>3, <2>1, <2>2, <2>3, <2>4, <2>5, LastSessionStep, ZenonT(60)
<1>6. CASE Supervise
  <2> DEFINE s2 == [session[m] EXCEPT !.ShouldRunning = FALSE]
  <2>1. /\ s2 \in SessionRecord /\ s2.vmbus2tcp = s.vmbus2tcp /\ s2.tcp2vmbus = s.tcp2vmbus
        /\ s2.channel = s.channel /\ s2.start = s.start /\ s2.first = s.first
        /\ s2.packet = s.packet /\ s2.socket = s.socket /\ s2.forwarded = s.forwarded
        /\ s2.latePops = s.latePops /\ s2.latePushes = s.latePushes
        /\ s2.ShouldRunning = FALSE
    BY <1>3 DEF SessionRecord
  <2>2. session' = [session EXCEPT ![m] = s2]
    BY <1>2, <1>6 DEF Supervise
  <2> HIDE DEF s2
  <2>3. /\ service.pc = "watch"
        /\ service' = [service EXCEPT !.pc = "close", !.event = service.event]
    BY <1>4, <1>6 DEF Supervise, Goto, ServiceRecord
  <2>4. LateOK(s2)
    BY <1>3, <2>1 DEF LateOK
  <2>5. ASSUME s.channel \notin overlap
        PROVE  RelayOK(s2, s2.vmbus2tcp, OutOf(m), InboundOf(m))
    <3>1. s.vmbus2tcp = "release" => s.packet = OutOf(m) + 1
      BY <1>3, <2>5 DEF RelayOK
    <3> QED BY <1>3, <2>1, <2>5, <3>1, RelayMoves
  <2> QED BY <1>0, <1>1, <1>2, <1>3, <2>1, <2>2, <2>3, <2>4, <2>5, LastSessionStep, ZenonT(60)
<1>7. CASE CloseRdpServer
  <2> DEFINE s2 == [session[m] EXCEPT !.socket = "closed"]
  <2>1. /\ s2 \in SessionRecord /\ s2.vmbus2tcp = s.vmbus2tcp /\ s2.tcp2vmbus = s.tcp2vmbus
        /\ s2.channel = s.channel /\ s2.start = s.start /\ s2.first = s.first
        /\ s2.packet = s.packet /\ s2.socket = "closed" /\ s2.forwarded = s.forwarded
        /\ s2.latePops = s.latePops /\ s2.latePushes = s.latePushes
        /\ s2.ShouldRunning = s.ShouldRunning
    BY <1>3 DEF SessionRecord
  <2>2. session' = [session EXCEPT ![m] = s2]
    BY <1>2, <1>7 DEF CloseRdpServer
  <2> HIDE DEF s2
  <2>3. /\ service.pc = "close"
        /\ service' = [service EXCEPT !.pc = "loop", !.event = service.event]
    BY <1>4, <1>7 DEF CloseRdpServer, Goto, ServiceRecord
  <2>4. LateOK(s2)
    BY <1>3, <2>1 DEF LateOK
  <2>5. ASSUME s.channel \notin overlap
        PROVE  RelayOK(s2, s2.vmbus2tcp, OutOf(m), InboundOf(m))
    <3>1. s.vmbus2tcp = "release" => s.packet = OutOf(m) + 1
      BY <1>3, <2>5 DEF RelayOK
    <3> QED BY <1>3, <2>1, <2>5, <3>1, RelayMoves
  <2> QED BY <1>0, <1>1, <1>2, <1>3, <2>1, <2>2, <2>3, <2>4, <2>5, LastSessionStep, ZenonT(60)
<1> QED BY <1>5, <1>6, <1>7

-----------------------------------------------------------------------------
\* A session begins.  On a channel without overlap no thread of an earlier
\* session is alive, and they all were started: they have ended.
LEMMA SessionBegins ==
  ASSUME IInv, service.pc = "connect",
         service' = [service EXCEPT !.pc = "first", !.n = @ + 1],
         session' = [session EXCEPT ![n + 1] =
           [NoSession EXCEPT !.channel = DataChannel, !.socket = "open",
                             !.start = channel[DataChannel].Out]],
         overlap' = overlap \cup {c \in {DataChannel} : StaleThreads(c)},
         UNCHANGED <<control, channel>>
  PROVE  IInv'
<1> DEFINE s2 == [NoSession EXCEPT !.channel = DataChannel, !.socket = "open",
                                   !.start = channel[DataChannel].Out]
<1>0. /\ n \in Nat /\ MaxSessions \in Nat /\ n < MaxSessions /\ n + 1 \in Session
      /\ n + 1 \in 0..MaxSessions /\ \A k \in 1..n : k \in Session /\ k # n + 1
  BY ServiceFacts DEF IInv, ServiceOK, Session
<1>1. /\ DataChannel \in Channels /\ channel[DataChannel].Out \in Nat
      /\ channel \in [Channels -> ChannelRecord] /\ service \in ServiceRecord
      /\ channel[DataChannel].inbound \in Seq(Kinds)
      /\ session \in [Session -> SessionRecord]
  <2>1. DataChannel \in Channels /\ session \in [Session -> SessionRecord]
    BY DEF IInv, ServiceOK, TypeOK
  <2> QED BY <2>1, ServiceFacts DEF ChannelRecord
<1>2. PICK m \in Session : m = n + 1
  BY <1>0
<1>2a. m \in Nat /\ m >= 1 /\ m <= m /\ ~(m > m)
  BY <1>0, <1>2
<1>2b. overlap \subseteq overlap'
  OBVIOUS
<1>3. NoSession \in SessionRecord
  <2>1. << >> \in Seq(Forwarded)
    OBVIOUS
  <2> QED BY <2>1 DEF NoSession, SessionRecord
<1>4. /\ s2 \in SessionRecord /\ s2.channel = DataChannel /\ s2.socket = "open"
      /\ s2.start = channel[DataChannel].Out /\ s2.vmbus2tcp = "none"
      /\ s2.tcp2vmbus = "none" /\ s2.forwarded = << >> /\ s2.packet = 0
      /\ s2.latePops = 0 /\ s2.latePushes = 0 /\ s2.first = "none"
  BY <1>1, <1>3 DEF SessionRecord, NoSession
<1>5. session' = [session EXCEPT ![m] = s2]
  BY <1>2
<1> HIDE DEF s2
<1>6. /\ session' \in [Session -> SessionRecord] /\ session'[m] = s2
      /\ \A k \in Session \ {m} : session'[k] = session[k]
  BY <1>1, <1>4, <1>5
<1>7. /\ service' \in ServiceRecord /\ service'.pc = "first" /\ service'.n = m
      /\ service'.ServiceThread = service.ServiceThread
      /\ service'.IsRunning = service.IsRunning /\ service'.nAtStop = service.nAtStop
      /\ service'.DataChannel = service.DataChannel
  <2>1. "first" \in ServicePlaces
    BY DEF ServicePlaces
  <2> QED BY <1>0, <1>1, <1>2, <2>1 DEF ServiceRecord, n
<1>8. n' = m /\ DataChannel' = DataChannel
  BY <1>7 DEF n, DataChannel
<1>9. /\ "first" \in SessionPlaces /\ "first" \in BeforeThreads
      /\ "connect" \notin SessionPlaces /\ "connect" \notin BeforeThreads
      /\ "connect" \in Searching /\ "first" \notin Searching
  BY DEF SessionPlaces, BeforeThreads, FirstPlaces, Searching
<1>10. TypeOK'
  <2>1. overlap' \subseteq Channels
    BY <1>1, ServiceFacts
  <2> QED BY <1>6, <1>7, <2>1 DEF IInv, TypeOK
<1>11. ServiceOK'
  <2>1. service.ServiceThread # "null"
    BY DEF IInv, ServiceOK
  <2> QED BY <1>1, <1>2a, <1>4, <1>6, <1>7, <1>8, <2>1 DEF ServiceOK
<1>12. StopOK'
  <2>1. service.ServiceThread = "joining" => ~service.IsRunning /\ n <= service.nAtStop
    BY <1>9 DEF IInv, StopOK
  <2>2. service.nAtStop \in Nat
    BY ServiceFacts
  <2> QED BY <1>0, <1>2, <1>7, <1>8, <1>9, <2>1, <2>2 DEF StopOK
<1>13. SocketsOK'
  <2>1. \A k \in Session : session[k].socket \notin {"open", "peerClosed"}
    BY <1>9 DEF IInv, SocketsOK
  <2> QED BY <1>6, <1>7, <1>8, <1>9, <2>1 DEF SocketsOK
<1>14. SessionsOK'
  <2> SUFFICES ASSUME NEW k \in Session
               PROVE  SessionOK(k)'
    BY DEF SessionsOK
  <2>0. SessionOK(k) /\ k \in Nat
    BY DEF IInv, SessionsOK, Session
  <2>1. CASE k = m
    <3>1. LateOK(s2)
      BY <1>4 DEF LateOK
    <3>2. s2.packet <= Len(channel[DataChannel].inbound)
      BY <1>1, <1>4
    <3> QED BY <1>1, <1>2a, <1>4, <1>6, <1>7, <1>8, <1>9, <2>1, <3>1, <3>2 DEF SessionOK
  <2>2. CASE k # m
    <3>1. session'[k] = session[k] /\ (k > m => k > n) /\ (k <= m <=> k <= n)
      BY <1>0, <1>2, <1>6, <2>0, <2>2
    <3> QED BY <1>7, <1>8, <1>9, <2>0, <2>2, <3>1 DEF SessionOK
  <2> QED BY <2>1, <2>2
<1>15. ASSUME NEW k \in 1..n
       PROVE  /\ k \in Session /\ k # m /\ k <= n /\ k < m /\ session'[k] = session[k]
              /\ Place(k)' = Place(k) /\ Place(k) = session[k].vmbus2tcp
              /\ session[k].vmbus2tcp # "none"
  <2>1. k \in Session /\ k # m /\ k <= n /\ k < m /\ session'[k] = session[k]
    BY <1>0, <1>2, <1>6
  <2>2. session[k].vmbus2tcp # "none"
    BY <1>9, <2>1 DEF IInv, SessionsOK, SessionOK
  <2>3. Place(k) = session[k].vmbus2tcp
    BY <2>1, <2>2, PlaceOfThread
  <2>4. Place(k)' = session'[k].vmbus2tcp
    BY <1>8, <2>1 DEF Place
  <2> QED BY <2>1, <2>2, <2>3, <2>4
<1>16. RelaysOK'
  <2> SUFFICES ASSUME NEW k \in 1..m, session'[k].channel \notin overlap'
               PROVE  RelayOK(session'[k], Place(k)', channel[session'[k].channel].Out,
                              channel[session'[k].channel].inbound)
    BY <1>8 DEF RelaysOK
  <2>1. CASE k = m
    <3>1. Place(m)' = "none"
      BY <1>4, <1>6, <1>7, <1>8 DEF Place
    <3> QED BY <1>1, <1>4, <1>6, <2>1, <3>1, RelayBegins
  <2>2. CASE k # m
    <3>1. k \in 1..n
      BY <1>0, <1>2, <2>2
    <3>2. session[k].channel \notin overlap
      BY <1>2b, <1>15, <3>1
    <3> QED BY <1>15, <3>1, <3>2, SessionFacts DEF OutOf, InboundOf
  <2> QED BY <2>1, <2>2
<1>17. AllAlone'
  <2> SUFFICES ASSUME NEW a \in 1..m, NEW b \in 1..m
               PROVE  Alone(a, b)'
    BY <1>8 DEF AllAlone
  <2>1. CASE b # m
    <3>1. b \in 1..n /\ (a < b => a \in 1..n)
      BY <1>0, <1>2, <2>1
    <3>2. ASSUME a < b
          PROVE  Alone(a, b) /\ session'[a] = session[a] /\ session'[b] = session[b]
      BY <1>15, <3>1, <3>2 DEF IInv, AllAlone
    <3> QED BY <1>2b, <3>2 DEF Alone
  <2>2. CASE b = m
    <3> SUFFICES ASSUME a < b, session'[a].channel = DataChannel, DataChannel \notin overlap'
                 PROVE  /\ session'[a].vmbus2tcp = "dead"
                        /\ \A i \in 1..Len(session'[a].forwarded) :
                             session'[a].forwarded[i].packet <= session'[b].start
      BY <1>4, <1>6, <2>2 DEF Alone
    <3>1. a \in 1..n
      BY <1>0, <1>2, <2>2
    <3>2. session'[a] = session[a] /\ session[a].channel = DataChannel
      BY <1>15, <3>1
    <3>3. ~StaleThreads(DataChannel) /\ DataChannel \notin overlap
      OBVIOUS
    <3>4. ~Alive(session[a].vmbus2tcp)
      BY <3>1, <3>2, <3>3 DEF StaleThreads
    <3>5. session[a].vmbus2tcp = "dead"
      BY <1>15, <3>1, <3>4 DEF Alive
    <3>6. RelayOK(session[a], Place(a), channel[DataChannel].Out, channel[DataChannel].inbound)
      BY <1>15, <3>1, <3>2, <3>3, SessionFacts DEF OutOf, InboundOf
    <3> QED BY <1>4, <1>6, <2>2, <3>2, <3>5, <3>6 DEF RelayOK
  <2> QED BY <2>1, <2>2
<1> QED BY <1>10, <1>11, <1>12, <1>13, <1>14, <1>16, <1>17 DEF IInv

LEMMA ConnectRdpServerKeepsInv ==
  ASSUME IInv, ConnectRdpServer
  PROVE  IInv'
<1>1. service.pc = "connect" /\ UNCHANGED <<control, channel>> /\ control' \in ControlRecord
  BY ServiceFacts DEF ConnectRdpServer
<1>2. CASE Goto("connect", "failed") /\ UNCHANGED <<session, overlap>>
  BY <1>1, <1>2, GotoOutside DEF OutsidePlaces, Searching
<1>3. CASE ~(Goto("connect", "failed") /\ UNCHANGED <<session, overlap>>)
  BY <1>1, <1>3, SessionBegins DEF ConnectRdpServer
<1> QED BY <1>2, <1>3

-----------------------------------------------------------------------------
LEMMA StutterKeepsInv ==
  ASSUME IInv, UNCHANGED vars
  PROVE  IInv'
<1>1. UNCHANGED <<service, control, channel, session, overlap>>
  BY DEF vars
<1>2. n' = n /\ DataChannel' = DataChannel /\ \A m : Place(m)' = Place(m)
  BY <1>1 DEF n, DataChannel, Place
<1>3. TypeOK' /\ ServiceOK' /\ StopOK' /\ SocketsOK'
  BY <1>1, <1>2 DEF IInv, TypeOK, ServiceOK, StopOK, SocketsOK
<1>4. SessionsOK'
  BY <1>1, <1>2 DEF IInv, SessionsOK, SessionOK
<1>5. RelaysOK' /\ AllAlone'
  BY <1>1, <1>2 DEF IInv, RelaysOK, AllAlone, Alone
<1> QED BY <1>3, <1>4, <1>5 DEF IInv

LEMMA InitInv ==
  ASSUME Init
  PROVE  IInv
<1>1. /\ service.n = 0 /\ n = 0 /\ service.pc = "exited" /\ service.ServiceThread = "null"
  BY DEF Init, n
<1>2. service \in ServiceRecord
  <2>1. /\ 0 \in 0..MaxSessions /\ 0 \in 0..MaxStarts /\ "exited" \in ServicePlaces
        /\ NoChannel \in Channels \cup {NoChannel}
    BY RelayAssumption DEF ServicePlaces
  <2> QED BY <2>1 DEF Init, ServiceRecord
<1>3. control \in ControlRecord
  <2>1. << >> \in Seq(BOOLEAN) /\ {} \in SUBSET BOOLEAN /\ 0 \in Nat
    OBVIOUS
  <2> QED BY <2>1 DEF Init, ControlRecord
<1>4. /\ channel \in [Channels -> ChannelRecord]
      /\ \A c \in Channels : channel[c].Out <= Len(channel[c].inbound)
  <2>1. << >> \in Seq(Kinds) /\ 0 \in Nat /\ 0 <= Len(<< >>)
    OBVIOUS
  <2>2. [offer |-> "no", inbound |-> << >>, Out |-> 0, In |-> 0, read |-> 0] \in ChannelRecord
    BY <2>1 DEF ChannelRecord
  <2> QED BY <2>1, <2>2 DEF Init
<1>5. NoSession \in SessionRecord
  <2>1. << >> \in Seq(Forwarded)
    OBVIOUS
  <2> QED BY <2>1 DEF NoSession, SessionRecord
<1>6. session \in [Session -> SessionRecord] /\ \A m \in Session : session[m] = NoSession
  BY <1>5 DEF Init
<1>7. TypeOK
  BY <1>2, <1>3, <1>4, <1>6 DEF Init, TypeOK
<1>8. /\ "exited" \notin SessionPlaces /\ "exited" \notin FirstPlaces
      /\ "exited" \notin {"device", "connect"}
  BY DEF SessionPlaces, BeforeThreads, FirstPlaces
<1>9. ServiceOK /\ StopOK
  BY <1>1, <1>8 DEF ServiceOK, StopOK
<1>10. SocketsOK
  BY <1>6 DEF SocketsOK, NoSession
<1>11. SessionsOK
  <2> SUFFICES ASSUME NEW m \in Session
               PROVE  SessionOK(m)
    BY DEF SessionsOK
  <2>1. ~(m <= n)
    BY <1>1 DEF Session
  <2>2. LateOK(NoSession)
    BY DEF LateOK, NoSession
  <2> QED BY <1>6, <2>1, <2>2 DEF SessionOK
<1>12. RelaysOK /\ AllAlone
  <2>1. \A m : m \notin 1..n
    BY <1>1
  <2> QED BY <2>1 DEF RelaysOK, AllAlone
<1> QED BY <1>7, <1>9, <1>10, <1>11, <1>12 DEF IInv

LEMMA NextKeepsInv ==
  ASSUME IInv, Next
  PROVE  IInv'
<1>1. CASE Start \/ Stop \/ Joined
  BY <1>1, StartStopKeepsInv
<1>2. CASE ServiceMain
  <2>1. CASE \/ OpenControl \/ SendVersionRequest \/ ReceiveVersion \/ WaitVersion
             \/ CheckIsRunning
    BY <2>1, HandshakeKeepsInv
  <2>2. CASE OpenDataChannel \/ \E c \in Channels : WaitForDataChannel(c)
    BY <2>2, DataChannelKeepsInv
  <2>3. CASE ConnectRdpServer
    BY <2>3, ConnectRdpServerKeepsInv
  <2>4. CASE FirstPop
    BY <2>4, FirstPopKeepsInv
  <2>5. CASE FirstRelease
    BY <2>5, FirstReleaseKeepsInv
  <2>6. CASE FirstWait
    BY <2>6, FirstWaitKeepsInv
  <2>7. CASE FirstSend
    BY <2>7, FirstSendKeepsInv
  <2>8. CASE StartThreads \/ Supervise \/ CloseRdpServer
    BY <2>8, WatchKeepsInv
  <2> QED BY <1>2, <2>1, <2>2, <2>3, <2>4, <2>5, <2>6, <2>7, <2>8 DEF ServiceMain
<1>3. ASSUME NEW m \in Session, Vmbus2Tcp(m)
      PROVE  IInv'
  BY <1>3, VmbusCheckKeepsInv, VmbusPopKeepsInv, VmbusReleaseKeepsInv, VmbusSendKeepsInv
     DEF Vmbus2Tcp
<1>4. ASSUME NEW m \in Session, Tcp2Vmbus(m)
      PROVE  IInv'
  BY <1>4, TcpCheckKeepsInv, TcpReceiveKeepsInv, TcpPushKeepsInv, TcpCommitKeepsInv,
     TcpSignalKeepsInv
     DEF Tcp2Vmbus
<1>5. CASE Host
  BY <1>5, HostKeepsInv
<1>6. CASE RdpServer
  BY <1>6, RdpServerKeepsInv
<1> QED BY <1>1, <1>2, <1>3, <1>4, <1>5, <1>6 DEF Next

LEMMA SpecKeepsInv == Spec => []IInv
<1>1. Init => IInv
  BY InitInv
<1>2. IInv /\ [Next]_vars => IInv'
  BY NextKeepsInv, StutterKeepsInv
<1> QED BY <1>1, <1>2, PTL DEF Spec

-----------------------------------------------------------------------------
(***************************************************************************)
(* What follows for the relay.                                             *)
(***************************************************************************)
\* Every step keeps the types of SynthRdp, and Out never goes past the packets
\* that are in the ring, not even when two threads write it.
THEOREM RelayTypeCorrect == Spec => []TypeOK
<1>1. IInv => TypeOK
  BY DEF IInv
<1> QED BY <1>1, SpecKeepsInv, PTL

\* A thread that outlives its session touches each ring at most once more.
THEOREM LateOnceHolds == Spec => []LateOnce
<1>1. IInv => LateOnce
  BY DEF IInv, SessionsOK, SessionOK, LateOK, LateOnce
<1> QED BY <1>1, SpecKeepsInv, PTL

\* Stop lets at most one more session begin, wherever the service thread is
\* when Stop is called.
THEOREM OneSessionAfterStopHolds == Spec => []OneSessionAfterStop
<1>1. IInv => OneSessionAfterStop
  BY DEF IInv, StopOK, OneSessionAfterStop
<1> QED BY <1>1, SpecKeepsInv, PTL

\* When an exception leaves the service thread, no session has a connection.
THEOREM CrashCutsNoSessionHolds == Spec => []CrashCutsNoSession
<1>1. IInv => CrashCutsNoSession
  <2> SUFFICES ASSUME IInv, Crashed, NEW m \in Session
               PROVE  session[m].socket \in {"none", "closed"}
    BY DEF CrashCutsNoSession
  <2>1. service.pc \notin SessionPlaces
    BY DEF Crashed, SessionPlaces, BeforeThreads, FirstPlaces
  <2>2. session[m].socket \notin {"open", "peerClosed"}
    BY <2>1 DEF IInv, SocketsOK
  <2>3. session[m].socket \in {"none", "open", "peerClosed", "closed"}
    BY DEF IInv, TypeOK, SessionRecord
  <2> QED BY <2>2, <2>3
<1> QED BY <1>1, SpecKeepsInv, PTL

\* On a channel whose sessions never overlapped the RDP servers get the packets
\* of the host once and in order, across all sessions.
THEOREM ForwardedInOrderHolds == Spec => []ForwardedInOrder
<1>1. IInv => ForwardedInOrder
  <2> SUFFICES ASSUME IInv, NEW a \in Session, NEW b \in Session, a <= b,
                      session[a].channel = session[b].channel,
                      session[a].channel \notin overlap,
                      NEW i \in 1..Len(session[a].forwarded),
                      NEW j \in 1..Len(session[b].forwarded), a < b \/ i < j
               PROVE  session[a].forwarded[i].packet < session[b].forwarded[j].packet
    BY DEF ForwardedInOrder
  <2>1. ASSUME NEW m \in Session, NEW k \in 1..Len(session[m].forwarded)
        PROVE  m <= n
    <3>1. m > n => session[m] = NoSession
      BY DEF IInv, SessionsOK, SessionOK
    <3>2. m \in Nat /\ n \in Nat
      BY ServiceFacts DEF Session
    <3> QED BY <2>1, <3>1, <3>2 DEF NoSession
  <2>2. a <= n /\ b <= n /\ a \in Nat /\ b \in Nat
    BY <2>1 DEF Session
  <2>3. /\ RelayOK(session[a], Place(a), OutOf(a), InboundOf(a)) /\ a \in 1..n
        /\ RelayOK(session[b], Place(b), OutOf(b), InboundOf(b)) /\ b \in 1..n
        /\ session[a] \in SessionRecord /\ session[b] \in SessionRecord
    BY <2>2, SessionFacts
  <2>4. CASE a = b
    BY <2>3, <2>4 DEF RelayOK
  <2>5. CASE a < b
    <3>1. Alone(a, b)
      BY <2>3 DEF IInv, AllAlone
    <3>2. session[a].forwarded[i].packet <= session[b].start
      BY <2>5, <3>1 DEF Alone
    <3>3. session[b].start < session[b].forwarded[j].packet
      BY <2>3 DEF RelayOK
    <3>4. /\ session[a].forwarded[i].packet \in Nat /\ session[b].start \in Nat
          /\ session[b].forwarded[j].packet \in Nat
      BY <2>3, SessionFields
    <3> QED BY <3>2, <3>3, <3>4
  <2> QED BY <2>2, <2>4, <2>5
<1> QED BY <1>1, SpecKeepsInv, PTL

\* A session that is up, alone on its channel and connected has handed to Send
\* every packet it popped, and each one's head at least was taken.
THEOREM UpSessionSkipsNothingHolds == Spec => []UpSessionSkipsNothing
<1>1. IInv => UpSessionSkipsNothing
  <2> SUFFICES ASSUME IInv, NEW m \in Session,
                      session[m].vmbus2tcp \in {"check", "pop"},
                      session[m].socket = "open", session[m].first # "lost",
                      session[m].channel \notin overlap,
                      NEW i \in (session[m].start + 1)..OutOf(m)
               PROVE  Reached(session[m], i, InboundOf(m))
    BY DEF UpSessionSkipsNothing, Reached, InboundOf, OutOf
  <2>1. m <= n /\ session[m].vmbus2tcp # "none"
    BY HasBegun
  <2>2. Place(m) = session[m].vmbus2tcp
    BY <2>1, PlaceOfThread
  <2>3. RelayOK(session[m], Place(m), OutOf(m), InboundOf(m))
    BY <2>1, SessionFacts
  <2> QED BY <2>2, <2>3 DEF RelayOK
<1> QED BY <1>1, SpecKeepsInv, PTL

=============================================================================
