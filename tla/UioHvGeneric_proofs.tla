------------------------ MODULE UioHvGeneric_proofs -------------------------
(***************************************************************************)
(* Proofs about UioHvGeneric, for every finite set of files and any number *)
(* of opens and interrupts.                                                *)
(***************************************************************************)
EXTENDS UioHvGeneric, FiniteSetTheorems, TLAPS

(***************************************************************************)
(* None of the properties is inductive.  The references are counted only   *)
(* because nobody holds the device before it is registered; the ring is    *)
(* connected only while files are open because info is there from the      *)
(* registration to the removal, or to the end of a probe that fails, and   *)
(* nowhere else; a late call fails because a device that is gone does not  *)
(* come back to those who hold it; the rescind callback finds what it uses *)
(* as long as the driver is bound.  The parts of the inductive invariant   *)
(* say so.                                                                 *)
(***************************************************************************)
Early == {"unbound", "recv", "send", "register"}
Registered == {"attributes", "drvdata", "bound", "remove"}
Failing == {"fail_close", "fail_recv", "fail_free_ring"}
Cleaning == {"cleanup", "cleanup_recv", "free_ring"}

\* What the driver holds at the places of hv_uio_probe and hv_uio_remove: each
\* label gives back what the labels below it do not.
HeldByPlace ==
  /\ "device" \in held <=> driver \in Registered \cup {"wake", "minor", "put"}
  /\ driver \in {"unbound", "recv", "failed", "removed", "fail_free_ring", "free_ring"}
       => "recv" \notin held
  /\ driver \in {"unbound", "recv", "send", "failed", "removed", "fail_recv",
                 "fail_free_ring", "cleanup_recv", "free_ring"} => "send" \notin held
  /\ driver \in {"unbound", "failed", "removed"} => "ring" \notin held

\* At which places info, the minor and the driver's data are set, and that
\* nobody is there before the registration.
PlacesAgree ==
  /\ driver \in Registered => idev.info = "set"
  /\ idev.info = "set" => driver \in Registered \cup Failing
  /\ idev.info = "dangling" => driver = "failed"
  /\ idev.minor => driver \in Registered \cup {"wake", "minor"}
  /\ chan.drvdata <=>
       driver \in {"bound", "remove", "wake", "minor", "put"} \cup Cleaning
  /\ driver \in Early => Holding = {} /\ chan.refcnt = 0 /\ ~chan.connected

\* A file that is not yet open has done nothing.  A late call does not get past
\* its check, for the device stays gone.  An event that poll has reported stays
\* unread until the next read.
CallOK(r, event, gone) ==
  /\ r.pc # "open" => r.read = "none" /\ r.result = "none" /\ ~r.late /\ ~r.ready
  /\ r.late => /\ gone /\ r.read \in {"none", "check"}
               /\ r.result \notin {"event", "readable"}
  /\ r.event_count <= event
  /\ r.ready \/ r.result = "readable" => r.event_count # event
  /\ r.ready => r.read # "schedule"

CallsAreOK == \A f \in Files : CallOK(file[f], idev.event, DeviceGone)

\* Where the driver's data may be missing, only exposed files can meet it, or a
\* rescind callback that the driver's removal crosses.
MissingIsExposed ==
  /\ chan.interrupt # "none" => chan.connected
  /\ chan.connected /\ driver \notin {"bound", "remove"} => idev.exposed
  /\ Holding # {} /\ driver \in {"attributes", "drvdata", "failed"} \cup Failing
       => idev.exposed
  /\ chan.rescind \in {"irq", "notify"} => driver = "bound" \/ chan.crossed

IInv ==
  /\ TypeOK /\ HeldByPlace /\ PlacesAgree
  /\ ReferencesAreCounted /\ ConnectedWhileOpen
  /\ CallsAreOK
  /\ MissingIsExposed /\ DisciplinedUseIsSafe

-----------------------------------------------------------------------------
\* The files that hold the device, and those that are open, can be counted.
LEMMA HoldersAreFinite ==
  /\ IsFiniteSet(Holding) /\ Cardinality(Holding) \in Nat
  /\ IsFiniteSet(Opened) /\ Cardinality(Opened) \in Nat
<1>1. Holding \in SUBSET Files /\ Opened \in SUBSET Files
  BY DEF Holding, Opened
<1> QED BY <1>1, UioAssumption, FS_Subset, FS_CardinalityType

\* A step of one file leaves the others alone.
LEMMA FileChange ==
  ASSUME TypeOK, NEW f \in Files, NEW r \in FileRecord,
         file' = [file EXCEPT ![f] = r]
  PROVE  /\ file' \in [Files -> FileRecord]
         /\ file'[f] = r
         /\ \A g \in Files \ {f} : file'[g] = file[g]
BY DEF TypeOK

\* What holds of a call stays true when events are counted and devices go.
LEMMA CallStays ==
  ASSUME NEW r \in FileRecord, NEW e \in Nat, NEW e2 \in Nat, e <= e2,
         NEW gone \in BOOLEAN, NEW gone2 \in BOOLEAN, gone => gone2,
         CallOK(r, e, gone)
  PROVE  CallOK(r, e2, gone2)
<1>1. r.event_count \in Nat
  BY DEF FileRecord
<1> QED BY <1>1 DEF CallOK

\* Steps that leave the files and the event counter alone, and after which a
\* device that is gone for some file is still gone.
LEMMA QuietFiles ==
  ASSUME IInv, file' = file, idev'.event = idev.event,
         Holding # {} /\ DeviceGone => DeviceGone'
  PROVE  Holding' = Holding /\ Opened' = Opened /\ CallsAreOK'
<1>1. Holding' = Holding /\ Opened' = Opened
  BY DEF Holding, Opened
<1>2. ASSUME NEW f \in Files
      PROVE  CallOK(file'[f], idev'.event, DeviceGone')
  <2>1. CallOK(file[f], idev.event, DeviceGone)
    BY DEF IInv, CallsAreOK
  <2>2. CASE file[f].pc = "closed"
    BY <2>1, <2>2 DEF CallOK
  <2>3. CASE file[f].pc # "closed"
    <3>1. f \in Holding
      BY <2>3 DEF Holding
    <3> QED BY <2>1, <3>1 DEF CallOK
  <2> QED BY <2>2, <2>3
<1> QED BY <1>1, <1>2 DEF CallsAreOK

\* Before the probe nothing is held and nobody is there.
LEMMA InitInv == Init => IInv
<1> SUFFICES ASSUME Init
             PROVE  IInv
  OBVIOUS
<1>1. TypeOK
  BY DEF Init, TypeOK, ClosedFile, Places, IdevRecord, ChanRecord, FileRecord
<1>2. Holding = {} /\ Opened = {}
  BY DEF Init, Holding, Opened, ClosedFile
<1>3. HeldByPlace /\ PlacesAgree
  BY <1>2 DEF Init, HeldByPlace, PlacesAgree, Early, Registered, Failing, Cleaning
<1>4. ReferencesAreCounted /\ ConnectedWhileOpen
  BY <1>2, FS_EmptySet DEF Init, ReferencesAreCounted, ConnectedWhileOpen
<1>5. CallsAreOK
  BY DEF Init, ClosedFile, CallsAreOK, CallOK
<1>6. MissingIsExposed /\ DisciplinedUseIsSafe
  BY <1>2 DEF Init, MissingIsExposed, DisciplinedUseIsSafe
<1> QED BY <1>1, <1>3, <1>4, <1>5, <1>6 DEF IInv

\* The driver takes the ring.
LEMMA ProbeRingKeepsInv ==
  ASSUME IInv, ~oops, ProbeRing
  PROVE  IInv'
<1> USE DEF IInv, ProbeRing
<1>1. Holding' = Holding /\ Opened' = Opened /\ CallsAreOK'
  BY QuietFiles DEF PlacesAgree, Early
<1>2. chan' \in ChanRecord
  <2>1. [chan EXCEPT !.irq = TRUE, !.refcnt = 0] \in ChanRecord
    BY DEF TypeOK, ChanRecord
  <2> QED BY <2>1 DEF TypeOK
<1>3. TypeOK'
  BY <1>2 DEF TypeOK, Places, Resources
<1>4. HeldByPlace' /\ PlacesAgree'
  BY <1>1 DEF TypeOK, HeldByPlace, PlacesAgree, Early, Registered, Failing, Cleaning, ChanRecord
<1>5. ReferencesAreCounted'
  BY <1>1 DEF ReferencesAreCounted
<1>6. ConnectedWhileOpen'
  BY DEF ConnectedWhileOpen, PlacesAgree, Registered, Failing
<1>7. MissingIsExposed' /\ DisciplinedUseIsSafe'
  BY <1>1 DEF TypeOK, ChanRecord, MissingIsExposed, DisciplinedUseIsSafe, PlacesAgree,
              Early
<1> QED BY <1>1, <1>3, <1>4, <1>5, <1>6, <1>7

\* The driver takes a buffer or fails.
LEMMA ProbeBufferKeepsInv ==
  ASSUME IInv, ~oops, ProbeBuffer("recv", "send") \/ ProbeBuffer("send", "register")
  PROVE  IInv'
<1> USE DEF IInv
<1>0. UNCHANGED <<idev, chan, file, oops>> /\ driver \in {"recv", "send"}
  BY DEF ProbeBuffer
<1>1. Holding' = Holding /\ Opened' = Opened /\ CallsAreOK'
  BY <1>0, QuietFiles DEF DeviceGone
<1>2. \/ driver = "recv" /\ driver' = "send" /\ held' = held \cup {"recv"}
      \/ driver = "send" /\ driver' = "register" /\ held' = held \cup {"send"}
      \/ driver = "recv" /\ driver' = "fail_free_ring" /\ held' = held
      \/ driver' = "fail_close" /\ held' = held
  BY DEF ProbeBuffer, NoMemoryLabel
<1>3. TypeOK'
  BY <1>0, <1>2 DEF TypeOK, Places, Resources, Buffers
<1>4. HeldByPlace'
  BY <1>0, <1>2 DEF HeldByPlace, Registered
<1>5. PlacesAgree'
  BY <1>0, <1>1, <1>2 DEF PlacesAgree, Early, Registered, Failing, Cleaning
<1>6. ReferencesAreCounted' /\ ConnectedWhileOpen'
  BY <1>0, <1>1, <1>2 DEF ReferencesAreCounted, ConnectedWhileOpen
<1>7. MissingIsExposed' /\ DisciplinedUseIsSafe'
  BY <1>0, <1>1, <1>2 DEF MissingIsExposed, DisciplinedUseIsSafe, PlacesAgree, Early,
                          Failing
<1> QED BY <1>1, <1>3, <1>4, <1>5, <1>6, <1>7

\* The file appears with one reference, that of the registration.
LEMMA RegisterKeepsInv ==
  ASSUME IInv, ~oops, RegisterDevice
  PROVE  IInv'
<1> USE DEF IInv
<1>0. UNCHANGED <<chan, file, oops>> /\ driver = "register"
  BY DEF RegisterDevice
<1>1. Holding = {} /\ Opened = {}
  BY <1>0 DEF PlacesAgree, Early, Holding, Opened
<1>2. CASE driver' = "fail_close" /\ UNCHANGED <<held, idev>>
  <2>1. Holding' = Holding /\ Opened' = Opened /\ CallsAreOK'
    BY <1>0, <1>2, QuietFiles DEF DeviceGone
  <2>2. TypeOK'
    BY <1>0, <1>2 DEF TypeOK, Places, RegisterDevice
  <2>3. HeldByPlace' /\ PlacesAgree'
    BY <1>0, <1>2, <2>1 DEF HeldByPlace, PlacesAgree, Early, Registered, Failing, Cleaning
  <2>4. ReferencesAreCounted' /\ ConnectedWhileOpen'
    BY <1>0, <1>2, <2>1 DEF ReferencesAreCounted, ConnectedWhileOpen
  <2>5. MissingIsExposed' /\ DisciplinedUseIsSafe'
    BY <1>0, <1>1, <1>2, <2>1 DEF MissingIsExposed, DisciplinedUseIsSafe, PlacesAgree,
                                  Early
  <2> QED BY <2>1, <2>2, <2>3, <2>4, <2>5
<1>3. CASE /\ driver' = "attributes"
           /\ held' = held \cup {"device"}
           /\ idev' = [idev EXCEPT !.minor = TRUE, !.info = "set", !.refs = 1]
  <2>1. /\ idev' \in IdevRecord
        /\ idev'.minor /\ idev'.info = "set" /\ idev'.refs = 1
        /\ idev'.event = idev.event /\ idev'.exposed = idev.exposed
    BY <1>3 DEF TypeOK, IdevRecord
  <2>2. Holding' = Holding /\ Opened' = Opened /\ CallsAreOK'
    BY <1>0, <1>1, <2>1, QuietFiles
  <2>3. TypeOK'
    BY <1>0, <1>3, <2>1 DEF TypeOK, Places, Resources
  <2>4. HeldByPlace' /\ PlacesAgree'
    BY <1>0, <1>3, <2>1, <2>2 DEF HeldByPlace, PlacesAgree, Early, Registered, Failing, Cleaning
  <2>5. ReferencesAreCounted' /\ ConnectedWhileOpen'
    BY <1>0, <1>1, <1>3, <2>1, <2>2, FS_EmptySet
    DEF ReferencesAreCounted, ConnectedWhileOpen, PlacesAgree, Early
  <2>6. MissingIsExposed' /\ DisciplinedUseIsSafe'
    BY <1>0, <1>1, <1>3, <2>1, <2>2 DEF MissingIsExposed, DisciplinedUseIsSafe,
                                        PlacesAgree, Early
  <2> QED BY <2>2, <2>3, <2>4, <2>5, <2>6
<1> QED BY <1>2, <1>3 DEF RegisterDevice

\* When the attributes fail the device is taken back, but not from those who
\* have opened it: they are exposed.
LEMMA AttributesKeepInv ==
  ASSUME IInv, ~oops, RegisterAttributes
  PROVE  IInv'
<1> USE DEF IInv
<1>0. UNCHANGED <<chan, file, oops>> /\ driver = "attributes"
  BY DEF RegisterAttributes
<1>1. CASE driver' = "drvdata" /\ UNCHANGED <<held, idev>>
  <2>1. Holding' = Holding /\ Opened' = Opened /\ CallsAreOK'
    BY <1>0, <1>1, QuietFiles DEF DeviceGone
  <2>2. TypeOK'
    BY <1>0, <1>1 DEF TypeOK, Places
  <2>3. HeldByPlace' /\ PlacesAgree'
    BY <1>0, <1>1, <2>1 DEF HeldByPlace, PlacesAgree, Early, Registered, Failing, Cleaning
  <2>4. ReferencesAreCounted' /\ ConnectedWhileOpen'
    BY <1>0, <1>1, <2>1 DEF ReferencesAreCounted, ConnectedWhileOpen
  <2>5. MissingIsExposed' /\ DisciplinedUseIsSafe'
    BY <1>0, <1>1, <2>1 DEF MissingIsExposed, DisciplinedUseIsSafe
  <2> QED BY <2>1, <2>2, <2>3, <2>4, <2>5
<1>2. CASE /\ driver' = "fail_close"
           /\ idev' = [idev EXCEPT !.minor = FALSE, !.refs = @ - 1]
           /\ held' = held \ {"device"}
  <2>1. "device" \in held
    BY <1>0 DEF HeldByPlace, Registered
  <2>2. idev.refs = Cardinality(Holding) + 1
    BY <2>1 DEF ReferencesAreCounted
  <2>3. /\ idev' \in IdevRecord
        /\ ~idev'.minor /\ idev'.info = idev.info /\ idev'.refs = Cardinality(Holding)
        /\ idev'.event = idev.event /\ idev'.exposed = idev.exposed
    <3>1. idev.refs - 1 = Cardinality(Holding) /\ idev.refs - 1 \in Nat
      BY <2>2, HoldersAreFinite
    <3> QED BY <1>2, <3>1 DEF TypeOK, IdevRecord
  <2>4. Holding' = Holding /\ Opened' = Opened /\ CallsAreOK'
    BY <1>0, <2>3, QuietFiles DEF DeviceGone
  <2>5. TypeOK'
    BY <1>0, <1>2, <2>3 DEF TypeOK, Places
  <2>6. HeldByPlace' /\ PlacesAgree'
    BY <1>0, <1>2, <2>3 DEF HeldByPlace, PlacesAgree, Early, Registered, Failing, Cleaning
  <2>7. ReferencesAreCounted' /\ ConnectedWhileOpen'
    BY <1>0, <1>2, <2>3, <2>4, HoldersAreFinite
       DEF ReferencesAreCounted, ConnectedWhileOpen
  <2>8. MissingIsExposed' /\ DisciplinedUseIsSafe'
    BY <1>0, <1>2, <2>3, <2>4 DEF MissingIsExposed, DisciplinedUseIsSafe
  <2> QED BY <2>4, <2>5, <2>6, <2>7, <2>8
<1> QED BY <1>1, <1>2 DEF RegisterAttributes

\* From now on a callback finds the driver's data.
LEMMA DrvdataKeepsInv ==
  ASSUME IInv, ~oops, SetDrvdata
  PROVE  IInv'
<1> USE DEF IInv, SetDrvdata
<1>1. chan' \in ChanRecord /\ chan'.drvdata
  BY DEF TypeOK, ChanRecord
<1>2. /\ chan'.connected = chan.connected /\ chan'.refcnt = chan.refcnt
      /\ chan'.interrupt = chan.interrupt /\ chan'.irq = chan.irq
      /\ chan'.rescind = chan.rescind /\ chan'.crossed = chan.crossed
  BY DEF TypeOK, ChanRecord
<1>3. Holding' = Holding /\ Opened' = Opened /\ CallsAreOK'
  BY <1>2, QuietFiles DEF DeviceGone
<1>4. TypeOK'
  BY <1>1 DEF TypeOK, Places
<1>5. HeldByPlace' /\ PlacesAgree'
  BY <1>1, <1>2, <1>3 DEF HeldByPlace, PlacesAgree, Early, Registered, Failing, Cleaning
<1>6. ReferencesAreCounted' /\ ConnectedWhileOpen'
  BY <1>2, <1>3 DEF ReferencesAreCounted, ConnectedWhileOpen
<1>7. MissingIsExposed' /\ DisciplinedUseIsSafe'
  BY <1>2, <1>3 DEF MissingIsExposed, DisciplinedUseIsSafe
<1> QED BY <1>3, <1>4, <1>5, <1>6, <1>7

\* The host or the administrator takes the device away, beside probe and remove.
LEMMA RescindKeepsInv ==
  ASSUME IInv, ~oops, Rescind \/ Unbind \/ RescindUnregister
  PROVE  IInv'
<1> USE DEF IInv
<1>0. /\ UNCHANGED <<held, idev, file, oops>>
      /\ driver' = driver \/ (driver = "bound" /\ driver' = "remove")
  BY DEF Rescind, Unbind, RescindUnregister
<1>1. /\ chan' \in ChanRecord
      /\ chan'.connected = chan.connected /\ chan'.refcnt = chan.refcnt
      /\ chan'.interrupt = chan.interrupt /\ chan'.drvdata = chan.drvdata
      /\ chan'.irq = chan.irq
      /\ chan'.rescind \in {"irq", "notify"} => driver' = "bound" \/ chan'.crossed
  <2>1. chan \in ChanRecord
    BY DEF TypeOK
  <2>2. CASE Rescind
    <3> DEFINE p == IF chan.callback THEN "irq" ELSE "unregister"
               x == chan.callback /\ driver # "bound"
    <3>1. chan' = [chan EXCEPT !.offered = FALSE, !.rescind = p, !.crossed = x]
      BY <2>2 DEF Rescind
    <3>2. x \in BOOLEAN /\ p \in {"irq", "unregister"}
      OBVIOUS
    <3>3. p = "irq" => driver = "bound" \/ x
      BY <2>1 DEF ChanRecord
    <3> HIDE DEF p, x
    <3>4. /\ chan' \in ChanRecord
          /\ chan'.connected = chan.connected /\ chan'.refcnt = chan.refcnt
          /\ chan'.interrupt = chan.interrupt /\ chan'.drvdata = chan.drvdata
          /\ chan'.irq = chan.irq /\ chan'.rescind = p /\ chan'.crossed = x
      BY <2>1, <3>1, <3>2 DEF ChanRecord
    <3> QED BY <2>2, <3>2, <3>3, <3>4 DEF Rescind
  <2>3. CASE Unbind
    <3> DEFINE x == chan.crossed \/ chan.rescind \in {"irq", "notify"}
    <3>1. chan' = [chan EXCEPT !.crossed = x] /\ x \in BOOLEAN
      BY <2>3 DEF Unbind
    <3>2. chan.rescind \in {"irq", "notify"} => x
      OBVIOUS
    <3> HIDE DEF x
    <3>3. /\ chan' \in ChanRecord
          /\ chan'.connected = chan.connected /\ chan'.refcnt = chan.refcnt
          /\ chan'.interrupt = chan.interrupt /\ chan'.drvdata = chan.drvdata
          /\ chan'.irq = chan.irq /\ chan'.rescind = chan.rescind /\ chan'.crossed = x
      BY <2>1, <3>1 DEF ChanRecord
    <3> QED BY <3>2, <3>3
  <2>4. CASE RescindUnregister
    <3>1. chan' = [chan EXCEPT !.rescind = "done"]
      BY <2>4 DEF RescindUnregister
    <3>2. /\ chan' \in ChanRecord
          /\ chan'.connected = chan.connected /\ chan'.refcnt = chan.refcnt
          /\ chan'.interrupt = chan.interrupt /\ chan'.drvdata = chan.drvdata
          /\ chan'.irq = chan.irq /\ chan'.rescind = "done"
      BY <2>1, <3>1 DEF ChanRecord
    <3> QED BY <3>2
  <2> QED BY <2>2, <2>3, <2>4
<1>2. Holding' = Holding /\ Opened' = Opened /\ CallsAreOK'
  BY <1>0, <1>1, QuietFiles DEF DeviceGone
<1>3. TypeOK'
  BY <1>0, <1>1 DEF TypeOK, Places
<1>4. HeldByPlace' /\ PlacesAgree'
  BY <1>0, <1>1, <1>2 DEF HeldByPlace, PlacesAgree, Early, Registered, Failing, Cleaning
<1>5. ReferencesAreCounted' /\ ConnectedWhileOpen'
  BY <1>0, <1>1, <1>2 DEF ReferencesAreCounted, ConnectedWhileOpen
<1>6. MissingIsExposed' /\ DisciplinedUseIsSafe'
  BY <1>0, <1>1, <1>2 DEF MissingIsExposed, DisciplinedUseIsSafe, Failing
<1> QED BY <1>2, <1>3, <1>4, <1>5, <1>6

\* Whoever holds the device when info goes is exposed from then on.
LEMMA UnregisterInfoKeepsInv ==
  ASSUME IInv, ~oops, UnregisterInfo
  PROVE  IInv'
<1> USE DEF IInv, UnregisterInfo
<1>1. /\ idev' \in IdevRecord
      /\ idev'.info = "null" /\ idev'.refs = idev.refs /\ idev'.event = idev.event
      /\ idev'.exposed <=> idev.exposed \/ Holding # {}
  <2>1. (idev.exposed \/ Holding # {}) \in BOOLEAN
    OBVIOUS
  <2> QED BY <2>1 DEF TypeOK, IdevRecord
<1>2. Holding' = Holding /\ Opened' = Opened /\ CallsAreOK'
  BY <1>1, QuietFiles DEF DeviceGone
<1>3. TypeOK'
  BY <1>1 DEF TypeOK, Places
<1>4. HeldByPlace' /\ PlacesAgree'
  BY <1>1, <1>2 DEF HeldByPlace, PlacesAgree, Early, Registered, Failing, Cleaning
<1>5. ReferencesAreCounted' /\ ConnectedWhileOpen'
  BY <1>1, <1>2 DEF ReferencesAreCounted, ConnectedWhileOpen
<1>6. MissingIsExposed' /\ DisciplinedUseIsSafe'
  <2>1. chan.connected => Holding # {}
    BY DEF ConnectedWhileOpen, PlacesAgree, Registered, Opened, Holding
  <2> QED BY <1>1, <1>2, <2>1 DEF MissingIsExposed, DisciplinedUseIsSafe
<1> QED BY <1>2, <1>3, <1>4, <1>5, <1>6

\* The rest of the unregistration frees the minor and drops one reference.
LEMMA UnregisterKeepsInv ==
  ASSUME IInv, ~oops, UnregisterMinor \/ UnregisterPut
  PROVE  IInv'
<1> USE DEF IInv
<1>0. /\ UNCHANGED <<chan, file, oops>> /\ driver \in {"minor", "put"}
      /\ driver' \in {"put", "cleanup"}
  BY DEF UnregisterMinor, UnregisterPut
<1>1. /\ idev' \in IdevRecord
      /\ idev'.info = idev.info /\ idev'.event = idev.event
      /\ idev'.exposed = idev.exposed /\ ~idev'.minor
      /\ \/ driver' = "put" /\ held' = held /\ idev'.refs = idev.refs
         \/ /\ driver' = "cleanup" /\ held' = held \ {"device"}
            /\ "device" \in held /\ idev'.refs = idev.refs - 1
  <2>1. CASE UnregisterMinor
    BY <2>1 DEF UnregisterMinor, TypeOK, IdevRecord
  <2>2. CASE UnregisterPut
    <3>1. "device" \in held /\ ~idev.minor
      BY <2>2 DEF UnregisterPut, HeldByPlace, PlacesAgree, Registered
    <3>2. idev.refs - 1 \in Nat
      BY <3>1, HoldersAreFinite DEF ReferencesAreCounted
    <3> QED BY <2>2, <3>1, <3>2 DEF UnregisterPut, TypeOK, IdevRecord
  <2> QED BY <2>1, <2>2
<1>2. Holding' = Holding /\ Opened' = Opened /\ CallsAreOK'
  BY <1>0, <1>1, QuietFiles DEF DeviceGone
<1>3. TypeOK'
  BY <1>0, <1>1 DEF TypeOK, Places
<1>4. HeldByPlace' /\ PlacesAgree'
  BY <1>0, <1>1, <1>2 DEF HeldByPlace, PlacesAgree, Early, Registered, Failing, Cleaning
<1>5. ReferencesAreCounted' /\ ConnectedWhileOpen'
  BY <1>0, <1>1, <1>2, HoldersAreFinite DEF ReferencesAreCounted, ConnectedWhileOpen
<1>6. MissingIsExposed' /\ DisciplinedUseIsSafe'
  BY <1>0, <1>1, <1>2 DEF MissingIsExposed, DisciplinedUseIsSafe, Failing
<1> QED BY <1>2, <1>3, <1>4, <1>5, <1>6

\* hv_uio_cleanup, at the label or in the removal.
LEMMA CleanupKeepsInv ==
  ASSUME IInv, ~oops,
         \/ Cleanup("send", "fail_close", "fail_recv")
         \/ Cleanup("recv", "fail_recv", "fail_free_ring")
         \/ Cleanup("send", "cleanup", "cleanup_recv")
         \/ Cleanup("recv", "cleanup_recv", "free_ring")
  PROVE  IInv'
<1> USE DEF IInv
<1>0. /\ UNCHANGED <<idev, chan, file, oops>>
      /\ \/ driver = "fail_close" /\ driver' = "fail_recv" /\ held' = held \ {"send"}
         \/ driver = "fail_recv" /\ driver' = "fail_free_ring" /\ held' = held \ {"recv"}
         \/ driver = "cleanup" /\ driver' = "cleanup_recv" /\ held' = held \ {"send"}
         \/ driver = "cleanup_recv" /\ driver' = "free_ring" /\ held' = held \ {"recv"}
  BY DEF Cleanup
<1>1. Holding' = Holding /\ Opened' = Opened /\ CallsAreOK'
  BY <1>0, QuietFiles DEF DeviceGone
<1>2. TypeOK'
  BY <1>0 DEF TypeOK, Places
<1>3. HeldByPlace'
  BY <1>0 DEF HeldByPlace, Registered
<1>4. PlacesAgree'
  BY <1>0, <1>1 DEF PlacesAgree, Early, Registered, Failing, Cleaning
<1>5. ReferencesAreCounted' /\ ConnectedWhileOpen'
  BY <1>0, <1>1 DEF ReferencesAreCounted, ConnectedWhileOpen
<1>6. MissingIsExposed' /\ DisciplinedUseIsSafe'
  BY <1>0, <1>1 DEF MissingIsExposed, DisciplinedUseIsSafe, Failing
<1> QED BY <1>1, <1>2, <1>3, <1>4, <1>5, <1>6

\* The end of a probe that fails: who has opened the device is exposed.
LEMMA FailFreeRingKeepsInv ==
  ASSUME IInv, ~oops, FailFreeRing
  PROVE  IInv'
<1> USE DEF IInv
<1>0. /\ UNCHANGED <<chan, file, oops>>
      /\ driver = "fail_free_ring" /\ driver' = "failed" /\ held' = held \ {"ring"}
  BY DEF FailFreeRing
<1>1. /\ idev' \in IdevRecord /\ idev'.info # "set"
      /\ idev'.info = "null" <=> idev.info = "null"
      /\ idev'.refs = idev.refs /\ idev'.event = idev.event
      /\ idev'.minor = idev.minor /\ idev'.exposed = idev.exposed
  <2> DEFINE i == IF idev.info = "set" THEN "dangling" ELSE idev.info
  <2>1. /\ i \in {"null", "set", "dangling"} /\ i # "set"
        /\ i = "null" <=> idev.info = "null"
    BY DEF TypeOK, IdevRecord
  <2>2. idev' = [idev EXCEPT !.info = i]
    BY DEF FailFreeRing
  <2> HIDE DEF i
  <2>3. /\ idev' \in IdevRecord /\ idev'.info = i
        /\ idev'.refs = idev.refs /\ idev'.event = idev.event
        /\ idev'.minor = idev.minor /\ idev'.exposed = idev.exposed
    BY <2>1, <2>2 DEF TypeOK, IdevRecord
  <2> QED BY <2>1, <2>3
<1>2. Holding' = Holding /\ Opened' = Opened /\ CallsAreOK'
  BY <1>0, <1>1, QuietFiles DEF DeviceGone
<1>3. TypeOK'
  BY <1>0, <1>1 DEF TypeOK, Places
<1>4. HeldByPlace' /\ PlacesAgree'
  BY <1>0, <1>1, <1>2 DEF HeldByPlace, PlacesAgree, Early, Registered, Failing, Cleaning
<1>5. ReferencesAreCounted' /\ ConnectedWhileOpen'
  BY <1>0, <1>1, <1>2 DEF ReferencesAreCounted, ConnectedWhileOpen
<1>6. MissingIsExposed' /\ DisciplinedUseIsSafe'
  BY <1>0, <1>1, <1>2 DEF MissingIsExposed, DisciplinedUseIsSafe, Failing
<1> QED BY <1>2, <1>3, <1>4, <1>5, <1>6

\* The end of the removal: a channel that is still connected here belongs to an
\* exposed file.
LEMMA RemoveFreeRingKeepsInv ==
  ASSUME IInv, ~oops, RemoveFreeRing
  PROVE  IInv'
<1> USE DEF IInv
<1>0. /\ UNCHANGED <<idev, file, oops>> /\ held' = held \ {"ring"}
      /\ driver = "free_ring" /\ driver' = "removed"
  BY DEF RemoveFreeRing
<1>1. /\ chan' \in ChanRecord /\ ~chan'.drvdata
      /\ chan'.connected = chan.connected /\ chan'.refcnt = chan.refcnt
      /\ chan'.interrupt = chan.interrupt /\ chan'.irq = chan.irq
      /\ chan'.rescind = chan.rescind /\ chan'.crossed = chan.crossed
  BY DEF RemoveFreeRing, TypeOK, ChanRecord
<1>2. Holding' = Holding /\ Opened' = Opened /\ CallsAreOK'
  BY <1>0, <1>1, QuietFiles DEF DeviceGone
<1>3. TypeOK'
  BY <1>0, <1>1 DEF TypeOK, Places
<1>4. HeldByPlace' /\ PlacesAgree'
  BY <1>0, <1>1, <1>2 DEF HeldByPlace, PlacesAgree, Early, Registered, Failing, Cleaning
<1>5. ReferencesAreCounted' /\ ConnectedWhileOpen'
  BY <1>0, <1>1, <1>2 DEF ReferencesAreCounted, ConnectedWhileOpen
<1>6. MissingIsExposed' /\ DisciplinedUseIsSafe'
  BY <1>0, <1>1, <1>2 DEF MissingIsExposed, DisciplinedUseIsSafe, Failing
<1> QED BY <1>2, <1>3, <1>4, <1>5, <1>6

-----------------------------------------------------------------------------
\* A step that changes the channel only by its mask, its interrupt or the place of
\* the rescind.
LEMMA ChannelKeepsInv ==
  ASSUME IInv, UNCHANGED <<driver, held, idev, file>>,
         chan' \in ChanRecord,
         chan'.connected = chan.connected, chan'.refcnt = chan.refcnt,
         chan'.drvdata = chan.drvdata, chan'.irq => chan.irq,
         chan'.interrupt # "none" => chan.connected,
         chan'.crossed = chan.crossed,
         chan'.rescind \in {"irq", "notify"} => chan.rescind \in {"irq", "notify"},
         oops' \in BOOLEAN, oops' => idev.exposed \/ chan.crossed
  PROVE  IInv'
<1> USE DEF IInv
<1>1. Holding' = Holding /\ Opened' = Opened /\ CallsAreOK'
  BY QuietFiles DEF DeviceGone
<1>2. TypeOK'
  BY DEF TypeOK
<1>3. HeldByPlace' /\ PlacesAgree'
  BY <1>1 DEF HeldByPlace, PlacesAgree
<1>4. ReferencesAreCounted' /\ ConnectedWhileOpen'
  BY <1>1 DEF ReferencesAreCounted, ConnectedWhileOpen
<1>5. MissingIsExposed' /\ DisciplinedUseIsSafe'
  BY <1>1 DEF MissingIsExposed, DisciplinedUseIsSafe
<1> QED BY <1>1, <1>2, <1>3, <1>4, <1>5

\* Interrupts come to a connected channel.
LEMMA InterruptKeepsInv ==
  ASSUME IInv, ~oops, Interrupt \/ ChannelCallback
  PROVE  IInv'
<1>1. /\ chan \in ChanRecord /\ chan.interrupts + 1 \in Nat
      /\ chan.interrupt # "none" => chan.connected
  BY DEF IInv, TypeOK, ChanRecord, MissingIsExposed
<1>2. /\ UNCHANGED <<driver, held, idev, file>>
      /\ oops' \in BOOLEAN /\ (oops' => idev.exposed)
  BY DEF Interrupt, ChannelCallback, IInv, TypeOK
<1>3. CASE Interrupt
  <2>1. /\ chan' = [chan EXCEPT !.interrupt = "raised", !.interrupts = chan.interrupts + 1]
        /\ chan.connected
    BY <1>3 DEF Interrupt
  <2>2. /\ chan' \in ChanRecord
        /\ chan'.connected = chan.connected /\ chan'.refcnt = chan.refcnt
        /\ chan'.drvdata = chan.drvdata /\ chan'.irq = chan.irq
        /\ chan'.rescind = chan.rescind /\ chan'.crossed = chan.crossed
    BY <1>1, <2>1 DEF ChanRecord
  <2> QED BY <1>2, <2>1, <2>2, ChannelKeepsInv
<1>4. CASE ChannelCallback
  <2>1. /\ chan' \in ChanRecord
        /\ chan'.connected = chan.connected /\ chan'.refcnt = chan.refcnt
        /\ chan'.drvdata = chan.drvdata /\ chan'.irq = chan.irq
        /\ chan'.rescind = chan.rescind /\ chan'.crossed = chan.crossed
    BY <1>1, <1>4 DEF ChannelCallback, ChanRecord
  <2>2. chan.connected
    BY <1>1, <1>4 DEF ChannelCallback
  <2> QED BY <1>2, <2>1, <2>2, ChannelKeepsInv
<1> QED BY <1>3, <1>4

\* A call on a dangling info is made by an exposed file.
LEMMA DanglingIsExposed ==
  ASSUME IInv, NEW f \in Files, file[f].pc # "closed", idev.info = "dangling"
  PROVE  idev.exposed
<1>1. f \in Holding
  BY DEF Holding
<1> QED BY <1>1 DEF IInv, PlacesAgree, MissingIsExposed

\* Processes set and clear the mask.
LEMMA MaskKeepsInv ==
  ASSUME IInv, ~oops, NEW f \in Files, NEW irq_on \in BOOLEAN,
         UserUnmask(f) \/ Write(f, irq_on)
  PROVE  IInv'
<1>1. chan \in ChanRecord /\ (chan.interrupt # "none" => chan.connected)
  BY DEF IInv, TypeOK, MissingIsExposed
<1>2. CASE chan' = chan /\ oops' = TRUE
  <2>1. idev.exposed /\ UNCHANGED <<driver, held, idev, file>>
    <3>1. Write(f, irq_on) /\ idev.info = "dangling"
      BY <1>2 DEF UserUnmask, Write
    <3> QED BY <3>1, DanglingIsExposed DEF Write
  <2> QED BY <1>1, <1>2, <2>1, ChannelKeepsInv
<1>3. CASE \E mask \in BOOLEAN : chan' = [chan EXCEPT !.mask = mask] /\ UNCHANGED oops
  <2>1. /\ chan' \in ChanRecord /\ chan'.interrupt = chan.interrupt
        /\ chan'.connected = chan.connected /\ chan'.refcnt = chan.refcnt
        /\ chan'.drvdata = chan.drvdata /\ chan'.irq = chan.irq
        /\ chan'.rescind = chan.rescind /\ chan'.crossed = chan.crossed
    BY <1>1, <1>3 DEF ChanRecord
  <2>2. UNCHANGED <<driver, held, idev, file>>
    BY DEF UserUnmask, Write
  <2>3. oops' \in BOOLEAN /\ (oops' => idev.exposed)
    BY <1>3 DEF IInv, TypeOK
  <2> QED BY <1>1, <2>1, <2>2, <2>3, ChannelKeepsInv
<1> QED BY <1>2, <1>3 DEF UserUnmask, Write

\* A wake-up, of a notification or of the unregistration.
Woken ==
  file' \in {[f \in Files |-> [file[f] EXCEPT !.asleep = FALSE, !.missed = m[f]]] :
              m \in [Files -> BOOLEAN]}

\* Both forms are wake-ups.
LEMMA WakeUpIsWoken ==
  ASSUME TypeOK,
         WakeUp \/ UnregisterWake
  PROVE  Woken
<1>1. file \in [Files -> FileRecord]
  BY DEF TypeOK
<1>2. CASE WakeUp
  <2> DEFINE m == [f \in Files |-> file[f].missed]
  <2>1. m \in [Files -> BOOLEAN]
    BY <1>1 DEF FileRecord
  <2>2. \A f \in Files : [file[f] EXCEPT !.asleep = FALSE]
                           = [file[f] EXCEPT !.asleep = FALSE, !.missed = m[f]]
    BY <1>1 DEF FileRecord
  <2>3. file' = [f \in Files |-> [file[f] EXCEPT !.asleep = FALSE, !.missed = m[f]]]
    BY <1>2, <2>2 DEF WakeUp
  <2> HIDE DEF m
  <2> QED BY <2>1, <2>3 DEF Woken
<1>3. CASE UnregisterWake
  <2> DEFINE m == [f \in Files |-> file[f].missed \/ file[f].read = "state"]
  <2>1. m \in [Files -> BOOLEAN]
    OBVIOUS
  <2>2. file' = [f \in Files |-> [file[f] EXCEPT !.asleep = FALSE, !.missed = m[f]]]
    BY <1>3 DEF UnregisterWake
  <2> HIDE DEF m
  <2> QED BY <2>1, <2>2 DEF Woken
<1> QED BY <1>2, <1>3

\* A wake-up, with or without an event, changes no call.
LEMMA WakeUpStays ==
  ASSUME IInv, Woken, idev'.event \in {idev.event, idev.event + 1},
         DeviceGone <=> DeviceGone'
  PROVE  /\ file' \in [Files -> FileRecord]
         /\ Holding' = Holding /\ Opened' = Opened /\ CallsAreOK'
<1>1. ASSUME NEW f \in Files
      PROVE  /\ file'[f] \in FileRecord /\ file'[f].pc = file[f].pc
             /\ CallOK(file'[f], idev'.event, DeviceGone')
  <2>1. file[f] \in FileRecord /\ idev.event \in Nat /\ idev'.event \in Nat
    BY DEF IInv, TypeOK, IdevRecord
  <2>2. PICK m \in BOOLEAN : file'[f] = [file[f] EXCEPT !.asleep = FALSE, !.missed = m]
    BY DEF Woken
  <2>3. /\ file'[f] \in FileRecord /\ file'[f].pc = file[f].pc
        /\ file'[f].read = file[f].read /\ file'[f].result = file[f].result
        /\ file'[f].late = file[f].late /\ file'[f].ready = file[f].ready
        /\ file'[f].event_count = file[f].event_count
    BY <2>1, <2>2 DEF FileRecord
  <2>4. CallOK(file'[f], idev.event, DeviceGone)
    BY <2>1, <2>3 DEF IInv, CallsAreOK, CallOK
  <2>5. DeviceGone \in BOOLEAN /\ DeviceGone' \in BOOLEAN
    BY DEF DeviceGone
  <2>6. CallOK(file'[f], idev'.event, DeviceGone')
    BY <2>1, <2>3, <2>4, <2>5, CallStays
  <2> QED BY <2>3, <2>6
<1>2. file' \in [Files -> FileRecord]
  BY <1>1 DEF Woken
<1> QED BY <1>1, <1>2 DEF Holding, Opened, CallsAreOK

\* As long as the driver is there, its data and idev are.
LEMMA BoundCanNotify ==
  ASSUME IInv, driver \in {"bound", "remove"}
  PROVE  CanNotify
<1>1. chan.drvdata /\ "device" \in held
  BY DEF IInv, PlacesAgree, HeldByPlace, Registered
<1>2. idev.refs > 0
  BY <1>1, HoldersAreFinite DEF IInv, ReferencesAreCounted
<1> QED BY <1>1, <1>2 DEF CanNotify

\* The second half of the callback finds the driver's data, unless the file
\* that keeps the channel connected is exposed.
LEMMA CallbackKeepsInv ==
  ASSUME IInv, ~oops, CallbackNotify
  PROVE  IInv'
<1> USE DEF IInv
<1>1. /\ chan' \in ChanRecord /\ chan'.interrupt = "none"
      /\ chan'.connected = chan.connected /\ chan'.refcnt = chan.refcnt
      /\ chan'.drvdata = chan.drvdata /\ chan'.irq = chan.irq
      /\ chan'.rescind = chan.rescind /\ chan'.crossed = chan.crossed
  BY DEF CallbackNotify, TypeOK, ChanRecord
<1>2. CASE CanNotify /\ EventNotify /\ UNCHANGED oops
  <2>1. /\ idev' \in IdevRecord /\ idev'.event = idev.event + 1
        /\ idev'.info = idev.info /\ idev'.refs = idev.refs
        /\ idev'.minor = idev.minor /\ idev'.exposed = idev.exposed
    BY <1>2 DEF EventNotify, TypeOK, IdevRecord
  <2>2. /\ file' \in [Files -> FileRecord]
        /\ Holding' = Holding /\ Opened' = Opened /\ CallsAreOK'
    BY <1>1, <1>2, <2>1, WakeUpIsWoken, WakeUpStays DEF EventNotify, DeviceGone
  <2>3. TypeOK'
    BY <1>1, <1>2, <2>1, <2>2 DEF TypeOK, CallbackNotify
  <2>4. HeldByPlace' /\ PlacesAgree'
    BY <1>1, <2>1, <2>2 DEF HeldByPlace, PlacesAgree, CallbackNotify
  <2>5. ReferencesAreCounted' /\ ConnectedWhileOpen'
    BY <1>1, <2>1, <2>2 DEF ReferencesAreCounted, ConnectedWhileOpen, CallbackNotify
  <2>6. MissingIsExposed' /\ DisciplinedUseIsSafe'
    BY <1>1, <1>2, <2>1, <2>2 DEF MissingIsExposed, DisciplinedUseIsSafe, CallbackNotify
  <2> QED BY <2>2, <2>3, <2>4, <2>5, <2>6
<1>3. CASE ~CanNotify /\ oops' = TRUE /\ UNCHANGED <<idev, file>>
  <2>1. idev.exposed
    BY <1>3, BoundCanNotify DEF CallbackNotify, MissingIsExposed
  <2> QED BY <1>1, <1>3, <2>1, ChannelKeepsInv DEF CallbackNotify
<1> QED BY <1>2, <1>3 DEF CallbackNotify

\* hv_uio_rescind finds the driver's data while the driver is bound.
LEMMA RescindIrqKeepsInv ==
  ASSUME IInv, ~oops, RescindIrq
  PROVE  IInv'
<1>1. /\ UNCHANGED <<driver, held, idev, file>> /\ chan.rescind = "irq"
      /\ chan \in ChanRecord /\ oops \in BOOLEAN
      /\ chan.interrupt # "none" => chan.connected
  BY DEF RescindIrq, IInv, TypeOK, MissingIsExposed
<1>2. CASE chan' = [chan EXCEPT !.irq = FALSE, !.rescind = "notify"] /\ UNCHANGED oops
  <2>1. /\ chan' \in ChanRecord /\ ~chan'.irq
        /\ chan'.connected = chan.connected /\ chan'.refcnt = chan.refcnt
        /\ chan'.drvdata = chan.drvdata /\ chan'.interrupt = chan.interrupt
        /\ chan'.crossed = chan.crossed
    BY <1>1, <1>2 DEF ChanRecord
  <2> QED BY <1>1, <1>2, <2>1, ChannelKeepsInv
<1>3. CASE ~chan.drvdata /\ oops' = TRUE /\ UNCHANGED chan
  <2>1. chan.crossed
    BY <1>1, <1>3 DEF IInv, PlacesAgree, MissingIsExposed
  <2> QED BY <1>1, <1>3, <2>1, ChannelKeepsInv
<1> QED BY <1>2, <1>3 DEF RescindIrq

\* So does its second part.
LEMMA RescindNotifyKeepsInv ==
  ASSUME IInv, ~oops, RescindNotify
  PROVE  IInv'
<1> USE DEF IInv
<1>0. UNCHANGED <<driver, held>> /\ chan.rescind = "notify" /\ chan \in ChanRecord
  BY DEF RescindNotify, TypeOK
<1>1. CASE /\ CanNotify /\ EventNotify
           /\ chan' = [chan EXCEPT !.rescind = "unregister"] /\ UNCHANGED oops
  <2>1. /\ chan' \in ChanRecord /\ chan'.interrupt = chan.interrupt
        /\ chan'.connected = chan.connected /\ chan'.refcnt = chan.refcnt
        /\ chan'.drvdata = chan.drvdata /\ chan'.irq = chan.irq
        /\ chan'.rescind = "unregister" /\ chan'.crossed = chan.crossed
    BY <1>0, <1>1 DEF ChanRecord
  <2>2. /\ idev' \in IdevRecord /\ idev'.event = idev.event + 1
        /\ idev'.info = idev.info /\ idev'.refs = idev.refs
        /\ idev'.minor = idev.minor /\ idev'.exposed = idev.exposed
    BY <1>1 DEF EventNotify, TypeOK, IdevRecord
  <2>3. /\ file' \in [Files -> FileRecord]
        /\ Holding' = Holding /\ Opened' = Opened /\ CallsAreOK'
    BY <1>1, <2>1, <2>2, WakeUpIsWoken, WakeUpStays DEF EventNotify, DeviceGone
  <2>4. TypeOK'
    BY <1>0, <1>1, <2>1, <2>2, <2>3 DEF TypeOK
  <2>5. HeldByPlace' /\ PlacesAgree'
    BY <1>0, <2>1, <2>2, <2>3 DEF HeldByPlace, PlacesAgree
  <2>6. ReferencesAreCounted' /\ ConnectedWhileOpen'
    BY <1>0, <2>1, <2>2, <2>3 DEF ReferencesAreCounted, ConnectedWhileOpen
  <2>7. MissingIsExposed' /\ DisciplinedUseIsSafe'
    BY <1>0, <1>1, <2>1, <2>2, <2>3 DEF MissingIsExposed, DisciplinedUseIsSafe
  <2> QED BY <2>3, <2>4, <2>5, <2>6, <2>7
<1>2. CASE ~CanNotify /\ oops' = TRUE /\ UNCHANGED <<idev, chan, file>>
  <2>1. chan.crossed
    BY <1>0, <1>2, BoundCanNotify DEF MissingIsExposed
  <2>2. chan' \in ChanRecord /\ (chan'.interrupt # "none" => chan.connected)
    BY <1>0, <1>2 DEF MissingIsExposed
  <2> QED BY <1>0, <1>2, <2>1, <2>2, ChannelKeepsInv
<1> QED BY <1>1, <1>2 DEF RescindNotify

\* The unregistration wakes all readers.
LEMMA UnregisterWakeKeepsInv ==
  ASSUME IInv, ~oops, UnregisterWake
  PROVE  IInv'
<1> USE DEF IInv
<1>1. UNCHANGED <<held, idev, chan, oops>> /\ driver = "wake" /\ driver' = "minor"
  BY DEF UnregisterWake
<1>2. /\ file' \in [Files -> FileRecord]
      /\ Holding' = Holding /\ Opened' = Opened /\ CallsAreOK'
  BY <1>1, WakeUpIsWoken, WakeUpStays DEF DeviceGone
<1>3. TypeOK'
  BY <1>1, <1>2 DEF TypeOK, Places
<1>4. HeldByPlace' /\ PlacesAgree'
  BY <1>1, <1>2 DEF HeldByPlace, PlacesAgree, Early, Registered, Failing, Cleaning
<1>5. ReferencesAreCounted' /\ ConnectedWhileOpen'
  BY <1>1, <1>2 DEF ReferencesAreCounted, ConnectedWhileOpen
<1>6. MissingIsExposed' /\ DisciplinedUseIsSafe'
  BY <1>1, <1>2 DEF MissingIsExposed, DisciplinedUseIsSafe, Failing
<1> QED BY <1>2, <1>3, <1>4, <1>5, <1>6

-----------------------------------------------------------------------------
\* A step of one file keeps what holds of all calls if it keeps it of that one.
LEMMA OneCall ==
  ASSUME IInv, NEW f \in Files, NEW r \in FileRecord,
         file' = [file EXCEPT ![f] = r],
         idev'.event = idev.event, DeviceGone' <=> DeviceGone,
         CallOK(r, idev.event, DeviceGone)
  PROVE  CallsAreOK'
<1>1. \A g \in Files : file'[g] = IF g = f THEN r ELSE file[g]
  BY FileChange DEF IInv
<1>2. ASSUME NEW g \in Files
      PROVE  CallOK(file'[g], idev'.event, DeviceGone')
  <2>1. CallOK(file'[g], idev.event, DeviceGone)
    BY <1>1 DEF IInv, CallsAreOK
  <2> QED BY <2>1 DEF CallOK
<1> QED BY <1>2 DEF CallsAreOK

\* A step inside a call of an open file.
LEMMA CallKeepsInv ==
  ASSUME IInv, NEW f \in Files, NEW r \in FileRecord,
         file' = [file EXCEPT ![f] = r], r.pc = file[f].pc,
         UNCHANGED <<driver, held, idev, chan>>,
         oops' \in BOOLEAN, oops' => idev.exposed,
         CallOK(r, idev.event, DeviceGone)
  PROVE  IInv'
<1> USE DEF IInv
<1>1. file' \in [Files -> FileRecord] /\ Holding' = Holding /\ Opened' = Opened
  BY FileChange DEF Holding, Opened
<1>2. CallsAreOK'
  BY OneCall DEF DeviceGone
<1>3. TypeOK'
  BY <1>1 DEF TypeOK
<1>4. HeldByPlace' /\ PlacesAgree'
  BY <1>1 DEF HeldByPlace, PlacesAgree
<1>5. ReferencesAreCounted' /\ ConnectedWhileOpen'
  BY <1>1 DEF ReferencesAreCounted, ConnectedWhileOpen
<1>6. MissingIsExposed' /\ DisciplinedUseIsSafe'
  BY <1>1 DEF MissingIsExposed, DisciplinedUseIsSafe
<1> QED BY <1>2, <1>3, <1>4, <1>5, <1>6

\* A call that meets a dangling info.
LEMMA FaultKeepsInv ==
  ASSUME IInv, NEW f \in Files, file[f].pc # "closed", idev.info = "dangling",
         oops' = TRUE, UNCHANGED <<driver, held, idev, chan, file>>
  PROVE  IInv'
<1>1. chan' \in ChanRecord /\ (chan'.interrupt # "none" => chan.connected)
  BY DEF IInv, TypeOK, MissingIsExposed
<1> QED BY <1>1, DanglingIsExposed, ChannelKeepsInv

\* What is known of the record of a file at the beginning of a step.
LEMMA FileFacts ==
  ASSUME IInv, ~oops, NEW f \in Files
  PROVE  /\ file[f] \in FileRecord /\ CallOK(file[f], idev.event, DeviceGone)
         /\ oops \in BOOLEAN /\ file \in [Files -> FileRecord]
         /\ idev.event \in Nat
BY DEF IInv, TypeOK, IdevRecord, CallsAreOK

\* mmap() of a device that is gone.
LEMMA MmapKeepsInv ==
  ASSUME IInv, ~oops, NEW f \in Files, Mmap(f)
  PROVE  IInv'
BY FaultKeepsInv DEF Mmap

\* A call begins.  It is late if the device is gone.
LEMMA ReadCallKeepsInv ==
  ASSUME IInv, ~oops, NEW f \in Files, NEW poll \in BOOLEAN, ReadCall(f, poll)
  PROVE  IInv'
<1> DEFINE rd == file[f].result = "readable"
           r == [file[f] EXCEPT !.read = "check", !.poll = poll, !.late = DeviceGone,
                                !.ready = rd, !.missed = FALSE, !.result = "none"]
<1>1. DeviceGone \in BOOLEAN /\ rd \in BOOLEAN
  BY DEF DeviceGone
<1>2. file' = [file EXCEPT ![f] = r] /\ file[f].pc = "open"
  BY FileFacts DEF ReadCall
<1>3. r \in FileRecord /\ r.pc = file[f].pc
  BY <1>1, FileFacts DEF FileRecord
<1>4. CallOK(r, idev.event, DeviceGone)
  <2>1. /\ r.pc = "open" /\ r.read = "check" /\ r.result = "none"
        /\ r.event_count = file[f].event_count
        /\ r.late <=> DeviceGone
        /\ r.ready <=> rd
    BY <1>1, <1>2, FileFacts DEF FileRecord
  <2> HIDE DEF r
  <2> QED BY <2>1, FileFacts DEF CallOK
<1> HIDE DEF r
<1> QED BY <1>2, <1>3, <1>4, FileFacts, CallKeepsInv DEF ReadCall

\* A call that ends with what it may report keeps the invariant.
LEMMA ReturnKeepsInv ==
  ASSUME IInv, ~oops, NEW f \in Files,
         NEW result \in {"none", "readable"},
         result = "readable" => file[f].event_count # idev.event /\ ~file[f].late,
         file[f].pc = "open",
         Return(f, result), UNCHANGED <<driver, held, idev, chan, oops>>
  PROVE  IInv'
<1> DEFINE r == [file[f] EXCEPT !.read = "none", !.asleep = FALSE, !.poll = FALSE,
                                !.ready = FALSE, !.missed = FALSE, !.result = result]
<1>1. file' = [file EXCEPT ![f] = r]
  BY FileFacts DEF Return
<1>2. r \in FileRecord /\ r.pc = file[f].pc
  BY FileFacts DEF FileRecord
<1>3. CallOK(r, idev.event, DeviceGone)
  <2>1. /\ r.pc = "open" /\ r.read = "none" /\ r.result = result /\ r.ready = FALSE
        /\ r.event_count = file[f].event_count /\ r.late = file[f].late
    BY FileFacts DEF FileRecord
  <2> HIDE DEF r
  <2> QED BY <2>1, FileFacts DEF CallOK
<1> HIDE DEF r
<1> QED BY <1>1, <1>2, <1>3, FileFacts, CallKeepsInv

\* A file in a call is open.
LEMMA CallingIsOpen ==
  ASSUME IInv, ~oops, NEW f \in Files, file[f].read # "none"
  PROVE  file[f].pc = "open"
BY FileFacts DEF CallOK

\* A step inside a call that is not late, up to the comparison.
LEMMA GoOnKeepsInv ==
  ASSUME IInv, ~oops, NEW f \in Files, file[f].pc = "open", ~file[f].late,
         NEW place \in {"state", "compare", "check", "recheck"}, NEW asleep \in BOOLEAN,
         file' = [file EXCEPT ![f].read = place, ![f].asleep = asleep],
         UNCHANGED <<driver, held, idev, chan, oops>>
  PROVE  IInv'
<1> DEFINE r == [file[f] EXCEPT !.read = place, !.asleep = asleep]
<1>1. file' = [file EXCEPT ![f] = r]
  BY FileFacts
<1>2. r \in FileRecord /\ r.pc = file[f].pc
  BY FileFacts DEF FileRecord
<1>3. CallOK(r, idev.event, DeviceGone)
  <2>1. /\ r.pc = "open" /\ r.read = place /\ r.result = file[f].result
        /\ r.ready = file[f].ready /\ r.late = file[f].late
        /\ r.event_count = file[f].event_count
    BY FileFacts DEF FileRecord
  <2> HIDE DEF r
  <2> QED BY <2>1, FileFacts DEF CallOK
<1> HIDE DEF r
<1> QED BY <1>1, <1>2, <1>3, FileFacts, CallKeepsInv

\* The test of irq: here a late call ends.
LEMMA ReadCheckKeepsInv ==
  ASSUME IInv, ~oops, NEW f \in Files, ReadCheck(f)
  PROVE  IInv'
<1>0. file[f].read \in {"check", "recheck"} /\ file[f].pc = "open"
  BY CallingIsOpen DEF ReadCheck
<1>1. CASE idev.info = "dangling" /\ oops' = TRUE /\ UNCHANGED file
  BY <1>0, <1>1, FaultKeepsInv DEF ReadCheck
<1>2. CASE Return(f, "none") /\ UNCHANGED oops
  BY <1>0, <1>2, ReturnKeepsInv DEF ReadCheck
<1>3. CASE /\ ~NoIrq
           /\ file' = [file EXCEPT ![f].read = IF @ = "check" THEN "state" ELSE "compare"]
           /\ UNCHANGED oops
  <2> DEFINE place == IF file[f].read = "check" THEN "state" ELSE "compare"
  <2>1. file' = [file EXCEPT ![f].read = place]
    BY <1>3
  <2>2. place \in {"state", "compare"}
    OBVIOUS
  <2> HIDE DEF place
  <2>3. file' = [file EXCEPT ![f].read = place, ![f].asleep = file[f].asleep]
    <3>1. [file[f] EXCEPT !.read = place]
            = [file[f] EXCEPT !.read = place, !.asleep = file[f].asleep]
      BY FileFacts DEF FileRecord
    <3> QED BY <2>1, <3>1, FileFacts
  <2>4. ~file[f].late
    BY <1>3, FileFacts DEF CallOK, DeviceGone, NoIrq
  <2>5. file[f].asleep \in BOOLEAN
    BY FileFacts DEF FileRecord
  <2> QED BY <1>0, <1>3, <2>2, <2>3, <2>4, <2>5, GoOnKeepsInv DEF ReadCheck
<1> QED BY <1>1, <1>2, <1>3 DEF ReadCheck

\* The change of the task state.
LEMMA ReadSetStateKeepsInv ==
  ASSUME IInv, ~oops, NEW f \in Files, ReadSetState(f)
  PROVE  IInv'
<1>1. file[f].read = "state" /\ file[f].pc = "open"
  BY CallingIsOpen DEF ReadSetState
<1>2. ~file[f].late
  BY <1>1, FileFacts DEF CallOK
<1> QED BY <1>1, <1>2, GoOnKeepsInv DEF ReadSetState

\* A call goes on to schedule() only when there is nothing to report.
LEMMA WaitKeepsInv ==
  ASSUME IInv, ~oops, NEW f \in Files, file[f].read = "compare",
         idev.event = file[f].event_count,
         file' = [file EXCEPT ![f].read = "schedule"],
         UNCHANGED <<driver, held, idev, chan, oops>>
  PROVE  IInv'
<1> DEFINE r == [file[f] EXCEPT !.read = "schedule"]
<1>1. file' = [file EXCEPT ![f] = r]
  BY FileFacts
<1>2. r \in FileRecord /\ r.pc = file[f].pc
  BY FileFacts DEF FileRecord
<1>3. CallOK(r, idev.event, DeviceGone)
  <2>1. /\ r.pc = file[f].pc /\ r.read = "schedule" /\ r.result = file[f].result
        /\ r.ready = file[f].ready /\ r.late = file[f].late
        /\ r.event_count = file[f].event_count
    BY FileFacts DEF FileRecord
  <2> HIDE DEF r
  <2> QED BY <2>1, FileFacts DEF CallOK
<1> HIDE DEF r
<1> QED BY <1>1, <1>2, <1>3, FileFacts, CallKeepsInv

\* The comparison of the counters.
LEMMA CompareKeepsInv ==
  ASSUME IInv, ~oops, NEW f \in Files, PollCompare(f) \/ ReadCompare(f)
  PROVE  IInv'
<1>0. /\ file[f].read = "compare" /\ file[f].pc = "open"
      /\ UNCHANGED <<driver, held, idev, chan, oops>>
  BY CallingIsOpen DEF PollCompare, ReadCompare
<1>1. ~file[f].late
  BY <1>0, FileFacts DEF CallOK
<1>2. CASE Readable(f) /\ Return(f, "readable")
  BY <1>0, <1>1, <1>2, ReturnKeepsInv DEF Readable
<1>3. CASE Return(f, "none")
  BY <1>0, <1>1, <1>3, ReturnKeepsInv
<1>4. CASE /\ idev.event = file[f].event_count
           /\ file' = [file EXCEPT ![f].read = "schedule"]
  BY <1>0, <1>4, WaitKeepsInv
<1>5. CASE ReturnEvent(f)
  <2> DEFINE r == [file[f] EXCEPT !.read = "none", !.asleep = FALSE, !.ready = FALSE,
                                  !.missed = FALSE, !.event_count = idev.event,
                                  !.result = "event"]
  <2>1. file' = [file EXCEPT ![f] = r]
    BY <1>5, FileFacts DEF ReturnEvent
  <2>2. r \in FileRecord /\ r.pc = file[f].pc
    BY FileFacts DEF FileRecord
  <2>3. CallOK(r, idev.event, DeviceGone)
    <3>1. /\ r.pc = "open" /\ r.read = "none" /\ r.result = "event" /\ r.ready = FALSE
          /\ r.event_count = idev.event /\ r.late = file[f].late
      BY <1>0, FileFacts DEF FileRecord
    <3> HIDE DEF r
    <3> QED BY <1>1, <3>1, FileFacts DEF CallOK
  <2> HIDE DEF r
  <2> QED BY <1>0, <2>1, <2>2, <2>3, FileFacts, CallKeepsInv
<1> QED BY <1>2, <1>3, <1>4, <1>5 DEF PollCompare, ReadCompare, Readable

\* schedule() returns, or the call is given up.
LEMMA ScheduleKeepsInv ==
  ASSUME IInv, ~oops, NEW f \in Files, ReadInterrupted(f) \/ ReadSchedule(f)
  PROVE  IInv'
<1>0. /\ file[f].read = "schedule" /\ file[f].pc = "open"
      /\ UNCHANGED <<driver, held, idev, chan, oops>>
  BY CallingIsOpen DEF ReadInterrupted, ReadSchedule
<1>1. CASE Return(f, "none")
  BY <1>0, <1>1, ReturnKeepsInv
<1>2. CASE ReadSchedule(f)
  <2>1. ~file[f].late
    BY <1>0, FileFacts DEF CallOK
  <2>2. CASE file' = [file EXCEPT ![f].read = "check"]
    <3>1. [file[f] EXCEPT !.read = "check"]
            = [file[f] EXCEPT !.read = "check", !.asleep = file[f].asleep]
      BY FileFacts DEF FileRecord
    <3>2. file' = [file EXCEPT ![f].read = "check", ![f].asleep = file[f].asleep]
      BY <2>2, <3>1, FileFacts
    <3>3. file[f].asleep \in BOOLEAN
      BY FileFacts DEF FileRecord
    <3> QED BY <1>0, <2>1, <3>2, <3>3, GoOnKeepsInv
  <2>3. CASE file' = [file EXCEPT ![f].read = "recheck", ![f].asleep = TRUE]
    BY <1>0, <2>1, <2>3, GoOnKeepsInv
  <2> QED BY <1>2, <2>2, <2>3 DEF ReadSchedule
<1> QED BY <1>1, <1>2 DEF ReadInterrupted, ReadSchedule

-----------------------------------------------------------------------------
\* open() counts the file among those that hold the device.
LEMMA EnterCounts ==
  ASSUME TypeOK, NEW f \in Files, file[f].pc = "closed",
         NEW r \in FileRecord, r.pc = "found", file' = [file EXCEPT ![f] = r]
  PROVE  /\ Cardinality(Holding') = Cardinality(Holding) + 1
         /\ Holding' # {} /\ Opened' = Opened
<1>1. Holding' = Holding \cup {f} /\ f \notin Holding /\ Opened' = Opened
  BY FileChange DEF Holding, Opened
<1> QED BY <1>1, HoldersAreFinite, FS_AddElement

\* A file that is done is no longer counted.
LEMMA LeaveCounts ==
  ASSUME TypeOK, NEW f \in Files, file[f].pc # "closed",
         file' = [file EXCEPT ![f] = ClosedFile]
  PROVE  /\ file' \in [Files -> FileRecord]
         /\ Cardinality(Holding) \in Nat \ {0}
         /\ Cardinality(Holding') = Cardinality(Holding) - 1
         /\ Holding' \subseteq Holding /\ Holding # {}
         /\ Opened' = Opened \ {f}
<1>1. ClosedFile \in FileRecord /\ ClosedFile.pc = "closed"
  BY DEF ClosedFile, FileRecord
<1>2. file' \in [Files -> FileRecord] /\ Opened' = Opened \ {f}
  BY <1>1, FileChange DEF Opened
<1>3. Holding' = Holding \ {f} /\ f \in Holding
  BY <1>1, FileChange DEF Holding
<1>4. Cardinality(Holding) # 0
  BY <1>3, HoldersAreFinite, FS_EmptySet
<1> QED BY <1>2, <1>3, <1>4, HoldersAreFinite, FS_RemoveElement

\* A file that leaves, and what becomes of the channel.
LEMMA PutDeviceKeepsInv ==
  ASSUME IInv, ~oops, NEW f \in Files, file[f].pc # "closed", PutDevice(f),
         UNCHANGED <<driver, held, oops>>,
         chan' \in ChanRecord, chan'.irq = chan.irq, chan'.drvdata = chan.drvdata,
         chan'.rescind = chan.rescind, chan'.crossed = chan.crossed,
         chan'.connected => chan.connected,
         chan'.interrupt # "none" => chan'.connected,
         idev.info = "set" => /\ chan'.refcnt = Cardinality(Opened \ {f})
                              /\ chan'.connected <=> Opened \ {f} # {}
  PROVE  IInv'
<1> USE DEF IInv
<1>1. /\ file' \in [Files -> FileRecord]
      /\ Cardinality(Holding) \in Nat \ {0}
      /\ Cardinality(Holding') = Cardinality(Holding) - 1
      /\ Holding' \subseteq Holding /\ Holding # {}
      /\ Opened' = Opened \ {f}
  BY LeaveCounts DEF PutDevice
<1>2. idev.refs - 1 \in Nat
  BY <1>1 DEF ReferencesAreCounted
<1>3. /\ idev' \in IdevRecord /\ idev'.refs = idev.refs - 1
      /\ idev'.info = idev.info /\ idev'.event = idev.event
      /\ idev'.minor = idev.minor /\ idev'.exposed = idev.exposed
  BY <1>2 DEF PutDevice, TypeOK, IdevRecord
<1>4. CallsAreOK'
  <2>1. ClosedFile \in FileRecord
    BY DEF ClosedFile, FileRecord
  <2>2. CallOK(ClosedFile, idev.event, DeviceGone)
    BY FileFacts DEF ClosedFile, CallOK
  <2> QED BY <1>3, <2>1, <2>2, OneCall DEF PutDevice, DeviceGone
<1>5. TypeOK'
  BY <1>1, <1>3 DEF TypeOK
<1>6. HeldByPlace' /\ PlacesAgree'
  BY <1>1, <1>3 DEF HeldByPlace, PlacesAgree
<1>7. ReferencesAreCounted' /\ ConnectedWhileOpen'
  BY <1>1, <1>3 DEF ReferencesAreCounted, ConnectedWhileOpen
<1>8. MissingIsExposed' /\ DisciplinedUseIsSafe'
  BY <1>1, <1>3 DEF MissingIsExposed, DisciplinedUseIsSafe
<1> QED BY <1>4, <1>5, <1>6, <1>7, <1>8

\* The minor leads to the device: one more reference, and exposure if the probe
\* is not over.
LEMMA OpenFindKeepsInv ==
  ASSUME IInv, ~oops, NEW f \in Files, OpenFind(f)
  PROVE  IInv'
<1> USE DEF IInv
<1> DEFINE r == [file[f] EXCEPT !.pc = "found"]
<1>1. file' = [file EXCEPT ![f] = r] /\ file[f].pc = "closed"
  BY FileFacts DEF OpenFind, FileGoto
<1>2. r \in FileRecord /\ r.pc = "found" /\ CallOK(r, idev.event, DeviceGone)
  BY <1>1, FileFacts DEF FileRecord, CallOK
<1> HIDE DEF r
<1>3. /\ Cardinality(Holding') = Cardinality(Holding) + 1
      /\ Holding' # {} /\ Opened' = Opened
  BY <1>1, <1>2, EnterCounts
<1>4. /\ idev' \in IdevRecord /\ idev'.refs = idev.refs + 1
      /\ idev'.info = idev.info /\ idev'.event = idev.event /\ idev'.minor = idev.minor
      /\ idev'.exposed <=> idev.exposed \/ driver \in {"attributes", "drvdata"}
  <2> DEFINE e == idev.exposed \/ driver \in {"attributes", "drvdata"}
  <2>1. e \in BOOLEAN /\ idev.refs + 1 \in Nat /\ idev.opens + 1 \in Nat
    BY DEF TypeOK, IdevRecord
  <2>2. idev' = [idev EXCEPT !.refs = idev.refs + 1, !.opens = idev.opens + 1,
                             !.exposed = e]
    BY DEF OpenFind
  <2> HIDE DEF e
  <2>3. /\ idev' \in IdevRecord /\ idev'.refs = idev.refs + 1
        /\ idev'.info = idev.info /\ idev'.event = idev.event /\ idev'.minor = idev.minor
        /\ idev'.exposed = e
    BY <2>1, <2>2 DEF TypeOK, IdevRecord
  <2> QED BY <2>3 DEF e
<1>5. driver \in Registered \cup {"wake", "minor"}
  BY DEF OpenFind, PlacesAgree
<1>6. TypeOK'
  BY <1>1, <1>2, <1>4, FileChange DEF TypeOK, OpenFind
<1>7. CallsAreOK'
  BY <1>1, <1>2, <1>4, OneCall DEF OpenFind, DeviceGone
<1>8. HeldByPlace' /\ PlacesAgree'
  BY <1>4, <1>5 DEF HeldByPlace, PlacesAgree, Registered, Early, OpenFind
<1>9. ReferencesAreCounted' /\ ConnectedWhileOpen'
  BY <1>3, <1>4, HoldersAreFinite DEF ReferencesAreCounted, ConnectedWhileOpen, OpenFind,
                                      TypeOK, IdevRecord
<1>10. MissingIsExposed' /\ DisciplinedUseIsSafe'
  BY <1>4, <1>5 DEF MissingIsExposed, DisciplinedUseIsSafe, OpenFind, Registered, Failing
<1> QED BY <1>6, <1>7, <1>8, <1>9, <1>10

\* A step of a file that goes on within open(): it holds the device as before.
LEMMA OpeningKeepsInv ==
  ASSUME IInv, ~oops, NEW f \in Files, NEW r \in FileRecord,
         file' = [file EXCEPT ![f] = r],
         file[f].pc # "closed", r.pc # "closed",
         CallOK(r, idev.event, DeviceGone),
         UNCHANGED <<driver, held, idev, oops>>,
         chan' \in ChanRecord, chan'.irq = chan.irq, chan'.drvdata = chan.drvdata,
         chan'.rescind = chan.rescind, chan'.crossed = chan.crossed,
         chan'.interrupt # "none" => chan'.connected,
         chan'.connected /\ ~chan.connected => idev.info = "set",
         ConnectedWhileOpen'
  PROVE  IInv'
<1> USE DEF IInv
<1>1. /\ file' \in [Files -> FileRecord] /\ Holding' = Holding
      /\ f \in Holding
  BY FileChange DEF Holding
<1>2. CallsAreOK'
  BY OneCall DEF DeviceGone
<1>3. TypeOK'
  BY <1>1 DEF TypeOK
<1>4. driver \notin Early
  BY <1>1 DEF PlacesAgree
<1>5. HeldByPlace' /\ PlacesAgree'
  BY <1>1, <1>4 DEF HeldByPlace, PlacesAgree
<1>6. ReferencesAreCounted'
  BY <1>1 DEF ReferencesAreCounted
<1>7. MissingIsExposed' /\ DisciplinedUseIsSafe'
  BY <1>1 DEF MissingIsExposed, DisciplinedUseIsSafe, PlacesAgree, Registered
<1> QED BY <1>2, <1>3, <1>5, <1>6, <1>7

\* The listener is made with the count of events so far.
LEMMA OpenListenerKeepsInv ==
  ASSUME IInv, ~oops, NEW f \in Files, OpenListener(f)
  PROVE  IInv'
<1>0. /\ file[f].pc = "found" /\ UNCHANGED <<driver, held, chan, oops>>
      /\ chan \in ChanRecord /\ (chan.interrupt # "none" => chan.connected)
      /\ ConnectedWhileOpen
  BY DEF OpenListener, IInv, TypeOK, MissingIsExposed
<1>1. CASE PutDevice(f)
  <2>1. Opened \ {f} = Opened
    BY <1>0 DEF Opened
  <2>2. idev.info = "set" => /\ chan'.refcnt = Cardinality(Opened \ {f})
                             /\ chan'.connected <=> Opened \ {f} # {}
    BY <1>0, <2>1 DEF ConnectedWhileOpen
  <2> QED BY <1>0, <1>1, <2>2, PutDeviceKeepsInv
<1>2. CASE /\ file' = [file EXCEPT ![f].pc = "listening", ![f].event_count = idev.event]
           /\ UNCHANGED idev
  <2> DEFINE r == [file[f] EXCEPT !.pc = "listening", !.event_count = idev.event]
  <2>1. file' = [file EXCEPT ![f] = r]
    BY <1>2, FileFacts
  <2>2. r \in FileRecord /\ r.pc = "listening"
    BY FileFacts DEF FileRecord
  <2>3. CallOK(r, idev.event, DeviceGone)
    <3>1. /\ r.read = file[f].read /\ r.result = file[f].result
          /\ r.late = file[f].late /\ r.ready = file[f].ready
          /\ r.event_count = idev.event
      BY FileFacts DEF FileRecord
    <3> HIDE DEF r
    <3> QED BY <1>0, <3>1, FileFacts DEF CallOK
  <2> HIDE DEF r
  <2>4. Opened' = Opened
    BY <1>0, <2>1, <2>2, FileChange DEF Opened, IInv
  <2>5. ConnectedWhileOpen'
    BY <1>0, <1>2, <2>4 DEF ConnectedWhileOpen
  <2> QED BY <1>0, <1>2, <2>1, <2>2, <2>3, <2>5, OpeningKeepsInv
<1> QED BY <1>1, <1>2 DEF OpenListener

\* The first file of all connects the ring, the others find it connected.
LEMMA OpenInfoKeepsInv ==
  ASSUME IInv, ~oops, NEW f \in Files, OpenInfo(f)
  PROVE  IInv'
<1>0. /\ file[f].pc = "listening" /\ UNCHANGED <<driver, held>>
      /\ chan \in ChanRecord /\ (chan.interrupt # "none" => chan.connected)
      /\ ConnectedWhileOpen /\ f \notin Opened
  BY DEF OpenInfo, IInv, TypeOK, MissingIsExposed, Opened
<1>1. Opened \ {f} = Opened
  BY <1>0
<1>2. CASE /\ idev.info = "null"
           /\ PutDevice(f)
           /\ UNCHANGED <<chan, oops>>
  <2>1. idev.info = "set" => /\ chan'.refcnt = Cardinality(Opened \ {f})
                             /\ chan'.connected <=> Opened \ {f} # {}
    BY <1>2
  <2> QED BY <1>0, <1>2, <2>1, PutDeviceKeepsInv
<1>3. CASE idev.info = "dangling" /\ oops' = TRUE /\ UNCHANGED <<chan, file, idev>>
  BY <1>0, <1>3, FaultKeepsInv
<1>4. CASE /\ idev.info = "set" /\ chan.refcnt = 0
           /\ ConnectFails /\ PutDevice(f) /\ UNCHANGED oops
  <2>1. /\ chan' \in ChanRecord /\ chan'.irq = chan.irq /\ chan'.drvdata = chan.drvdata
        /\ chan'.rescind = chan.rescind /\ chan'.crossed = chan.crossed
        /\ chan'.connected = chan.connected /\ chan'.interrupt = chan.interrupt
        /\ chan'.refcnt = chan.refcnt
    BY <1>0, <1>4 DEF ConnectFails, ChanRecord
  <2>2. /\ chan'.refcnt = Cardinality(Opened \ {f})
        /\ chan'.connected <=> Opened \ {f} # {}
    BY <1>0, <1>1, <1>4, <2>1 DEF ConnectedWhileOpen
  <2> QED BY <1>0, <1>4, <2>1, <2>2, PutDeviceKeepsInv
<1>5. CASE /\ idev.info = "set"
           /\ \/ chan.refcnt > 0 /\ chan' = [chan EXCEPT !.refcnt = @ + 1]
              \/ /\ chan.refcnt = 0
                 /\ chan' = [chan EXCEPT !.refcnt = 1, !.callback = TRUE,
                                         !.connected = TRUE, !.mask = TRUE]
           /\ FileGoto(f, "listening", "open")
           /\ UNCHANGED <<idev, oops>>
  <2> DEFINE r == [file[f] EXCEPT !.pc = "open"]
  <2>1. file' = [file EXCEPT ![f] = r]
    BY <1>5, FileFacts DEF FileGoto
  <2>2. r \in FileRecord /\ r.pc = "open"
    BY FileFacts DEF FileRecord
  <2>3. CallOK(r, idev.event, DeviceGone)
    BY <1>0, FileFacts DEF CallOK, FileRecord
  <2> HIDE DEF r
  <2>4. Opened' = Opened \cup {f}
    BY <1>0, <2>1, <2>2, FileChange DEF Opened, IInv
  <2>5. Cardinality(Opened') = Cardinality(Opened) + 1 /\ Opened' # {}
    BY <1>0, <2>4, HoldersAreFinite, FS_AddElement
  <2>6. /\ chan.refcnt = Cardinality(Opened) /\ chan.refcnt \in Nat
        /\ chan.connected <=> Opened # {}
    BY <1>0, <1>5 DEF ConnectedWhileOpen, ChanRecord
  <2>7. /\ chan' \in ChanRecord /\ chan'.irq = chan.irq /\ chan'.drvdata = chan.drvdata
        /\ chan'.rescind = chan.rescind /\ chan'.crossed = chan.crossed
        /\ chan'.interrupt = chan.interrupt /\ chan'.refcnt = chan.refcnt + 1
        /\ chan'.connected
    <3>1. CASE chan.refcnt > 0 /\ chan' = [chan EXCEPT !.refcnt = @ + 1]
      <4>1. chan.connected
        BY <2>6, <3>1, FS_EmptySet
      <4> QED BY <1>0, <2>6, <3>1, <4>1 DEF ChanRecord
    <3>2. CASE /\ chan.refcnt = 0
               /\ chan' = [chan EXCEPT !.refcnt = 1, !.callback = TRUE,
                                       !.connected = TRUE, !.mask = TRUE]
      <4>1. /\ chan' \in ChanRecord /\ chan'.irq = chan.irq
            /\ chan'.drvdata = chan.drvdata /\ chan'.interrupt = chan.interrupt
            /\ chan'.refcnt = 1 /\ chan'.connected
        BY <1>0, <3>2 DEF ChanRecord
      <4> QED BY <3>2, <4>1
    <3> QED BY <1>5, <3>1, <3>2
  <2>8. ConnectedWhileOpen'
    BY <2>5, <2>6, <2>7 DEF ConnectedWhileOpen
  <2> QED BY <1>0, <1>5, <2>1, <2>2, <2>3, <2>7, <2>8, OpeningKeepsInv
<1> QED BY <1>2, <1>3, <1>4, <1>5 DEF OpenInfo

\* The last close disconnects the ring and leaves no interrupt behind.
LEMMA ReleaseKeepsInv ==
  ASSUME IInv, ~oops, NEW f \in Files, Release(f)
  PROVE  IInv'
<1>0. /\ file[f].pc = "open" /\ UNCHANGED <<driver, held>>
      /\ chan \in ChanRecord /\ (chan.interrupt # "none" => chan.connected)
      /\ ConnectedWhileOpen /\ f \in Opened
  BY DEF Release, IInv, TypeOK, MissingIsExposed, Opened
<1>1. CASE /\ idev.info = "null"
           /\ PutDevice(f)
           /\ UNCHANGED <<chan, oops>>
  <2>1. idev.info = "set" => /\ chan'.refcnt = Cardinality(Opened \ {f})
                             /\ chan'.connected <=> Opened \ {f} # {}
    BY <1>1
  <2> QED BY <1>0, <1>1, <2>1, PutDeviceKeepsInv
<1>2. CASE idev.info = "dangling" /\ oops' = TRUE /\ UNCHANGED <<chan, file, idev>>
  BY <1>0, <1>2, FaultKeepsInv
<1>3. CASE idev.info = "set" /\ Disconnect /\ PutDevice(f) /\ UNCHANGED oops
  <2>1. /\ chan.refcnt = Cardinality(Opened) /\ chan.refcnt \in Nat
        /\ chan.connected <=> Opened # {}
    BY <1>0, <1>3 DEF ConnectedWhileOpen, ChanRecord
  <2>2. /\ Cardinality(Opened \ {f}) = chan.refcnt - 1
        /\ IsFiniteSet(Opened \ {f})
    BY <1>0, <2>1, HoldersAreFinite, FS_RemoveElement
  <2>3. CASE chan.refcnt > 1 /\ chan' = [chan EXCEPT !.refcnt = @ - 1]
    <3>1. Opened \ {f} # {}
      BY <2>1, <2>2, <2>3, FS_EmptySet
    <3>2. chan.refcnt - 1 \in Nat
      BY <2>1, <2>3
    <3>3. /\ chan' \in ChanRecord /\ chan'.irq = chan.irq /\ chan'.drvdata = chan.drvdata
          /\ chan'.rescind = chan.rescind /\ chan'.crossed = chan.crossed
          /\ chan'.interrupt = chan.interrupt /\ chan'.refcnt = chan.refcnt - 1
          /\ chan'.connected = chan.connected
      BY <1>0, <2>3, <3>2 DEF ChanRecord
    <3>4. /\ chan'.refcnt = Cardinality(Opened \ {f})
          /\ chan'.connected <=> Opened \ {f} # {}
      BY <1>0, <2>1, <2>2, <3>1, <3>3
    <3> QED BY <1>0, <1>3, <3>3, <3>4, PutDeviceKeepsInv
  <2>4. CASE /\ chan.refcnt = 1
             /\ chan' = [chan EXCEPT !.refcnt = 0, !.connected = FALSE,
                                     !.interrupt = "none"]
    <3>1. Opened \ {f} = {}
      BY <2>2, <2>4, FS_EmptySet
    <3>2. /\ chan' \in ChanRecord /\ chan'.irq = chan.irq /\ chan'.drvdata = chan.drvdata
          /\ chan'.rescind = chan.rescind /\ chan'.crossed = chan.crossed
          /\ chan'.interrupt = "none" /\ chan'.refcnt = 0 /\ ~chan'.connected
      BY <1>0, <2>4 DEF ChanRecord
    <3>3. /\ chan'.refcnt = Cardinality(Opened \ {f})
          /\ chan'.connected <=> Opened \ {f} # {}
      BY <2>2, <2>4, <3>1, <3>2
    <3> QED BY <1>0, <1>3, <3>2, <3>3, PutDeviceKeepsInv
  <2> QED BY <1>3, <2>3, <2>4 DEF Disconnect
<1> QED BY <1>1, <1>2, <1>3 DEF Release

-----------------------------------------------------------------------------
\* Every step keeps the inductive invariant.
LEMMA NextKeepsInv == IInv /\ [Next]_vars => IInv'
<1> SUFFICES ASSUME IInv, [Next]_vars
             PROVE  IInv'
  OBVIOUS
<1>1. CASE UNCHANGED vars
  BY <1>1 DEF vars, IInv, TypeOK, HeldByPlace, PlacesAgree, ReferencesAreCounted,
              ConnectedWhileOpen, CallsAreOK, DeviceGone, MissingIsExposed,
              DisciplinedUseIsSafe, Holding, Opened
<1>2. ASSUME ~oops, Probe \/ Remove
      PROVE  IInv'
  BY <1>2, ProbeRingKeepsInv, ProbeBufferKeepsInv, RegisterKeepsInv, AttributesKeepInv,
     DrvdataKeepsInv, FailFreeRingKeepsInv, UnregisterInfoKeepsInv,
     UnregisterWakeKeepsInv, UnregisterKeepsInv, CleanupKeepsInv, RemoveFreeRingKeepsInv
     DEF Probe, Remove
<1>3. ASSUME ~oops, RescindWork \/ Callback \/ Interrupt \/ Rescind \/ Unbind
      PROVE  IInv'
  BY <1>3, InterruptKeepsInv, CallbackKeepsInv, RescindKeepsInv, RescindIrqKeepsInv,
     RescindNotifyKeepsInv DEF RescindWork, Callback
<1>4. ASSUME ~oops, NEW f \in Files, Reader(f)
      PROVE  IInv'
  BY <1>4, ReadCheckKeepsInv, ReadSetStateKeepsInv, CompareKeepsInv, ScheduleKeepsInv
     DEF Reader
<1>5. ASSUME ~oops, NEW f \in Files, User(f)
      PROVE  IInv'
  BY <1>5, OpenFindKeepsInv, OpenListenerKeepsInv, OpenInfoKeepsInv, ReleaseKeepsInv,
     MmapKeepsInv, MaskKeepsInv, ScheduleKeepsInv, ReadCallKeepsInv DEF User
<1> QED BY <1>1, <1>2, <1>3, <1>4, <1>5 DEF Next

\* The inductive invariant holds in every behaviour.
LEMMA SpecKeepsInv == Spec => []IInv
<1> QED BY InitInv, NextKeepsInv, PTL DEF Spec

\* All variables of the driver and of the UIO device keep their types; neither
\* count, of references or of open files, ever goes below 0.
THEOREM DriverTypeCorrect == Spec => []TypeOK
<1>1. IInv => TypeOK
  BY DEF IInv
<1> QED BY <1>1, SpecKeepsInv, PTL

\* However many files open and close while the device is registered, rescinded
\* and removed, and whatever fails, the struct device has one reference for its
\* registration and one for each file: get_device and put_device of uio.c match.
THEOREM ReferencesAreCountedHolds == Spec => []ReferencesAreCounted
<1>1. IInv => ReferencesAreCounted
  BY DEF IInv
<1> QED BY <1>1, SpecKeepsInv, PTL

\* While the driver is there the ring is connected exactly when some file is
\* open: refcnt of hv_uio_open and hv_uio_release counts the open files.
THEOREM ConnectedWhileOpenHolds == Spec => []ConnectedWhileOpen
<1>1. IInv => ConnectedWhileOpen
  BY DEF IInv
<1> QED BY <1>1, SpecKeepsInv, PTL

\* A probe that fails, at whatever label, and a removal give everything back.
THEOREM NothingKeptHolds == Spec => []NothingKept
<1>1. IInv => NothingKept
  BY DEF IInv, TypeOK, HeldByPlace, Registered, Resources, Buffers, NothingKept
<1> QED BY <1>1, SpecKeepsInv, PTL

\* A read or poll that begins after the rescind callback has cleared irq, or
\* after the device is unregistered, never reports an event.
THEOREM LateReadFailsHolds == Spec => []LateReadFails
<1>1. IInv => LateReadFails
  BY DEF IInv, CallsAreOK, CallOK, LateReadFails
<1> QED BY <1>1, SpecKeepsInv, PTL

\* A read after a poll that said "readable" does not wait, whatever the other
\* files read and however many events come meanwhile.
THEOREM ReadableDoesNotWaitHolds == Spec => []ReadableDoesNotWait
<1>1. IInv => ReadableDoesNotWait
  BY DEF IInv, CallsAreOK, CallOK, ReadableDoesNotWait
<1> QED BY <1>1, SpecKeepsInv, PTL

\* Freed or missing driver data is met only where a file was opened before the
\* probe was over or was still open at the removal, or where the rescind callback
\* that hv_uio_open leaves installed ran without a bound driver.
THEOREM DisciplinedUseIsSafeHolds == Spec => []DisciplinedUseIsSafe
<1>1. IInv => DisciplinedUseIsSafe
  BY DEF IInv
<1> QED BY <1>1, SpecKeepsInv, PTL

=============================================================================
