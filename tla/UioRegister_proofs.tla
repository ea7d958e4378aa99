------------------------- MODULE UioRegister_proofs -------------------------
(***************************************************************************)
(* Proofs about UioRegister, for every set of devices and readers, every   *)
(* finite set of files and any number of minors and regions.               *)
(***************************************************************************)
EXTENDS UioRegister, FiniteSetTheorems, TLAPS

(***************************************************************************)
(* The inductive invariant says what a device owns at each place of its    *)
(* registration and unregistration, and that what others reach it by (its  *)
(* minor, its node, a show function, a file) is there only at those        *)
(* places.                                                                 *)
(***************************************************************************)
OwnsMinor == {"minor", "add", "attributes", "unwind", "irq", "irqDel", "deviceDel",
              "freeMinor", "registered", "del", "info", "unregMinor"}
OwnsNode == {"attributes", "unwind", "irq", "irqDel", "deviceDel", "registered", "del",
             "info", "unregMinor", "unregister"}
NotInitialized == {"idle", "alloc", "minor"}
BeforeLoops == NotInitialized \cup {"add"}

\* The reference of the registration itself.
OwnReference(pc) == IF pc \in NotInitialized \cup {"failed", "gone"} THEN 0 ELSE 1

\* Which kobjects are initialized and not yet put, where the loops stand at
\* region i of group g.
KobjectUp(r, h, k) ==
  \/ r.pc = "attributes" /\ IF h = r.g THEN k < r.i ELSE h = "maps"
  \/ r.pc = "unwind" /\ IF h = r.g THEN k <= r.i ELSE h = "maps"
  \/ r.pc \in {"irq", "registered"}
  \/ r.pc \in {"irqDel", "del"} /\ IF h = r.g THEN k >= r.i ELSE h = "portio"

KobjectsOK(r) ==
  \A h \in Groups : \A k \in 0..(Count(h) - 1) : <<h, k>> \in r.kobjs <=> KobjectUp(r, h, k)

LoopsOK(r) ==
  /\ r.pc \in BeforeLoops => r.g = "maps" /\ r.i = 0
  /\ r.pc \in {"attributes", "irqDel", "del"} => r.i \in 0..Count(r.g)
  /\ r.pc = "unwind" => r.i \in (-1)..(Count(r.g) - 1)

DirsOK(r) ==
  /\ r.pc \in {"attributes", "unwind"} /\ r.g = "maps" => r.dirs \subseteq {"maps"}
  /\ r.pc \in {"irqDel", "del"} /\ r.g = "portio" => r.dirs \subseteq {"portio"}
  /\ r.pc \notin {"attributes", "unwind", "irq", "irqDel", "registered", "del"}
       => r.dirs = {}

FieldsOK(r) ==
  /\ r.pc \notin {"idle", "failed", "unregMinor", "unregister", "gone"} => r.info
  /\ r.pc \in {"unregMinor", "unregister", "gone"} => ~r.info
  /\ r.pc \in {"idle", "failed", "unregMinor", "unregister", "gone"} => ~r.devres

DeviceOK(r) == KobjectsOK(r) /\ LoopsOK(r) /\ DirsOK(r) /\ FieldsOK(r)

CoreOK == core.pc \in {"unloaded", "failed", "exited"} => core.held = {}

DevicesOK == \A d \in Devices : DeviceOK(dev[d])

\* The idr and the directory of nodes hold a device where it owns an entry, and
\* nowhere else.
Owned(entry, device, owner) ==
  /\ \A d \in Devices : device[d].pc \in owner => entry[device[d].minor] = d
  /\ \A m \in Minors :
       entry[m] # NoDevice => device[entry[m]].pc \in owner /\ device[entry[m]].minor = m

\* A show function in progress holds what it was called through.
ReadersOK ==
  \A r \in Readers :
    LET d == reader[r].dev
    IN  d # NoDevice =>
          IF reader[r].item = Self THEN node[dev[d].minor] = d /\ dev[d].pc \in OwnsNode
                                   ELSE reader[r].item \in dev[d].kobjs

FilesOf(d) == {f \in Files : file[f] = d}

\* Before device_initialize nobody finds a device that got a minor of its own.
UnreachedYet ==
  \A d \in Devices \ reused :
    /\ dev[d].pc \in NotInitialized => FilesOf(d) = {}
    /\ dev[d].pc = "minor" => node[dev[d].minor] = NoDevice

References ==
  \A d \in Devices \ reused :
    dev[d].refs = Cardinality(FilesOf(d)) + OwnReference(dev[d].pc)

\* Nobody has opened a device that was never given a minor.
NotFoundYet ==
  \A d \in Devices : dev[d].pc \in {"idle", "alloc"} => FilesOf(d) = {} /\ d \notin reused

IInv ==
  /\ TypeOK /\ oops = {} /\ CoreOK /\ DevicesOK
  /\ Owned(idr, dev, OwnsMinor) /\ Owned(node, dev, OwnsNode)
  /\ ReadersOK
  /\ NotFoundYet /\ UnreachedYet /\ References

-----------------------------------------------------------------------------
(***************************************************************************)
(* Entries of the idr and of the directory of nodes.                       *)
(***************************************************************************)
Entries == [Minors -> Devices \cup {NoDevice}]

\* A step of a device that neither takes nor gives back an entry.
LEMMA OwnedKept ==
  ASSUME NEW entry \in Entries, NEW device \in [Devices -> DevRecord], NEW owner,
         Owned(entry, device, owner),
         NEW d \in Devices, NEW r \in DevRecord,
         r.minor = device[d].minor, r.pc \in owner <=> device[d].pc \in owner
  PROVE  Owned(entry, [device EXCEPT ![d] = r], owner)
BY DEF Owned, Entries, DevRecord

\* A device takes an entry that is free.
LEMMA OwnedTaken ==
  ASSUME NEW entry \in Entries, NEW device \in [Devices -> DevRecord], NEW owner,
         Owned(entry, device, owner),
         NEW d \in Devices, NEW r \in DevRecord,
         entry[r.minor] = NoDevice, device[d].pc \notin owner, r.pc \in owner
  PROVE  Owned([entry EXCEPT ![r.minor] = d], [device EXCEPT ![d] = r], owner)
<1>1. r.minor \in Minors
  BY DEF DevRecord
<1>2. \A e \in Devices : device[e].minor \in Minors
  BY DEF DevRecord
<1>3. \A m \in Minors : entry[m] # d
  BY RegisterAssumption DEF Owned, Entries
<1> QED BY <1>1, <1>2, <1>3, RegisterAssumption DEF Owned, Entries

\* A device gives its entry back.
LEMMA OwnedGiven ==
  ASSUME NEW entry \in Entries, NEW device \in [Devices -> DevRecord], NEW owner,
         Owned(entry, device, owner),
         NEW d \in Devices, NEW r \in DevRecord,
         r.minor = device[d].minor, device[d].pc \in owner, r.pc \notin owner
  PROVE  Owned([entry EXCEPT ![r.minor] = NoDevice], [device EXCEPT ![d] = r], owner)
<1>1. r.minor \in Minors
  BY DEF DevRecord
<1>2. \A e \in Devices : device[e].minor \in Minors
  BY DEF DevRecord
<1>3. \A m \in Minors : entry[m] = d => m = r.minor
  BY RegisterAssumption DEF Owned
<1> QED BY <1>1, <1>2, <1>3, RegisterAssumption DEF Owned, Entries

\* A change of the references or the place alone leaves the entries.
LEMMA OwnedSame ==
  ASSUME NEW entry \in Entries, NEW device \in [Devices -> DevRecord], NEW owner,
         NEW device2 \in [Devices -> DevRecord],
         Owned(entry, device, owner),
         \A d \in Devices : device2[d].pc = device[d].pc /\ device2[d].minor = device[d].minor
  PROVE  Owned(entry, device2, owner)
BY DEF Owned, Entries

-----------------------------------------------------------------------------
\* The files of a device can be counted.
LEMMA FilesAreFinite ==
  ASSUME NEW d
  PROVE  IsFiniteSet(FilesOf(d)) /\ Cardinality(FilesOf(d)) \in Nat
<1>1. FilesOf(d) \in SUBSET Files
  BY DEF FilesOf
<1> QED BY <1>1, RegisterAssumption, FS_Subset, FS_CardinalityType

\* What the invariant says of one device.
LEMMA DevFacts ==
  ASSUME IInv, NEW d \in Devices
  PROVE  /\ dev \in [Devices -> DevRecord] /\ dev[d] \in DevRecord /\ DeviceOK(dev[d])
         /\ idr \in Entries /\ node \in Entries
         /\ dev[d].minor \in Minors /\ dev[d].pc \in Places /\ dev[d].refs \in Int
         /\ dev[d].i \in Int /\ dev[d].g \in Groups /\ dev[d].kobjs \subseteq Items
         /\ dev[d].dirs \subseteq Groups
<1>1. dev[d] \in DevRecord
  BY DEF IInv, TypeOK
<1>2. dev \in [Devices -> DevRecord] /\ idr \in Entries /\ node \in Entries /\ DeviceOK(dev[d])
  BY DEF IInv, TypeOK, Entries, DevicesOK
<1> QED BY <1>1, <1>2 DEF DevRecord

\* A step of device d keeps the invariant if its new record is right, if it
\* takes nothing from under a show function, and if it counts its references.
LEMMA StepOfDevice ==
  ASSUME IInv, NEW d \in Devices, NEW r \in DevRecord, dev' = [dev EXCEPT ![d] = r],
         DeviceOK(r), UNCHANGED <<core, reader, file, oops>>,
         idr' \in Entries, node' \in Entries,
         Owned(idr', dev', OwnsMinor), Owned(node', dev', OwnsNode),
         \A x \in Readers : reader[x].dev = d =>
           IF reader[x].item = Self THEN node'[r.minor] = d /\ r.pc \in OwnsNode
                                    ELSE reader[x].item \in r.kobjs,
         \A m \in Minors : node[m] \in Devices \ {d} => node'[m] = node[m],
         \A e \in Devices \ {d} :
           dev[e].pc = "minor" /\ node[dev[e].minor] = NoDevice =>
             node'[dev[e].minor] = NoDevice,
         reused' \in {reused, reused \cup {d}},
         r.pc \in {"idle", "alloc"} =>
           dev[d].pc \in {"idle", "alloc"} /\ reused' = reused,
         r.pc \in NotInitialized => dev[d].pc \in NotInitialized,
         r.pc = "minor" => d \in reused' \/ node'[r.minor] = NoDevice,
         d \notin reused' => r.refs - OwnReference(r.pc)
                               = dev[d].refs - OwnReference(dev[d].pc)
  PROVE  IInv'
<1>1. /\ dev' \in [Devices -> DevRecord] /\ dev'[d] = r
      /\ \A e \in Devices \ {d} : dev'[e] = dev[e]
  BY DevFacts
<1>2. TypeOK'
  BY <1>1 DEF IInv, TypeOK, Entries
<1>3. DevicesOK'
  BY <1>1 DEF IInv, DevicesOK
<1>4. ReadersOK'
  <2> SUFFICES ASSUME NEW x \in Readers, reader[x].dev # NoDevice
               PROVE  IF reader[x].item = Self
                      THEN /\ node'[dev'[reader[x].dev].minor] = reader[x].dev
                           /\ dev'[reader[x].dev].pc \in OwnsNode
                      ELSE reader[x].item \in dev'[reader[x].dev].kobjs
    BY DEF ReadersOK
  <2>1. CASE reader[x].dev = d
    BY <1>1, <2>1
  <2>2. CASE reader[x].dev # d
    <3>1. reader[x].dev \in Devices \ {d}
      BY <2>2 DEF IInv, TypeOK, ReaderRecord
    <3>2. dev'[reader[x].dev] = dev[reader[x].dev] /\ dev[reader[x].dev].minor \in Minors
      BY <1>1, <3>1, DevFacts
    <3> QED BY <3>1, <3>2 DEF IInv, ReadersOK
  <2> QED BY <2>1, <2>2
<1>5. \A e \in Devices : FilesOf(e)' = FilesOf(e)
  BY DEF FilesOf
<1>6. NotFoundYet'
  BY <1>1, <1>5 DEF IInv, NotFoundYet
<1>7. UnreachedYet'
  <2> SUFFICES ASSUME NEW e \in Devices, e \notin reused'
               PROVE  /\ dev'[e].pc \in NotInitialized => FilesOf(e) = {}
                      /\ dev'[e].pc = "minor" => node'[dev'[e].minor] = NoDevice
    BY <1>5 DEF UnreachedYet
  <2>1. /\ dev[e].pc \in NotInitialized => FilesOf(e) = {}
        /\ dev[e].pc = "minor" => node[dev[e].minor] = NoDevice
    BY DEF IInv, UnreachedYet
  <2>2. CASE e = d
    BY <1>1, <2>1, <2>2
  <2>3. CASE e # d
    BY <1>1, <2>1, <2>3
  <2> QED BY <2>2, <2>3
<1>8. References'
  <2> SUFFICES ASSUME NEW e \in Devices, e \notin reused'
               PROVE  dev'[e].refs = Cardinality(FilesOf(e)) + OwnReference(dev'[e].pc)
    BY <1>5 DEF References
  <2>1. dev[e].refs = Cardinality(FilesOf(e)) + OwnReference(dev[e].pc)
    BY DEF IInv, References
  <2>2. CASE e = d
    <3>1. /\ r.refs \in Int /\ dev[d].refs \in Int /\ Cardinality(FilesOf(d)) \in Nat
          /\ OwnReference(r.pc) \in Int /\ OwnReference(dev[d].pc) \in Int
      BY FilesAreFinite, DevFacts DEF DevRecord, OwnReference
    <3>2. r.refs - OwnReference(r.pc) = dev[d].refs - OwnReference(dev[d].pc)
      BY <2>2
    <3> HIDE DEF OwnReference
    <3> QED BY <1>1, <2>1, <2>2, <3>1, <3>2
  <2>3. CASE e # d
    BY <1>1, <2>1, <2>3
  <2> QED BY <2>2, <2>3
<1> QED BY <1>2, <1>3, <1>4, <1>6, <1>7, <1>8 DEF IInv, CoreOK

\* Most steps of a device leave the minors and the nodes alone.
LEMMA QuietStepOfDevice ==
  ASSUME IInv, NEW d \in Devices, NEW r \in DevRecord, dev' = [dev EXCEPT ![d] = r],
         DeviceOK(r), UNCHANGED <<core, idr, node, reader, file, oops, reused>>,
         r.minor = dev[d].minor,
         r.pc \in OwnsMinor <=> dev[d].pc \in OwnsMinor,
         r.pc \in OwnsNode <=> dev[d].pc \in OwnsNode,
         \A x \in Readers : reader[x].dev = d /\ reader[x].item # Self =>
           reader[x].item \in r.kobjs,
         r.pc \in {"idle", "alloc"} => dev[d].pc \in {"idle", "alloc"},
         r.pc = "minor" => dev[d].pc = "minor",
         d \notin reused => r.refs - OwnReference(r.pc)
                              = dev[d].refs - OwnReference(dev[d].pc)
  PROVE  IInv'
<1>1. Owned(idr', dev', OwnsMinor) /\ Owned(node', dev', OwnsNode)
  BY DevFacts, OwnedKept DEF IInv
<1>2. \A x \in Readers : reader[x].dev = d /\ reader[x].item = Self =>
         node'[r.minor] = d /\ r.pc \in OwnsNode
  BY RegisterAssumption DEF IInv, ReadersOK
<1>3. idr' \in Entries /\ node' \in Entries
  BY DevFacts
<1>4. r.pc = "minor" => d \in reused' \/ node'[r.minor] = NoDevice
  BY DEF IInv, UnreachedYet
<1>5. r.pc \in NotInitialized => dev[d].pc \in NotInitialized
  BY DEF NotInitialized
<1>6. \A x \in Readers : reader[x].dev = d =>
           IF reader[x].item = Self THEN node'[r.minor] = d /\ r.pc \in OwnsNode
                                    ELSE reader[x].item \in r.kobjs
  BY <1>2
<1>7. /\ reused' = reused
      /\ \A m \in Minors : node[m] \in Devices \ {d} => node'[m] = node[m]
      /\ \A e \in Devices \ {d} :
           dev[e].pc = "minor" /\ node[dev[e].minor] = NoDevice =>
             node'[dev[e].minor] = NoDevice
  OBVIOUS
<1> QED BY <1>1, <1>3, <1>4, <1>5, <1>6, <1>7, StepOfDevice

-----------------------------------------------------------------------------
\* A kobject of a region is a group and an index in it.
LEMMA ItemsAre ==
  /\ \A x \in Items : \E h \in Groups : \E k \in 0..(Count(h) - 1) : x = <<h, k>>
  /\ \A h \in Groups : \A k \in 0..(Count(h) - 1) : <<h, k>> \in Items
  /\ Self \notin Items
<1>1. \A x : x \in Items <=> \E h \in Groups : x \in {h} \X (0..(Count(h) - 1))
  BY DEF Items
<1> HIDE DEF Items
<1>2. \A h : \A x : x \in {h} \X (0..(Count(h) - 1)) <=>
        \E k \in 0..(Count(h) - 1) : x = <<h, k>>
  OBVIOUS
<1>3. /\ \A x \in Items : \E h \in Groups : \E k \in 0..(Count(h) - 1) : x = <<h, k>>
      /\ \A h \in Groups : \A k \in 0..(Count(h) - 1) : <<h, k>> \in Items
  BY <1>1, <1>2
<1>4. Self \notin Items
  <2> SUFFICES ASSUME Self \in Items PROVE FALSE
    OBVIOUS
  <2>1. PICK h \in Groups : \E k \in 0..(Count(h) - 1) : Self = <<h, k>>
    BY <1>3
  <2> QED BY <2>1 DEF Self, Groups
<1> QED BY <1>3, <1>4

LEMMA CountIsNat == \A g \in Groups : Count(g) \in Nat
BY RegisterAssumption DEF Count, Groups

\* Outside the loops and the time between them no kobject is initialized.
LEMMA NoKobjects ==
  ASSUME NEW r \in DevRecord, KobjectsOK(r),
         r.pc \notin {"attributes", "unwind", "irq", "irqDel", "registered", "del"}
  PROVE  r.kobjs = {}
<1> SUFFICES ASSUME NEW x \in r.kobjs PROVE FALSE
  OBVIOUS
<1>1. x \in Items
  BY DEF DevRecord
<1>2. PICK h \in Groups : \E k \in 0..(Count(h) - 1) : x = <<h, k>>
  BY <1>1, ItemsAre
<1> QED BY <1>2 DEF KobjectsOK, KobjectUp

LEMMA EmptyKobjects ==
  ASSUME NEW r \in DevRecord, r.kobjs = {},
         r.pc \notin {"attributes", "unwind", "irq", "irqDel", "registered", "del"}
  PROVE  KobjectsOK(r)
BY DEF KobjectsOK, KobjectUp

\* A show function of a region holds its kobject.
LEMMA ReaderHolds ==
  ASSUME IInv, NEW x \in Readers, NEW d \in Devices, reader[x].dev = d
  PROVE  IF reader[x].item = Self
         THEN node[dev[d].minor] = d /\ dev[d].pc \in OwnsNode
         ELSE reader[x].item \in dev[d].kobjs
BY RegisterAssumption DEF IInv, ReadersOK

\* The device goes to another place and has no kobjects before and after.
LEMMA PlainStep ==
  ASSUME IInv, NEW d \in Devices, NEW r \in DevRecord, dev' = [dev EXCEPT ![d] = r],
         UNCHANGED <<core, idr, node, reader, file, oops, reused>>,
         r.minor = dev[d].minor, r.kobjs = dev[d].kobjs, r.dirs = dev[d].dirs,
         r.g = dev[d].g, r.i = dev[d].i,
         r.pc \in BeforeLoops => dev[d].pc \in BeforeLoops,
         {r.pc, dev[d].pc} \cap
           {"attributes", "unwind", "irq", "irqDel", "registered", "del"} = {},
         FieldsOK(r),
         r.pc \in OwnsMinor <=> dev[d].pc \in OwnsMinor,
         r.pc \in OwnsNode <=> dev[d].pc \in OwnsNode,
         r.pc \in {"idle", "alloc"} => dev[d].pc \in {"idle", "alloc"},
         r.pc = "minor" => dev[d].pc = "minor",
         d \notin reused => r.refs - OwnReference(r.pc)
                              = dev[d].refs - OwnReference(dev[d].pc)
  PROVE  IInv'
<1>1. dev[d].kobjs = {} /\ dev[d].dirs = {}
  BY DevFacts, NoKobjects DEF DeviceOK, DirsOK
<1>2. DeviceOK(r)
  BY <1>1, DevFacts, EmptyKobjects DEF DeviceOK, LoopsOK, DirsOK
<1>3. \A x \in Readers : reader[x].dev = d /\ reader[x].item # Self =>
        reader[x].item \in r.kobjs
  BY ReaderHolds
<1> QED BY <1>2, <1>3, QuietStepOfDevice

\* The call of __uio_register_device.
LEMMA RegisterCallKeepsInv ==
  ASSUME IInv, NEW d \in Devices, RegisterCall(d)
  PROVE  IInv'
<1>0. /\ UNCHANGED <<core, idr, node, reader, file, oops, reused>>
      /\ dev[d].pc = "idle" /\ dev[d].kobjs = {} /\ dev[d].refs \in Int
  BY DevFacts, NoKobjects DEF RegisterCall, DevGoto, DeviceOK
<1>1. CASE DevGoto(d, "idle", "failed")
  <2> DEFINE r == [dev[d] EXCEPT !.pc = "failed"]
  <2>1. /\ r \in DevRecord /\ r.pc = "failed" /\ r.minor = dev[d].minor
        /\ r.kobjs = dev[d].kobjs /\ r.dirs = dev[d].dirs /\ r.refs = dev[d].refs
        /\ r.g = dev[d].g /\ r.i = dev[d].i
        /\ r.devres = dev[d].devres
    BY DevFacts DEF DevRecord, Places
  <2>2. dev' = [dev EXCEPT ![d] = r]
    BY <1>1 DEF DevGoto
  <2> HIDE DEF r
  <2>3. FieldsOK(r)
    BY <1>0, <2>1, DevFacts DEF DeviceOK, FieldsOK
  <2> QED BY <1>0, <2>1, <2>2, <2>3, PlainStep DEF OwnsMinor, OwnsNode, OwnReference,
             NotInitialized, BeforeLoops
<1>2. CASE dev' = [dev EXCEPT ![d].pc = "alloc", ![d].info = TRUE, ![d].devres = d \in Managed]
  <2> DEFINE r == [dev[d] EXCEPT !.pc = "alloc", !.info = TRUE, !.devres = d \in Managed]
  <2>1. /\ r \in DevRecord /\ r.pc = "alloc" /\ r.minor = dev[d].minor /\ r.info = TRUE
        /\ r.kobjs = dev[d].kobjs /\ r.dirs = dev[d].dirs /\ r.refs = dev[d].refs
        /\ r.g = dev[d].g /\ r.i = dev[d].i
    <3>1. (d \in Managed) \in BOOLEAN
      OBVIOUS
    <3> QED BY <3>1, DevFacts DEF DevRecord, Places
  <2>2. dev' = [dev EXCEPT ![d] = r]
    BY <1>2
  <2> HIDE DEF r
  <2>3. FieldsOK(r)
    BY <1>0, <2>1 DEF FieldsOK
  <2> QED BY <1>0, <2>1, <2>2, <2>3, PlainStep DEF OwnsMinor, OwnsNode, OwnReference,
             NotInitialized, BeforeLoops
<1> QED BY <1>1, <1>2 DEF RegisterCall

\* uio_get_minor: the device has a minor, or has failed.
LEMMA GetMinorKeepsInv ==
  ASSUME IInv, NEW d \in Devices, GetMinor(d)
  PROVE  IInv'
<1>0. /\ UNCHANGED <<core, node, reader, file, oops>>
      /\ dev[d].pc = "alloc" /\ dev[d].kobjs = {} /\ dev[d].dirs = {} /\ dev[d].refs \in Int
  BY DevFacts, NoKobjects DEF GetMinor, DeviceOK, DirsOK
<1>1. CASE /\ dev' = [dev EXCEPT ![d].pc = "failed", ![d].devres = FALSE]
           /\ UNCHANGED <<idr, reused>>
  <2> DEFINE r == [dev[d] EXCEPT !.pc = "failed", !.devres = FALSE]
  <2>1. /\ r \in DevRecord /\ r.pc = "failed" /\ r.minor = dev[d].minor /\ ~r.devres
        /\ r.kobjs = dev[d].kobjs /\ r.dirs = dev[d].dirs /\ r.refs = dev[d].refs
        /\ r.g = dev[d].g /\ r.i = dev[d].i
    BY DevFacts DEF DevRecord, Places
  <2>2. dev' = [dev EXCEPT ![d] = r]
    BY <1>1
  <2> HIDE DEF r
  <2>3. FieldsOK(r)
    BY <1>0, <2>1 DEF FieldsOK
  <2> QED BY <1>0, <1>1, <2>1, <2>2, <2>3, PlainStep DEF OwnsMinor, OwnsNode,
             OwnReference, NotInitialized, BeforeLoops
<1>2. ASSUME NEW m \in FreeMinors,
             idr' = [idr EXCEPT ![m] = d],
             dev' = [dev EXCEPT ![d].pc = "minor", ![d].minor = m],
             reused' = IF node[m] = NoDevice THEN reused ELSE reused \cup {d}
      PROVE  IInv'
  <2> DEFINE r == [dev[d] EXCEPT !.pc = "minor", !.minor = m]
  <2>0. m \in Minors /\ idr[m] = NoDevice
    BY DEF FreeMinors
  <2>1. /\ r \in DevRecord /\ r.pc = "minor" /\ r.minor = m /\ r.info = dev[d].info
        /\ r.kobjs = {} /\ r.dirs = {} /\ r.refs = dev[d].refs
        /\ r.g = dev[d].g /\ r.i = dev[d].i
    BY <1>0, <2>0, DevFacts DEF DevRecord, Places
  <2>2. dev' = [dev EXCEPT ![d] = r]
    BY <1>2
  <2> HIDE DEF r
  <2>3. DeviceOK(r)
    BY <1>0, <2>1, DevFacts, EmptyKobjects DEF DeviceOK, LoopsOK, DirsOK, FieldsOK,
      BeforeLoops, NotInitialized
  <2>4. idr' = [idr EXCEPT ![r.minor] = d]
    BY <1>2, <2>1
  <2>5. Owned(idr', dev', OwnsMinor)
    <3>1. Owned(idr, dev, OwnsMinor) /\ idr[r.minor] = NoDevice
      BY <2>0, <2>1 DEF IInv
    <3>2. dev[d].pc \notin OwnsMinor /\ r.pc \in OwnsMinor
      BY <1>0, <2>1 DEF OwnsMinor
    <3> QED BY <2>1, <2>2, <2>4, <3>1, <3>2, DevFacts, OwnedTaken
  <2>6. Owned(node', dev', OwnsNode)
    <3>1. \A k \in Minors : node[k] # d
      BY <1>0, RegisterAssumption DEF IInv, Owned, OwnsNode
    <3>2. \A e \in Devices : dev'[e].pc \in OwnsNode => e # d /\ dev'[e] = dev[e]
      BY <1>0, <2>1, <2>2, DevFacts DEF OwnsNode
    <3>3. \A e \in Devices \ {d} : dev'[e] = dev[e]
      BY <2>2, DevFacts
    <3>4. \A k \in Minors : node[k] # NoDevice => node[k] \in Devices
      BY DevFacts DEF Entries
    <3> QED BY <1>0, <3>1, <3>2, <3>3, <3>4 DEF IInv, Owned
  <2>7. \A x \in Readers : reader[x].dev # d
    BY <1>0, ReaderHolds DEF OwnsNode
  <2>8. reused' \in {reused, reused \cup {d}} /\ (node[m] = NoDevice \/ d \in reused')
    BY <1>2
  <2>9. idr' \in Entries /\ node' \in Entries
    BY <1>0, <1>2, <2>0, DevFacts DEF Entries
  <2>10. r.refs - OwnReference(r.pc) = dev[d].refs - OwnReference(dev[d].pc)
    BY <1>0, <2>1 DEF OwnReference, NotInitialized
  <2>11. dev[d].pc \in NotInitialized
    BY <1>0 DEF NotInitialized
  <2>12. r.pc = "minor" => d \in reused' \/ node'[r.minor] = NoDevice
    BY <1>0, <2>1, <2>8
  <2>13. r.pc \notin {"idle", "alloc"}
    BY <2>1
  <2> QED BY <1>0, <2>2, <2>3, <2>5, <2>6, <2>7, <2>8, <2>9, <2>10, <2>11, <2>12, <2>13,
             <2>1, StepOfDevice
<1> QED BY <1>1, <1>2 DEF GetMinor

\* device_initialize: a device nobody has found has one reference.
LEMMA DeviceInitializeKeepsInv ==
  ASSUME IInv, NEW d \in Devices, DeviceInitialize(d)
  PROVE  IInv'
<1>0. /\ UNCHANGED <<core, idr, node, reader, file, oops, reused>>
      /\ dev[d].pc = "minor" /\ dev' = [dev EXCEPT ![d].pc = "add", ![d].refs = 1]
  BY DEF DeviceInitialize
<1> DEFINE r == [dev[d] EXCEPT !.pc = "add", !.refs = 1]
<1>1. /\ r \in DevRecord /\ r.pc = "add" /\ r.minor = dev[d].minor /\ r.info = dev[d].info
      /\ r.kobjs = dev[d].kobjs /\ r.dirs = dev[d].dirs /\ r.refs = 1
      /\ r.g = dev[d].g /\ r.i = dev[d].i
  <2>1. dev[d] \in DevRecord /\ "add" \in Places /\ 1 \in Int
    BY DevFacts DEF Places
  <2> QED BY <2>1 DEF DevRecord
<1>2. dev' = [dev EXCEPT ![d] = r]
  BY <1>0
<1> HIDE DEF r
<1>3. FieldsOK(r)
  BY <1>0, <1>1, DevFacts DEF DeviceOK, FieldsOK
<1>4. d \notin reused => r.refs - OwnReference(r.pc) = dev[d].refs - OwnReference(dev[d].pc)
  <2>1. d \notin reused => FilesOf(d) = {}
    BY <1>0 DEF IInv, UnreachedYet, NotInitialized
  <2>2. d \notin reused => dev[d].refs = 0
    BY <1>0, <2>1, FS_EmptySet DEF IInv, References, OwnReference, NotInitialized
  <2> QED BY <1>0, <1>1, <2>2 DEF OwnReference, NotInitialized
<1> QED BY <1>0, <1>1, <1>2, <1>3, <1>4, PlainStep DEF OwnsMinor, OwnsNode,
           BeforeLoops, NotInitialized

\* device_add: the node exists, and leads to the device.
LEMMA DeviceAddKeepsInv ==
  ASSUME IInv, NEW d \in Devices, DeviceAdd(d)
  PROVE  IInv'
<1>0. /\ UNCHANGED <<core, idr, reader, file, oops, reused>>
      /\ dev[d].pc = "add" /\ dev[d].kobjs = {} /\ dev[d].dirs = {} /\ dev[d].refs \in Int
  BY DevFacts, NoKobjects DEF DeviceAdd, DevGoto, DeviceOK, DirsOK
<1>1. CASE DevGoto(d, "add", "freeMinor") /\ UNCHANGED node
  <2> DEFINE r == [dev[d] EXCEPT !.pc = "freeMinor"]
  <2>1. /\ r \in DevRecord /\ r.pc = "freeMinor" /\ r.minor = dev[d].minor
        /\ r.kobjs = dev[d].kobjs /\ r.dirs = dev[d].dirs /\ r.refs = dev[d].refs
        /\ r.g = dev[d].g /\ r.i = dev[d].i
        /\ r.info = dev[d].info
    BY DevFacts DEF DevRecord, Places
  <2>2. dev' = [dev EXCEPT ![d] = r]
    BY <1>1 DEF DevGoto
  <2> HIDE DEF r
  <2>3. FieldsOK(r)
    BY <1>0, <2>1, DevFacts DEF DeviceOK, FieldsOK
  <2> QED BY <1>0, <1>1, <2>1, <2>2, <2>3, PlainStep DEF OwnsMinor, OwnsNode,
             OwnReference, NotInitialized, BeforeLoops
<1>2. CASE /\ node[dev[d].minor] = NoDevice
           /\ DevGoto(d, "add", "attributes")
           /\ node' = [node EXCEPT ![dev[d].minor] = d]
  <2> DEFINE r == [dev[d] EXCEPT !.pc = "attributes"]
  <2>1. /\ r \in DevRecord /\ r.pc = "attributes" /\ r.minor = dev[d].minor
        /\ r.kobjs = {} /\ r.dirs = {} /\ r.refs = dev[d].refs
        /\ r.info = dev[d].info /\ r.g = dev[d].g /\ r.i = dev[d].i
    BY <1>0, DevFacts DEF DevRecord, Places
  <2>2. dev' = [dev EXCEPT ![d] = r] /\ node' = [node EXCEPT ![r.minor] = d]
    BY <1>2, <2>1 DEF DevGoto
  <2> HIDE DEF r
  <2>3. r.g = "maps" /\ r.i = 0
    BY <1>0, <2>1, DevFacts DEF DeviceOK, LoopsOK, BeforeLoops
  <2>4. DeviceOK(r)
    <3>1. KobjectsOK(r)
      BY <2>1, <2>3 DEF KobjectsOK, KobjectUp, Groups
    <3>2. LoopsOK(r)
      BY <2>1, <2>3, CountIsNat DEF LoopsOK, Groups, BeforeLoops, NotInitialized
    <3> QED BY <1>0, <2>1, <3>1, <3>2, DevFacts DEF DeviceOK, DirsOK, FieldsOK
  <2>5. Owned(node', dev', OwnsNode)
    <3>1. /\ Owned(node, dev, OwnsNode) /\ node[r.minor] = NoDevice
          /\ dev[d].pc \notin OwnsNode /\ r.pc \in OwnsNode
      BY <1>0, <1>2, <2>1 DEF IInv, OwnsNode
    <3> QED BY <2>1, <2>2, <3>1, DevFacts, OwnedTaken
  <2>6. Owned(idr', dev', OwnsMinor)
    <3>1. Owned(idr, dev, OwnsMinor) /\ r.pc \in OwnsMinor /\ dev[d].pc \in OwnsMinor
      BY <1>0, <2>1 DEF IInv, OwnsMinor
    <3> QED BY <1>0, <2>1, <2>2, <3>1, DevFacts, OwnedKept
  <2>7. \A x \in Readers : reader[x].dev # d
    BY <1>0, ReaderHolds DEF OwnsNode
  <2>8. \A m \in Minors : node[m] \in Devices \ {d} => node'[m] = node[m]
    BY <1>2, <2>1, <2>2, DevFacts, RegisterAssumption DEF Entries
  <2>9. ASSUME NEW e \in Devices \ {d}, dev[e].pc = "minor", node[dev[e].minor] = NoDevice
        PROVE  node'[dev[e].minor] = NoDevice
    <3>1. idr[dev[e].minor] = e /\ idr[dev[d].minor] = d
      BY <1>0, <2>9 DEF IInv, Owned, OwnsMinor
    <3>2. dev[e].minor \in Minors /\ dev[e].minor # r.minor
      BY <2>1, <3>1, DevFacts
    <3> QED BY <2>2, <2>9, <3>2, DevFacts DEF Entries
  <2>10. idr' \in Entries /\ node' \in Entries
    BY <1>0, <2>1, <2>2, DevFacts DEF Entries
  <2>11. r.refs - OwnReference(r.pc) = dev[d].refs - OwnReference(dev[d].pc)
    BY <1>0, <2>1 DEF OwnReference, NotInitialized
  <2>12. r.pc \notin NotInitialized /\ r.pc \notin {"idle", "alloc", "minor"}
    BY <2>1 DEF NotInitialized
  <2> QED BY <1>0, <2>1, <2>2, <2>4, <2>5, <2>6, <2>7, <2>8, <2>9, <2>10, <2>11, <2>12,
             StepOfDevice
<1> QED BY <1>1, <1>2 DEF DeviceAdd

-----------------------------------------------------------------------------
(***************************************************************************)
(* The loops over the regions.                                             *)
(***************************************************************************)
LoopPlaces == {"attributes", "unwind", "irq", "irqDel", "registered", "del"}

\* A step of the loops keeps the invariant if it keeps count of the kobjects
\* and puts none that a show function is in.
LEMMA LoopStep ==
  ASSUME IInv, NEW d \in Devices, NEW r \in DevRecord, dev' = [dev EXCEPT ![d] = r],
         UNCHANGED <<core, idr, node, reader, file, oops, reused>>,
         r.minor = dev[d].minor, r.refs = dev[d].refs, r.info = dev[d].info,
         dev[d].pc \in LoopPlaces, r.pc \in LoopPlaces \cup {"deviceDel", "info"},
         KobjectsOK(r), LoopsOK(r), DirsOK(r),
         \A y \in dev[d].kobjs : y \in r.kobjs \/ Drained(d, y)
  PROVE  IInv'
<1>1. FieldsOK(r)
  BY DevFacts DEF DeviceOK, FieldsOK, LoopPlaces
<1>2. ASSUME NEW x \in Readers, reader[x].dev = d, reader[x].item # Self
      PROVE  reader[x].item \in r.kobjs
  <2>1. reader[x].item \in dev[d].kobjs
    BY <1>2, ReaderHolds
  <2>2. reader[x] = [dev |-> d, item |-> reader[x].item]
    BY <1>2 DEF IInv, TypeOK, ReaderRecord
  <2> QED BY <2>1, <2>2 DEF Drained
<1>3. /\ r.pc \in OwnsMinor /\ dev[d].pc \in OwnsMinor
      /\ r.pc \in OwnsNode /\ dev[d].pc \in OwnsNode
      /\ r.pc \notin {"idle", "alloc", "minor"}
      /\ OwnReference(r.pc) = 1 /\ OwnReference(dev[d].pc) = 1
  BY DEF LoopPlaces, OwnsMinor, OwnsNode, OwnReference, NotInitialized
<1>4. DeviceOK(r)
  BY <1>1 DEF DeviceOK
<1>5. r.refs - OwnReference(r.pc) = dev[d].refs - OwnReference(dev[d].pc)
  BY <1>3
<1>6. /\ r.pc \in OwnsMinor <=> dev[d].pc \in OwnsMinor
      /\ r.pc \in OwnsNode <=> dev[d].pc \in OwnsNode
      /\ r.pc \in {"idle", "alloc"} => dev[d].pc \in {"idle", "alloc"}
      /\ r.pc = "minor" => dev[d].pc = "minor"
  BY <1>3
<1> QED BY <1>2, <1>4, <1>5, <1>6, QuietStepOfDevice

\* What a group and an index are in the loops.
LEMMA GroupFacts ==
  ASSUME IInv, NEW d \in Devices
  PROVE  /\ dev[d].g \in {"maps", "portio"} /\ dev[d].i \in Int
         /\ Count(dev[d].g) \in Nat /\ Count("maps") = Maps /\ Maps \in Nat
         /\ Count("portio") \in Nat
         /\ HasRegion(d) <=> dev[d].i < Count(dev[d].g)
BY DevFacts, CountIsNat, RegisterAssumption DEF Groups, Count, HasRegion

\* One more region.
LEMMA AddOneKeepsInv ==
  ASSUME IInv, NEW d \in Devices, dev[d].pc = "attributes", HasRegion(d),
         UNCHANGED <<core, idr, node, reader, file, oops, reused>>,
         NEW pc \in {"attributes", "unwind"},
         NEW i2 \in Int, i2 = IF pc = "attributes" THEN dev[d].i + 1 ELSE dev[d].i,
         dev' = [dev EXCEPT ![d] = [dev[d] EXCEPT !.dirs = @ \cup {dev[d].g}, !.pc = pc,
                                      !.i = i2, !.kobjs = @ \cup {<<dev[d].g, dev[d].i>>}]]
  PROVE  IInv'
<1> DEFINE g == dev[d].g
           i == dev[d].i
           r == [dev[d] EXCEPT !.dirs = @ \cup {g}, !.pc = pc,
                               !.i = i2, !.kobjs = @ \cup {<<g, i>>}]
<1>0. i \in 0..(Count(g) - 1) /\ g \in Groups /\ <<g, i>> \in Items
  BY GroupFacts, ItemsAre, DevFacts DEF DeviceOK, LoopsOK
<1>1. /\ r \in DevRecord /\ r.pc = pc /\ r.minor = dev[d].minor /\ r.info = dev[d].info
      /\ r.kobjs = dev[d].kobjs \cup {<<g, i>>} /\ r.dirs = dev[d].dirs \cup {g}
      /\ r.refs = dev[d].refs /\ r.g = g /\ r.i = i2
  <2>1. dev[d].kobjs \cup {<<g, i>>} \subseteq Items /\ dev[d].dirs \cup {g} \subseteq Groups
    BY <1>0, DevFacts
  <2>2. pc \in Places /\ dev[d] \in DevRecord
    BY DevFacts DEF Places
  <2> QED BY <2>1, <2>2 DEF DevRecord
<1>2. dev' = [dev EXCEPT ![d] = r]
  OBVIOUS
<1> HIDE DEF r
<1>3. KobjectsOK(r)
  <2> SUFFICES ASSUME NEW h \in Groups, NEW k \in 0..(Count(h) - 1)
               PROVE  <<h, k>> \in r.kobjs <=> KobjectUp(r, h, k)
    BY DEF KobjectsOK
  <2>1. <<h, k>> \in dev[d].kobjs <=> IF h = g THEN k < i ELSE h = "maps"
    BY DevFacts DEF DeviceOK, KobjectsOK, KobjectUp
  <2>2. <<h, k>> \in r.kobjs <=> <<h, k>> \in dev[d].kobjs \/ (h = g /\ k = i)
    BY <1>1
  <2>3. KobjectUp(r, h, k) <=> IF h = g THEN k <= i ELSE h = "maps"
    BY <1>0, <1>1, GroupFacts, CountIsNat DEF KobjectUp
  <2>4. k \in Int /\ i \in Int
    BY <1>0, CountIsNat
  <2> QED BY <2>1, <2>2, <2>3, <2>4
<1>4. LoopsOK(r)
  BY <1>0, <1>1, GroupFacts DEF LoopsOK, BeforeLoops, NotInitialized
<1>5. DirsOK(r)
  BY <1>1, DevFacts, GroupFacts DEF DeviceOK, DirsOK
<1> QED BY <1>1, <1>2, <1>3, <1>4, <1>5, LoopStep DEF LoopPlaces

\* A loop that ends, fails, or starts leaves the kobjects as they are.
LEMMA AddAttributeKeepsInv ==
  ASSUME IInv, NEW d \in Devices, AddAttribute(d)
  PROVE  IInv'
<1> DEFINE g == dev[d].g
           i == dev[d].i
<1>0. /\ UNCHANGED <<core, idr, node, reader, file, oops, reused>>
      /\ dev[d].pc = "attributes" /\ i \in 0..Count(g)
      /\ g \in {"maps", "portio"}
  BY GroupFacts, DevFacts DEF AddAttribute, DeviceOK, LoopsOK
<1>1. CASE /\ HasRegion(d)
           /\ dev' = [dev EXCEPT ![d].dirs = @ \cup {g}, ![d].i = i + 1,
                                 ![d].kobjs = @ \cup {<<g, i>>}]
  <2>1. i + 1 \in Int
    BY <1>0, GroupFacts
  <2>2. dev' = [dev EXCEPT ![d] = [dev[d] EXCEPT !.dirs = @ \cup {g}, !.pc = "attributes",
                                     !.i = i + 1, !.kobjs = @ \cup {<<g, i>>}]]
    BY <1>0, <1>1, DevFacts DEF DevRecord
  <2> QED BY <1>0, <1>1, <2>1, <2>2, AddOneKeepsInv
<1>2. ASSUME HasRegion(d), NEW made \in SUBSET {g},
             dev' = [dev EXCEPT ![d].dirs = @ \cup made, ![d].pc = "unwind",
                                ![d].i = ErrLabel(i)]
      PROVE  IInv'
  <2> DEFINE r == [dev[d] EXCEPT !.dirs = @ \cup made, !.pc = "unwind", !.i = i - 1]
  <2>1. /\ r \in DevRecord /\ r.pc = "unwind" /\ r.minor = dev[d].minor
        /\ r.info = dev[d].info /\ r.kobjs = dev[d].kobjs /\ r.refs = dev[d].refs
        /\ r.dirs = dev[d].dirs \cup made /\ r.g = g /\ r.i = i - 1
    <3>1. /\ i - 1 \in Int /\ "unwind" \in Places /\ dev[d] \in DevRecord
          /\ dev[d].dirs \cup made \subseteq Groups
      BY <1>0, GroupFacts, DevFacts DEF Places
    <3> QED BY <3>1 DEF DevRecord
  <2>2. dev' = [dev EXCEPT ![d] = r]
    BY <1>2 DEF ErrLabel
  <2> HIDE DEF r
  <2>3. KobjectsOK(r)
    <3> SUFFICES ASSUME NEW h \in Groups, NEW k \in 0..(Count(h) - 1)
                 PROVE  <<h, k>> \in r.kobjs <=> KobjectUp(r, h, k)
      BY DEF KobjectsOK
    <3>1. <<h, k>> \in r.kobjs <=> IF h = g THEN k < i ELSE h = "maps"
      BY <1>0, <2>1, DevFacts DEF DeviceOK, KobjectsOK, KobjectUp
    <3>2. KobjectUp(r, h, k) <=> IF h = g THEN k <= i - 1 ELSE h = "maps"
      BY <2>1 DEF KobjectUp
    <3>3. k \in Int /\ i \in Int
      BY <1>0, GroupFacts, CountIsNat
    <3> QED BY <3>1, <3>2, <3>3
  <2>4. LoopsOK(r)
    BY <1>0, <1>2, <2>1, GroupFacts DEF LoopsOK, BeforeLoops, NotInitialized
  <2>5. DirsOK(r)
    BY <1>0, <2>1, DevFacts DEF DeviceOK, DirsOK
  <2> QED BY <1>0, <2>1, <2>2, <2>3, <2>4, <2>5, LoopStep DEF LoopPlaces
<1>3. CASE /\ HasRegion(d)
           /\ dev' = [dev EXCEPT ![d].dirs = @ \cup {g}, ![d].pc = "unwind",
                                 ![d].kobjs = @ \cup {<<g, i>>}]
  <2>1. i \in Int
    BY <1>0, GroupFacts
  <2>2. dev' = [dev EXCEPT ![d] = [dev[d] EXCEPT !.dirs = @ \cup {g}, !.pc = "unwind",
                                     !.i = i, !.kobjs = @ \cup {<<g, i>>}]]
    BY <1>0, <1>3, DevFacts DEF DevRecord
  <2> QED BY <1>0, <1>3, <2>1, <2>2, AddOneKeepsInv
<1>4. CASE ~HasRegion(d) /\ g = "maps" /\ dev' = [dev EXCEPT ![d].g = "portio", ![d].i = 0]
  <2> DEFINE r == [dev[d] EXCEPT !.g = "portio", !.i = 0]
  <2>1. /\ r \in DevRecord /\ r.pc = "attributes" /\ r.minor = dev[d].minor
        /\ r.info = dev[d].info /\ r.kobjs = dev[d].kobjs /\ r.refs = dev[d].refs
        /\ r.dirs = dev[d].dirs /\ r.g = "portio" /\ r.i = 0
    <3>1. "portio" \in Groups /\ 0 \in Int /\ dev[d] \in DevRecord
      BY DevFacts DEF Groups
    <3> QED BY <1>0, <3>1 DEF DevRecord
  <2>2. dev' = [dev EXCEPT ![d] = r]
    BY <1>4
  <2> HIDE DEF r
  <2>3. KobjectsOK(r)
    <3> SUFFICES ASSUME NEW h \in Groups, NEW k \in 0..(Count(h) - 1)
                 PROVE  <<h, k>> \in r.kobjs <=> KobjectUp(r, h, k)
      BY DEF KobjectsOK
    <3>1. <<h, k>> \in r.kobjs <=> IF h = "maps" THEN k < i ELSE h = "maps"
      BY <1>0, <1>4, <2>1, DevFacts DEF DeviceOK, KobjectsOK, KobjectUp
    <3>2. KobjectUp(r, h, k) <=> IF h = "portio" THEN k < 0 ELSE h = "maps"
      BY <2>1 DEF KobjectUp
    <3>3. k \in Nat /\ i = Count("maps") /\ k < Count(h) /\ h \in {"maps", "portio"}
      BY <1>0, <1>4, GroupFacts, CountIsNat DEF Groups
    <3> QED BY <3>1, <3>2, <3>3
  <2>4. LoopsOK(r) /\ DirsOK(r)
    BY <2>1, GroupFacts DEF LoopsOK, DirsOK, BeforeLoops, NotInitialized
  <2> QED BY <1>0, <2>1, <2>2, <2>3, <2>4, LoopStep DEF LoopPlaces
<1>5. CASE ~HasRegion(d) /\ g = "portio" /\ DevGoto(d, "attributes", "irq")
  <2> DEFINE r == [dev[d] EXCEPT !.pc = "irq"]
  <2>1. /\ r \in DevRecord /\ r.pc = "irq" /\ r.minor = dev[d].minor
        /\ r.info = dev[d].info /\ r.kobjs = dev[d].kobjs /\ r.refs = dev[d].refs
    BY DevFacts DEF DevRecord, Places
  <2>2. dev' = [dev EXCEPT ![d] = r]
    BY <1>5 DEF DevGoto
  <2> HIDE DEF r
  <2>3. KobjectsOK(r)
    <3> SUFFICES ASSUME NEW h \in Groups, NEW k \in 0..(Count(h) - 1)
                 PROVE  <<h, k>> \in r.kobjs
      BY <2>1 DEF KobjectsOK, KobjectUp
    <3>1. <<h, k>> \in r.kobjs <=> IF h = "portio" THEN k < i ELSE h = "maps"
      BY <1>0, <1>5, <2>1, DevFacts DEF DeviceOK, KobjectsOK, KobjectUp
    <3>2. k \in Nat /\ i = Count("portio") /\ k < Count(h) /\ h \in {"maps", "portio"}
      BY <1>0, <1>5, GroupFacts, CountIsNat DEF Groups
    <3> QED BY <3>1, <3>2
  <2>4. LoopsOK(r) /\ DirsOK(r)
    BY <2>1 DEF LoopsOK, DirsOK, BeforeLoops, NotInitialized
  <2> QED BY <1>0, <2>1, <2>2, <2>3, <2>4, LoopStep DEF LoopPlaces
<1> QED BY <1>1, <1>2, <1>3, <1>4, <1>5 DEF AddAttribute

\* kobject_put of the entry where a loop stands: it is initialized, and no show
\* function is in it.
LEMMA PutItemKeepsInv ==
  ASSUME IInv, NEW d \in Devices, NEW j \in Int, PutItem(d, j),
         UNCHANGED <<core, idr, node, reader, file, reused>>,
         \/ dev[d].pc = "unwind" /\ dev[d].i >= 0 /\ j = dev[d].i - 1
         \/ dev[d].pc \in {"irqDel", "del"} /\ HasRegion(d) /\ j = dev[d].i + 1
  PROVE  IInv'
<1> DEFINE g == dev[d].g
           i == dev[d].i
           r == [dev[d] EXCEPT !.kobjs = @ \ {<<g, i>>}, !.i = j]
<1>0. i \in 0..(Count(g) - 1) /\ g \in Groups /\ i \in Nat
  BY GroupFacts, DevFacts DEF DeviceOK, LoopsOK
<1>1. /\ r \in DevRecord /\ r.pc = dev[d].pc /\ r.minor = dev[d].minor
      /\ r.info = dev[d].info /\ r.kobjs = dev[d].kobjs \ {<<g, i>>}
      /\ r.dirs = dev[d].dirs /\ r.refs = dev[d].refs /\ r.g = g /\ r.i = j
  <2>1. dev[d].kobjs \ {<<g, i>>} \subseteq Items /\ dev[d] \in DevRecord
    BY DevFacts
  <2> QED BY <2>1 DEF DevRecord
<1>2. dev' = [dev EXCEPT ![d] = r] /\ Drained(d, <<g, i>>)
  BY DEF PutItem
<1>3. ASSUME NEW h \in Groups, NEW k \in 0..(Count(h) - 1)
      PROVE  /\ <<h, k>> \in dev[d].kobjs <=> KobjectUp(dev[d], h, k)
             /\ k \in Nat
  BY DevFacts, CountIsNat DEF DeviceOK, KobjectsOK
<1>4. <<g, i>> \in dev[d].kobjs
  BY <1>0, <1>3 DEF KobjectUp
<1>5. oops' = oops
  BY <1>4 DEF PutItem
<1> HIDE DEF r
<1>6. KobjectsOK(r)
  <2> SUFFICES ASSUME NEW h \in Groups, NEW k \in 0..(Count(h) - 1)
               PROVE  <<h, k>> \in r.kobjs <=> KobjectUp(r, h, k)
    BY DEF KobjectsOK
  <2>1. <<h, k>> \in r.kobjs <=> KobjectUp(dev[d], h, k) /\ ~(h = g /\ k = i)
    BY <1>1, <1>3
  <2>2. CASE dev[d].pc = "unwind" /\ j = i - 1
    <3>1. KobjectUp(dev[d], h, k) <=> IF h = g THEN k <= i ELSE h = "maps"
      BY <2>2 DEF KobjectUp
    <3>2. KobjectUp(r, h, k) <=> IF h = g THEN k <= i - 1 ELSE h = "maps"
      BY <1>1, <2>2 DEF KobjectUp
    <3> QED BY <1>0, <1>3, <2>1, <3>1, <3>2
  <2>3. CASE dev[d].pc \in {"irqDel", "del"} /\ j = i + 1
    <3>1. KobjectUp(dev[d], h, k) <=> IF h = g THEN k >= i ELSE h = "portio"
      BY <2>3 DEF KobjectUp
    <3>2. KobjectUp(r, h, k) <=> IF h = g THEN k >= i + 1 ELSE h = "portio"
      BY <1>1, <2>3 DEF KobjectUp
    <3> QED BY <1>0, <1>3, <2>1, <3>1, <3>2
  <2> QED BY <2>2, <2>3
<1>7. LoopsOK(r)
  BY <1>0, <1>1, GroupFacts DEF LoopsOK, BeforeLoops, NotInitialized
<1>8. DirsOK(r)
  BY <1>1, DevFacts DEF DeviceOK, DirsOK
<1>9. \A y \in dev[d].kobjs : y \in r.kobjs \/ Drained(d, y)
  BY <1>1, <1>2
<1> QED BY <1>1, <1>2, <1>5, <1>6, <1>7, <1>8, <1>9, LoopStep DEF LoopPlaces

\* The error labels: the loop backwards, then the directory.
LEMMA UnwindKeepsInv ==
  ASSUME IInv, NEW d \in Devices, Unwind(d)
  PROVE  IInv'
<1> DEFINE g == dev[d].g
           i == dev[d].i
<1>0. /\ UNCHANGED <<core, idr, node, reader, file, reused>>
      /\ dev[d].pc = "unwind" /\ i \in (-1)..(Count(g) - 1)
      /\ g \in {"maps", "portio"} /\ Count(g) \in Nat /\ i \in Int
  BY GroupFacts, DevFacts DEF Unwind, DeviceOK, LoopsOK
<1>1. CASE i >= 0 /\ PutItem(d, i - 1)
  <2>1. i - 1 \in Int
    BY <1>0
  <2> QED BY <1>0, <1>1, <2>1, PutItemKeepsInv
<1>2. CASE /\ i < 0 /\ g = "portio"
           /\ dev' = [dev EXCEPT ![d].dirs = @ \ {g}, ![d].g = "maps",
                                 ![d].i = ErrLabel(Maps)]
           /\ UNCHANGED oops
  <2> DEFINE r == [dev[d] EXCEPT !.dirs = @ \ {g}, !.g = "maps", !.i = Maps - 1]
  <2>1. /\ r \in DevRecord /\ r.pc = "unwind" /\ r.minor = dev[d].minor
        /\ r.info = dev[d].info /\ r.kobjs = dev[d].kobjs /\ r.refs = dev[d].refs
        /\ r.dirs = dev[d].dirs \ {g} /\ r.g = "maps" /\ r.i = Maps - 1
    <3>1. /\ "maps" \in Groups /\ Maps - 1 \in Int /\ dev[d] \in DevRecord
          /\ dev[d].dirs \ {g} \subseteq Groups
      BY DevFacts, GroupFacts DEF Groups
    <3> QED BY <1>0, <3>1 DEF DevRecord
  <2>2. dev' = [dev EXCEPT ![d] = r]
    BY <1>2 DEF ErrLabel
  <2> HIDE DEF r
  <2>3. KobjectsOK(r)
    <3> SUFFICES ASSUME NEW h \in Groups, NEW k \in 0..(Count(h) - 1)
                 PROVE  <<h, k>> \in r.kobjs <=> KobjectUp(r, h, k)
      BY DEF KobjectsOK
    <3>1. <<h, k>> \in r.kobjs <=> IF h = "portio" THEN k <= i ELSE h = "maps"
      BY <1>0, <1>2, <2>1, DevFacts DEF DeviceOK, KobjectsOK, KobjectUp
    <3>2. KobjectUp(r, h, k) <=> IF h = "maps" THEN k <= Maps - 1 ELSE h = "maps"
      BY <2>1 DEF KobjectUp
    <3>3. k \in Nat /\ k < Count(h) /\ h \in {"maps", "portio"}
      BY CountIsNat DEF Groups
    <3> QED BY <1>0, <1>2, <3>1, <3>2, <3>3, GroupFacts
  <2>4. LoopsOK(r)
    BY <2>1, GroupFacts DEF LoopsOK, BeforeLoops, NotInitialized
  <2>5. DirsOK(r)
    BY <1>2, <2>1, DevFacts DEF DirsOK, Groups
  <2> QED BY <1>0, <1>2, <2>1, <2>2, <2>3, <2>4, <2>5, LoopStep DEF LoopPlaces
<1>3. CASE /\ i < 0 /\ g = "maps"
           /\ dev' = [dev EXCEPT ![d].dirs = @ \ {g}, ![d].pc = ErrAttributes]
           /\ UNCHANGED oops
  <2> DEFINE r == [dev[d] EXCEPT !.dirs = @ \ {g}, !.pc = "deviceDel"]
  <2>1. /\ r \in DevRecord /\ r.pc = "deviceDel" /\ r.minor = dev[d].minor
        /\ r.info = dev[d].info /\ r.kobjs = dev[d].kobjs /\ r.refs = dev[d].refs
        /\ r.dirs = dev[d].dirs \ {g}
    <3>1. /\ "deviceDel" \in Places /\ dev[d] \in DevRecord
          /\ dev[d].dirs \ {g} \subseteq Groups
      BY DevFacts DEF Places
    <3> QED BY <3>1 DEF DevRecord
  <2>2. dev' = [dev EXCEPT ![d] = r]
    BY <1>3 DEF ErrAttributes
  <2> HIDE DEF r
  <2>3. KobjectsOK(r)
    <3> SUFFICES ASSUME NEW h \in Groups, NEW k \in 0..(Count(h) - 1)
                 PROVE  <<h, k>> \notin r.kobjs
      BY <2>1 DEF KobjectsOK, KobjectUp
    <3>1. <<h, k>> \in r.kobjs <=> IF h = "maps" THEN k <= i ELSE h = "maps"
      BY <1>0, <1>3, <2>1, DevFacts DEF DeviceOK, KobjectsOK, KobjectUp
    <3>2. k \in Nat
      BY CountIsNat
    <3> QED BY <1>0, <1>3, <3>1, <3>2
  <2>4. LoopsOK(r)
    BY <2>1 DEF LoopsOK, BeforeLoops, NotInitialized
  <2>5. DirsOK(r)
    BY <1>0, <1>3, <2>1, DevFacts DEF DeviceOK, DirsOK
  <2> QED BY <1>0, <1>3, <2>1, <2>2, <2>3, <2>4, <2>5, LoopStep DEF LoopPlaces
<1> QED BY <1>0, <1>1, <1>2, <1>3 DEF Unwind

\* uio_dev_del_attributes, on the error path and at unregistration.
LEMMA DelAttributesKeepsInv ==
  ASSUME IInv, NEW d \in Devices, NEW from, NEW to, DelAttributes(d, from, to),
         \/ from = "irqDel" /\ to = "deviceDel"
         \/ from = "del" /\ to = "info"
  PROVE  IInv'
<1> DEFINE g == dev[d].g
           i == dev[d].i
<1>0. /\ UNCHANGED <<core, idr, node, reader, file, reused>>
      /\ dev[d].pc \in {"irqDel", "del"} /\ dev[d].pc = from /\ i \in 0..Count(g)
      /\ g \in {"maps", "portio"} /\ Count(g) \in Nat /\ i \in Int
  BY GroupFacts, DevFacts DEF DelAttributes, DeviceOK, LoopsOK
<1>1. CASE HasRegion(d) /\ PutItem(d, i + 1)
  <2>1. i + 1 \in Int
    BY <1>0
  <2> QED BY <1>0, <1>1, <2>1, PutItemKeepsInv
<1>2. CASE /\ ~HasRegion(d) /\ g = "maps"
           /\ dev' = [dev EXCEPT ![d].dirs = @ \ {g}, ![d].g = "portio", ![d].i = 0]
           /\ UNCHANGED oops
  <2> DEFINE r == [dev[d] EXCEPT !.dirs = @ \ {g}, !.g = "portio", !.i = 0]
  <2>1. /\ r \in DevRecord /\ r.pc = from /\ r.minor = dev[d].minor
        /\ r.info = dev[d].info /\ r.kobjs = dev[d].kobjs /\ r.refs = dev[d].refs
        /\ r.dirs = dev[d].dirs \ {g} /\ r.g = "portio" /\ r.i = 0
    <3>1. /\ "portio" \in Groups /\ 0 \in Int /\ dev[d] \in DevRecord
          /\ dev[d].dirs \ {g} \subseteq Groups
      BY DevFacts DEF Groups
    <3> QED BY <1>0, <3>1 DEF DevRecord
  <2>2. dev' = [dev EXCEPT ![d] = r]
    BY <1>2
  <2> HIDE DEF r
  <2>3. KobjectsOK(r)
    <3> SUFFICES ASSUME NEW h \in Groups, NEW k \in 0..(Count(h) - 1)
                 PROVE  <<h, k>> \in r.kobjs <=> KobjectUp(r, h, k)
      BY DEF KobjectsOK
    <3>1. <<h, k>> \in r.kobjs <=> IF h = "maps" THEN k >= i ELSE h = "portio"
      BY <1>0, <1>2, <2>1, DevFacts DEF DeviceOK, KobjectsOK, KobjectUp
    <3>2. KobjectUp(r, h, k) <=> IF h = "portio" THEN k >= 0 ELSE h = "portio"
      BY <1>0, <2>1 DEF KobjectUp
    <3>3. k \in Nat /\ k < Count(h) /\ i = Count("maps") /\ h \in {"maps", "portio"}
      BY <1>0, <1>2, GroupFacts, CountIsNat DEF Groups
    <3> QED BY <3>1, <3>2, <3>3, GroupFacts
  <2>4. LoopsOK(r)
    BY <1>0, <2>1, GroupFacts DEF LoopsOK, BeforeLoops, NotInitialized
  <2>5. DirsOK(r)
    BY <1>0, <1>2, <2>1, DevFacts DEF DirsOK, Groups
  <2> QED BY <1>0, <1>2, <2>1, <2>2, <2>3, <2>4, <2>5, LoopStep DEF LoopPlaces
<1>3. CASE /\ ~HasRegion(d) /\ g = "portio"
           /\ dev' = [dev EXCEPT ![d].dirs = @ \ {g}, ![d].pc = to]
           /\ UNCHANGED oops
  <2> DEFINE r == [dev[d] EXCEPT !.dirs = @ \ {g}, !.pc = to]
  <2>1. /\ r \in DevRecord /\ r.pc = to /\ r.minor = dev[d].minor
        /\ r.info = dev[d].info /\ r.kobjs = dev[d].kobjs /\ r.refs = dev[d].refs
        /\ r.dirs = dev[d].dirs \ {g}
    <3>1. to \in Places /\ dev[d] \in DevRecord /\ dev[d].dirs \ {g} \subseteq Groups
      BY DevFacts DEF Places
    <3> QED BY <3>1 DEF DevRecord
  <2>2. dev' = [dev EXCEPT ![d] = r]
    BY <1>3
  <2> HIDE DEF r
  <2>3. KobjectsOK(r)
    <3> SUFFICES ASSUME NEW h \in Groups, NEW k \in 0..(Count(h) - 1)
                 PROVE  <<h, k>> \notin r.kobjs
      BY <2>1 DEF KobjectsOK, KobjectUp
    <3>1. <<h, k>> \in r.kobjs <=> IF h = "portio" THEN k >= i ELSE h = "portio"
      BY <1>0, <1>3, <2>1, DevFacts DEF DeviceOK, KobjectsOK, KobjectUp
    <3>2. k \in Nat /\ k < Count(h) /\ i = Count("portio")
      BY <1>0, <1>3, GroupFacts, CountIsNat
    <3> QED BY <3>1, <3>2, GroupFacts
  <2>4. LoopsOK(r)
    BY <2>1 DEF LoopsOK, BeforeLoops, NotInitialized
  <2>5. DirsOK(r)
    BY <1>0, <1>3, <2>1, DevFacts DEF DeviceOK, DirsOK
  <2>6. r.pc \in LoopPlaces \cup {"deviceDel", "info"} /\ dev[d].pc \in LoopPlaces
    BY <1>0, <2>1 DEF LoopPlaces
  <2> QED BY <1>0, <1>3, <2>1, <2>2, <2>3, <2>4, <2>5, <2>6, LoopStep
<1> QED BY <1>0, <1>1, <1>2, <1>3 DEF DelAttributes

\* The loops of uio_dev_del_attributes start with all kobjects there.
LEMMA StartDelKeepsInv ==
  ASSUME IInv, NEW d \in Devices, NEW from \in {"irq", "registered"},
         NEW to \in {"irqDel", "del"}, StartDel(d, from, to)
  PROVE  IInv'
<1>0. /\ UNCHANGED <<core, idr, node, reader, file, oops, reused>>
      /\ dev[d].pc \in {"irq", "registered"}
      /\ dev' = [dev EXCEPT ![d].pc = to, ![d].g = "maps", ![d].i = 0]
  BY DEF StartDel
<1> DEFINE r == [dev[d] EXCEPT !.pc = to, !.g = "maps", !.i = 0]
<1>1. /\ r \in DevRecord /\ r.pc = to /\ r.minor = dev[d].minor
      /\ r.info = dev[d].info /\ r.kobjs = dev[d].kobjs /\ r.refs = dev[d].refs
      /\ r.dirs = dev[d].dirs /\ r.g = "maps" /\ r.i = 0
  <2>1. to \in Places /\ "maps" \in Groups /\ 0 \in Int /\ dev[d] \in DevRecord
    BY DevFacts DEF Places, Groups
  <2> QED BY <2>1 DEF DevRecord
<1>2. dev' = [dev EXCEPT ![d] = r]
  BY <1>0
<1> HIDE DEF r
<1>3. KobjectsOK(r)
  <2> SUFFICES ASSUME NEW h \in Groups, NEW k \in 0..(Count(h) - 1)
               PROVE  <<h, k>> \in r.kobjs <=> KobjectUp(r, h, k)
    BY DEF KobjectsOK
  <2>1. <<h, k>> \in r.kobjs
    BY <1>0, <1>1, DevFacts DEF DeviceOK, KobjectsOK, KobjectUp
  <2>2. k \in Nat /\ h \in {"maps", "portio"}
    BY CountIsNat DEF Groups
  <2> QED BY <1>1, <2>1, <2>2 DEF KobjectUp
<1>4. LoopsOK(r) /\ DirsOK(r)
  BY <1>1, GroupFacts DEF LoopsOK, DirsOK, BeforeLoops, NotInitialized
<1> QED BY <1>0, <1>1, <1>2, <1>3, <1>4, LoopStep DEF LoopPlaces

\* The device is registered, or its interrupt fails and all is taken back.
LEMMA RequestIrqKeepsInv ==
  ASSUME IInv, NEW d \in Devices, RequestIrq(d)
  PROVE  IInv'
<1>1. CASE StartDel(d, "irq", "irqDel")
  BY <1>1, StartDelKeepsInv
<1>2. CASE /\ DevGoto(d, "irq", "registered")
           /\ UNCHANGED <<core, idr, node, reader, file, oops, reused>>
  <2> DEFINE r == [dev[d] EXCEPT !.pc = "registered"]
  <2>1. /\ r \in DevRecord /\ r.pc = "registered" /\ r.minor = dev[d].minor
        /\ r.info = dev[d].info /\ r.kobjs = dev[d].kobjs /\ r.refs = dev[d].refs
    BY DevFacts DEF DevRecord, Places
  <2>2. dev' = [dev EXCEPT ![d] = r] /\ dev[d].pc = "irq"
    BY <1>2 DEF DevGoto
  <2> HIDE DEF r
  <2>3. KobjectsOK(r)
    BY <2>1, <2>2, DevFacts DEF DeviceOK, KobjectsOK, KobjectUp
  <2>4. LoopsOK(r) /\ DirsOK(r)
    BY <2>1 DEF LoopsOK, DirsOK, BeforeLoops, NotInitialized
  <2> QED BY <1>2, <2>1, <2>2, <2>3, <2>4, LoopStep DEF LoopPlaces
<1> QED BY <1>1, <1>2 DEF RequestIrq

-----------------------------------------------------------------------------
(***************************************************************************)
(* Giving back the node, the minor and the reference.                      *)
(***************************************************************************)
\* device_del, alone or in device_unregister: the node is gone, no show function
\* of name and version is left, and the rest of the record stays as it is.
LEMMA NodeGivenKeepsInv ==
  ASSUME IInv, NEW d \in Devices, NEW r \in DevRecord, dev' = [dev EXCEPT ![d] = r],
         UNCHANGED <<core, idr, reader, file, oops, reused>>,
         node' = [node EXCEPT ![dev[d].minor] = NoDevice], Drained(d, Self),
         r.minor = dev[d].minor, r.kobjs = dev[d].kobjs, r.dirs = dev[d].dirs,
         r.info = dev[d].info, r.devres = dev[d].devres,
         \/ dev[d].pc = "deviceDel" /\ r.pc = "freeMinor" /\ r.refs = dev[d].refs
         \/ dev[d].pc = "unregister" /\ r.pc = "gone" /\ r.refs = dev[d].refs - 1
  PROVE  IInv'
<1>1. dev[d].kobjs = {} /\ dev[d].dirs = {}
  BY DevFacts, NoKobjects DEF DeviceOK, DirsOK
<1>2. DeviceOK(r)
  <2>1. KobjectsOK(r)
    BY <1>1, EmptyKobjects
  <2> QED BY <1>1, <2>1, DevFacts DEF DeviceOK, LoopsOK, DirsOK, FieldsOK, BeforeLoops,
                                     NotInitialized
<1>3. Owned(node', dev', OwnsNode)
  <2>1. /\ Owned(node, dev, OwnsNode) /\ dev[d].pc \in OwnsNode /\ r.pc \notin OwnsNode
        /\ node' = [node EXCEPT ![r.minor] = NoDevice]
    BY DEF IInv, OwnsNode
  <2>2. /\ node \in Entries /\ dev \in [Devices -> DevRecord]
        /\ r.minor = dev[d].minor
    BY DevFacts
  <2>3. Owned([node EXCEPT ![r.minor] = NoDevice], [dev EXCEPT ![d] = r], OwnsNode)
    BY <2>1, <2>2, OwnedGiven
  <2> QED BY <2>1, <2>3
<1>4. Owned(idr', dev', OwnsMinor)
  <2>1. Owned(idr, dev, OwnsMinor) /\ (r.pc \in OwnsMinor <=> dev[d].pc \in OwnsMinor)
    BY DEF IInv, OwnsMinor
  <2> QED BY <2>1, DevFacts, OwnedKept
<1>5. \A x \in Readers : reader[x].dev # d
  <2> SUFFICES ASSUME NEW x \in Readers, reader[x].dev = d
               PROVE  FALSE
    OBVIOUS
  <2>1. reader[x].item = Self
    BY <1>1, ReaderHolds
  <2>2. reader[x] = [dev |-> d, item |-> Self]
    BY <2>1 DEF IInv, TypeOK, ReaderRecord
  <2> QED BY <2>2 DEF Drained
<1>6. node[dev[d].minor] = d /\ dev[d].minor \in Minors
  BY DevFacts DEF IInv, Owned, OwnsNode
<1>7. /\ \A m \in Minors : node[m] \in Devices \ {d} => node'[m] = node[m]
      /\ \A m \in Minors : node[m] = NoDevice => node'[m] = NoDevice
  BY <1>6, DevFacts DEF Entries
<1>8. idr' \in Entries /\ node' \in Entries
  BY <1>6, DevFacts DEF Entries
<1>9. r.refs - OwnReference(r.pc) = dev[d].refs - OwnReference(dev[d].pc)
  BY DevFacts DEF OwnReference, NotInitialized
<1>10. r.pc \notin NotInitialized /\ r.pc \notin {"idle", "alloc", "minor"}
  BY DEF NotInitialized
<1>11. \A e \in Devices \ {d} :
         dev[e].pc = "minor" /\ node[dev[e].minor] = NoDevice =>
           node'[dev[e].minor] = NoDevice
  BY <1>7, DevFacts
<1> QED BY <1>2, <1>3, <1>4, <1>5, <1>7, <1>8, <1>9, <1>10, <1>11, StepOfDevice

LEMMA DeviceDelKeepsInv ==
  ASSUME IInv, NEW d \in Devices, DeviceDel(d)
  PROVE  IInv'
<1> DEFINE r == [dev[d] EXCEPT !.pc = "freeMinor"]
<1>1. /\ r \in DevRecord /\ r.pc = "freeMinor" /\ r.minor = dev[d].minor
      /\ r.info = dev[d].info /\ r.kobjs = dev[d].kobjs /\ r.refs = dev[d].refs
      /\ r.dirs = dev[d].dirs /\ r.devres = dev[d].devres
  BY DevFacts DEF DevRecord, Places
<1>2. /\ dev' = [dev EXCEPT ![d] = r] /\ dev[d].pc = "deviceDel" /\ Drained(d, Self)
      /\ node' = [node EXCEPT ![dev[d].minor] = NoDevice]
      /\ UNCHANGED <<core, idr, reader, file, oops, reused>>
  BY DEF DeviceDel, DevGoto
<1> HIDE DEF r
<1> QED BY <1>1, <1>2, NodeGivenKeepsInv

LEMMA DeviceUnregisterKeepsInv ==
  ASSUME IInv, NEW d \in Devices, DeviceUnregister(d)
  PROVE  IInv'
<1> DEFINE r == [dev[d] EXCEPT !.pc = "gone", !.refs = @ - 1]
<1>1. /\ r \in DevRecord /\ r.pc = "gone" /\ r.minor = dev[d].minor
      /\ r.info = dev[d].info /\ r.kobjs = dev[d].kobjs /\ r.refs = dev[d].refs - 1
      /\ r.dirs = dev[d].dirs /\ r.devres = dev[d].devres
  <2>1. "gone" \in Places /\ dev[d].refs - 1 \in Int /\ dev[d] \in DevRecord
    BY DevFacts DEF Places
  <2> QED BY <2>1 DEF DevRecord
<1>2. /\ dev' = [dev EXCEPT ![d] = r] /\ dev[d].pc = "unregister" /\ Drained(d, Self)
      /\ node' = [node EXCEPT ![dev[d].minor] = NoDevice]
      /\ UNCHANGED <<core, idr, reader, file, oops, reused>>
  BY DEF DeviceUnregister
<1> HIDE DEF r
<1> QED BY <1>1, <1>2, NodeGivenKeepsInv

\* uio_free_minor, on the error path and at unregistration.
LEMMA FreeMinorKeepsInv ==
  ASSUME IInv, NEW d \in Devices, ErrFreeMinor(d) \/ UnregFreeMinor(d)
  PROVE  IInv'
<1>0. PICK pc \in {"put", "unregister"} :
        /\ dev' = [dev EXCEPT ![d].pc = pc]
        /\ IF pc = "put" THEN dev[d].pc = "freeMinor" ELSE dev[d].pc = "unregMinor"
        /\ idr' = [idr EXCEPT ![dev[d].minor] = NoDevice]
        /\ UNCHANGED <<core, node, reader, file, oops, reused>>
  <2>1. CASE ErrFreeMinor(d)
    BY <2>1 DEF ErrFreeMinor, DevGoto
  <2>2. CASE UnregFreeMinor(d)
    BY <2>2 DEF UnregFreeMinor, DevGoto
  <2> QED BY <2>1, <2>2
<1> DEFINE r == [dev[d] EXCEPT !.pc = pc]
<1>1. /\ r \in DevRecord /\ r.pc = pc /\ r.minor = dev[d].minor
      /\ r.info = dev[d].info /\ r.kobjs = dev[d].kobjs /\ r.refs = dev[d].refs
      /\ r.dirs = dev[d].dirs /\ r.devres = dev[d].devres
  BY DevFacts DEF DevRecord, Places
<1>2. dev' = [dev EXCEPT ![d] = r] /\ idr' = [idr EXCEPT ![r.minor] = NoDevice]
  BY <1>0, <1>1
<1> HIDE DEF r
<1>3. dev[d].kobjs = {} /\ dev[d].dirs = {}
  BY <1>0, DevFacts, NoKobjects DEF DeviceOK, DirsOK
<1>4. DeviceOK(r)
  <2>1. KobjectsOK(r)
    BY <1>0, <1>1, <1>3, EmptyKobjects
  <2> QED BY <1>0, <1>1, <1>3, <2>1, DevFacts DEF DeviceOK, LoopsOK, DirsOK, FieldsOK,
             BeforeLoops, NotInitialized
<1>5. Owned(idr', dev', OwnsMinor)
  <2>1. Owned(idr, dev, OwnsMinor) /\ dev[d].pc \in OwnsMinor /\ r.pc \notin OwnsMinor
    BY <1>0, <1>1 DEF IInv, OwnsMinor
  <2> QED BY <1>1, <1>2, <2>1, DevFacts, OwnedGiven
<1>6. r.pc \in OwnsNode <=> dev[d].pc \in OwnsNode
  BY <1>0, <1>1 DEF OwnsNode
<1>7. Owned(node', dev', OwnsNode)
  <2>1. Owned(node, dev, OwnsNode)
    BY DEF IInv
  <2>2. Owned(node, [dev EXCEPT ![d] = r], OwnsNode)
    BY <1>1, <1>6, <2>1, DevFacts, OwnedKept
  <2> QED BY <1>0, <1>2, <2>2
<1>8. ASSUME NEW x \in Readers, reader[x].dev = d
      PROVE  IF reader[x].item = Self THEN node'[r.minor] = d /\ r.pc \in OwnsNode
                                      ELSE reader[x].item \in r.kobjs
  BY <1>0, <1>1, <1>6, <1>8, ReaderHolds
<1>9. idr' \in Entries /\ node' \in Entries
  BY <1>0, DevFacts DEF Entries
<1>10. r.refs - OwnReference(r.pc) = dev[d].refs - OwnReference(dev[d].pc)
  BY <1>0, <1>1, DevFacts DEF OwnReference, NotInitialized
<1>11. r.pc \notin NotInitialized /\ r.pc \notin {"idle", "alloc", "minor"}
  BY <1>0, <1>1 DEF NotInitialized
<1> QED BY <1>0, <1>1, <1>2, <1>4, <1>5, <1>7, <1>8, <1>9, <1>10, <1>11, StepOfDevice

\* put_device of a registration that failed.
LEMMA ErrPutKeepsInv ==
  ASSUME IInv, NEW d \in Devices, ErrPut(d)
  PROVE  IInv'
<1>0. /\ UNCHANGED <<core, idr, node, reader, file, oops, reused>> /\ dev[d].pc = "put"
      /\ dev' = [dev EXCEPT ![d].pc = "failed", ![d].refs = @ - 1, ![d].devres = FALSE]
  BY DEF ErrPut
<1> DEFINE r == [dev[d] EXCEPT !.pc = "failed", !.refs = @ - 1, !.devres = FALSE]
<1>1. /\ r \in DevRecord /\ r.pc = "failed" /\ r.minor = dev[d].minor /\ ~r.devres
      /\ r.kobjs = dev[d].kobjs /\ r.dirs = dev[d].dirs /\ r.refs = dev[d].refs - 1
      /\ r.g = dev[d].g /\ r.i = dev[d].i
  <2>1. "failed" \in Places /\ dev[d].refs - 1 \in Int /\ dev[d] \in DevRecord
    BY DevFacts DEF Places
  <2> QED BY <2>1 DEF DevRecord
<1>2. dev' = [dev EXCEPT ![d] = r]
  BY <1>0
<1> HIDE DEF r
<1>3. FieldsOK(r)
  BY <1>1 DEF FieldsOK
<1>4. r.refs - OwnReference(r.pc) = dev[d].refs - OwnReference(dev[d].pc)
  BY <1>0, <1>1, DevFacts DEF OwnReference, NotInitialized
<1> QED BY <1>0, <1>1, <1>2, <1>3, <1>4, PlainStep DEF OwnsMinor, OwnsNode, BeforeLoops,
           NotInitialized

\* From here on info is NULL.
LEMMA ClearInfoKeepsInv ==
  ASSUME IInv, NEW d \in Devices, ClearInfo(d)
  PROVE  IInv'
<1>0. /\ UNCHANGED <<core, idr, node, reader, file, oops, reused>> /\ dev[d].pc = "info"
      /\ dev' = [dev EXCEPT ![d].pc = "unregMinor", ![d].info = FALSE, ![d].devres = FALSE]
  BY DEF ClearInfo
<1> DEFINE r == [dev[d] EXCEPT !.pc = "unregMinor", !.info = FALSE, !.devres = FALSE]
<1>1. /\ r \in DevRecord /\ r.pc = "unregMinor" /\ r.minor = dev[d].minor
      /\ ~r.devres /\ ~r.info
      /\ r.kobjs = dev[d].kobjs /\ r.dirs = dev[d].dirs /\ r.refs = dev[d].refs
      /\ r.g = dev[d].g /\ r.i = dev[d].i
  <2>1. "unregMinor" \in Places /\ dev[d] \in DevRecord
    BY DevFacts DEF Places
  <2> QED BY <2>1 DEF DevRecord
<1>2. dev' = [dev EXCEPT ![d] = r]
  BY <1>0
<1> HIDE DEF r
<1>3. FieldsOK(r)
  BY <1>1 DEF FieldsOK
<1>4. r.refs - OwnReference(r.pc) = dev[d].refs - OwnReference(dev[d].pc)
  BY <1>0, <1>1, DevFacts DEF OwnReference, NotInitialized
<1> QED BY <1>0, <1>1, <1>2, <1>3, <1>4, PlainStep DEF OwnsMinor, OwnsNode, BeforeLoops,
           NotInitialized

-----------------------------------------------------------------------------
(***************************************************************************)
(* Show functions and files.                                               *)
(***************************************************************************)
\* A step of a reader changes nothing but where it is.
LEMMA ReaderStep ==
  ASSUME IInv, UNCHANGED <<core, idr, node, dev, file, oops, reused>>,
         NEW x \in Readers, NEW y \in ReaderRecord, reader' = [reader EXCEPT ![x] = y],
         y.dev # NoDevice =>
           IF y.item = Self THEN node[dev[y.dev].minor] = y.dev /\ dev[y.dev].pc \in OwnsNode
                            ELSE y.item \in dev[y.dev].kobjs
  PROVE  IInv'
<1>1. /\ reader' \in [Readers -> ReaderRecord] /\ reader'[x] = y
      /\ \A z \in Readers \ {x} : reader'[z] = reader[z]
  BY DEF IInv, TypeOK
<1>2. TypeOK'
  BY <1>1 DEF IInv, TypeOK
<1>3. ReadersOK'
  BY <1>1 DEF IInv, ReadersOK
<1>4. \A d : FilesOf(d)' = FilesOf(d)
  BY DEF FilesOf
<1>5. NotFoundYet' /\ UnreachedYet' /\ References'
  BY <1>4 DEF IInv, NotFoundYet, UnreachedYet, References
<1> QED BY <1>2, <1>3, <1>5 DEF IInv, CoreOK, DevicesOK

\* A show function is called through a node or a kobject that is there.
LEMMA ShowCallKeepsInv ==
  ASSUME IInv, NEW x \in Readers, NEW d \in Devices, NEW item \in Items \cup {Self},
         ShowCall(x, d, item)
  PROVE  IInv'
<1> DEFINE y == [dev |-> d, item |-> item]
<1>1. y \in ReaderRecord /\ y.dev = d /\ y.item = item
  BY DEF ReaderRecord
<1>2. IF item = Self THEN node[dev[d].minor] = d /\ dev[d].pc \in OwnsNode
                     ELSE item \in dev[d].kobjs
  <2>1. node[dev[d].minor] = d => dev[d].pc \in OwnsNode
    BY DevFacts, RegisterAssumption DEF IInv, Owned
  <2> QED BY <2>1 DEF ShowCall
<1>3. /\ UNCHANGED <<core, idr, node, dev, file, oops, reused>>
      /\ reader' = [reader EXCEPT ![x] = y]
  BY DEF ShowCall
<1> HIDE DEF y
<1> QED BY <1>1, <1>2, <1>3, ReaderStep

\* A show function that reads info finds the uio_info of a driver: through a
\* kobject, because that is put before info is cleared; through the node,
\* because the driver is told only after the node is gone.
LEMMA ShowKeepsInv ==
  ASSUME IInv, NEW x \in Readers, Show(x)
  PROVE  IInv'
<1> DEFINE d == reader[x].dev
           item == reader[x].item
           y == [dev |-> NoDevice, item |-> Self]
<1>1. d \in Devices /\ item \in Items \cup {Self}
  BY DEF Show, IInv, TypeOK, ReaderRecord
<1>2. dev[d].info => InfoThere(d)
  <2>1. dev[d].pc \notin {"failed", "gone"}
    <3>1. CASE item = Self
      BY <1>1, <3>1, ReaderHolds DEF OwnsNode
    <3>2. CASE item # Self
      <4>1. dev[d].kobjs # {}
        BY <1>1, <3>2, ReaderHolds
      <4> QED BY <1>1, <4>1, DevFacts, NoKobjects DEF DeviceOK
    <3> QED BY <3>1, <3>2
  <2> QED BY <2>1 DEF InfoThere
<1>3. ReadsInfo(d, item) => dev[d].info
  <2>1. CASE item # Self
    <3>1. dev[d].kobjs # {}
      BY <1>1, <2>1, ReaderHolds
    <3>2. dev[d].pc \in {"attributes", "unwind", "irq", "irqDel", "registered", "del"}
      BY <1>1, <3>1, DevFacts, NoKobjects DEF DeviceOK
    <3> QED BY <1>1, <3>2, DevFacts DEF DeviceOK, FieldsOK
  <2> QED BY <2>1 DEF ReadsInfo
<1>4. oops' = oops
  BY <1>2, <1>3 DEF Show
<1>5. y \in ReaderRecord /\ y.dev = NoDevice
  BY DEF ReaderRecord
<1>6. UNCHANGED <<core, idr, node, dev, file, reused>> /\ reader' = [reader EXCEPT ![x] = y]
  BY DEF Show
<1> HIDE DEF y, d, item
<1> QED BY <1>4, <1>5, <1>6, ReaderStep

\* An open or a close changes the references of one device.
LEMMA FileStep ==
  ASSUME IInv, UNCHANGED <<core, idr, node, reader, oops, reused>>,
         NEW d \in Devices, NEW k \in Int, dev' = [dev EXCEPT ![d].refs = k],
         file' \in [Files -> Devices \cup {NoDevice}],
         NotFoundYet', UnreachedYet', References'
  PROVE  IInv'
<1> DEFINE r == [dev[d] EXCEPT !.refs = k]
<1>1. /\ r \in DevRecord /\ r.pc = dev[d].pc /\ r.minor = dev[d].minor
      /\ r.info = dev[d].info /\ r.kobjs = dev[d].kobjs /\ r.dirs = dev[d].dirs
      /\ r.devres = dev[d].devres /\ r.g = dev[d].g /\ r.i = dev[d].i
  BY DevFacts DEF DevRecord
<1>2. dev' = [dev EXCEPT ![d] = r]
  OBVIOUS
<1> HIDE DEF r
<1>3. /\ dev' \in [Devices -> DevRecord] /\ dev'[d] = r
      /\ \A e \in Devices \ {d} : dev'[e] = dev[e]
  BY <1>1, <1>2, DevFacts
<1>4. TypeOK'
  BY <1>3 DEF IInv, TypeOK
<1>5. DeviceOK(r)
  <2>1. KobjectsOK(r)
    <3> SUFFICES ASSUME NEW h \in Groups, NEW j \in 0..(Count(h) - 1)
                 PROVE  <<h, j>> \in r.kobjs <=> KobjectUp(r, h, j)
      BY DEF KobjectsOK
    <3>1. <<h, j>> \in dev[d].kobjs <=> KobjectUp(dev[d], h, j)
      BY DevFacts DEF DeviceOK, KobjectsOK
    <3> QED BY <1>1, <3>1 DEF KobjectUp
  <2> QED BY <1>1, <2>1, DevFacts DEF DeviceOK, LoopsOK, DirsOK, FieldsOK
<1>6. DevicesOK'
  BY <1>3, <1>5 DEF IInv, DevicesOK
<1>7. Owned(idr', dev', OwnsMinor) /\ Owned(node', dev', OwnsNode)
  <2>1. Owned(idr, dev, OwnsMinor) /\ Owned(node, dev, OwnsNode)
    BY DEF IInv
  <2>2. \A e \in Devices : dev'[e].pc = dev[e].pc /\ dev'[e].minor = dev[e].minor
    BY <1>1, <1>3
  <2> QED BY <1>3, <2>1, <2>2, DevFacts, OwnedSame
<1>8. ReadersOK'
  <2>1. \A e \in Devices : /\ dev'[e].pc = dev[e].pc /\ dev'[e].minor = dev[e].minor
                           /\ dev'[e].kobjs = dev[e].kobjs
    BY <1>1, <1>3
  <2>2. \A x \in Readers : reader[x].dev # NoDevice => reader[x].dev \in Devices
    BY DEF IInv, TypeOK, ReaderRecord
  <2> QED BY <2>1, <2>2 DEF IInv, ReadersOK
<1> QED BY <1>4, <1>6, <1>7, <1>8 DEF IInv, CoreOK

\* uio_open: it finds no device before device_initialize, except one that got
\* the minor of a node still there.
LEMMA OpenNodeKeepsInv ==
  ASSUME IInv, NEW f \in Files, NEW m \in Minors, OpenNode(f, m)
  PROVE  IInv'
<1>a. PICK d \in Devices : d = idr[m] /\ d # NoDevice
  BY DEF OpenNode, IInv, TypeOK
<1>0. /\ UNCHANGED <<core, idr, node, reader, oops, reused>>
      /\ file[f] = NoDevice /\ node[m] # NoDevice
      /\ dev[d].pc \in OwnsMinor /\ dev[d].minor = m
      /\ file' = [file EXCEPT ![f] = d] /\ dev' = [dev EXCEPT ![d].refs = dev[d].refs + 1]
  BY <1>a DEF OpenNode, IInv, TypeOK, Owned
<1>1. dev[d].refs \in Int /\ dev[d].refs + 1 \in Int
  BY <1>0, DevFacts
<1>2. /\ \A e \in Devices \ {d} : dev'[e] = dev[e]
      /\ dev'[d].pc = dev[d].pc /\ dev'[d].minor = dev[d].minor
      /\ dev'[d].refs = dev[d].refs + 1
  BY <1>0, <1>1, DevFacts DEF DevRecord
<1>3. file' \in [Files -> Devices \cup {NoDevice}]
  BY <1>0 DEF IInv, TypeOK
<1>4. /\ FilesOf(d)' = FilesOf(d) \cup {f} /\ f \notin FilesOf(d)
      /\ \A e \in Devices \ {d} : FilesOf(e)' = FilesOf(e)
  BY <1>0, <1>a, RegisterAssumption DEF IInv, TypeOK, FilesOf
<1>5. dev[d].pc \notin {"idle", "alloc"}
  BY <1>0 DEF OwnsMinor
<1>6. NotFoundYet'
  BY <1>0, <1>2, <1>4, <1>5 DEF IInv, NotFoundYet
<1>7. d \in reused \/ dev[d].pc \notin NotInitialized
  BY <1>0, <1>5 DEF IInv, UnreachedYet, NotInitialized
<1>8. UnreachedYet'
  BY <1>0, <1>2, <1>4, <1>7 DEF IInv, UnreachedYet, NotInitialized
<1>9. References'
  <2> SUFFICES ASSUME NEW e \in Devices, e \notin reused
               PROVE  dev'[e].refs = Cardinality(FilesOf(e)') + OwnReference(dev'[e].pc)
    BY <1>0 DEF References
  <2>1. dev[e].refs = Cardinality(FilesOf(e)) + OwnReference(dev[e].pc)
    BY DEF IInv, References
  <2>2. CASE e = d
    <3>1. Cardinality(FilesOf(d)') = Cardinality(FilesOf(d)) + 1
      BY <1>4, FilesAreFinite, FS_AddElement
    <3>2. Cardinality(FilesOf(d)) \in Nat /\ OwnReference(dev[d].pc) \in Nat
      BY FilesAreFinite DEF OwnReference
    <3> QED BY <1>2, <2>1, <2>2, <3>1, <3>2
  <2>3. CASE e # d
    BY <1>2, <1>4, <2>1, <2>3
  <2> QED BY <2>2, <2>3
<1> QED BY <1>0, <1>1, <1>3, <1>6, <1>8, <1>9, FileStep

\* uio_release.
LEMMA CloseFileKeepsInv ==
  ASSUME IInv, NEW f \in Files, CloseFile(f)
  PROVE  IInv'
<1>a. PICK d \in Devices : d = file[f] /\ d # NoDevice
  BY DEF CloseFile, IInv, TypeOK
<1>0. /\ UNCHANGED <<core, idr, node, reader, oops, reused>>
      /\ file' = [file EXCEPT ![f] = NoDevice]
      /\ dev' = [dev EXCEPT ![d].refs = dev[d].refs - 1]
  BY <1>a DEF CloseFile, IInv, TypeOK
<1>1. /\ FilesOf(d)' = FilesOf(d) \ {f} /\ f \in FilesOf(d)
      /\ \A e \in Devices \ {d} : FilesOf(e)' = FilesOf(e)
  BY <1>0, <1>a, RegisterAssumption DEF IInv, TypeOK, FilesOf
<1>2. dev[d].refs \in Int /\ dev[d].refs - 1 \in Int
  BY <1>0, DevFacts
<1>3. /\ \A e \in Devices \ {d} : dev'[e] = dev[e]
      /\ dev'[d].pc = dev[d].pc /\ dev'[d].minor = dev[d].minor
      /\ dev'[d].refs = dev[d].refs - 1
  BY <1>0, <1>2, DevFacts DEF DevRecord
<1>4. file' \in [Files -> Devices \cup {NoDevice}]
  BY <1>0 DEF IInv, TypeOK
<1>5. NotFoundYet'
  BY <1>0, <1>1, <1>3 DEF IInv, NotFoundYet
<1>6. UnreachedYet'
  BY <1>0, <1>1, <1>3 DEF IInv, UnreachedYet, NotInitialized
<1>7. References'
  <2> SUFFICES ASSUME NEW e \in Devices, e \notin reused
               PROVE  dev'[e].refs = Cardinality(FilesOf(e)') + OwnReference(dev'[e].pc)
    BY <1>0 DEF References
  <2>1. dev[e].refs = Cardinality(FilesOf(e)) + OwnReference(dev[e].pc)
    BY DEF IInv, References
  <2>2. CASE e = d
    <3>1. Cardinality(FilesOf(d)') = Cardinality(FilesOf(d)) - 1
      BY <1>1, FilesAreFinite, FS_RemoveElement
    <3>2. Cardinality(FilesOf(d)) \in Nat /\ OwnReference(dev[d].pc) \in Nat
      BY FilesAreFinite DEF OwnReference
    <3> QED BY <1>3, <2>1, <2>2, <3>1, <3>2
  <2>3. CASE e # d
    BY <1>1, <1>3, <2>1, <2>3
  <2> QED BY <2>2, <2>3
<1> QED BY <1>0, <1>2, <1>4, <1>5, <1>6, <1>7, FileStep

-----------------------------------------------------------------------------
\* Loading and unloading of the module.
LEMMA CoreKeepsInv ==
  ASSUME IInv, Core \/ CoreExit
  PROVE  IInv'
<1>1. /\ UNCHANGED <<idr, node, dev, reader, file, oops, reused>>
      /\ TypeOK' /\ CoreOK'
  BY DEF IInv, TypeOK, CoreOK, Core, CoreExit, AllocRegion, AddCdev, ClassRegister, CoreStep
<1>2. \A d : FilesOf(d)' = FilesOf(d)
  BY <1>1 DEF FilesOf
<1>3. NotFoundYet' /\ UnreachedYet' /\ References'
  BY <1>1, <1>2 DEF IInv, NotFoundYet, UnreachedYet, References
<1> QED BY <1>1, <1>3 DEF IInv, DevicesOK, ReadersOK

\* Steps of nobody.
LEMMA StutterKeepsInv ==
  ASSUME IInv, UNCHANGED vars
  PROVE  IInv'
<1>1. \A d : FilesOf(d)' = FilesOf(d)
  BY DEF FilesOf, vars
<1>2. NotFoundYet' /\ UnreachedYet' /\ References'
  BY <1>1 DEF vars, IInv, NotFoundYet, UnreachedYet, References
<1>3. TypeOK' /\ CoreOK' /\ DevicesOK' /\ ReadersOK'
  BY DEF vars, IInv, TypeOK, CoreOK, DevicesOK, ReadersOK
<1> QED BY <1>2, <1>3 DEF vars, IInv

\* Before the module is loaded there is nothing.
LEMMA InitInv == Init => IInv
<1> SUFFICES ASSUME Init
             PROVE  IInv
  OBVIOUS
<1> DEFINE r == [pc |-> "idle", minor |-> 0, info |-> FALSE, refs |-> 0, g |-> "maps",
                 i |-> 0, dirs |-> {}, kobjs |-> {}, devres |-> FALSE]
<1>1. /\ r \in DevRecord /\ r.pc = "idle" /\ r.kobjs = {} /\ r.dirs = {} /\ r.refs = 0
      /\ ~r.devres /\ r.g = "maps" /\ r.i = 0
  <2>1. "idle" \in Places /\ 0 \in Minors /\ "maps" \in Groups /\ 0 \in Int
    BY RegisterAssumption DEF Places, Minors, Groups
  <2> QED BY <2>1 DEF DevRecord
<1>2. dev = [d \in Devices |-> r]
  BY DEF Init
<1> HIDE DEF r
<1>3. DeviceOK(r)
  <2>1. KobjectsOK(r)
    BY <1>1, EmptyKobjects
  <2> QED BY <1>1, <2>1 DEF DeviceOK, LoopsOK, DirsOK, FieldsOK
<1>4. TypeOK
  BY <1>1, <1>2 DEF Init, TypeOK, ReaderRecord
<1>5. DevicesOK /\ CoreOK /\ ReadersOK /\ oops = {}
  BY <1>2, <1>3 DEF Init, DevicesOK, CoreOK, ReadersOK
<1>6. Owned(idr, dev, OwnsMinor) /\ Owned(node, dev, OwnsNode)
  BY <1>1, <1>2 DEF Init, Owned, OwnsMinor, OwnsNode
<1>7. \A d \in Devices : FilesOf(d) = {}
  BY RegisterAssumption DEF Init, FilesOf
<1>8. NotFoundYet /\ UnreachedYet
  BY <1>1, <1>2, <1>7 DEF Init, NotFoundYet, UnreachedYet
<1>9. References
  BY <1>1, <1>2, <1>7, FS_EmptySet DEF References, OwnReference, NotInitialized
<1> QED BY <1>4, <1>5, <1>6, <1>8, <1>9 DEF IInv

\* Every step keeps the invariant.
LEMMA NextKeepsInv == IInv /\ [Next]_vars => IInv'
<1> SUFFICES ASSUME IInv, [Next]_vars
             PROVE  IInv'
  OBVIOUS
<1>1. ASSUME NEW d \in Devices, RegisterCall(d) \/ Register(d)
      PROVE  IInv'
  BY <1>1, RegisterCallKeepsInv, GetMinorKeepsInv, DeviceInitializeKeepsInv,
     DeviceAddKeepsInv, AddAttributeKeepsInv, UnwindKeepsInv, RequestIrqKeepsInv,
     DelAttributesKeepsInv, DeviceDelKeepsInv, FreeMinorKeepsInv, ErrPutKeepsInv
  DEF Register, ErrAttributes
<1>2. ASSUME NEW d \in Devices, Unregister(d) \/ UnregisterDevice(d)
      PROVE  IInv'
  BY <1>2, StartDelKeepsInv, DelAttributesKeepsInv, ClearInfoKeepsInv, FreeMinorKeepsInv,
     DeviceUnregisterKeepsInv
  DEF Unregister, UnregisterDevice
<1> QED BY <1>1, <1>2, CoreKeepsInv, ShowKeepsInv, ShowCallKeepsInv, OpenNodeKeepsInv,
           CloseFileKeepsInv, StutterKeepsInv DEF Next

\* The inductive invariant holds in every behaviour.
LEMMA SpecKeepsInv == Spec => []IInv
BY InitInv, NextKeepsInv, PTL DEF Spec

-----------------------------------------------------------------------------
\* All variables of the registry keep their types: the loops of
\* uio_dev_add_attributes never make an entry for a region that is not there.
THEOREM RegistryTypeCorrect == Spec => []TypeOK
<1>1. IInv => TypeOK
  BY DEF IInv
<1> QED BY <1>1, SpecKeepsInv, PTL

\* Wherever uio_dev_add_attributes fails, for any number of regions of both
\* kinds, and at unregistration, each kobject that was initialized is put once,
\* no other is, and no directory is left.
THEOREM KobjectsBalancedHolds == Spec => []KobjectsBalanced
<1>1. IInv => KobjectsBalanced
  <2> SUFFICES ASSUME IInv
               PROVE  KobjectsBalanced
    OBVIOUS
  <2>1. ASSUME NEW d \in Devices,
               dev[d].pc \in {"freeMinor", "put", "failed", "info", "unregMinor",
                              "unregister", "gone"}
        PROVE  dev[d].kobjs = {} /\ dev[d].dirs = {}
    BY <2>1, DevFacts, NoKobjects DEF DeviceOK, DirsOK
  <2> QED BY <2>1 DEF IInv, KobjectsBalanced
<1> QED BY <1>1, SpecKeepsInv, PTL

\* However a show function of sysfs meets the registration, its failure and the
\* unregistration, the uio_info it reads belongs to a driver that still has it.
THEOREM ShowsFindInfoHolds == Spec => []ShowsFindInfo
<1>1. IInv => ShowsFindInfo
  BY DEF IInv, ShowsFindInfo
<1> QED BY <1>1, SpecKeepsInv, PTL

\* For any number of files and devices, the references of a struct device are
\* that of its registration and those of the files that found it, unless the
\* device took a minor whose old node was still there.
THEOREM ReachableIsReferencedHolds == Spec => []ReachableIsReferenced
<1>1. IInv => ReachableIsReferenced
  BY DEF IInv, References, ReachableIsReferenced, FilesOf, OwnReference, NotInitialized
<1> QED BY <1>1, SpecKeepsInv, PTL

\* A node leads to its own device or to none until uio_free_minor has freed its
\* minor ahead of device_unregister.
THEOREM NodeLeadsHomeHolds == Spec => []NodeLeadsHome
<1>1. IInv => NodeLeadsHome
  <2> SUFFICES ASSUME IInv, NEW m \in Minors, node[m] # NoDevice,
                      dev[node[m]].pc # "unregister"
               PROVE  idr[m] = node[m]
    BY DEF NodeLeadsHome
  <2>1. node[m] \in Devices /\ dev[node[m]].pc \in OwnsNode /\ dev[node[m]].minor = m
    BY DEF IInv, TypeOK, Owned
  <2>2. dev[node[m]].pc \in OwnsMinor
    BY <2>1 DEF OwnsNode, OwnsMinor
  <2> QED BY <2>1, <2>2 DEF IInv, Owned
<1> QED BY <1>1, SpecKeepsInv, PTL

\* Whatever fails, the module leaves neither numbers nor the class behind, and a
\* device that is not registered neither a minor, a node nor a devres entry.
THEOREM NothingLeftHolds == Spec => []NothingLeft
<1>1. IInv => NothingLeft
  <2> SUFFICES ASSUME IInv
               PROVE  NothingLeft
    OBVIOUS
  <2>1. ASSUME NEW d \in Devices, dev[d].pc \in {"failed", "gone"}
        PROVE  ~dev[d].devres
    BY <2>1, DevFacts DEF DeviceOK, FieldsOK
  <2>2. ASSUME NEW d \in Devices, dev[d].pc \in {"failed", "gone"}, NEW m \in Minors
        PROVE  idr[m] # d /\ node[m] # d
    BY <2>2, RegisterAssumption DEF IInv, Owned, OwnsMinor, OwnsNode
  <2> QED BY <2>1, <2>2 DEF IInv, CoreOK, NothingLeft
<1> QED BY <1>1, SpecKeepsInv, PTL

=============================================================================
