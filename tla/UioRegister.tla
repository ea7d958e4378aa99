---------------------------- MODULE UioRegister -----------------------------
(***************************************************************************)
(* The UIO core as a registry: the class and major number, the minors, and *)
(* the registration and unregistration of several devices at once, with    *)
(* the sysfs directories maps/ and portio/, their readers, and processes   *)
(* that open device nodes meanwhile.                                       *)
(*                                                                         *)
(* Removing a sysfs file waits for the calls of its show function that are *)
(* in progress and admits no new ones.  A show function that takes         *)
(* info_lock waits while uio_unregister_device holds it.                   *)
(***************************************************************************)
EXTENDS Integers, FiniteSets

CONSTANTS
  Devices,          \* struct uio_info of drivers, each registered once
  Managed,          \* those registered with __devm_uio_register_device
  HasIrq,           \* those with a hardware interrupt
  UIO_MAX_DEVICES,  \* number of minors
  Maps, Ports,      \* regions of each kind a device has
  Readers,          \* processes reading sysfs files
  Files,            \* files processes open
  NoDevice          \* no device: NULL

ASSUME RegisterAssumption ==
  /\ Managed \subseteq Devices /\ HasIrq \subseteq Devices
  /\ UIO_MAX_DEVICES \in Nat \ {0}
  /\ Maps \in Nat /\ Ports \in Nat
  /\ IsFiniteSet(Files)
  /\ NoDevice \notin Devices

Minors == 0..(UIO_MAX_DEVICES - 1)
Groups == {"maps", "portio"}
Count(g) == IF g = "maps" THEN Maps ELSE Ports
Items == UNION {{g} \X (0..(Count(g) - 1)) : g \in Groups}
Self == <<"device", 0>>  \* the attributes name and version of the device itself

VARIABLES
  core,    \* place of the module and what it holds
  idr,     \* the device of each minor
  node,    \* the device whose name and node uio<minor> exist
  dev,     \* the devices
  reader,  \* the show function each reader is in
  file,    \* the device each file has opened
  oops,    \* history: faults
  reused   \* history: devices that got the minor of a node still there

vars == <<core, idr, node, dev, reader, file, oops, reused>>

(***************************************************************************)
(* dev[d]: its place; the minor; info (idev->info is not NULL); refs of    *)
(* the struct device; the loop variables g and i of the attribute loops;   *)
(* dirs and kobjs, the kobjects initialized and not yet put; devres.       *)
(***************************************************************************)
Init ==
  /\ core = [pc |-> "unloaded", held |-> {}]
  /\ idr = [m \in Minors |-> NoDevice]
  /\ node = [m \in Minors |-> NoDevice]
  /\ dev = [d \in Devices |->
       [pc |-> "idle", minor |-> 0, info |-> FALSE, refs |-> 0, g |-> "maps", i |-> 0,
        dirs |-> {}, kobjs |-> {}, devres |-> FALSE]]
  /\ reader = [r \in Readers |-> [dev |-> NoDevice, item |-> Self]]
  /\ file = [f \in Files |-> NoDevice]
  /\ oops = {}
  /\ reused = {}

(***************************************************************************)
(* init_uio_class, uio_major_init and their unwinding; uio_exit.           *)
(***************************************************************************)
CoreStep(from, to, held) ==
  /\ core.pc = from
  /\ core' = [pc |-> to, held |-> held]
  /\ UNCHANGED <<idr, node, dev, reader, file, oops, reused>>

AllocRegion ==
  \/ CoreStep("unloaded", "failed", {})
  \/ CoreStep("unloaded", "cdev", {"region"})

\* Faulty: the region stays allocated.
AddCdevKeepsRegion ==
  \/ CoreStep("cdev", "failed", {"region"})
  \/ CoreStep("cdev", "class", {"region", "cdev"})

\* cdev_alloc and cdev_add.
AddCdev ==
  \/ CoreStep("cdev", "failed", {})
  \/ CoreStep("cdev", "class", {"region", "cdev"})

ClassRegister ==
  \/ CoreStep("class", "failed", {})
  \/ CoreStep("class", "ready", {"region", "cdev", "class"})

\* The module goes when no driver and no file uses it.
CoreExit ==
  /\ \A d \in Devices : dev[d].pc \in {"idle", "failed", "gone"}
  /\ \A f \in Files : file[f] = NoDevice
  /\ CoreStep("ready", "exited", {})

(***************************************************************************)
(* __uio_register_device up to device_add.                                 *)
(***************************************************************************)
DevGoto(d, from, to) ==
  /\ dev[d].pc = from
  /\ dev' = [dev EXCEPT ![d].pc = to]

\* devres_alloc and kzalloc; either may fail.
RegisterCall(d) ==
  /\ core.pc = "ready"
  /\ \/ DevGoto(d, "idle", "failed")
     \/ /\ dev[d].pc = "idle"
        /\ dev' = [dev EXCEPT ![d].pc = "alloc", ![d].info = TRUE,
                              ![d].devres = d \in Managed]
  /\ UNCHANGED <<core, idr, node, reader, file, oops, reused>>

FreeMinors == {m \in Minors : idr[m] = NoDevice}

\* uio_get_minor takes the lowest free minor.
GetMinor(d) ==
  /\ dev[d].pc = "alloc"
  /\ \/ /\ dev' = [dev EXCEPT ![d].pc = "failed", ![d].devres = FALSE]
        /\ UNCHANGED <<idr, reused>>
     \/ \E m \in FreeMinors :
          /\ \A k \in FreeMinors : m <= k
          /\ idr' = [idr EXCEPT ![m] = d]
          /\ dev' = [dev EXCEPT ![d].pc = "minor", ![d].minor = m]
          /\ reused' = IF node[m] = NoDevice THEN reused ELSE reused \cup {d}
  /\ UNCHANGED <<core, node, reader, file, oops>>

\* device_initialize sets the count, whatever it was.
DeviceInitialize(d) ==
  /\ dev[d].pc = "minor"
  /\ dev' = [dev EXCEPT ![d].pc = "add", ![d].refs = 1]
  /\ UNCHANGED <<core, idr, node, reader, file, oops, reused>>

\* dev_set_name and device_add, which fails if the name is still there.
DeviceAdd(d) ==
  /\ \/ DevGoto(d, "add", "freeMinor") /\ UNCHANGED node
     \/ /\ node[dev[d].minor] = NoDevice
        /\ DevGoto(d, "add", "attributes")
        /\ node' = [node EXCEPT ![dev[d].minor] = d]
  /\ UNCHANGED <<core, idr, reader, file, oops, reused>>

(***************************************************************************)
(* uio_dev_add_attributes and uio_dev_del_attributes.                      *)
(***************************************************************************)
\* Faulty: one region too many.
OneRegionMore(d) == dev[d].i <= Count(dev[d].g)

\* The loops end at the first region of size 0.
HasRegion(d) == dev[d].i < Count(dev[d].g)

\* Faulty: device_del is left out.
SkipDeviceDel == "freeMinor"

\* Where the registration goes on when the attributes are unwound.
ErrAttributes == "deviceDel"

\* Faulty: the label does not step back.
KeepIndex(i) == i

\* err_map and err_portio: entry i was not initialized.
ErrLabel(i) == i - 1

\* One round of the loop for maps/ or portio/, which makes the directory first.
AddAttribute(d) ==
  LET g == dev[d].g  i == dev[d].i
  IN  /\ dev[d].pc = "attributes"
      /\ \/ /\ HasRegion(d)
            /\ dev' = [dev EXCEPT ![d].dirs = @ \cup {g}, ![d].i = i + 1,
                                  ![d].kobjs = @ \cup {<<g, i>>}]
         \/ /\ HasRegion(d)  \* no memory for the directory or for the entry
            /\ \E made \in SUBSET {g} :
                 /\ i > 0 => made = {g}
                 /\ dev' = [dev EXCEPT ![d].dirs = @ \cup made, ![d].pc = "unwind",
                                       ![d].i = ErrLabel(i)]
         \/ /\ HasRegion(d)  \* kobject_add or kobject_uevent fails
            /\ dev' = [dev EXCEPT ![d].dirs = @ \cup {g}, ![d].pc = "unwind",
                                  ![d].kobjs = @ \cup {<<g, i>>}]
         \/ /\ ~HasRegion(d) /\ g = "maps"
            /\ dev' = [dev EXCEPT ![d].g = "portio", ![d].i = 0]
         \/ /\ ~HasRegion(d) /\ g = "portio"
            /\ DevGoto(d, "attributes", "irq")
      /\ UNCHANGED <<core, idr, node, reader, file, oops, reused>>

\* No reader is in a show function of this file.
Drained(d, item) == \A r \in Readers : reader[r] # [dev |-> d, item |-> item]

\* kobject_put of entry i; the loop goes on with next.
PutItem(d, next) ==
  LET item == <<dev[d].g, dev[d].i>>
  IN  /\ Drained(d, item)
      /\ oops' = oops \cup {o \in {"put"} : item \notin dev[d].kobjs}
      /\ dev' = [dev EXCEPT ![d].kobjs = @ \ {item}, ![d].i = next]

\* The error labels: entries backwards, then the directory, which may be NULL.
Unwind(d) ==
  LET g == dev[d].g  i == dev[d].i
  IN  /\ dev[d].pc = "unwind"
      /\ \/ i >= 0 /\ PutItem(d, i - 1)
         \/ /\ i < 0 /\ g = "portio"
            /\ dev' = [dev EXCEPT ![d].dirs = @ \ {g}, ![d].g = "maps",
                                  ![d].i = ErrLabel(Maps)]
            /\ UNCHANGED oops
         \/ /\ i < 0 /\ g = "maps"
            /\ dev' = [dev EXCEPT ![d].dirs = @ \ {g}, ![d].pc = ErrAttributes]
            /\ UNCHANGED oops
      /\ UNCHANGED <<core, idr, node, reader, file, reused>>

DelAttributes(d, pc, next) ==
  LET g == dev[d].g  i == dev[d].i
  IN  /\ dev[d].pc = pc
      /\ \/ HasRegion(d) /\ PutItem(d, i + 1)
         \/ /\ ~HasRegion(d) /\ g = "maps"
            /\ dev' = [dev EXCEPT ![d].dirs = @ \ {g}, ![d].g = "portio", ![d].i = 0]
            /\ UNCHANGED oops
         \/ /\ ~HasRegion(d) /\ g = "portio"
            /\ dev' = [dev EXCEPT ![d].dirs = @ \ {g}, ![d].pc = next]
            /\ UNCHANGED oops
      /\ UNCHANGED <<core, idr, node, reader, file, reused>>

\* The loops of uio_dev_del_attributes start at the first map.
StartDel(d, from, to) ==
  /\ dev[d].pc = from
  /\ dev' = [dev EXCEPT ![d].pc = to, ![d].g = "maps", ![d].i = 0]
  /\ UNCHANGED <<core, idr, node, reader, file, oops, reused>>

(***************************************************************************)
(* The rest of the registration, and its error labels.                     *)
(***************************************************************************)
RequestIrq(d) ==
  \/ /\ DevGoto(d, "irq", "registered")
     /\ UNCHANGED <<core, idr, node, reader, file, oops, reused>>
  \/ d \in HasIrq /\ StartDel(d, "irq", "irqDel")

\* device_del waits for the readers of name and version.
DeviceDel(d) ==
  /\ DevGoto(d, "deviceDel", "freeMinor")
  /\ Drained(d, Self)
  /\ node' = [node EXCEPT ![dev[d].minor] = NoDevice]
  /\ UNCHANGED <<core, idr, reader, file, oops, reused>>

ErrFreeMinor(d) ==
  /\ DevGoto(d, "freeMinor", "put")
  /\ idr' = [idr EXCEPT ![dev[d].minor] = NoDevice]
  /\ UNCHANGED <<core, node, reader, file, oops, reused>>

\* Faulty: no put_device.
ErrPutNothing(d) ==
  /\ dev[d].pc = "put"
  /\ dev' = [dev EXCEPT ![d].pc = "failed", ![d].devres = FALSE]
  /\ UNCHANGED <<core, idr, node, reader, file, oops, reused>>

\* The registration has failed, and the driver may free its uio_info.
ErrPut(d) ==
  /\ dev[d].pc = "put"
  /\ dev' = [dev EXCEPT ![d].pc = "failed", ![d].refs = @ - 1, ![d].devres = FALSE]
  /\ UNCHANGED <<core, idr, node, reader, file, oops, reused>>

(***************************************************************************)
(* uio_unregister_device, called by the driver or from its devres.         *)
(***************************************************************************)
Unregister(d) == StartDel(d, "registered", "del")

\* free_irq, info = NULL, and info_lock is free again.
ClearInfo(d) ==
  /\ dev[d].pc = "info"
  /\ dev' = [dev EXCEPT ![d].pc = "unregMinor", ![d].info = FALSE, ![d].devres = FALSE]
  /\ UNCHANGED <<core, idr, node, reader, file, oops, reused>>

UnregFreeMinor(d) ==
  /\ DevGoto(d, "unregMinor", "unregister")
  /\ idr' = [idr EXCEPT ![dev[d].minor] = NoDevice]
  /\ UNCHANGED <<core, node, reader, file, oops, reused>>

\* device_unregister: device_del and put_device.
DeviceUnregister(d) ==
  /\ dev[d].pc = "unregister"
  /\ Drained(d, Self)
  /\ node' = [node EXCEPT ![dev[d].minor] = NoDevice]
  /\ dev' = [dev EXCEPT ![d].pc = "gone", ![d].refs = @ - 1]
  /\ UNCHANGED <<core, idr, reader, file, oops, reused>>

\* Faulty: info_lock is held over device_unregister.
LockedToTheEnd(d) == dev[d].pc \in {"del", "info", "unregMinor", "unregister"}

\* uio_unregister_device holds info_lock.
InfoLocked(d) == dev[d].pc \in {"del", "info"}

(***************************************************************************)
(* The show functions of sysfs.                                            *)
(***************************************************************************)
Removing(d, item) ==
  \/ item = Self /\ dev[d].pc \in {"deviceDel", "unregister"}
  \/ item = <<dev[d].g, dev[d].i>> /\ dev[d].pc \in {"unwind", "del", "irqDel"}

ShowCall(r, d, item) ==
  /\ reader[r].dev = NoDevice
  /\ IF item = Self THEN node[dev[d].minor] = d ELSE item \in dev[d].kobjs
  /\ ~Removing(d, item)
  /\ reader' = [reader EXCEPT ![r] = [dev |-> d, item |-> item]]
  /\ UNCHANGED <<core, idr, node, dev, file, oops, reused>>

\* Faulty: name_show does not look at info.
ReadsInfoAnyway(d, item) == TRUE

\* name_show and version_show give -EINVAL when info is NULL.
ReadsInfo(d, item) == item # Self \/ dev[d].info

\* idev->info points to a uio_info that the driver still has.
InfoThere(d) == dev[d].info /\ dev[d].pc \notin {"failed", "gone"}

\* map_type_show and portio_type_show; name_show and version_show take info_lock.
Show(r) ==
  LET d == reader[r].dev
  IN  /\ d # NoDevice
      /\ reader[r].item = Self => ~InfoLocked(d)
      /\ oops' = oops \cup {o \in {"show"} : ReadsInfo(d, reader[r].item) /\ ~InfoThere(d)}
      /\ reader' = [reader EXCEPT ![r] = [dev |-> NoDevice, item |-> Self]]
      /\ UNCHANGED <<core, idr, node, dev, file, reused>>

(***************************************************************************)
(* uio_open through a device node finds the device by its minor.           *)
(***************************************************************************)
OpenNode(f, m) ==
  /\ file[f] = NoDevice
  /\ node[m] # NoDevice /\ idr[m] # NoDevice
  /\ file' = [file EXCEPT ![f] = idr[m]]
  /\ dev' = [dev EXCEPT ![idr[m]].refs = @ + 1]
  /\ UNCHANGED <<core, idr, node, reader, oops, reused>>

CloseFile(f) ==
  /\ file[f] # NoDevice
  /\ file' = [file EXCEPT ![f] = NoDevice]
  /\ dev' = [dev EXCEPT ![file[f]].refs = @ - 1]
  /\ UNCHANGED <<core, idr, node, reader, oops, reused>>

-----------------------------------------------------------------------------
Core == AllocRegion \/ AddCdev \/ ClassRegister

Register(d) ==
  \/ GetMinor(d) \/ DeviceInitialize(d) \/ DeviceAdd(d) \/ AddAttribute(d)
  \/ Unwind(d) \/ RequestIrq(d) \/ DelAttributes(d, "irqDel", ErrAttributes)
  \/ DeviceDel(d) \/ ErrFreeMinor(d) \/ ErrPut(d)

UnregisterDevice(d) ==
  \/ DelAttributes(d, "del", "info") \/ ClearInfo(d) \/ UnregFreeMinor(d)
  \/ DeviceUnregister(d)

Next ==
  \/ Core \/ CoreExit
  \/ \E d \in Devices :
       RegisterCall(d) \/ Register(d) \/ Unregister(d) \/ UnregisterDevice(d)
  \/ \E r \in Readers : Show(r) \/ \E d \in Devices, item \in Items \cup {Self} :
                                      ShowCall(r, d, item)
  \/ \E f \in Files : CloseFile(f) \/ \E m \in Minors : OpenNode(f, m)

Spec == Init /\ [][Next]_vars

\* Kernel threads in the middle of a call go on; nobody has to call anything.
FairSpec ==
  /\ Spec
  /\ \A d \in Devices : WF_vars(Register(d)) /\ WF_vars(UnregisterDevice(d))
  /\ \A r \in Readers : WF_vars(Show(r))

-----------------------------------------------------------------------------
Places ==
  {"idle", "alloc", "minor", "add", "attributes", "unwind", "irq", "irqDel",
   "deviceDel", "freeMinor", "put", "failed", "registered", "del", "info",
   "unregMinor", "unregister", "gone"}
DevRecord ==
  [pc : Places, minor : Minors, info : BOOLEAN, refs : Int, g : Groups, i : Int,
   dirs : SUBSET Groups, kobjs : SUBSET Items, devres : BOOLEAN]
ReaderRecord == [dev : Devices \cup {NoDevice}, item : Items \cup {Self}]

TypeOK ==
  /\ core \in [pc : {"unloaded", "cdev", "class", "ready", "failed", "exited"},
               held : SUBSET {"region", "cdev", "class"}]
  /\ idr \in [Minors -> Devices \cup {NoDevice}]
  /\ node \in [Minors -> Devices \cup {NoDevice}]
  /\ dev \in [Devices -> DevRecord]
  /\ reader \in [Readers -> ReaderRecord]
  /\ file \in [Files -> Devices \cup {NoDevice}]
  /\ oops \subseteq {"put", "show"}
  /\ reused \subseteq Devices

\* Wherever uio_dev_add_attributes fails, and at unregistration, each kobject
\* that was initialized is put once and no other is, and nothing is left.
KobjectsBalanced ==
  /\ "put" \notin oops
  /\ \A d \in Devices :
       dev[d].pc \in {"freeMinor", "put", "failed", "info", "unregMinor",
                      "unregister", "gone"} => dev[d].kobjs = {} /\ dev[d].dirs = {}

\* No show function reads a uio_info after its driver has been told that the
\* device is gone, or that it never came to be.
ShowsFindInfo == "show" \notin oops

\* The references of a struct device are that of its registration and those of
\* the files that found it, on all error paths, so that neither the idr nor a
\* file leads to a freed device.  A device that took a minor whose old node was
\* still there is exempt: uio_free_minor comes before device_unregister, so a
\* file may find the new device before device_initialize sets its count.
ReachableIsReferenced ==
  \A d \in Devices \ reused :
    dev[d].refs =
      Cardinality({f \in Files : file[f] = d})
      + (IF dev[d].pc \in {"idle", "alloc", "minor", "failed", "gone"} THEN 0 ELSE 1)

\* A node that exists leads to the device it belongs to or to none, except
\* from the time its minor is free until the node is removed.
NodeLeadsHome ==
  \A m \in Minors :
    node[m] # NoDevice /\ dev[node[m]].pc # "unregister" => idr[m] = node[m]

\* Whatever fails, the module leaves neither numbers nor the class behind, and
\* a device that is not registered neither a minor nor a devres entry.
NothingLeft ==
  /\ core.pc \in {"failed", "exited"} => core.held = {}
  /\ \A d \in Devices :
       dev[d].pc \in {"failed", "gone"} =>
         ~dev[d].devres /\ \A m \in Minors : idr[m] # d /\ node[m] # d

\* A registration comes to an end, and so does an unregistration, although it
\* waits for show functions, some of which wait for info_lock.
Ends(d) == dev[d].pc \in {"registered", "failed", "gone"}
CallsReturn == \A d \in Devices : dev[d].pc # "idle" ~> Ends(d)

=============================================================================
