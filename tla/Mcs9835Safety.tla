---------------------------- MODULE Mcs9835Safety ----------------------------
(***************************************************************************)
(* What the driver must keep to while devices come and go, probes fail     *)
(* half-way and processes use the parallel port.                           *)
(***************************************************************************)
EXTENDS Mcs9835Core

OwnPort(s, b, d) == vmem[s][b] = d /\ b \in mapped[d]

(* A read or write through an open file reaches the port of the device the  *)
(* file was opened for, and the register dump of a probe reaches the ports  *)
(* of the device being probed: the cookies in the shared record are never   *)
(* those of another device, nor unmapped, while somebody uses them.         *)
PortAccessOwn ==
    /\ \A h \in Handles : file[h].hit \in {NULL, file[h].dev}
    /\ \A d \in Devices : At(d, "dump") =>
            \A b \in Bars : OwnPort(Slot(d), b, d)

(* The array of records is not freed while a call, an open file or a bound  *)
(* device can still lead to it.                                             *)
NoUseAfterFree ==
    \/ allocated
    \/ /\ AllIdle
       /\ \A d \in Devices : ~bound[d]
       /\ \A h \in Handles : file[h].pc = "closed"

(* Whatever step of a probe fails, and however often a device comes and     *)
(* goes: between calls a bound device holds everything it was given and any *)
(* other device holds nothing.                                              *)
AllOrNothing ==
    /\ \A d \in Devices : Idle(d) =>
          /\ pci[d] = IF bound[d] THEN {"enabled", "regions"} ELSE {}
          /\ mapped[d] = IF bound[d] THEN Bars ELSE {}
    /\ AllIdle => \A s \in Slots : \A c \in Cdevs :
          /\ reg[s][c] = IF init_done[s] THEN ChrParts ELSE {}
          /\ have_cdev[s][c] = init_done[s]

(* The parts of a character device are registered from the inside out and   *)
(* unregistered from the outside in, and a node lives in a class that       *)
(* exists: at no step is there a node without its cdev, a cdev without its  *)
(* number or a node without its class.                                      *)
CdevLayering ==
    \A s \in Slots : \A c \in Cdevs :
       /\ "cdev" \in reg[s][c] => "number" \in reg[s][c]
       /\ "node" \in reg[s][c] => "cdev" \in reg[s][c] /\ class[s] \in classes

(* As long as a process can find the parallel port in the kernel's map, its *)
(* BAR is mapped: the port is made openable after its registers are mapped, *)
(* and unmapped after it is no longer openable.                             *)
OpenableIsMapped ==
    \A s \in Slots : "cdev" \in reg[s][PARPORT] =>
        \E d \in Devices : OwnPort(s, 2, d)

(* When remove is called for a device, its driver data leads to the record  *)
(* that was published for that device, which is still in use: remove tears  *)
(* down what its own device holds and never returns without doing so.       *)
RemoveTearsDownOwn ==
    \A d \in Devices : bound[d] /\ Idle(d) =>
        /\ drvdata[d] # NULL
        /\ init_done[drvdata[d]]
        /\ pci_dev[drvdata[d]] = d

(* The slot counter is a stack pointer: it stays within the array, and the  *)
(* slots in use are those below it, so that the next probe finds a free one. *)
SlotStack ==
    /\ dev_idx \in 0 .. MAX_DEVICES
    /\ modstate = "live" => \A s \in Slots : init_done[s] <=> s < dev_idx

(* A class pointer that the kernel is about to follow is that of a class,   *)
(* although a class_create that fails leaves its error value in the record. *)
ClassUsable ==
    \A d \in Devices :
       /\ At(d, "device_create") => ClassOf(d) \in classes
       /\ At(d, "device_destroy") /\ HaveCdev(d) => ClassOf(d) \in classes
       /\ At(d, "class_destroy") => ClassOf(d) \in classes

(* Once the module is gone, the kernel holds nothing it registered.         *)
NothingLeftBehind ==
    modstate = "absent" =>
        /\ classes = {}
        /\ \A s \in Slots : \A c \in Cdevs : reg[s][c] = {}
        /\ \A d \in Devices : pci[d] = {} /\ mapped[d] = {}

(* No call touches the record of a published device except to retire it:    *)
(* its cookies and its device stay what they were when it was published.    *)
RecordStable ==
    [][\A s \in Slots : init_done[s] /\ init_done'[s] =>
           vmem'[s] = vmem[s] /\ pci_dev'[s] = pci_dev[s]]_vars

(* cdev_init does not clear the cdev of a port that is open: the cdev is    *)
(* part of the slot's record, and is initialised again by the next probe    *)
(* that takes the slot, whoever still has it open.                          *)
CdevInitUnused ==
    \A d \in Devices : \A h \in Handles :
        At(d, "cdev_add") /\ Cur(d) = PARPORT /\ file[h].pc \in {"open", "copyin"}
            => file[h].slot # Slot(d)

(* A read or write through a file whose device is in service, and between   *)
(* calls, reaches that device: probes of others that fail or are refused,   *)
(* the cookies these and earlier owners of the slot have left, and unbinds  *)
(* and rebinds since the open take nothing from it.                         *)
Access(h) == mcs9835_read_parport(h) \/ WritePort(h)

BoundIsServed ==
    [][\A h \in Handles : \A d \in Devices :
           Access(h) /\ file[h].dev = d /\ bound[d] /\ Idle(d) =>
               file'[h].hit = d]_vars

(* The slot counter is never negative, though probe does not test for it    *)
(* and devices may come and go at any time: each remove that decrements it  *)
(* is that of a device whose probe incremented it.  (Where calls overlap,   *)
(* as long as no increment is lost: see Publish.)                           *)
Counted ==
    {d \in Devices : \/ bound[d]
                     \/ At(d, "dump")
                     \/ At(d, "probe_ret") /\ frame[d].rc = 0}

CounterInv == IsFiniteSet(Counted) /\ Cardinality(Counted) <= dev_idx

(* The array of records does not outlive the module.                        *)
FreedWhenAbsent == modstate = "absent" => ~allocated

-----------------------------------------------------------------------------
(* The inductive invariant behind PortAccessOwn, for a machine whose        *)
(* devices stay for as long as the module does and whose PCI core runs one  *)
(* call at a time.                                                          *)

(* The PCI core runs one call at a time.                                    *)
OneCall ==
    \A d, e \in Devices : ~Idle(d) /\ ~Idle(e) => d = e

(* While the module is live, the slots below the counter are published,     *)
(* each with the ports of its own device; those above it are untouched; and *)
(* the cookies that a failed probe left in an unpublished slot are of       *)
(* devices that are not published, so that unmapping them harms nobody.     *)
Published(d) == \E s \in Slots : init_done[s] /\ pci_dev[s] = d

RecordOK(s) ==
    /\ init_done[s] <=> s < dev_idx
    /\ init_done[s] => /\ pci_dev[s] \in Devices
                       /\ \A b \in Bars : OwnPort(s, b, pci_dev[s])
    /\ ~init_done[s] => \A b \in Bars : ~Published(vmem[s][b])
    /\ s > dev_idx => \A b \in Bars : vmem[s][b] = NULL

RecordsInv ==
    /\ modstate = "live" => \A s \in Slots : RecordOK(s)
    /\ modstate = "live" => dev_idx >= 0

(* Labels of a probe that, as long as nothing has failed, has mapped all    *)
(* four BARs, and labels of a probe that has failed.                        *)
MappedLabels == {"class_create", "initialize_ret", "alloc_chrdev_region",
                 "cdev_add", "device_create", "create_ret", "publish"}
FailedLabels == {"err_create", "err_add", "device_destroy", "cdev_del",
                 "unregister_chrdev_region", "destroy_ret", "class_destroy",
                 "pci_iounmap", "pci_release_regions", "pci_disable_device"}

(* A call in flight while the module is live is a probe of the slot the     *)
(* counter names, which is not yet published, or has published it.          *)
HasPublished(d) == At(d, "dump") \/ (At(d, "probe_ret") /\ frame[d].rc = 0)

ProbeOK(d) ==
    /\ frame[d].op = "probe"
    /\ ~At(d, "retire")
    /\ IF HasPublished(d)
       THEN init_done[Slot(d)] /\ pci_dev[Slot(d)] = d
       ELSE Slot(d) = dev_idx /\ ~Published(d)
    /\ At(d, "pci_iomap") => \A b \in Bars :
                                 b < Cur(d) => OwnPort(Slot(d), b, d)
    /\ frame[d].rc = 0 /\ frame[d].pc \in MappedLabels =>
          \A b \in Bars : OwnPort(Slot(d), b, d)
    /\ At(d, "dump") => frame[d].rc = 0
    /\ At(d, "publish") => frame[d].rc = 0
    /\ frame[d].pc \in FailedLabels => frame[d].rc = -1

(* A call in flight while the module unloads is a remove.                   *)
RemoveOK(d) ==
    /\ frame[d].op = "remove"
    /\ frame[d].pc \in {"device_destroy", "cdev_del", "unregister_chrdev_region",
                        "destroy_ret", "class_destroy", "pci_iounmap",
                        "pci_release_regions", "pci_disable_device", "retire"}

FrameInv ==
    \A d \in Devices : ~Idle(d) =>
        /\ modstate = "live" => ProbeOK(d)
        /\ modstate = "detaching" => RemoveOK(d)

(* A device with no call in flight is bound if and only if it is published; *)
(* without the module none is, and no call is in flight.                    *)
BoundInv ==
    /\ modstate = "live" => \A d \in Devices : Idle(d) =>
                               (bound[d] <=> Published(d))
    /\ modstate = "absent" => AllIdle /\ \A d \in Devices : ~bound[d]

(* A file that is open belongs to a live module and to the device that its  *)
(* slot is published for.                                                   *)
FileOK(h) ==
    /\ file[h].pc # "closed" => modstate = "live"
    /\ file[h].pc \in {"closed", "opening"} => file[h].dev = NULL
    /\ file[h].pc \in {"open", "copyin"} =>
          init_done[file[h].slot] /\ pci_dev[file[h].slot] = file[h].dev
    /\ file[h].hit \in {NULL, file[h].dev}

FileInv == \A h \in Handles : FileOK(h)

IInv ==
    /\ TypeOK
    /\ OneCall
    /\ RecordsInv
    /\ FrameInv
    /\ BoundInv
    /\ FileInv
=============================================================================
