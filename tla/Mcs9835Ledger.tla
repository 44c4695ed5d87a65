---------------------------- MODULE Mcs9835Ledger ----------------------------
(***************************************************************************)
(* The inductive invariant behind what the driver holds of the kernel:     *)
(* AllOrNothing, CdevLayering, OpenableIsMapped and their like.  It says   *)
(* for each place a call can stand at what is held there, for a PCI core   *)
(* that runs one call at a time, and for devices that stay while the       *)
(* module lives or, with the one slot of the code, may leave it.           *)
(***************************************************************************)
EXTENDS Mcs9835Safety

-----------------------------------------------------------------------------
(* Which slot belongs to whom.                                              *)

(* The driver data of a device leads to the slot published for it.          *)
Owns(d) ==
    /\ drvdata[d] \in Slots
    /\ init_done[drvdata[d]]
    /\ pci_dev[drvdata[d]] = d

(* Labels of a probe that nothing has failed in so far.                     *)
GoodLabels == {"pci_enable_device", "check_bars", "pci_request_regions",
               "pci_iomap", "class_create", "alloc_chrdev_region", "cdev_add",
               "device_create", "publish", "dump"}

RemoveLabels == {"device_destroy", "cdev_del", "unregister_chrdev_region",
                 "destroy_ret", "class_destroy", "pci_iounmap",
                 "pci_release_regions", "pci_disable_device", "retire"}

CreateLabels == {"alloc_chrdev_region", "cdev_add", "device_create",
                 "err_create", "err_add", "create_ret"}

DestroyLabels == {"device_destroy", "cdev_del", "unregister_chrdev_region",
                  "destroy_ret"}

(* A probe works on the slot the counter names, which belongs to nobody,    *)
(* until it has published it for its device.                                *)
ProbeCall(d) ==
    /\ frame[d].op = "probe"
    /\ modstate = "live"
    /\ ~bound[d]
    /\ frame[d].pc \notin {"idle", "retire"}
    /\ frame[d].pc \in GoodLabels => frame[d].rc = 0
    /\ frame[d].pc \in FailedLabels => frame[d].rc = -1
    /\ IF HasPublished(d)
       THEN Owns(d) /\ drvdata[d] = Slot(d)
       ELSE Slot(d) = dev_idx /\ ~Published(d)

(* A remove works on the slot of its device.                                *)
RemoveCall(d) ==
    /\ frame[d].op = "remove"
    /\ modstate = "detaching" \/ (HotUnbind /\ modstate = "live")
    /\ bound[d]
    /\ frame[d].pc \in RemoveLabels
    /\ Owns(d) /\ drvdata[d] = Slot(d)

CallInv ==
    \A d \in Devices : ~Idle(d) =>
        /\ ProbeCall(d) \/ RemoveCall(d)
        /\ frame[d].pc \in CreateLabels \cup DestroyLabels => Cur(d) \in Cdevs

(* Slots and devices in use point at each other; a module that is gone has  *)
(* neither calls nor devices.                                               *)
OwnerInv ==
    /\ \A d \in Devices : Idle(d) /\ bound[d] => Owns(d)
    /\ \A s \in Slots : init_done[s] =>
          /\ pci_dev[s] \in Devices
          /\ drvdata[pci_dev[s]] = s
          /\ Idle(pci_dev[s]) => bound[pci_dev[s]]
    /\ modstate = "absent" => AllIdle /\ \A d \in Devices : ~bound[d]

(* The counter counts the slots in use; while the module is live they are   *)
(* the ones below it.                                                       *)
InUse == {s \in Slots : init_done[s]}

CountInv ==
    /\ dev_idx = Cardinality(InUse)
    /\ modstate = "live" => \A s \in Slots : init_done[s] <=> s < dev_idx

SlotInv == OneCall /\ CallInv /\ OwnerInv /\ CountInv

-----------------------------------------------------------------------------
(* What is held of the PCI core.                                            *)

(* The device's probe has returned 0, or is about to.                       *)
Done(d) ==
    \/ Idle(d) /\ bound[d]
    \/ At(d, "probe_ret") /\ frame[d].rc = 0

HoldsBars(d) ==
    Done(d) \/ frame[d].pc \in CdevLabels \cup {"publish", "dump"}

HoldsRegions(d) ==
    HoldsBars(d) \/ frame[d].pc \in {"pci_iomap", "pci_iounmap",
                                     "pci_release_regions"}

HoldsDevice(d) ==
    HoldsRegions(d) \/ frame[d].pc \in {"check_bars", "pci_request_regions",
                                        "pci_disable_device"}

(* The BARs are mapped from the first to the last and unmapped in the same  *)
(* order, all that were mapped and no other, by their cookies in the slot.  *)
BarsOK(d) ==
    /\ HoldsBars(d) => mapped[d] = Bars
    /\ At(d, "pci_iomap") => mapped[d] = {b \in Bars : b < Cur(d)}
    /\ At(d, "pci_iounmap") => \A b \in mapped[d] : b >= Cur(d)
    /\ \/ HoldsBars(d)
       \/ frame[d].pc \in {"pci_iomap", "pci_iounmap"}
       \/ mapped[d] = {}
    /\ ~Idle(d) => \A b \in mapped[d] : vmem[Slot(d)][b] = d

DeviceOK(d) ==
    pci[d] = (IF HoldsDevice(d) THEN {"enabled"} ELSE {}) \cup
             (IF HoldsRegions(d) THEN {"regions"} ELSE {})

HoldingInv == \A d \in Devices : DeviceOK(d) /\ BarsOK(d)

(* The cookies of a slot in use are its device's, and those that failed     *)
(* probes and former owners left in the free slots are of devices with no   *)
(* slot.                                                                    *)
CookieInv ==
    /\ \A s \in Slots : init_done[s] => \A b \in Bars : vmem[s][b] = pci_dev[s]
    /\ modstate = "live" => \A s \in Slots : \A b \in Bars :
          /\ ~init_done[s] => ~Published(vmem[s][b])
          /\ s > dev_idx => vmem[s][b] = NULL

PciInv == HoldingInv /\ CookieInv

-----------------------------------------------------------------------------
(* What is registered of the character devices.                             *)

WorksOn(d, s) == ~Idle(d) /\ Slot(d) = s

(* Cdev c of the slot the call works on is complete: probes create them     *)
(* upwards and unwind downwards, removes destroy them upwards.              *)
Whole(d, c) ==
    \/ Done(d)
    \/ frame[d].pc \in {"publish", "dump"}
    \/ frame[d].pc \in CreateLabels /\ c < Cur(d)
    \/ frame[d].pc \in DestroyLabels /\ frame[d].op = "probe" /\ c < Cur(d)
    \/ frame[d].pc \in DestroyLabels /\ frame[d].op = "remove" /\ c > Cur(d)
    \/ At(d, "create_ret") /\ frame[d].rc = 0 /\ c = Cur(d)
    \/ At(d, "device_destroy") /\ c = Cur(d)

(* Cdev c is the one the call is creating or destroying.                    *)
HalfWay(d, c, labels) == c = Cur(d) /\ frame[d].pc \in labels

HasNumber(d, c) ==
    Whole(d, c) \/ HalfWay(d, c, {"cdev_add", "device_create", "err_create",
                       "err_add", "cdev_del", "unregister_chrdev_region"})
HasCdev(d, c) ==
    Whole(d, c) \/ HalfWay(d, c, {"device_create", "err_create", "cdev_del"})
HasNode(d, c) == Whole(d, c)

SaysCdev(d, c) ==
    Whole(d, c) \/ HalfWay(d, c, {"cdev_del", "unregister_chrdev_region"})

HasClass(d) ==
    \/ Done(d)
    \/ frame[d].pc \in CreateLabels \cup DestroyLabels \cup
                       {"publish", "dump", "class_destroy"}
    \/ At(d, "initialize_ret") /\ frame[d].rc = 0

CdevIs(s, c, number, cdev, node, have) ==
    /\ "number" \in reg[s][c] <=> number
    /\ "cdev" \in reg[s][c] <=> cdev
    /\ "node" \in reg[s][c] <=> node
    /\ have_cdev[s][c] <=> have

(* A slot no call works on is complete or empty, any other is as its call   *)
(* stands, and the class of a slot is named by its index.                   *)
RestOK(s) ==
    /\ s \in classes <=> init_done[s]
    /\ \A c \in Cdevs :
          CdevIs(s, c, init_done[s], init_done[s], init_done[s], init_done[s])

CdevOK(d, c) ==
    CdevIs(Slot(d), c, HasNumber(d, c), HasCdev(d, c), HasNode(d, c),
           SaysCdev(d, c))

WorkOK(d) ==
    /\ Slot(d) \in classes <=> HasClass(d)
    /\ \A c \in Cdevs : CdevOK(d, c)

ChrInv ==
    /\ \A s \in Slots : (\A d \in Devices : ~WorksOn(d, s)) => RestOK(s)
    /\ \A d \in Devices : ~Idle(d) => WorkOK(d)
    /\ \A s \in classes : s \in Slots /\ class[s] = s

(* What the kernel has given and not been given back follows from the       *)
(* records and from the place each call stands at, never from its past: the *)
(* failure paths of probe and the steps of remove undo what they must,      *)
(* whatever failed and whoever had the slot before.                         *)
LedgerInv == TypeOK /\ SlotInv /\ PciInv /\ ChrInv
=============================================================================
