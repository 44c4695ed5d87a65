------------------------------- MODULE Mcs9835 -------------------------------
(***************************************************************************)
(* The state the driver's files share: the private record of each device   *)
(* slot (struct mcs9835_dev of mcs9835.h), the two globals of              *)
(* mcs9835_core.c, the calls of the PCI core in progress, the open files   *)
(* of /dev/mcs9835_<n>_2, and a ledger of what the driver holds of the     *)
(* kernel.                                                                 *)
(*                                                                         *)
(* The ledger stands for code outside the repository (PCI core, char       *)
(* device core, device model) and is written only by the driver's calls    *)
(* to it.                                                                  *)
(***************************************************************************)
EXTENDS Integers, FiniteSets

CONSTANTS
    Devices,      \* PCI functions with the vendor and device id of the driver
    Handles,      \* struct file's that user processes may have
    MAX_DEVICES,  \* MCS9835_MAX_DEVICES
    HotUnbind,    \* may a device go away (sysfs unbind) while the module lives?
    Concurrent,   \* may the PCI core run calls for two devices at a time?
    NULL,         \* the null pointer
    ERR_PTR,      \* an error value cast to a pointer, as class_create returns
    NOWHERE       \* what an access through an unmapped cookie reaches

Slots == 0 .. MAX_DEVICES - 1

Bars == 0 .. 3

UART_A  == 0
UART_B  == 1
PARPORT == 2
Cdevs   == UART_A .. PARPORT

ASSUME McsAssumption ==
    /\ MAX_DEVICES \in Nat \ {0}
    /\ HotUnbind \in BOOLEAN
    /\ Concurrent \in BOOLEAN
    /\ NULL \notin Devices \cup Int
    /\ ERR_PTR \notin Devices \cup Int
    /\ NOWHERE \notin Devices
    /\ NULL # ERR_PTR
    /\ NULL # NOWHERE

-----------------------------------------------------------------------------

VARIABLES
    \* The record of each slot.
    vmem,       \* vmem_bar0 .. vmem_bar3: the device a cookie maps, or NULL
    class,      \* the class, named by its index, NULL or ERR_PTR
    have_cdev,  \* chr[c].have_cdev
    pci_dev,    \* the device the slot was published for
    init_done,
    \* The module.
    dev_idx,    \* mcs9835_dev_idx, the next free slot
    modstate,   \* the module's life as the module loader sees it
    allocated,  \* is the array mcs9835_devices allocated?
    \* The calls in progress.
    frame,      \* per device, the probe or remove call that runs for it
    file,       \* per handle, the file and the call that runs on it
    \* The kernel's ledger.
    pci,        \* per device, what the driver holds of the PCI core
    mapped,     \* per device, the BARs mapped by pci_iomap
    bound,      \* per device, has the PCI core bound it to the driver?
    drvdata,    \* per device, pci_get_drvdata
    classes,    \* the indices of the classes that exist
    reg         \* per slot and cdev, what is registered of the device

recordVars == <<vmem, class, have_cdev, pci_dev, init_done>>
moduleVars == <<dev_idx, modstate, allocated>>
pciVars    == <<pci, mapped, bound, drvdata>>
chrVars    == <<classes, reg>>
vars == <<recordVars, moduleVars, frame, file, pciVars, chrVars>>

-----------------------------------------------------------------------------
(* A call of the PCI core: where it stands (pc), whether it is probe or     *)
(* remove (op), the BAR or the cdev it works on (cur), its result (rc) and  *)
(* its mcs_dev (slot).                                                      *)

CdevLabels == {"class_create", "initialize_ret", "alloc_chrdev_region",
               "cdev_add", "device_create", "err_create", "err_add",
               "create_ret", "device_destroy", "cdev_del",
               "unregister_chrdev_region", "destroy_ret", "class_destroy"}
CoreLabels == {"idle", "pci_enable_device", "check_bars",
               "pci_request_regions", "pci_iomap", "publish", "dump",
               "pci_iounmap", "pci_release_regions", "pci_disable_device",
               "probe_ret", "retire"}

Labels == CdevLabels \cup CoreLabels

Frame == [pc : Labels, op : {"none", "probe", "remove"},
          cur : Bars, rc : {0, -1}, slot : Slots]

Call(label, op, s) ==
    [pc |-> label, op |-> op, cur |-> 0, rc |-> 0, slot |-> s]

NoFrame == Call("idle", "none", 0)

At(d, label) == frame[d].pc = label
Idle(d)  == At(d, "idle")
AllIdle  == \A d \in Devices : Idle(d)
MayCall(d) == Idle(d) /\ (~Concurrent => AllIdle)

Goto(d, label) == frame' = [frame EXCEPT ![d].pc = label]
GotoAt(d, label, n) ==
    frame' = [frame EXCEPT ![d] = [@ EXCEPT !.pc = label, !.cur = n]]
FailTo(d, label, n) ==
    frame' = [frame EXCEPT ![d] = [@ EXCEPT !.pc = label, !.cur = n, !.rc = -1]]
Return(d) == frame' = [frame EXCEPT ![d] = NoFrame]

Slot(d) == frame[d].slot
Cur(d)  == frame[d].cur

-----------------------------------------------------------------------------
(* An open file: the call that runs on it (pc), its private_data (slot) and *)
(* two history fields: the device it was opened for (dev) and the device    *)
(* whose port the last access through it reached (hit).                     *)

File == [pc : {"closed", "opening", "open", "copyin"}, slot : Slots,
         dev : Devices \cup {NULL}, hit : Devices \cup {NULL, NOWHERE}]

NoFile == [pc |-> "closed", slot |-> 0, dev |-> NULL, hit |-> NULL]

Opening(s) == [pc |-> "opening", slot |-> s, dev |-> NULL, hit |-> NULL]

(* Mutant: a cdev without an owner.                                         *)
NoModuleRefs == {}

(* Every file on one of the driver's cdevs holds a reference on the module, *)
(* because the cdev and the file operations name it as their owner.         *)
ModuleRefs == {h \in Handles : file[h].pc # "closed"}

-----------------------------------------------------------------------------
(* What is registered of one character device, from the inside out.         *)
ChrParts == {"number", "cdev", "node"}

(* Every variable has the type its declaration in mcs9835.h,                *)
(* mcs9835_core.c or the kernel gives it.                                   *)
TypeOK ==
    /\ vmem \in [Slots -> [Bars -> Devices \cup {NULL}]]
    /\ class \in [Slots -> Int \cup {NULL, ERR_PTR}]
    /\ have_cdev \in [Slots -> [Cdevs -> BOOLEAN]]
    /\ pci_dev \in [Slots -> Devices \cup {NULL}]
    /\ init_done \in [Slots -> BOOLEAN]
    /\ dev_idx \in Int
    /\ modstate \in {"absent", "live", "detaching"}
    /\ allocated \in BOOLEAN
    /\ frame \in [Devices -> Frame]
    /\ file \in [Handles -> File]
    /\ pci \in [Devices -> SUBSET {"enabled", "regions"}]
    /\ mapped \in [Devices -> SUBSET Bars]
    /\ bound \in [Devices -> BOOLEAN]
    /\ drvdata \in [Devices -> Slots \cup {NULL}]
    /\ classes \in SUBSET Int
    /\ reg \in [Slots -> [Cdevs -> SUBSET ChrParts]]
=============================================================================
