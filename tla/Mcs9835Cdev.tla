----------------------------- MODULE Mcs9835Cdev -----------------------------
(***************************************************************************)
(* mcs9835_cdev.c: the device class of a slot and its character devices.   *)
(* Each function is run by a probe or remove call of mcs9835_core.c for    *)
(* the slot and the cdev of its frame; each call into the kernel is a step *)
(* of its own, since files are opened and used between them.  A function   *)
(* that returns a code leaves it in the rc of the frame and stops at its   *)
(* "_ret" label, where mcs9835_core.c takes over.                          *)
(***************************************************************************)
EXTENDS Mcs9835

(* The class pointer that a kernel function would follow names a class.     *)
ClassOf(d) == class[Slot(d)]

SetHaveCdev(d, b) ==
    have_cdev' = [have_cdev EXCEPT ![Slot(d)][Cur(d)] = b]

Register(d, part) ==
    reg' = [reg EXCEPT ![Slot(d)][Cur(d)] = @ \cup {part}]

Unregister(d, part) ==
    reg' = [reg EXCEPT ![Slot(d)][Cur(d)] = @ \ {part}]

-----------------------------------------------------------------------------
(* mcs9835_cdev_initialize: class_create fails for a name that exists, or   *)
(* for want of memory; its error value then stays in the record.            *)
mcs9835_cdev_initialize(d) ==
    /\ At(d, "class_create")
    /\ \/ /\ dev_idx \notin classes
          /\ classes' = classes \cup {dev_idx}
          /\ class' = [class EXCEPT ![Slot(d)] = dev_idx]
          /\ Goto(d, "initialize_ret")
       \/ /\ class' = [class EXCEPT ![Slot(d)] = ERR_PTR]
          /\ FailTo(d, "initialize_ret", Cur(d))
          /\ UNCHANGED classes
    /\ UNCHANGED <<vmem, have_cdev, pci_dev, init_done, moduleVars, file,
                   pciVars, reg>>

(* mcs9835_cdev_finalize, the last call of its callers that touches the     *)
(* class: both go on to unmap the BARs.  class_destroy follows the pointer, *)
(* so a call with an error value goes no further.                           *)
mcs9835_cdev_finalize(d) ==
    /\ At(d, "class_destroy")
    /\ ClassOf(d) # ERR_PTR
    /\ classes' = classes \ {ClassOf(d)}
    /\ class' = [class EXCEPT ![Slot(d)] = NULL]
    /\ GotoAt(d, "pci_iounmap", 0)
    /\ UNCHANGED <<vmem, have_cdev, pci_dev, init_done, moduleVars, file,
                   pciVars, reg>>

-----------------------------------------------------------------------------
(* mcs9835_cdev_create.                                                     *)

AllocRegion(d) ==
    /\ At(d, "alloc_chrdev_region")
    /\ \/ /\ ClassOf(d) # NULL
          /\ Register(d, "number")
          /\ Goto(d, "cdev_add")
          /\ UNCHANGED have_cdev
       \/ /\ SetHaveCdev(d, FALSE)
          /\ FailTo(d, "create_ret", Cur(d))
          /\ UNCHANGED reg
    /\ UNCHANGED <<vmem, class, pci_dev, init_done, moduleVars, file, pciVars,
                   classes>>

(* From here on the device can be opened.                                   *)
CdevAdd(d) ==
    /\ At(d, "cdev_add")
    /\ \/ Register(d, "cdev") /\ Goto(d, "device_create")
       \/ FailTo(d, "err_add", Cur(d)) /\ UNCHANGED reg
    /\ UNCHANGED <<recordVars, moduleVars, file, pciVars, classes>>

(* The node goes into a class, so a call with an error value in its place   *)
(* goes no further.                                                         *)
DeviceCreate(d) ==
    /\ At(d, "device_create")
    /\ ClassOf(d) \notin {NULL, ERR_PTR}
    /\ \/ /\ Register(d, "node")
          /\ SetHaveCdev(d, TRUE)
          /\ Goto(d, "create_ret")
       \/ /\ FailTo(d, "err_create", Cur(d))
          /\ UNCHANGED <<reg, have_cdev>>
    /\ UNCHANGED <<vmem, class, pci_dev, init_done, moduleVars, file, pciVars,
                   classes>>

ErrCreate(d) ==
    /\ At(d, "err_create")
    /\ Unregister(d, "cdev")
    /\ Goto(d, "err_add")
    /\ UNCHANGED <<recordVars, moduleVars, file, pciVars, classes>>

ErrAdd(d) ==
    /\ At(d, "err_add")
    /\ Unregister(d, "number")
    /\ SetHaveCdev(d, FALSE)
    /\ Goto(d, "create_ret")
    /\ UNCHANGED <<vmem, class, pci_dev, init_done, moduleVars, file, pciVars,
                   classes>>

mcs9835_cdev_create(d) ==
    \/ AllocRegion(d)
    \/ CdevAdd(d)
    \/ DeviceCreate(d)
    \/ ErrCreate(d)
    \/ ErrAdd(d)

-----------------------------------------------------------------------------
(* mcs9835_cdev_destroy: each part is given back only if have_cdev says     *)
(* that the creation went through.                                          *)

HaveCdev(d) == have_cdev[Slot(d)][Cur(d)]

DeviceDestroy(d) ==
    /\ At(d, "device_destroy")
    /\ HaveCdev(d) => ClassOf(d) # ERR_PTR
    /\ IF HaveCdev(d) /\ ClassOf(d) # NULL
       THEN Unregister(d, "node")
       ELSE UNCHANGED reg
    /\ Goto(d, "cdev_del")
    /\ UNCHANGED <<recordVars, moduleVars, file, pciVars, classes>>

(* Mutant: have_cdev is cleared before the last part is given back.         *)
CdevDelClears(d) ==
    /\ At(d, "cdev_del")
    /\ IF HaveCdev(d) THEN Unregister(d, "cdev") ELSE UNCHANGED reg
    /\ SetHaveCdev(d, FALSE)
    /\ Goto(d, "unregister_chrdev_region")
    /\ UNCHANGED <<vmem, class, pci_dev, init_done, moduleVars, file, pciVars,
                   classes>>

CdevDel(d) ==
    /\ At(d, "cdev_del")
    /\ IF HaveCdev(d) THEN Unregister(d, "cdev") ELSE UNCHANGED reg
    /\ Goto(d, "unregister_chrdev_region")
    /\ UNCHANGED <<recordVars, moduleVars, file, pciVars, classes>>

UnregisterRegion(d) ==
    /\ At(d, "unregister_chrdev_region")
    /\ IF HaveCdev(d) THEN Unregister(d, "number") ELSE UNCHANGED reg
    /\ SetHaveCdev(d, FALSE)
    /\ Goto(d, "destroy_ret")
    /\ UNCHANGED <<vmem, class, pci_dev, init_done, moduleVars, file, pciVars,
                   classes>>

mcs9835_cdev_destroy(d) ==
    \/ DeviceDestroy(d)
    \/ CdevDel(d)
    \/ UnregisterRegion(d)
=============================================================================
