----------------------------- MODULE Mcs9835Core -----------------------------
(***************************************************************************)
(* mcs9835_core.c: the module's load and unload, the probe and remove      *)
(* calls of the PCI core with the unwinding of a probe that fails, and the *)
(* file operations of the parallel port, composed with mcs9835_cdev.c.     *)
(*                                                                         *)
(* A step is one call into the kernel or one access to a shared variable,  *)
(* so that opens, reads and writes come in between.  A call that changes   *)
(* nothing (a probe refused with EBUSY, an open of a UART, a count other   *)
(* than 1, a kmalloc that fails) is a stuttering step.                     *)
(***************************************************************************)
EXTENDS Mcs9835Cdev

(* A record as initialize_dev_data leaves it: nothing held, not in use.     *)
NoCookies == [b \in Bars |-> NULL]
NoCdevs   == [c \in Cdevs |-> FALSE]

Init ==
    /\ vmem = [s \in Slots |-> NoCookies]
    /\ class = [s \in Slots |-> NULL]
    /\ have_cdev = [s \in Slots |-> NoCdevs]
    /\ pci_dev = [s \in Slots |-> NULL]
    /\ init_done = [s \in Slots |-> FALSE]
    /\ dev_idx = 0
    /\ modstate = "absent"
    /\ allocated = FALSE
    /\ frame = [d \in Devices |-> NoFrame]
    /\ file = [h \in Handles |-> NoFile]
    /\ pci = [d \in Devices |-> {}]
    /\ mapped = [d \in Devices |-> {}]
    /\ bound = [d \in Devices |-> FALSE]
    /\ drvdata = [d \in Devices |-> NULL]
    /\ classes = {}
    /\ reg = [s \in Slots |-> [c \in Cdevs |-> {}]]

-----------------------------------------------------------------------------
(* Module load and unload.                                                  *)

(* The array is allocated and cleared, then the driver registers with the   *)
(* PCI core, which may refuse: the load then fails and the array stays.     *)
mcs9835_initialize ==
    /\ modstate = "absent"
    /\ allocated' = TRUE
    /\ vmem' = [s \in Slots |-> NoCookies]
    /\ class' = [s \in Slots |-> NULL]
    /\ have_cdev' = [s \in Slots |-> NoCdevs]
    /\ pci_dev' = [s \in Slots |-> NULL]
    /\ init_done' = [s \in Slots |-> FALSE]
    /\ dev_idx' = 0
    /\ \/ modstate' = "live"
       \/ modstate' = "absent"
    /\ UNCHANGED <<frame, file, pciVars, chrVars>>

(* rmmod: the module loader refuses while the module has references, and    *)
(* no module is unloaded under a call of the PCI core.                      *)
Unload ==
    /\ modstate = "live"
    /\ ModuleRefs = {}
    /\ AllIdle
    /\ modstate' = "detaching"
    /\ UNCHANGED <<recordVars, dev_idx, allocated, frame, file, pciVars,
                   chrVars>>

(* mcs9835_finalize: pci_unregister_driver has detached every device        *)
(* before the array is freed.                                               *)
mcs9835_finalize ==
    /\ modstate = "detaching"
    /\ AllIdle
    /\ \A d \in Devices : ~bound[d]
    /\ modstate' = "absent"
    /\ allocated' = FALSE
    /\ UNCHANGED <<recordVars, dev_idx, frame, file, pciVars, chrVars>>

-----------------------------------------------------------------------------
(* mcs9835_probe.                                                           *)

(* The slot of the next device is taken here and claimed only in Publish.   *)
(* Only the maximum is tested: that the counter names a slot and not one    *)
(* before the array takes an invariant (CounterInv).                        *)
Probe(d) ==
    /\ modstate = "live"
    /\ ~bound[d]
    /\ MayCall(d)
    /\ dev_idx < MAX_DEVICES
    /\ frame' = [frame EXCEPT ![d] = Call("pci_enable_device", "probe", dev_idx)]
    /\ UNCHANGED <<recordVars, moduleVars, file, pciVars, chrVars>>

EnableDevice(d) ==
    /\ At(d, "pci_enable_device")
    /\ \/ /\ pci' = [pci EXCEPT ![d] = @ \cup {"enabled"}]
          /\ Goto(d, "check_bars")
       \/ FailTo(d, "probe_ret", 0) /\ UNCHANGED pci
    /\ UNCHANGED <<recordVars, moduleVars, file, mapped, bound, drvdata,
                   chrVars>>

CheckBars(d) ==
    /\ At(d, "check_bars")
    /\ \/ Goto(d, "pci_request_regions")
       \/ FailTo(d, "pci_disable_device", 0)
    /\ UNCHANGED <<recordVars, moduleVars, file, pciVars, chrVars>>

(* Mutant: the device stays enabled when its regions are taken.             *)
RequestRegionsLeaks(d) ==
    /\ At(d, "pci_request_regions")
    /\ \/ /\ pci' = [pci EXCEPT ![d] = @ \cup {"regions"}]
          /\ GotoAt(d, "pci_iomap", 0)
       \/ FailTo(d, "probe_ret", 0) /\ UNCHANGED pci
    /\ UNCHANGED <<recordVars, moduleVars, file, mapped, bound, drvdata,
                   chrVars>>

RequestRegions(d) ==
    /\ At(d, "pci_request_regions")
    /\ \/ /\ pci' = [pci EXCEPT ![d] = @ \cup {"regions"}]
          /\ GotoAt(d, "pci_iomap", 0)
       \/ FailTo(d, "pci_disable_device", 0) /\ UNCHANGED pci
    /\ UNCHANGED <<recordVars, moduleVars, file, mapped, bound, drvdata,
                   chrVars>>

(* Mutants: one BAR too many, one too few.                                  *)
AfterBarPastLast(d, again, done) ==
    IF Cur(d) <= 3 THEN GotoAt(d, again, Cur(d) + 1) ELSE GotoAt(d, done, 0)

AfterBarBeforeLast(d, again, done) ==
    IF Cur(d) < 2 THEN GotoAt(d, again, Cur(d) + 1) ELSE GotoAt(d, done, 0)

(* The BARs are mapped and unmapped in their order.                         *)
AfterBar(d, again, done) ==
    IF Cur(d) < 3 THEN GotoAt(d, again, Cur(d) + 1) ELSE GotoAt(d, done, 0)

(* The cookie of a BAR that could not be mapped is NULL; those of the BARs  *)
(* after it are what an earlier probe left in the record.                   *)
Iomap(d) ==
    /\ At(d, "pci_iomap")
    /\ \/ /\ vmem' = [vmem EXCEPT ![Slot(d)][Cur(d)] = d]
          /\ mapped' = [mapped EXCEPT ![d] = @ \cup {Cur(d)}]
          /\ AfterBar(d, "pci_iomap", "class_create")
       \/ /\ vmem' = [vmem EXCEPT ![Slot(d)][Cur(d)] = NULL]
          /\ FailTo(d, "pci_iounmap", 0)
          /\ UNCHANGED mapped
    /\ UNCHANGED <<class, have_cdev, pci_dev, init_done, moduleVars, file, pci,
                   bound, drvdata, chrVars>>

(* Mutant: a class that was not created is destroyed.                       *)
InitializeReturnedToFail4(d) ==
    /\ At(d, "initialize_ret")
    /\ IF frame[d].rc = 0
       THEN GotoAt(d, "alloc_chrdev_region", UART_A)
       ELSE GotoAt(d, "class_destroy", 0)
    /\ UNCHANGED <<recordVars, moduleVars, file, pciVars, chrVars>>

InitializeReturned(d) ==
    /\ At(d, "initialize_ret")
    /\ IF frame[d].rc = 0
       THEN GotoAt(d, "alloc_chrdev_region", UART_A)
       ELSE GotoAt(d, "pci_iounmap", 0)
    /\ UNCHANGED <<recordVars, moduleVars, file, pciVars, chrVars>>

(* Mutant: the devices before the one that failed are forgotten.            *)
UnwindNone(d) == Goto(d, "class_destroy")

(* The devices before the one that failed are destroyed in reverse order.   *)
Unwind(d) ==
    IF Cur(d) > UART_A
    THEN GotoAt(d, "device_destroy", Cur(d) - 1)
    ELSE Goto(d, "class_destroy")

(* The devices are created in the order UART A, UART B, PARPORT.             *)
CreateReturned(d) ==
    /\ At(d, "create_ret")
    /\ IF frame[d].rc = 0
       THEN IF Cur(d) < PARPORT
            THEN GotoAt(d, "alloc_chrdev_region", Cur(d) + 1)
            ELSE Goto(d, "publish")
       ELSE Unwind(d)
    /\ UNCHANGED <<recordVars, moduleVars, file, pciVars, chrVars>>

(* Mutants: no driver data; the slot stays the next free one.               *)
SetNoDrvdata(d) == UNCHANGED drvdata
CountNothing == UNCHANGED dev_idx

pci_set_drvdata(d) == drvdata' = [drvdata EXCEPT ![d] = Slot(d)]
CountDevice == dev_idx' = dev_idx + 1

(* The record is claimed and published.  The code does so in four writes,   *)
(* init_done the last of them, and increments the counter in two accesses;  *)
(* one step stands for them.  Where calls are serialised nobody sees the    *)
(* difference, for an open looks at init_done first.  Where calls overlap   *)
(* it is a simplification: the code may lose an increment.                  *)
Publish(d) ==
    /\ At(d, "publish")
    /\ pci_set_drvdata(d)
    /\ pci_dev' = [pci_dev EXCEPT ![Slot(d)] = d]
    /\ CountDevice
    /\ init_done' = [init_done EXCEPT ![Slot(d)] = TRUE]
    /\ Goto(d, "dump")
    /\ UNCHANGED <<vmem, class, have_cdev, modstate, allocated, file, pci,
                   mapped, bound, chrVars>>

(* dump_dev_registers reads the ports of all four BARs.                     *)
dump_dev_registers(d) ==
    /\ At(d, "dump")
    /\ Goto(d, "probe_ret")
    /\ UNCHANGED <<recordVars, moduleVars, file, pciVars, chrVars>>

(* The PCI core binds the device when probe returns 0.                      *)
ProbeReturn(d) ==
    /\ At(d, "probe_ret")
    /\ bound' = [bound EXCEPT ![d] = (frame[d].rc = 0)]
    /\ Return(d)
    /\ UNCHANGED <<recordVars, moduleVars, file, pci, mapped, drvdata, chrVars>>

-----------------------------------------------------------------------------
(* mcs9835_remove, called for each bound device when the driver             *)
(* unregisters, and for one device when it is unbound.                      *)

MayRemove(d) ==
    /\ bound[d]
    /\ MayCall(d)
    /\ modstate = "detaching" \/ (HotUnbind /\ modstate = "live")

Remove(d) ==
    /\ MayRemove(d)
    /\ IF drvdata[d] # NULL /\ init_done[drvdata[d]]
       THEN /\ frame' = [frame EXCEPT ![d] =
                             Call("device_destroy", "remove", drvdata[d])]
            /\ UNCHANGED bound
       ELSE /\ bound' = [bound EXCEPT ![d] = FALSE]
            /\ UNCHANGED frame
    /\ UNCHANGED <<recordVars, moduleVars, file, pci, mapped, drvdata, chrVars>>

(* Mutant: the parallel port is forgotten.                                  *)
DestroyNextForgets(d) ==
    IF Cur(d) < UART_B
    THEN GotoAt(d, "device_destroy", Cur(d) + 1)
    ELSE Goto(d, "class_destroy")

DestroyNext(d) ==
    IF Cur(d) < PARPORT
    THEN GotoAt(d, "device_destroy", Cur(d) + 1)
    ELSE Goto(d, "class_destroy")

(* Both callers of mcs9835_cdev_destroy: remove goes from UART A to         *)
(* PARPORT, the unwinding of a probe goes back to UART A.                   *)
DestroyReturned(d) ==
    /\ At(d, "destroy_ret")
    /\ IF frame[d].op = "remove" THEN DestroyNext(d) ELSE Unwind(d)
    /\ UNCHANGED <<recordVars, moduleVars, file, pciVars, chrVars>>

(* The unwinding skips a NULL cookie; unmapping one has no effect anyway.   *)
(* Neither caller clears the cookie in the record.                          *)
Iounmap(d) ==
    /\ At(d, "pci_iounmap")
    /\ LET cookie == vmem[Slot(d)][Cur(d)]
       IN mapped' = [e \in Devices |-> IF e = cookie THEN mapped[e] \ {Cur(d)}
                                                     ELSE mapped[e]]
    /\ AfterBar(d, "pci_iounmap", "pci_release_regions")
    /\ UNCHANGED <<recordVars, moduleVars, file, pci, bound, drvdata, chrVars>>

ReleaseRegions(d) ==
    /\ At(d, "pci_release_regions")
    /\ pci' = [pci EXCEPT ![d] = @ \ {"regions"}]
    /\ Goto(d, "pci_disable_device")
    /\ UNCHANGED <<recordVars, moduleVars, file, mapped, bound, drvdata,
                   chrVars>>

DisableDevice(d) ==
    /\ At(d, "pci_disable_device")
    /\ pci' = [pci EXCEPT ![d] = @ \ {"enabled"}]
    /\ Goto(d, IF frame[d].op = "remove" THEN "retire" ELSE "probe_ret")
    /\ UNCHANGED <<recordVars, moduleVars, file, mapped, bound, drvdata,
                   chrVars>>

UncountDevice == dev_idx' = dev_idx - 1

(* The last statements of mcs9835_remove; its return unbinds the device.    *)
Retire(d) ==
    /\ At(d, "retire")
    /\ init_done' = [init_done EXCEPT ![Slot(d)] = FALSE]
    /\ UncountDevice
    /\ bound' = [bound EXCEPT ![d] = FALSE]
    /\ Return(d)
    /\ UNCHANGED <<vmem, class, have_cdev, pci_dev, modstate, allocated, file,
                   pci, mapped, drvdata, chrVars>>

-----------------------------------------------------------------------------
(* File operations of the parallel port.                                    *)

(* chrdev_open finds the cdev in the kernel's map and takes a reference on  *)
(* the module before it calls the driver's open.                            *)
ChrdevOpen(h, s) ==
    /\ modstate = "live"
    /\ file[h].pc = "closed"
    /\ "cdev" \in reg[s][PARPORT]
    /\ file' = [file EXCEPT ![h] = Opening(s)]
    /\ UNCHANGED <<recordVars, moduleVars, frame, pciVars, chrVars>>

(* Mutant: the open succeeds before the record is published.                *)
OpenUnchecked(h) ==
    /\ file[h].pc = "opening"
    /\ file' = [file EXCEPT ![h] =
                    [@ EXCEPT !.pc = "open", !.dev = pci_dev[file[h].slot]]]
    /\ UNCHANGED <<recordVars, moduleVars, frame, pciVars, chrVars>>

(* The record is reached from the cdev inside it; private_data is set and   *)
(* the open succeeds if the record is published.                            *)
mcs9835_open_parport(h) ==
    /\ file[h].pc = "opening"
    /\ IF init_done[file[h].slot]
       THEN file' = [file EXCEPT ![h] =
                         [@ EXCEPT !.pc = "open", !.dev = pci_dev[file[h].slot]]]
       ELSE file' = [file EXCEPT ![h] = NoFile]
    /\ UNCHANGED <<recordVars, moduleVars, frame, pciVars, chrVars>>

(* The device whose port ioread8 and iowrite8 reach at vmem_bar2.           *)
PortReached(s) ==
    LET cookie == vmem[s][2]
    IN IF cookie \in Devices
       THEN IF 2 \in mapped[cookie] THEN cookie ELSE NOWHERE
       ELSE NOWHERE

mcs9835_read_parport(h) ==
    /\ file[h].pc = "open"
    /\ file' = [file EXCEPT ![h].hit = PortReached(file[h].slot)]
    /\ UNCHANGED <<recordVars, moduleVars, frame, pciVars, chrVars>>

(* copy_from_user may sleep; the port is written after it.                  *)
CopyFromUser(h) ==
    /\ file[h].pc = "open"
    /\ file' = [file EXCEPT ![h].pc = "copyin"]
    /\ UNCHANGED <<recordVars, moduleVars, frame, pciVars, chrVars>>

WritePort(h) ==
    /\ file[h].pc = "copyin"
    /\ file' = [file EXCEPT ![h] =
                    [@ EXCEPT !.pc = "open", !.hit = PortReached(file[h].slot)]]
    /\ UNCHANGED <<recordVars, moduleVars, frame, pciVars, chrVars>>

mcs9835_close_parport(h) ==
    /\ file[h].pc = "open"
    /\ file' = [file EXCEPT ![h] = NoFile]
    /\ UNCHANGED <<recordVars, moduleVars, frame, pciVars, chrVars>>

-----------------------------------------------------------------------------

Handler(d) ==
    \/ EnableDevice(d)
    \/ CheckBars(d)
    \/ RequestRegions(d)
    \/ Iomap(d)
    \/ mcs9835_cdev_initialize(d)
    \/ InitializeReturned(d)
    \/ mcs9835_cdev_create(d)
    \/ CreateReturned(d)
    \/ Publish(d)
    \/ dump_dev_registers(d)
    \/ ProbeReturn(d)
    \/ mcs9835_cdev_destroy(d)
    \/ DestroyReturned(d)
    \/ mcs9835_cdev_finalize(d)
    \/ Iounmap(d)
    \/ ReleaseRegions(d)
    \/ DisableDevice(d)
    \/ Retire(d)

Module ==
    \/ mcs9835_initialize
    \/ Unload
    \/ mcs9835_finalize

FileOperation(h) ==
    \/ \E s \in Slots : ChrdevOpen(h, s)
    \/ mcs9835_open_parport(h)
    \/ mcs9835_read_parport(h)
    \/ CopyFromUser(h)
    \/ WritePort(h)
    \/ mcs9835_close_parport(h)

Next ==
    \/ Module
    \/ \E d \in Devices : Probe(d) \/ Remove(d) \/ Handler(d)
    \/ \E h \in Handles : FileOperation(h)

Spec == Init /\ [][Next]_vars
=============================================================================
