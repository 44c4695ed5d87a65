-------------------------- MODULE Mcs9835LedgerProof --------------------------
(***************************************************************************)
(* What the driver holds of the kernel, for any number of devices, files   *)
(* and slots, where the PCI core runs one call at a time and devices stay  *)
(* for as long as the module does or, with the one slot of the code, may   *)
(* leave it at any time.  The proof rests on LedgerInv of Mcs9835Ledger,   *)
(* whose three parts are taken in turn: the slots, what is held of the PCI *)
(* core, and what is registered of the character devices.                  *)
(***************************************************************************)
EXTENDS Mcs9835Ledger, Mcs9835TypeProof, FiniteSetTheorems

(* The environments the theorems are about; stale_handle and                *)
(* concurrent_probes are what happens in others.                            *)
Tame == ~Concurrent /\ (HotUnbind => MAX_DEVICES = 1)

(* The call of d moves to a label, a BAR or cdev, and a result.             *)
Becomes(d, l, n, r) ==
    /\ frame'[d].pc = l
    /\ frame'[d].cur = n
    /\ frame'[d].rc = r
    /\ frame'[d].op = frame[d].op
    /\ frame'[d].slot = frame[d].slot
    /\ \A e \in Devices \ {d} : frame'[e] = frame[e]

LEMMA Moves ==
  ASSUME TypeOK, NEW d \in Devices, NEW l \in Labels, NEW n \in Bars
  PROVE  /\ Goto(d, l) => Becomes(d, l, Cur(d), frame[d].rc)
         /\ GotoAt(d, l, n) => Becomes(d, l, n, frame[d].rc)
         /\ FailTo(d, l, n) => Becomes(d, l, n, -1)
BY GotoStep, GotoAtStep, FailToStep DEF Becomes, Cur

(* The registers of a call, and the neighbours of the BAR or cdev in hand.  *)
LEMMA FrameFacts ==
  ASSUME TypeOK, NEW d \in Devices
  PROVE  /\ frame[d] \in Frame
         /\ Cur(d) \in Bars
         /\ frame[d].rc \in {0, -1}
         /\ Slot(d) \in Slots
         /\ 0 \in Bars
         /\ UART_A \in Bars
         /\ Cur(d) < 3 => Cur(d) + 1 \in Bars
         /\ Cur(d) > UART_A => Cur(d) - 1 \in Bars
         /\ Cur(d) < PARPORT => Cur(d) + 1 \in Bars
BY DEF TypeOK, Frame, Cur, Slot, Bars, UART_A, PARPORT

-----------------------------------------------------------------------------
(* The slots.                                                               *)

(* Where a call may stand after a step that changes no slot.                *)
Fits(d, l, n, r) ==
    /\ l \in Labels \ {"idle"}
    /\ l \in CreateLabels \cup DestroyLabels => n \in Cdevs
    /\ frame[d].op = "remove" => l \in RemoveLabels
    /\ frame[d].op = "probe" =>
          /\ l # "retire"
          /\ l \in GoodLabels => r = 0
          /\ l \in FailedLabels => r = -1
          /\ HasPublished(d) <=> l = "dump" \/ (l = "probe_ret" /\ r = 0)

SlotVars == <<init_done, pci_dev, drvdata, bound, modstate, dev_idx>>

(* A step of a call that changes no slot only has to keep to its places.    *)
LEMMA SlotQuiet ==
  ASSUME TypeOK, SlotInv, NEW d \in Devices, ~Idle(d),
         NEW l, NEW n, NEW r, Becomes(d, l, n, r), Fits(d, l, n, r),
         UNCHANGED SlotVars
  PROVE  SlotInv'
<1> USE DEF Idle, At, Slot, Becomes
<1>1. \A e \in Devices : Idle(e)' <=> Idle(e)
  BY DEF Fits
<1>2. UNCHANGED <<init_done, pci_dev, drvdata, bound, modstate, dev_idx>>
  BY DEF SlotVars
<1>3. OneCall'
  BY <1>1 DEF SlotInv, OneCall
<1>4. /\ \A e : Owns(e)' <=> Owns(e)
      /\ \A e : Published(e)' <=> Published(e)
  BY <1>2 DEF Owns, Published
<1>5. OwnerInv'
  BY <1>1, <1>2, <1>4 DEF SlotInv, OwnerInv, AllIdle
<1>6. CountInv'
  BY <1>2 DEF SlotInv, CountInv, InUse
<1>7. CallInv'
  <2>1. (ProbeCall(d) \/ RemoveCall(d))'
    <3>1. ProbeCall(d) => ProbeCall(d)'
      BY <1>2, <1>4 DEF ProbeCall, HasPublished, Fits
    <3>2. RemoveCall(d) => RemoveCall(d)'
      BY <1>2, <1>4 DEF RemoveCall, Fits
    <3> QED
      BY <3>1, <3>2 DEF SlotInv, CallInv
  <2>2. (frame[d].pc \in CreateLabels \cup DestroyLabels => Cur(d) \in Cdevs)'
    BY DEF Fits, Cur
  <2>3. \A e \in Devices : ~Idle(e)' => e = d
    BY <1>1 DEF SlotInv, OneCall
  <2> QED
    BY <2>1, <2>2, <2>3 DEF CallInv
<1> QED
  BY <1>3, <1>5, <1>6, <1>7 DEF SlotInv

(* The handler's steps but those that publish, return or retire.            *)
QuietCall(d) ==
    \/ EnableDevice(d) \/ CheckBars(d) \/ RequestRegions(d) \/ Iomap(d)
    \/ mcs9835_cdev_initialize(d) \/ InitializeReturned(d)
    \/ mcs9835_cdev_create(d) \/ CreateReturned(d)
    \/ dump_dev_registers(d) \/ mcs9835_cdev_destroy(d) \/ DestroyReturned(d)
    \/ mcs9835_cdev_finalize(d) \/ Iounmap(d)
    \/ ReleaseRegions(d) \/ DisableDevice(d)

(* Every such step keeps to the places of its call.                         *)
LEMMA QuietMoves ==
  ASSUME TypeOK, SlotInv, NEW d \in Devices, QuietCall(d)
  PROVE  /\ ~Idle(d)
         /\ UNCHANGED SlotVars
         /\ \E l, n, r : Becomes(d, l, n, r) /\ Fits(d, l, n, r)
<1> USE DEF At, Idle
<1>1. ~Idle(d) /\ UNCHANGED SlotVars
  BY DEF QuietCall, SlotVars, EnableDevice, CheckBars, RequestRegions, Iomap,
     mcs9835_cdev_initialize, InitializeReturned, mcs9835_cdev_create,
     AllocRegion, CdevAdd, DeviceCreate, ErrCreate, ErrAdd, CreateReturned,
     dump_dev_registers, mcs9835_cdev_destroy, DeviceDestroy, CdevDel,
     UnregisterRegion, DestroyReturned, mcs9835_cdev_finalize, Iounmap,
     ReleaseRegions, DisableDevice, recordVars, moduleVars, pciVars
<1>2. /\ ProbeCall(d) \/ RemoveCall(d)
      /\ frame[d].pc \in CreateLabels \cup DestroyLabels => Cur(d) \in Cdevs
  BY <1>1 DEF SlotInv, CallInv
<1> DEFINE c == Cur(d)
           rc == frame[d].rc
           Gets(l, n, r) == Becomes(d, l, n, r) /\ Fits(d, l, n, r)
<1>3. /\ c \in Bars /\ rc \in {0, -1} /\ 0 \in Bars /\ UART_A \in Bars
      /\ c < 3 => c + 1 \in Bars
      /\ c > UART_A => c - 1 \in Bars
      /\ c < PARPORT => c + 1 \in Bars
  BY FrameFacts
<1> USE DEF Fits, ProbeCall, RemoveCall, HasPublished, GoodLabels, FailedLabels,
       RemoveLabels, CreateLabels, DestroyLabels, Labels, CdevLabels, CoreLabels
<1>4. CASE EnableDevice(d)
  <2>1. Gets("check_bars", c, rc) \/ Gets("probe_ret", 0, -1)
    BY <1>2, <1>3, <1>4, Moves DEF EnableDevice
  <2> QED
    BY <1>1, <2>1
<1>5. CASE CheckBars(d)
  <2>1. Gets("pci_request_regions", c, rc) \/ Gets("pci_disable_device", 0, -1)
    BY <1>2, <1>3, <1>5, Moves DEF CheckBars
  <2> QED
    BY <1>1, <2>1
<1>6. CASE RequestRegions(d)
  <2>1. Gets("pci_iomap", 0, rc) \/ Gets("pci_disable_device", 0, -1)
    BY <1>2, <1>3, <1>6, Moves DEF RequestRegions
  <2> QED
    BY <1>1, <2>1
<1>7. CASE Iomap(d)
  <2>1. \/ Gets("pci_iomap", c + 1, rc)
        \/ Gets("class_create", 0, rc)
        \/ Gets("pci_iounmap", 0, -1)
    BY <1>2, <1>3, <1>7, Moves DEF Iomap, AfterBar
  <2> QED
    BY <1>1, <2>1
<1>8. CASE mcs9835_cdev_initialize(d)
  <2>1. Gets("initialize_ret", c, rc) \/ Gets("initialize_ret", c, -1)
    BY <1>2, <1>3, <1>8, Moves DEF mcs9835_cdev_initialize
  <2> QED
    BY <1>1, <2>1
<1>9. CASE InitializeReturned(d)
  <2>1. UART_A \in Cdevs
    BY DEF UART_A, Cdevs, PARPORT
  <2>2. Gets("alloc_chrdev_region", UART_A, rc) \/ Gets("pci_iounmap", 0, rc)
    BY <1>2, <1>3, <1>9, <2>1, Moves DEF InitializeReturned
  <2> QED
    BY <1>1, <2>2
<1>10. CASE mcs9835_cdev_create(d)
  <2>1. CASE AllocRegion(d)
    <3>1. Gets("cdev_add", c, rc) \/ Gets("create_ret", c, -1)
      BY <1>2, <1>3, <2>1, Moves DEF AllocRegion
    <3> QED
      BY <1>1, <3>1
  <2>2. CASE CdevAdd(d)
    <3>1. Gets("device_create", c, rc) \/ Gets("err_add", c, -1)
      BY <1>2, <1>3, <2>2, Moves DEF CdevAdd
    <3> QED
      BY <1>1, <3>1
  <2>3. CASE DeviceCreate(d)
    <3>1. Gets("create_ret", c, rc) \/ Gets("err_create", c, -1)
      BY <1>2, <1>3, <2>3, Moves DEF DeviceCreate
    <3> QED
      BY <1>1, <3>1
  <2>4. CASE ErrCreate(d)
    <3>1. Gets("err_add", c, rc)
      BY <1>2, <1>3, <2>4, Moves DEF ErrCreate
    <3> QED
      BY <1>1, <3>1
  <2>5. CASE ErrAdd(d)
    <3>1. Gets("create_ret", c, rc)
      BY <1>2, <1>3, <2>5, Moves DEF ErrAdd
    <3> QED
      BY <1>1, <3>1
  <2> QED
    BY <1>10, <2>1, <2>2, <2>3, <2>4, <2>5 DEF mcs9835_cdev_create
<1>11. /\ c \in Cdevs /\ c < PARPORT => c + 1 \in Cdevs
       /\ c \in Cdevs /\ c > UART_A => c - 1 \in Cdevs
  BY <1>3 DEF Cdevs, UART_A, PARPORT, Bars
<1>12. CASE CreateReturned(d)
  <2>1. \/ Gets("alloc_chrdev_region", c + 1, rc)
        \/ Gets("publish", c, rc)
        \/ Gets("device_destroy", c - 1, rc)
        \/ Gets("class_destroy", c, rc)
    BY <1>2, <1>3, <1>11, <1>12, Moves DEF CreateReturned, Unwind
  <2> QED
    BY <1>1, <2>1
<1>13. CASE dump_dev_registers(d)
  <2>1. Gets("probe_ret", c, rc)
    BY <1>2, <1>3, <1>13, Moves DEF dump_dev_registers
  <2> QED
    BY <1>1, <2>1
<1>14. CASE mcs9835_cdev_destroy(d)
  <2>1. \/ Gets("cdev_del", c, rc)
        \/ Gets("unregister_chrdev_region", c, rc)
        \/ Gets("destroy_ret", c, rc)
    BY <1>2, <1>3, <1>14, Moves
    DEF mcs9835_cdev_destroy, DeviceDestroy, CdevDel, UnregisterRegion
  <2> QED
    BY <1>1, <2>1
<1>15. CASE DestroyReturned(d)
  <2>1. \/ Gets("device_destroy", c + 1, rc)
        \/ Gets("device_destroy", c - 1, rc)
        \/ Gets("class_destroy", c, rc)
    BY <1>2, <1>3, <1>11, <1>15, Moves DEF DestroyReturned, DestroyNext, Unwind
  <2> QED
    BY <1>1, <2>1
<1>16. CASE mcs9835_cdev_finalize(d)
  <2>1. Gets("pci_iounmap", 0, rc)
    BY <1>2, <1>3, <1>16, Moves DEF mcs9835_cdev_finalize
  <2> QED
    BY <1>1, <2>1
<1>17. CASE Iounmap(d)
  <2>1. Gets("pci_iounmap", c + 1, rc) \/ Gets("pci_release_regions", 0, rc)
    BY <1>2, <1>3, <1>17, Moves DEF Iounmap, AfterBar
  <2> QED
    BY <1>1, <2>1
<1>18. CASE ReleaseRegions(d)
  <2>1. Gets("pci_disable_device", c, rc)
    BY <1>2, <1>3, <1>18, Moves DEF ReleaseRegions
  <2> QED
    BY <1>1, <2>1
<1>19. CASE DisableDevice(d)
  <2>1. Gets("retire", c, rc) \/ Gets("probe_ret", c, rc)
    BY <1>2, <1>3, <1>19, Moves DEF DisableDevice
  <2> QED
    BY <1>1, <2>1
<1> QED
  BY <1>4, <1>5, <1>6, <1>7, <1>8, <1>9, <1>10, <1>12, <1>13, <1>14, <1>15,
     <1>16, <1>17, <1>18, <1>19 DEF QuietCall

(* The slots in use are finitely many, and no more than there are.          *)
LEMMA InUseFinite ==
  /\ IsFiniteSet(InUse)
  /\ Cardinality(InUse) \in 0 .. MAX_DEVICES
<1>1. IsFiniteSet(Slots) /\ Cardinality(Slots) = MAX_DEVICES
  BY McsAssumption, FS_Interval DEF Slots
<1>2. InUse \in SUBSET Slots
  BY DEF InUse
<1>3. IsFiniteSet(InUse) /\ Cardinality(InUse) <= MAX_DEVICES
  BY <1>1, <1>2, FS_Subset
<1>4. Cardinality(InUse) \in Nat
  BY <1>3, FS_CardinalityType
<1> QED
  BY <1>3, <1>4, McsAssumption

(* The counter is not negative, so that its upper bound is all a probe has  *)
(* to test.                                                                 *)
LEMMA CounterNatural ==
  ASSUME TypeOK, CountInv
  PROVE  dev_idx \in Nat
BY InUseFinite DEF CountInv

(* A probe publishes the slot the counter names, which is free, for a       *)
(* device that has none.                                                    *)
LEMMA PublishSlot ==
  ASSUME TypeOK, SlotInv, NEW d \in Devices, Publish(d)
  PROVE  SlotInv'
<1> USE McsAssumption DEF Idle, At, Slot
<1> DEFINE s == Slot(d)
<1>0. /\ pci_dev \in [Slots -> Devices \cup {NULL}]
      /\ init_done \in [Slots -> BOOLEAN]
      /\ drvdata \in [Devices -> Slots \cup {NULL}]
      /\ dev_idx \in Int
      /\ s \in Slots
  BY DEF TypeOK, Frame
<1>1. /\ frame[d].pc = "publish"
      /\ drvdata' = [drvdata EXCEPT ![d] = s]
      /\ pci_dev' = [pci_dev EXCEPT ![s] = d]
      /\ init_done' = [init_done EXCEPT ![s] = TRUE]
      /\ dev_idx' = dev_idx + 1
      /\ UNCHANGED <<bound, modstate>>
  BY DEF Publish, pci_set_drvdata, CountDevice
<1>2. Becomes(d, "dump", Cur(d), frame[d].rc)
  BY FrameFacts, Moves DEF Publish, Labels, CoreLabels
<1>3. ProbeCall(d) /\ s = dev_idx /\ ~Published(d) /\ ~init_done[s]
  <2>1. ProbeCall(d)
    BY <1>1 DEF SlotInv, CallInv, RemoveCall, RemoveLabels
  <2>2. s = dev_idx /\ ~Published(d)
    BY <1>1, <2>1 DEF ProbeCall, HasPublished
  <2>3. ~init_done[s]
    BY <1>0, <2>1, <2>2 DEF ProbeCall, SlotInv, CountInv
  <2> QED
    BY <2>1, <2>2, <2>3
<1>4. /\ \A e \in Devices : Idle(e)' <=> Idle(e)
      /\ \A e \in Devices : ~Idle(e) => e = d
      /\ ~Idle(d)
  BY <1>1, <1>2 DEF Becomes, SlotInv, OneCall
<1>5. OneCall'
  BY <1>4 DEF OneCall
<1>6. Owns(d)'
  BY <1>0, <1>1 DEF Owns
<1>7. ASSUME NEW e \in Devices, e # d, Owns(e) PROVE Owns(e)'
  BY <1>0, <1>1, <1>3, <1>7 DEF Owns
<1>8. OwnerInv'
  <2>1. \A e \in Devices : (Idle(e) /\ bound[e])' => Owns(e)'
    BY <1>1, <1>4, <1>7 DEF SlotInv, OwnerInv
  <2>2. ASSUME NEW t \in Slots, init_done'[t]
        PROVE  /\ pci_dev'[t] \in Devices
               /\ drvdata'[pci_dev'[t]] = t
               /\ (Idle(pci_dev[t]) => bound[pci_dev[t]])'
    <3>1. CASE t = s
      BY <1>0, <1>1, <1>4, <3>1
    <3>2. CASE t # s
      <4>1. init_done[t] /\ pci_dev'[t] = pci_dev[t] /\ pci_dev[t] # d
        BY <1>0, <1>1, <1>3, <2>2, <3>2 DEF Published
      <4> QED
        BY <1>0, <1>1, <1>4, <4>1 DEF SlotInv, OwnerInv
    <3> QED
      BY <3>1, <3>2
  <2>3. modstate' # "absent"
    BY <1>1, <1>3 DEF ProbeCall
  <2> QED
    BY <2>1, <2>2, <2>3 DEF OwnerInv
<1>9. CountInv'
  <2>1. InUse' = InUse \cup {s} /\ s \notin InUse
    BY <1>0, <1>1, <1>3 DEF InUse
  <2>2. dev_idx' = Cardinality(InUse')
    BY <1>1, <2>1, InUseFinite, FS_AddElement DEF SlotInv, CountInv
  <2>3. \A t \in Slots : init_done'[t] <=> t < dev_idx'
    BY <1>0, <1>1, <1>3 DEF SlotInv, CountInv, ProbeCall, Slots
  <2> QED
    BY <2>2, <2>3 DEF CountInv
<1>10. CallInv'
  <2>1. ProbeCall(d)'
    <3>1. HasPublished(d)' /\ drvdata'[d] = Slot(d)'
      BY <1>0, <1>1, <1>2, <1>3 DEF ProbeCall, HasPublished, Becomes, GoodLabels
    <3> QED
      BY <1>1, <1>2, <1>3, <1>6, <3>1
      DEF ProbeCall, Becomes, GoodLabels, FailedLabels
  <2> QED
    BY <1>2, <1>4, <2>1 DEF CallInv, Becomes, CreateLabels, DestroyLabels
<1> QED
  BY <1>5, <1>8, <1>9, <1>10 DEF SlotInv

(* A probe returns: its device is bound if and only if it is published.     *)
LEMMA ProbeReturnSlot ==
  ASSUME TypeOK, SlotInv, NEW d \in Devices, ProbeReturn(d)
  PROVE  SlotInv' /\ AllIdle'
<1> USE DEF Idle, At
<1>1. /\ frame[d].pc = "probe_ret"
      /\ bound' = [bound EXCEPT ![d] = (frame[d].rc = 0)]
      /\ frame'[d].pc = "idle"
      /\ \A e \in Devices \ {d} : frame'[e] = frame[e]
      /\ UNCHANGED <<init_done, pci_dev, dev_idx, modstate, drvdata>>
      /\ bound \in [Devices -> BOOLEAN]
  BY DEF TypeOK, ProbeReturn, Return, NoFrame, Call, recordVars, moduleVars
<1>2. \A e \in Devices : Idle(e)'
  BY <1>1 DEF SlotInv, OneCall
<1>3. OneCall' /\ CallInv' /\ AllIdle'
  BY <1>2 DEF OneCall, CallInv, AllIdle
<1>4. ProbeCall(d)
  BY <1>1 DEF SlotInv, CallInv, RemoveCall, RemoveLabels
<1>5. \A e : Owns(e)' <=> Owns(e)
  BY <1>1 DEF Owns
<1>6. /\ frame[d].rc = 0 => Owns(d)
      /\ frame[d].rc # 0 => ~Published(d)
  BY <1>1, <1>4 DEF ProbeCall, HasPublished
<1>7. \A e \in Devices \ {d} : Idle(e)
  BY <1>1 DEF SlotInv, OneCall
<1>8. OwnerInv'
  <2>1. \A e \in Devices : bound'[e] => Owns(e)'
    BY <1>1, <1>5, <1>6, <1>7 DEF SlotInv, OwnerInv
  <2>2. ASSUME NEW t \in Slots, init_done'[t]
        PROVE  /\ pci_dev'[t] \in Devices
               /\ drvdata'[pci_dev'[t]] = t
               /\ bound'[pci_dev'[t]]
    BY <1>1, <1>6, <1>7, <2>2 DEF SlotInv, OwnerInv, Published
  <2>3. modstate' # "absent"
    BY <1>1, <1>4 DEF ProbeCall
  <2> QED
    BY <2>1, <2>2, <2>3 DEF OwnerInv
<1>9. CountInv'
  BY <1>1 DEF SlotInv, CountInv, InUse
<1> QED
  BY <1>3, <1>8, <1>9 DEF SlotInv

(* A remove retires the slot of its device.  In a live module the counter   *)
(* stays a stack pointer only because there is no more than one slot.       *)
LEMMA RetireSlot ==
  ASSUME Tame, TypeOK, SlotInv, NEW d \in Devices, Retire(d)
  PROVE  SlotInv' /\ AllIdle'
<1> USE McsAssumption DEF Idle, At, Slot
<1> DEFINE s == Slot(d)
<1>1. /\ frame[d].pc = "retire"
      /\ init_done' = [init_done EXCEPT ![s] = FALSE]
      /\ dev_idx' = dev_idx - 1
      /\ bound' = [bound EXCEPT ![d] = FALSE]
      /\ frame'[d].pc = "idle"
      /\ \A e \in Devices \ {d} : frame'[e] = frame[e]
      /\ UNCHANGED <<pci_dev, modstate, drvdata>>
      /\ bound \in [Devices -> BOOLEAN]
      /\ init_done \in [Slots -> BOOLEAN]
      /\ dev_idx \in Int
  BY DEF TypeOK, Retire, UncountDevice, Return, NoFrame, Call
<1>2. \A e \in Devices : Idle(e)'
  BY <1>1 DEF SlotInv, OneCall
<1>3. OneCall' /\ CallInv' /\ AllIdle'
  BY <1>2 DEF OneCall, CallInv, AllIdle
<1>4. RemoveCall(d)
  BY <1>1 DEF SlotInv, CallInv, ProbeCall
<1>5. /\ s \in Slots /\ init_done[s] /\ pci_dev[s] = d /\ drvdata[d] = s
      /\ \A e \in Devices \ {d} : Idle(e)
  BY <1>1, <1>4 DEF RemoveCall, Owns, SlotInv, OneCall
<1>6. OwnerInv'
  <2>1. ASSUME NEW e \in Devices, bound'[e] PROVE Owns(e)'
    <3>1. e # d /\ Owns(e)
      BY <1>1, <1>5, <2>1 DEF SlotInv, OwnerInv
    <3>2. drvdata[e] # s
      BY <1>5, <3>1 DEF Owns
    <3> QED
      BY <1>1, <3>1, <3>2 DEF Owns
  <2>2. ASSUME NEW t \in Slots, init_done'[t]
        PROVE  /\ pci_dev'[t] \in Devices
               /\ drvdata'[pci_dev'[t]] = t
               /\ bound'[pci_dev'[t]]
    <3>1. t # s /\ init_done[t]
      BY <1>1, <1>5, <2>2
    <3>2. pci_dev[t] \in Devices /\ drvdata[pci_dev[t]] = t
      BY <3>1 DEF SlotInv, OwnerInv
    <3>3. pci_dev[t] # d
      BY <1>5, <3>1, <3>2
    <3> QED
      BY <1>1, <1>5, <3>1, <3>2, <3>3 DEF SlotInv, OwnerInv
  <2>3. modstate' # "absent"
    BY <1>1, <1>4 DEF RemoveCall
  <2> QED
    BY <2>1, <2>2, <2>3 DEF OwnerInv
<1>7. CountInv'
  <2>1. InUse' = InUse \ {s} /\ s \in InUse
    BY <1>1, <1>5 DEF InUse
  <2>2. dev_idx' = Cardinality(InUse')
    <3>1. Cardinality(InUse \ {s}) = Cardinality(InUse) - 1
      BY <2>1, InUseFinite, FS_RemoveElement
    <3> QED
      BY <1>1, <2>1, <3>1 DEF SlotInv, CountInv
  <2>3. CASE modstate = "live"
    <3>1. \A t \in Slots : t = 0
      BY <1>4, <2>3 DEF RemoveCall, Tame, Slots
    <3>2. s = 0 /\ InUse' = {}
      BY <1>5, <2>1, <3>1 DEF InUse
    <3>3. dev_idx' = 0
      BY <2>2, <3>2, FS_EmptySet
    <3> QED
      BY <1>1, <1>5, <2>2, <3>1, <3>2, <3>3 DEF CountInv
  <2>4. CASE modstate # "live"
    BY <1>1, <2>2, <2>4 DEF CountInv
  <2> QED
    BY <2>3, <2>4
<1> QED
  BY <1>3, <1>6, <1>7 DEF SlotInv

(* A call begins when none is in flight: a probe of the slot the counter    *)
(* names for a device that has none, a remove of its device's slot.         *)
LEMMA BeginSlot ==
  ASSUME Tame, TypeOK, SlotInv, NEW d \in Devices, Probe(d) \/ Remove(d)
  PROVE  /\ SlotInv'
         /\ AllIdle
         /\ \/ Probe(d) /\ ~Published(d)
            \/ Remove(d) /\ Owns(d) /\ UNCHANGED bound
               /\ frame' = [frame EXCEPT ![d] =
                               Call("device_destroy", "remove", drvdata[d])]
<1> USE McsAssumption DEF Idle, At
<1>1. /\ frame \in [Devices -> Frame]
      /\ \A e \in Devices : Idle(e)
      /\ UNCHANGED <<init_done, pci_dev, dev_idx, modstate, drvdata>>
  BY DEF TypeOK, Tame, Probe, Remove, MayRemove, MayCall, AllIdle, recordVars,
     moduleVars, pciVars
<1>2. /\ \A e : Owns(e)' <=> Owns(e)
      /\ \A e : Published(e)' <=> Published(e)
      /\ CountInv'
  BY <1>1 DEF Owns, Published, SlotInv, CountInv, InUse
<1>3. AllIdle
  BY <1>1 DEF AllIdle
<1>4. CASE Probe(d)
  <2>1. /\ modstate = "live" /\ ~bound[d]
        /\ frame' = [frame EXCEPT ![d] =
                        Call("pci_enable_device", "probe", dev_idx)]
        /\ bound' = bound
    BY <1>4 DEF Probe, pciVars
  <2>2. ~Published(d)
    BY <1>1, <2>1 DEF SlotInv, OwnerInv, Published
  <2>3. /\ frame'[d] = Call("pci_enable_device", "probe", dev_idx)
        /\ \A e \in Devices \ {d} : Idle(e)'
    BY <1>1, <2>1
  <2>4. OneCall'
    BY <2>3 DEF OneCall
  <2>5. ProbeCall(d)'
    BY <1>1, <1>2, <2>1, <2>2, <2>3
    DEF ProbeCall, HasPublished, Slot, Call, GoodLabels, FailedLabels
  <2>6. CallInv'
    BY <2>3, <2>5 DEF CallInv, Call, CreateLabels, DestroyLabels
  <2>7. OwnerInv'
    <3>1. \A e \in Devices : bound[e] => e # d
      BY <2>1
    <3> QED
      BY <1>1, <1>2, <2>1, <2>2, <2>3, <3>1 DEF SlotInv, OwnerInv
  <2> QED
    BY <1>2, <1>3, <1>4, <2>2, <2>4, <2>6, <2>7 DEF SlotInv
<1>5. CASE Remove(d)
  <2>1. bound[d] /\ Owns(d)
    BY <1>1, <1>5 DEF Remove, MayRemove, SlotInv, OwnerInv
  <2>2. /\ drvdata[d] # NULL /\ init_done[drvdata[d]]
        /\ modstate = "detaching" \/ (HotUnbind /\ modstate = "live")
    BY <1>5, <2>1 DEF Owns, Slots, Remove, MayRemove
  <2>3. /\ frame' = [frame EXCEPT ![d] =
                        Call("device_destroy", "remove", drvdata[d])]
        /\ bound' = bound
    BY <1>5, <2>2 DEF Remove
  <2>4. /\ frame'[d] = Call("device_destroy", "remove", drvdata[d])
        /\ \A e \in Devices \ {d} : Idle(e)'
    BY <1>1, <2>3
  <2>5. OneCall'
    BY <2>4 DEF OneCall
  <2>6. RemoveCall(d)'
    BY <1>1, <1>2, <2>1, <2>2, <2>3, <2>4
    DEF RemoveCall, Slot, Call, RemoveLabels
  <2>7. CallInv'
    BY <2>4, <2>6 DEF CallInv, Call, Cur, Cdevs, UART_A, PARPORT
  <2>8. OwnerInv'
    BY <1>1, <1>2, <2>2, <2>3, <2>4 DEF SlotInv, OwnerInv
  <2> QED
    BY <1>2, <1>3, <1>5, <2>1, <2>3, <2>5, <2>7, <2>8 DEF SlotInv
<1> QED
  BY <1>4, <1>5

(* A load finds no slot in use, and an unload no call in flight.            *)
LEMMA ModuleSlot ==
  ASSUME TypeOK, SlotInv, Module
  PROVE  SlotInv' /\ AllIdle /\ AllIdle'
<1> USE McsAssumption
<1>1. UNCHANGED <<frame, bound, drvdata>>
  BY DEF Module, mcs9835_initialize, Unload, mcs9835_finalize, pciVars
<1>2. AllIdle
  BY DEF Module, mcs9835_initialize, Unload, mcs9835_finalize, SlotInv, OwnerInv
<1>3. AllIdle' /\ OneCall' /\ CallInv'
  BY <1>1, <1>2 DEF AllIdle, OneCall, CallInv, Idle, At
<1>4. CASE mcs9835_initialize
  <2>1. /\ \A d \in Devices : ~bound[d]
        /\ \A s \in Slots : ~init_done'[s]
        /\ dev_idx' = 0
    BY <1>4 DEF mcs9835_initialize, SlotInv, OwnerInv
  <2>2. OwnerInv'
    BY <1>1, <1>3, <2>1 DEF OwnerInv
  <2>3. InUse' = {}
    BY <2>1 DEF InUse
  <2>4. CountInv'
    BY <2>1, <2>3, FS_EmptySet DEF CountInv, Slots
  <2> QED
    BY <1>2, <1>3, <2>2, <2>4 DEF SlotInv
<1>5. CASE Unload \/ mcs9835_finalize
  <2>1. /\ UNCHANGED <<init_done, pci_dev, dev_idx>>
        /\ modstate' # "live"
        /\ modstate' = "absent" => \A d \in Devices : ~bound[d]
    BY <1>5 DEF Unload, mcs9835_finalize, recordVars
  <2>2. CountInv'
    BY <2>1 DEF SlotInv, CountInv, InUse
  <2>3. OwnerInv'
    BY <1>1, <1>2, <1>3, <2>1 DEF SlotInv, OwnerInv, Owns, AllIdle
  <2> QED
    BY <1>2, <1>3, <2>2, <2>3 DEF SlotInv
<1> QED
  BY <1>4, <1>5 DEF Module

(* What no slot depends on may change.                                      *)
LEMMA SlotSame ==
  ASSUME SlotInv, UNCHANGED <<init_done, pci_dev, dev_idx, modstate, bound,
                              drvdata, frame>>
  PROVE  SlotInv'
BY DEF SlotInv, OneCall, CallInv, ProbeCall, RemoveCall, HasPublished, Published,
   Owns, OwnerInv, AllIdle, CountInv, InUse, Idle, At, Slot, Cur

(* No process touches what the ledger is about.                             *)
LEMMA FileQuiet ==
  ASSUME NEW h \in Handles, FileOperation(h)
  PROVE  UNCHANGED <<recordVars, moduleVars, frame, pciVars, chrVars>>
BY DEF FileOperation, ChrdevOpen, mcs9835_open_parport, mcs9835_read_parport,
   CopyFromUser, WritePort, mcs9835_close_parport

LEMMA SlotStep ==
  ASSUME Tame, TypeOK, SlotInv, [Next]_vars
  PROVE  SlotInv'
<1>1. ASSUME NEW d \in Devices, Handler(d) PROVE SlotInv'
  BY <1>1, QuietMoves, SlotQuiet, PublishSlot, ProbeReturnSlot, RetireSlot
  DEF Handler, QuietCall
<1>2. ASSUME NEW d \in Devices, Probe(d) \/ Remove(d) PROVE SlotInv'
  BY <1>2, BeginSlot
<1>3. ASSUME NEW h \in Handles, FileOperation(h) PROVE SlotInv'
  BY <1>3, FileQuiet, SlotSame DEF recordVars, moduleVars, pciVars
<1>4. CASE UNCHANGED vars
  BY <1>4, SlotSame DEF vars, recordVars, moduleVars, pciVars
<1> QED
  BY <1>1, <1>2, <1>3, <1>4, ModuleSlot DEF Next

LEMMA SlotInit ==
  ASSUME Init
  PROVE  SlotInv
<1>1. /\ \A d \in Devices : Idle(d) /\ ~bound[d]
      /\ \A s \in Slots : ~init_done[s]
      /\ dev_idx = 0 /\ modstate = "absent"
  BY DEF Init, Idle, At, NoFrame, Call
<1>2. InUse = {}
  BY <1>1 DEF InUse
<1> QED
  BY <1>1, <1>2, FS_EmptySet
  DEF SlotInv, OneCall, CallInv, OwnerInv, AllIdle, CountInv

-----------------------------------------------------------------------------
(* What is held of the PCI core.                                            *)

(* Only the call in flight changes what its device holds.                   *)
LEMMA HoldingStep ==
  ASSUME SlotInv, HoldingInv, NEW d \in Devices, AllIdle \/ ~Idle(d),
         \A e \in Devices \ {d} : /\ frame'[e] = frame[e]
                                  /\ bound'[e] = bound[e]
                                  /\ pci'[e] = pci[e]
                                  /\ mapped'[e] = mapped[e],
         DeviceOK(d)', BarsOK(d)'
  PROVE  HoldingInv'
<1> SUFFICES ASSUME NEW e \in Devices, e # d
             PROVE  DeviceOK(e)' /\ BarsOK(e)'
  BY DEF HoldingInv
<1>1. Idle(e)
  BY DEF SlotInv, OneCall, AllIdle
<1>2. DeviceOK(e) /\ BarsOK(e)
  BY DEF HoldingInv
<1> QED
  BY <1>1, <1>2
  DEF DeviceOK, BarsOK, HoldsDevice, HoldsRegions, HoldsBars, Done, Idle, At, Cur

(* The cookies depend on the records and the slots only.                    *)
LEMMA CookieSame ==
  ASSUME CookieInv, UNCHANGED <<vmem, init_done, pci_dev, dev_idx, modstate>>
  PROVE  CookieInv'
BY DEF CookieInv, Published

(* The steps that take nothing of the PCI core and give nothing back.       *)
LEMMA QuietHolding ==
  ASSUME TypeOK, SlotInv, HoldingInv, NEW d \in Devices,
         \/ CheckBars(d) \/ mcs9835_cdev_initialize(d) \/ InitializeReturned(d)
         \/ mcs9835_cdev_create(d) \/ CreateReturned(d) \/ Publish(d)
         \/ dump_dev_registers(d) \/ mcs9835_cdev_destroy(d)
         \/ DestroyReturned(d) \/ mcs9835_cdev_finalize(d)
  PROVE  HoldingInv'
<1> USE DEF At, Idle, Slot, Becomes
<1> DEFINE c == Cur(d)
           rc == frame[d].rc
<1>1. /\ ~Idle(d)
      /\ UNCHANGED <<vmem, pci, mapped, bound>>
  BY DEF CheckBars, mcs9835_cdev_initialize, InitializeReturned,
     mcs9835_cdev_create, AllocRegion, CdevAdd, DeviceCreate, ErrCreate, ErrAdd,
     CreateReturned, Publish, dump_dev_registers, mcs9835_cdev_destroy,
     DeviceDestroy, CdevDel, UnregisterRegion, DestroyReturned,
     mcs9835_cdev_finalize, recordVars, pciVars
<1>2. /\ c \in Bars /\ rc \in {0, -1} /\ 0 \in Bars /\ UART_A \in Bars
      /\ c > UART_A => c - 1 \in Bars
      /\ c < PARPORT => c + 1 \in Bars
  BY FrameFacts
<1>3. DeviceOK(d) /\ BarsOK(d)
  BY DEF HoldingInv
<1>4. frame[d].pc \in GoodLabels => rc = 0
  BY <1>1 DEF SlotInv, CallInv, ProbeCall, RemoveCall, RemoveLabels, GoodLabels
<1> DEFINE Within == CdevLabels \cup {"publish", "dump"}
<1>5. CASE CheckBars(d)
  <2>1. /\ frame[d].pc = "check_bars"
        /\ \/ Becomes(d, "pci_request_regions", c, rc)
           \/ Becomes(d, "pci_disable_device", 0, -1)
    BY <1>2, <1>5, Moves DEF CheckBars, Labels, CoreLabels
  <2>2. DeviceOK(d)' /\ BarsOK(d)'
    BY <1>1, <1>3, <2>1
    DEF DeviceOK, BarsOK, HoldsDevice, HoldsRegions, HoldsBars, Done, CdevLabels
  <2> QED
    BY <1>1, <2>1, <2>2, HoldingStep
<1>6. CASE \/ mcs9835_cdev_initialize(d) \/ mcs9835_cdev_create(d)
           \/ CreateReturned(d) \/ Publish(d) \/ dump_dev_registers(d)
           \/ mcs9835_cdev_destroy(d) \/ DestroyReturned(d)
           \/ InitializeReturned(d) /\ rc = 0
  <2>1. /\ frame[d].pc \in Within
        /\ \E l \in Within \cup {"probe_ret"}, n \in Bars, r \in {0, -1} :
              Becomes(d, l, n, r) /\ (l = "probe_ret" => r = 0)
    <3> USE <1>2, Moves DEF Labels, CdevLabels, CoreLabels
    <3>1. CASE mcs9835_cdev_initialize(d)
      BY <3>1 DEF mcs9835_cdev_initialize
    <3>2. CASE mcs9835_cdev_create(d)
      <4>1. CASE AllocRegion(d)
        <5>1. /\ frame[d].pc = "alloc_chrdev_region"
              /\ Becomes(d, "cdev_add", c, rc) \/ Becomes(d, "create_ret", c, -1)
          BY <4>1 DEF AllocRegion
        <5> QED
          BY <5>1
      <4>2. CASE CdevAdd(d)
        BY <4>2 DEF CdevAdd
      <4>3. CASE DeviceCreate(d)
        <5>1. /\ frame[d].pc = "device_create"
              /\ Becomes(d, "create_ret", c, rc) \/ Becomes(d, "err_create", c, -1)
          BY <4>3 DEF DeviceCreate
        <5> QED
          BY <5>1
      <4>4. CASE ErrCreate(d)
        BY <4>4 DEF ErrCreate
      <4>5. CASE ErrAdd(d)
        BY <4>5 DEF ErrAdd
      <4> QED
        BY <3>2, <4>1, <4>2, <4>3, <4>4, <4>5 DEF mcs9835_cdev_create
    <3>3. CASE CreateReturned(d)
      BY <3>3 DEF CreateReturned, Unwind
    <3>4. CASE Publish(d)
      BY <3>4 DEF Publish
    <3>5. CASE dump_dev_registers(d)
      <4>1. frame[d].pc = "dump" /\ rc = 0
        BY <1>4, <3>5 DEF dump_dev_registers, GoodLabels
      <4>2. Becomes(d, "probe_ret", c, rc)
        BY <3>5 DEF dump_dev_registers
      <4> QED
        BY <4>1, <4>2
    <3>6. CASE mcs9835_cdev_destroy(d)
      <4>1. CASE DeviceDestroy(d)
        BY <4>1 DEF DeviceDestroy
      <4>2. CASE CdevDel(d)
        BY <4>2 DEF CdevDel
      <4>3. CASE UnregisterRegion(d)
        BY <4>3 DEF UnregisterRegion
      <4> QED
        BY <3>6, <4>1, <4>2, <4>3 DEF mcs9835_cdev_destroy
    <3>7. CASE DestroyReturned(d)
      BY <3>7 DEF DestroyReturned, DestroyNext, Unwind
    <3>8. CASE InitializeReturned(d) /\ rc = 0
      BY <3>8 DEF InitializeReturned
    <3> QED
      BY <1>6, <3>1, <3>2, <3>3, <3>4, <3>5, <3>6, <3>7, <3>8
  <2>2. HoldsBars(d) /\ HoldsBars(d)'
    BY <2>1 DEF HoldsBars, Done
  <2>3. DeviceOK(d)'
    BY <1>1, <1>3, <2>2 DEF DeviceOK, HoldsDevice, HoldsRegions
  <2>4. mapped[d] = Bars /\ \A b \in Bars : vmem[Slot(d)][b] = d
    BY <1>1, <1>3, <2>2 DEF BarsOK
  <2>5. BarsOK(d)'
    BY <1>1, <2>1, <2>2, <2>4 DEF BarsOK, CdevLabels
  <2> QED
    BY <1>1, <2>1, <2>3, <2>5, HoldingStep
<1>7. CASE mcs9835_cdev_finalize(d) \/ (InitializeReturned(d) /\ rc # 0)
  <2>1. /\ frame[d].pc \in CdevLabels
        /\ Becomes(d, "pci_iounmap", 0, rc)
    BY <1>2, <1>7, Moves
    DEF mcs9835_cdev_finalize, InitializeReturned, Labels, CdevLabels, CoreLabels
  <2>2. DeviceOK(d)' /\ BarsOK(d)'
    BY <1>1, <1>3, <2>1 DEF DeviceOK, BarsOK, HoldsDevice, HoldsRegions,
       HoldsBars, Done, CdevLabels, Bars, Cur
  <2> QED
    BY <1>1, <2>1, <2>2, HoldingStep
<1> QED
  BY <1>5, <1>6, <1>7

(* Enabling the device, requesting its regions, and giving them back.       *)
LEMMA DeviceHolding ==
  ASSUME TypeOK, SlotInv, HoldingInv, NEW d \in Devices,
         \/ EnableDevice(d) \/ RequestRegions(d)
         \/ ReleaseRegions(d) \/ DisableDevice(d)
  PROVE  HoldingInv'
<1> USE DEF At, Idle, Slot, Becomes
<1> DEFINE c == Cur(d)
           rc == frame[d].rc
<1>1. /\ ~Idle(d)
      /\ UNCHANGED <<vmem, mapped, bound>>
      /\ \A e \in Devices \ {d} : pci'[e] = pci[e]
      /\ pci \in [Devices -> SUBSET {"enabled", "regions"}]
  BY DEF TypeOK, EnableDevice, RequestRegions, ReleaseRegions, DisableDevice,
     recordVars
<1>2. c \in Bars /\ rc \in {0, -1} /\ 0 \in Bars
  BY FrameFacts
<1>3. DeviceOK(d) /\ BarsOK(d)
  BY DEF HoldingInv
<1>4. frame[d].pc \in FailedLabels /\ frame[d].op # "remove" => rc = -1
  BY <1>1 DEF SlotInv, CallInv, ProbeCall, RemoveCall
<1> USE DEF DeviceOK, BarsOK, HoldsDevice, HoldsRegions, HoldsBars, Done,
       CdevLabels
<1>5. CASE EnableDevice(d)
  <2>1. /\ frame[d].pc = "pci_enable_device"
        /\ \/ Becomes(d, "check_bars", c, rc) /\ pci'[d] = pci[d] \cup {"enabled"}
           \/ Becomes(d, "probe_ret", 0, -1) /\ pci'[d] = pci[d]
    BY <1>1, <1>2, <1>5, Moves DEF EnableDevice, Labels, CoreLabels
  <2>2. DeviceOK(d)' /\ BarsOK(d)'
    BY <1>1, <1>3, <2>1
  <2> QED
    BY <1>1, <2>1, <2>2, HoldingStep
<1>6. CASE RequestRegions(d)
  <2>1. /\ frame[d].pc = "pci_request_regions"
        /\ \/ Becomes(d, "pci_iomap", 0, rc) /\ pci'[d] = pci[d] \cup {"regions"}
           \/ Becomes(d, "pci_disable_device", 0, -1) /\ pci'[d] = pci[d]
    BY <1>1, <1>2, <1>6, Moves DEF RequestRegions, Labels, CoreLabels
  <2>2. {b \in Bars : b < 0} = {}
    BY DEF Bars
  <2>3. DeviceOK(d)' /\ BarsOK(d)'
    BY <1>1, <1>3, <2>1, <2>2 DEF Cur
  <2> QED
    BY <1>1, <2>1, <2>3, HoldingStep
<1>7. CASE ReleaseRegions(d)
  <2>1. /\ frame[d].pc = "pci_release_regions"
        /\ Becomes(d, "pci_disable_device", c, rc)
        /\ pci'[d] = pci[d] \ {"regions"}
    BY <1>1, <1>2, <1>7, Moves DEF ReleaseRegions, Labels, CoreLabels
  <2>2. DeviceOK(d)' /\ BarsOK(d)'
    BY <1>1, <1>3, <2>1
  <2> QED
    BY <1>1, <2>1, <2>2, HoldingStep
<1>8. CASE DisableDevice(d)
  <2>1. /\ frame[d].pc = "pci_disable_device"
        /\ \/ Becomes(d, "retire", c, rc)
           \/ Becomes(d, "probe_ret", c, rc) /\ rc = -1
        /\ pci'[d] = pci[d] \ {"enabled"}
    BY <1>1, <1>2, <1>4, <1>8, Moves
    DEF DisableDevice, Labels, CoreLabels, FailedLabels
  <2>2. DeviceOK(d)' /\ BarsOK(d)'
    BY <1>1, <1>3, <2>1
  <2> QED
    BY <1>1, <2>1, <2>2, HoldingStep
<1> QED
  BY <1>5, <1>6, <1>7, <1>8

(* No slot is published for a null pointer.                                 *)
LEMMA NullUnpublished ==
  ASSUME SlotInv
  PROVE  ~Published(NULL)
BY McsAssumption DEF SlotInv, OwnerInv, Published

(* Mapping a BAR writes the cookie of the slot the counter names, which is  *)
(* free, and undoes nothing where it fails.                                 *)
LEMMA IomapPci ==
  ASSUME TypeOK, SlotInv, PciInv, NEW d \in Devices, Iomap(d)
  PROVE  PciInv'
<1> USE DEF At, Idle, Slot
<1> DEFINE s == Slot(d)
           c == Cur(d)
           rc == frame[d].rc
<1>0. /\ vmem \in [Slots -> [Bars -> Devices \cup {NULL}]]
      /\ mapped \in [Devices -> SUBSET Bars]
      /\ s \in Slots /\ c \in Bars /\ 0 \in Bars
      /\ c < 3 => c + 1 \in Bars
  BY FrameFacts DEF TypeOK
<1>1. /\ frame[d].pc = "pci_iomap"
      /\ UNCHANGED <<init_done, pci_dev, dev_idx, modstate, bound, pci>>
  BY DEF Iomap, moduleVars
<1>2. \/ /\ vmem' = [vmem EXCEPT ![s][c] = d]
         /\ mapped' = [mapped EXCEPT ![d] = @ \cup {c}]
         /\ \/ c < 3 /\ Becomes(d, "pci_iomap", c + 1, rc)
            \/ c >= 3 /\ Becomes(d, "class_create", 0, rc)
      \/ /\ vmem' = [vmem EXCEPT ![s][c] = NULL]
         /\ mapped' = mapped
         /\ Becomes(d, "pci_iounmap", 0, -1)
  <2> HIDE DEF c, s, rc
  <2>1. ~(c < 3) => c >= 3
    BY <1>0 DEF Bars
  <2> QED
    BY <1>0, <2>1, Moves DEF Iomap, AfterBar, Labels, CdevLabels, CoreLabels, c,
       s, rc
<1>3. ProbeCall(d) /\ s = dev_idx /\ ~Published(d) /\ ~init_done[s]
  <2>1. ProbeCall(d)
    BY <1>1 DEF SlotInv, CallInv, RemoveCall, RemoveLabels
  <2>2. s = dev_idx /\ ~Published(d)
    BY <1>1, <2>1 DEF ProbeCall, HasPublished
  <2> QED
    BY <1>0, <2>1, <2>2 DEF ProbeCall, SlotInv, CountInv, TypeOK
<1>4. /\ \A t \in Slots, b \in Bars : t # s \/ b # c => vmem'[t][b] = vmem[t][b]
      /\ vmem'[s][c] \in {d, NULL}
      /\ mapped'[d] # mapped[d] => vmem'[s][c] = d
      /\ \A e \in Devices \ {d} : mapped'[e] = mapped[e]
  BY <1>0, <1>2
<1>5. CookieInv'
  <2>1. \A t \in Slots : init_done[t] => vmem'[t] = vmem[t]
    BY <1>0, <1>2, <1>3
  <2>2. \A e : Published(e)' <=> Published(e)
    BY <1>1 DEF Published
  <2>3. ASSUME NEW t \in Slots, NEW b \in Bars, modstate = "live"
        PROVE  /\ ~init_done[t] => ~Published(vmem'[t][b])
               /\ t > dev_idx => vmem'[t][b] = NULL
    <3>1. CASE t = s /\ b = c
      BY <1>3, <1>4, <3>1, NullUnpublished DEF TypeOK
    <3>2. CASE t # s \/ b # c
      BY <1>4, <2>3, <3>2 DEF PciInv, CookieInv
    <3> QED
      BY <3>1, <3>2
  <2>4. \A t \in Slots, b \in Bars : modstate' = "live" =>
           /\ ~init_done'[t] => ~Published(vmem[t][b])'
           /\ t > dev_idx' => vmem'[t][b] = NULL
    BY <1>1, <2>3 DEF Published
  <2> QED
    BY <1>1, <2>1, <2>4 DEF PciInv, CookieInv
<1>6. HoldingInv'
  <2>1. DeviceOK(d) /\ BarsOK(d)
    BY DEF PciInv, HoldingInv
  <2>2. ~HoldsBars(d) /\ mapped[d] = {b \in Bars : b < c}
    BY <1>1, <2>1 DEF BarsOK, HoldsBars, Done, CdevLabels
  <2>3. DeviceOK(d)'
    BY <1>1, <1>2, <2>1 DEF DeviceOK, HoldsDevice, HoldsRegions, HoldsBars, Done,
       CdevLabels, Becomes
  <2>4. \A b \in mapped'[d] : b \in Bars /\ vmem'[s][b] = d
    <3>1. \A b \in mapped[d] : b # c /\ b \in Bars /\ vmem[s][b] = d
      BY <1>0, <1>1, <2>1, <2>2 DEF BarsOK, Bars
    <3>2. \A b \in mapped'[d] : b \in mapped[d] \/ (b = c /\ vmem'[s][c] = d)
      BY <1>0, <1>2
    <3> QED
      BY <1>0, <1>4, <3>1, <3>2
  <2>5. BarsOK(d)'
    <3>1. CASE c < 3 /\ Becomes(d, "pci_iomap", c + 1, rc)
               /\ mapped' = [mapped EXCEPT ![d] = @ \cup {c}]
      <4>1. mapped'[d] = {b \in Bars : b < c + 1}
        BY <1>0, <2>2, <3>1 DEF Bars
      <4> QED
        BY <2>4, <3>1, <4>1
        DEF BarsOK, HoldsBars, Done, CdevLabels, Becomes, Cur
    <3>2. CASE c >= 3 /\ Becomes(d, "class_create", 0, rc)
               /\ mapped' = [mapped EXCEPT ![d] = @ \cup {c}]
      <4>1. mapped'[d] = Bars
        BY <1>0, <2>2, <3>2 DEF Bars
      <4> QED
        BY <2>4, <3>2, <4>1 DEF BarsOK, HoldsBars, Done, CdevLabels, Becomes
    <3>3. CASE Becomes(d, "pci_iounmap", 0, -1)
      <4>1. \A b \in mapped'[d] : b >= 0
        BY <2>4 DEF Bars
      <4> QED
        BY <2>4, <3>3, <4>1
        DEF BarsOK, HoldsBars, Done, CdevLabels, Becomes, Cur
    <3> QED
      BY <1>2, <3>1, <3>2, <3>3
  <2> QED
    BY <1>1, <1>2, <1>4, <2>3, <2>5, HoldingStep DEF PciInv, Becomes
<1> QED
  BY <1>5, <1>6 DEF PciInv

(* Unmapping works on the cookies of a slot: those of a remove are its own, *)
(* and a stale one that a failing probe meets is of a device that has no    *)
(* BAR mapped.                                                              *)
LEMMA IounmapPci ==
  ASSUME TypeOK, SlotInv, PciInv, NEW d \in Devices, Iounmap(d)
  PROVE  PciInv'
<1> USE DEF At, Idle, Slot
<1> DEFINE s == Slot(d)
           c == Cur(d)
           rc == frame[d].rc
<1>0. /\ mapped \in [Devices -> SUBSET Bars]
      /\ s \in Slots /\ c \in Bars /\ 0 \in Bars
      /\ c < 3 => c + 1 \in Bars
  BY FrameFacts DEF TypeOK
<1>1. /\ frame[d].pc = "pci_iounmap"
      /\ mapped' = [e \in Devices |-> IF e = vmem[s][c] THEN mapped[e] \ {c}
                                                       ELSE mapped[e]]
      /\ UNCHANGED <<vmem, init_done, pci_dev, dev_idx, modstate, bound, pci>>
  BY DEF Iounmap, recordVars, moduleVars
<1>2. \/ c < 3 /\ Becomes(d, "pci_iounmap", c + 1, rc)
      \/ c = 3 /\ Becomes(d, "pci_release_regions", 0, rc)
  <2>1. ~(c < 3) => c = 3
    BY <1>0 DEF Bars
  <2> QED
    BY <1>0, <2>1, Moves DEF Iounmap, AfterBar, Labels, CoreLabels
<1>3. CookieInv'
  BY <1>1, CookieSame DEF PciInv
<1>4. ASSUME NEW e \in Devices, e # d PROVE mapped'[e] = mapped[e]
  <2>1. Idle(e)
    BY <1>1, <1>4 DEF SlotInv, OneCall
  <2>2. CASE ProbeCall(d)
    <3>1. modstate = "live" /\ ~init_done[s]
      BY <1>0, <1>1, <2>2
      DEF ProbeCall, HasPublished, SlotInv, CountInv, TypeOK
    <3>2. e = vmem[s][c] => ~Published(e)
      BY <1>0, <3>1 DEF PciInv, CookieInv
    <3>3. ~Published(e) => ~bound[e]
      BY <2>1 DEF SlotInv, OwnerInv, Owns, Published
    <3>4. ~bound[e] => mapped[e] = {}
      BY <2>1 DEF PciInv, HoldingInv, BarsOK, HoldsBars, Done, CdevLabels
    <3> QED
      BY <1>1, <3>2, <3>3, <3>4
  <2>3. CASE RemoveCall(d)
    BY <1>0, <1>1, <1>4, <2>3 DEF RemoveCall, Owns, PciInv, CookieInv
  <2> QED
    BY <1>1, <2>2, <2>3 DEF SlotInv, CallInv
<1>5. DeviceOK(d) /\ BarsOK(d)
  BY DEF PciInv, HoldingInv
<1>6. /\ mapped'[d] = mapped[d] \ {c}
      /\ \A b \in mapped[d] : b \in Bars /\ b >= c /\ vmem[s][b] = d
  BY <1>0, <1>1, <1>5 DEF BarsOK
<1>7. DeviceOK(d)'
  BY <1>1, <1>2, <1>5 DEF DeviceOK, HoldsDevice, HoldsRegions, HoldsBars, Done,
     CdevLabels, Becomes
<1>8. BarsOK(d)'
  <2>1. CASE c < 3 /\ Becomes(d, "pci_iounmap", c + 1, rc)
    <3>1. \A b \in mapped'[d] : b >= c + 1
      BY <1>0, <1>6 DEF Bars
    <3> QED
      BY <1>1, <1>6, <2>1, <3>1
      DEF BarsOK, HoldsBars, Done, CdevLabels, Becomes, Cur
  <2>2. CASE c = 3 /\ Becomes(d, "pci_release_regions", 0, rc)
    <3>1. mapped'[d] = {}
      BY <1>0, <1>6, <2>2 DEF Bars
    <3> QED
      BY <2>2, <3>1 DEF BarsOK, HoldsBars, Done, CdevLabels, Becomes
  <2> QED
    BY <1>2, <2>1, <2>2
<1>9. HoldingInv'
  BY <1>1, <1>2, <1>4, <1>7, <1>8, HoldingStep DEF PciInv, Becomes
<1> QED
  BY <1>3, <1>9 DEF PciInv

(* The cookies of the slot a probe publishes are all its device's; the free *)
(* slots after it have never been used.                                     *)
LEMMA PublishPci ==
  ASSUME TypeOK, SlotInv, SlotInv', PciInv, NEW d \in Devices, Publish(d)
  PROVE  PciInv'
<1> USE McsAssumption DEF At, Idle, Slot
<1> DEFINE s == Slot(d)
<1>0. /\ pci_dev \in [Slots -> Devices \cup {NULL}]
      /\ init_done \in [Slots -> BOOLEAN]
      /\ dev_idx \in Int
      /\ s \in Slots
  BY DEF TypeOK, Frame
<1>1. /\ frame[d].pc = "publish"
      /\ pci_dev' = [pci_dev EXCEPT ![s] = d]
      /\ init_done' = [init_done EXCEPT ![s] = TRUE]
      /\ dev_idx' = dev_idx + 1
      /\ UNCHANGED <<vmem, modstate>>
  BY DEF Publish, pci_set_drvdata, CountDevice
<1>2. modstate = "live" /\ s = dev_idx
  BY <1>1 DEF SlotInv, CallInv, ProbeCall, HasPublished, RemoveCall, RemoveLabels
<1>3. \A b \in Bars : vmem[s][b] = d
  BY <1>1 DEF PciInv, HoldingInv, BarsOK, HoldsBars
<1>4. ~Published(NULL)'
  BY DEF SlotInv, OwnerInv, Published
<1>5. CookieInv'
  <2>1. ASSUME NEW t \in Slots, NEW b \in Bars
        PROVE  /\ init_done'[t] => vmem'[t][b] = pci_dev'[t]
               /\ ~init_done'[t] => ~Published(vmem[t][b])'
               /\ t > dev_idx' => vmem'[t][b] = NULL
    <3>1. CASE t = s
      BY <1>0, <1>1, <1>2, <1>3, <3>1
    <3>2. CASE t # s
      <4>1. init_done'[t] = init_done[t] /\ pci_dev'[t] = pci_dev[t]
        BY <1>0, <1>1, <3>2
      <4>2. t \in Int /\ (~init_done[t] => t > dev_idx)
        BY <1>0, <1>2, <3>2 DEF SlotInv, CountInv, Slots
      <4>3. t > dev_idx => vmem[t][b] = NULL
        BY <1>2 DEF PciInv, CookieInv
      <4>4. vmem[t][b] = NULL => ~Published(vmem[t][b])'
        BY <1>1, <1>4 DEF Published
      <4>5. init_done[t] => vmem[t][b] = pci_dev[t]
        BY DEF PciInv, CookieInv
      <4>6. t > dev_idx' => t > dev_idx
        BY <1>0, <1>1, <4>2
      <4> QED
        BY <1>1, <4>1, <4>2, <4>3, <4>4, <4>5, <4>6
    <3> QED
      BY <3>1, <3>2
  <2> QED
    BY <2>1 DEF CookieInv
<1> QED
  BY <1>5, QuietHolding DEF PciInv

(* A probe returns holding everything or nothing.                           *)
LEMMA ProbeReturnPci ==
  ASSUME TypeOK, SlotInv, PciInv, NEW d \in Devices, ProbeReturn(d)
  PROVE  PciInv'
<1> USE DEF At, Idle
<1>1. /\ frame[d].pc = "probe_ret"
      /\ bound' = [bound EXCEPT ![d] = (frame[d].rc = 0)]
      /\ frame'[d].pc = "idle"
      /\ \A e \in Devices \ {d} : frame'[e] = frame[e]
      /\ UNCHANGED <<vmem, init_done, pci_dev, dev_idx, modstate, pci, mapped>>
      /\ bound \in [Devices -> BOOLEAN]
  BY DEF TypeOK, ProbeReturn, Return, NoFrame, Call, recordVars, moduleVars
<1>2. DeviceOK(d) /\ BarsOK(d)
  BY DEF PciInv, HoldingInv
<1>3. DeviceOK(d)' /\ BarsOK(d)'
  BY <1>1, <1>2
  DEF DeviceOK, BarsOK, HoldsDevice, HoldsRegions, HoldsBars, Done, CdevLabels
<1>4. HoldingInv'
  BY <1>1, <1>3, HoldingStep DEF PciInv
<1> QED
  BY <1>1, <1>4, CookieSame DEF PciInv

(* A remove has given everything back; its slot keeps its cookies.          *)
LEMMA RetirePci ==
  ASSUME Tame, TypeOK, SlotInv, PciInv, NEW d \in Devices, Retire(d)
  PROVE  PciInv'
<1> USE McsAssumption DEF At, Idle, Slot
<1> DEFINE s == Slot(d)
<1>1. /\ frame[d].pc = "retire"
      /\ init_done' = [init_done EXCEPT ![s] = FALSE]
      /\ dev_idx' = dev_idx - 1
      /\ bound' = [bound EXCEPT ![d] = FALSE]
      /\ frame'[d].pc = "idle"
      /\ \A e \in Devices \ {d} : frame'[e] = frame[e]
      /\ UNCHANGED <<vmem, pci_dev, modstate, pci, mapped>>
      /\ bound \in [Devices -> BOOLEAN]
      /\ init_done \in [Slots -> BOOLEAN]
      /\ dev_idx \in Int
  BY DEF TypeOK, Retire, UncountDevice, Return, NoFrame, Call
<1>2. DeviceOK(d) /\ BarsOK(d)
  BY DEF PciInv, HoldingInv
<1>3. DeviceOK(d)' /\ BarsOK(d)'
  BY <1>1, <1>2
  DEF DeviceOK, BarsOK, HoldsDevice, HoldsRegions, HoldsBars, Done, CdevLabels
<1>4. HoldingInv'
  BY <1>1, <1>3, HoldingStep DEF PciInv
<1>5. \A t \in Slots : init_done'[t] => init_done[t]
  BY <1>1
<1>6. CASE modstate = "live"
  <2>1. RemoveCall(d)
    BY <1>1 DEF SlotInv, CallInv, ProbeCall
  <2>2. \A t \in Slots : t = 0
    BY <1>6, <2>1 DEF RemoveCall, Tame, Slots
  <2>3. s = 0 /\ s \in Slots /\ init_done[s]
    BY <2>1, <2>2 DEF RemoveCall, Owns
  <2>4. dev_idx' >= 0 /\ \A t \in Slots : ~init_done'[t]
    BY <1>1, <1>6, <2>2, <2>3 DEF SlotInv, CountInv
  <2>5. CookieInv'
    BY <1>1, <2>2, <2>4 DEF CookieInv, Published
  <2> QED
    BY <1>4, <2>5 DEF PciInv
<1>7. CASE modstate # "live"
  BY <1>1, <1>4, <1>5, <1>7 DEF PciInv, CookieInv
<1> QED
  BY <1>6, <1>7

(* A probe begins with nothing, a remove with everything.                   *)
LEMMA BeginPci ==
  ASSUME Tame, TypeOK, SlotInv, PciInv, NEW d \in Devices, Probe(d) \/ Remove(d)
  PROVE  PciInv'
<1> USE DEF At, Idle
<1>1. /\ AllIdle
      /\ frame \in [Devices -> Frame]
      /\ UNCHANGED <<vmem, init_done, pci_dev, dev_idx, modstate, pci, mapped,
                     bound>>
  BY BeginSlot DEF TypeOK, Probe, Remove, recordVars, moduleVars, pciVars
<1>2. DeviceOK(d) /\ BarsOK(d) /\ frame[d].pc = "idle"
  BY <1>1 DEF PciInv, HoldingInv, AllIdle
<1>3. \A e \in Devices \ {d} : frame'[e] = frame[e]
  BY <1>1 DEF Probe, Remove
<1>4. DeviceOK(d)' /\ BarsOK(d)'
  <2>1. CASE Probe(d)
    <3>1. frame'[d] = Call("pci_enable_device", "probe", dev_idx) /\ ~bound[d]
      BY <1>1, <2>1 DEF Probe
    <3> QED
      BY <1>1, <1>2, <3>1 DEF DeviceOK, BarsOK, HoldsDevice, HoldsRegions,
         HoldsBars, Done, CdevLabels, Call
  <2>2. CASE Remove(d)
    <3>1. /\ frame'[d] = Call("device_destroy", "remove", drvdata[d])
          /\ bound[d] /\ Owns(d)
      <4>1. Owns(d) /\ frame' = [frame EXCEPT ![d] =
                              Call("device_destroy", "remove", drvdata[d])]
        BY <2>2, BeginSlot DEF Probe, Remove, MayRemove
      <4> QED
        BY <1>1, <2>2, <4>1 DEF Remove, MayRemove
    <3>2. \A b \in Bars : vmem[drvdata[d]][b] = d
      BY <3>1 DEF Owns, PciInv, CookieInv
    <3> QED
      BY <1>1, <1>2, <3>1, <3>2 DEF DeviceOK, BarsOK, HoldsDevice, HoldsRegions,
         HoldsBars, Done, CdevLabels, Call, Slot
  <2> QED
    BY <2>1, <2>2
<1>5. HoldingInv'
  BY <1>1, <1>3, <1>4, HoldingStep DEF PciInv
<1> QED
  BY <1>1, <1>5, CookieSame DEF PciInv

(* A load clears the records, when no call works on them.                   *)
LEMMA ModulePci ==
  ASSUME TypeOK, SlotInv, PciInv, Module
  PROVE  PciInv'
<1>1. AllIdle /\ UNCHANGED <<frame, bound, pci, mapped>>
  BY ModuleSlot DEF Module, mcs9835_initialize, Unload, mcs9835_finalize, pciVars
<1>2. HoldingInv'
  BY <1>1 DEF PciInv, HoldingInv, DeviceOK, BarsOK, HoldsDevice, HoldsRegions,
     HoldsBars, Done, AllIdle, Idle, At, Cur
<1>3. CASE mcs9835_initialize
  <2>1. /\ \A s \in Slots : ~init_done'[s]
        /\ \A s \in Slots, b \in Bars : vmem'[s][b] = NULL
    BY <1>3 DEF mcs9835_initialize, NoCookies
  <2> QED
    BY <1>2, <2>1 DEF PciInv, CookieInv, Published
<1>4. CASE Unload \/ mcs9835_finalize
  <2>1. UNCHANGED <<vmem, init_done, pci_dev>> /\ modstate' # "live"
    BY <1>4 DEF Unload, mcs9835_finalize, recordVars
  <2> QED
    BY <1>2, <2>1 DEF PciInv, CookieInv
<1> QED
  BY <1>3, <1>4 DEF Module

LEMMA PciSame ==
  ASSUME PciInv, UNCHANGED <<recordVars, moduleVars, frame, pciVars>>
  PROVE  PciInv'
BY DEF recordVars, moduleVars, pciVars, PciInv, CookieInv, Published, HoldingInv,
   DeviceOK, BarsOK, HoldsDevice, HoldsRegions, HoldsBars, Done, Idle, At, Slot,
   Cur

LEMMA PciStep ==
  ASSUME Tame, TypeOK, SlotInv, SlotInv', PciInv, [Next]_vars
  PROVE  PciInv'
<1>1. ASSUME NEW d \in Devices, Handler(d) PROVE PciInv'
  <2>1. CASE QuietCall(d) /\ ~Iomap(d) /\ ~Iounmap(d)
    <3>1. HoldingInv'
      BY <2>1, QuietHolding, DeviceHolding DEF QuietCall, PciInv
    <3>2. UNCHANGED <<vmem, init_done, pci_dev, dev_idx, modstate>>
      BY <2>1 DEF QuietCall, EnableDevice, CheckBars, RequestRegions,
         mcs9835_cdev_initialize, InitializeReturned, mcs9835_cdev_create,
         AllocRegion, CdevAdd, DeviceCreate, ErrCreate, ErrAdd, CreateReturned,
         dump_dev_registers, mcs9835_cdev_destroy, DeviceDestroy, CdevDel,
         UnregisterRegion, DestroyReturned, mcs9835_cdev_finalize,
         ReleaseRegions, DisableDevice, recordVars, moduleVars
    <3> QED
      BY <3>1, <3>2, CookieSame DEF PciInv
  <2> QED
    BY <1>1, <2>1, IomapPci, IounmapPci, PublishPci, ProbeReturnPci, RetirePci
    DEF Handler, QuietCall
<1>2. ASSUME NEW d \in Devices, Probe(d) \/ Remove(d) PROVE PciInv'
  BY <1>2, BeginPci
<1>3. ASSUME NEW h \in Handles, FileOperation(h) PROVE PciInv'
  BY <1>3, FileQuiet, PciSame
<1>4. CASE UNCHANGED vars
  BY <1>4, PciSame DEF vars
<1> QED
  BY <1>1, <1>2, <1>3, <1>4, ModulePci DEF Next

LEMMA PciInit ==
  ASSUME Init
  PROVE  PciInv
<1>1. /\ \A d \in Devices : /\ Idle(d) /\ ~bound[d]
                            /\ pci[d] = {} /\ mapped[d] = {}
      /\ \A s \in Slots : ~init_done[s]
      /\ modstate = "absent"
  BY DEF Init, Idle, At, NoFrame, Call
<1>2. HoldingInv
  BY <1>1 DEF HoldingInv, DeviceOK, BarsOK, HoldsDevice, HoldsRegions, HoldsBars,
     Done, CdevLabels, Idle, At
<1>3. CookieInv
  BY <1>1 DEF CookieInv
<1> QED
  BY <1>2, <1>3 DEF PciInv

-----------------------------------------------------------------------------
(* What is registered of the character devices.                             *)

(* A step of a call touches the slot it works on only.                      *)
LEMMA WorkStep ==
  ASSUME SlotInv, ChrInv, NEW d \in Devices, ~Idle(d), ~Idle(d)',
         Slot(d)' = Slot(d),
         \A e \in Devices \ {d} : frame'[e] = frame[e],
         \A s \in Slots \ {Slot(d)} :
            /\ reg'[s] = reg[s] /\ have_cdev'[s] = have_cdev[s]
            /\ init_done'[s] = init_done[s] /\ class'[s] = class[s]
            /\ s \in classes' <=> s \in classes,
         \A s \in classes' :
            s \in classes \ {Slot(d)} \/ (s \in Slots /\ class'[s] = s),
         WorkOK(d)'
  PROVE  ChrInv'
<1>1. \A e \in Devices \ {d} : Idle(e) /\ Idle(e)'
  BY DEF SlotInv, OneCall, Idle, At
<1>2. ASSUME NEW s \in Slots, \A e \in Devices : ~WorksOn(e, s)'
      PROVE  RestOK(s)'
  <2>1. s # Slot(d)
    BY <1>2 DEF WorksOn
  <2>2. RestOK(s)
    BY <1>1, <2>1 DEF ChrInv, WorksOn
  <2> QED
    BY <2>1, <2>2 DEF RestOK, CdevIs
<1>3. \A s \in classes' : s \in Slots /\ class'[s] = s
  BY DEF ChrInv
<1> QED
  BY <1>1, <1>2, <1>3 DEF ChrInv

ChrRecord == <<reg, have_cdev, class, classes>>

(* A step that registers nothing moves between places where the same is     *)
(* registered.                                                              *)
LEMMA QuietWork ==
  ASSUME SlotInv, ChrInv, NEW d \in Devices, ~Idle(d), ~Idle(d)',
         Slot(d)' = Slot(d),
         \A e \in Devices \ {d} : frame'[e] = frame[e],
         \A s \in Slots \ {Slot(d)} : init_done'[s] = init_done[s],
         UNCHANGED ChrRecord,
         HasClass(d)' <=> HasClass(d),
         \A c \in Cdevs : /\ Whole(d, c)' <=> Whole(d, c)
                          /\ HasNumber(d, c)' <=> HasNumber(d, c)
                          /\ HasCdev(d, c)' <=> HasCdev(d, c)
                          /\ SaysCdev(d, c)' <=> SaysCdev(d, c)
  PROVE  ChrInv'
<1>1. UNCHANGED <<reg, have_cdev, class, classes>>
  BY DEF ChrRecord
<1>2. WorkOK(d)'
  BY <1>1 DEF ChrInv, WorkOK, CdevOK, CdevIs, HasNode
<1> QED
  BY <1>1, <1>2, WorkStep DEF ChrInv

(* Places where nothing is registered of the slot.                          *)
BareLabels == {"pci_enable_device", "check_bars", "pci_request_regions",
               "pci_iomap", "class_create", "pci_iounmap",
               "pci_release_regions", "pci_disable_device", "retire"}

Bare(d) ==
    \/ frame[d].pc \in BareLabels
    \/ frame[d].pc \in {"initialize_ret", "probe_ret"} /\ frame[d].rc = -1

LEMMA BareHasNothing ==
  ASSUME NEW d \in Devices, Bare(d)
  PROVE  /\ ~HasClass(d)
         /\ \A c \in Cdevs : /\ ~Whole(d, c) /\ ~HasNumber(d, c)
                              /\ ~HasCdev(d, c) /\ ~SaysCdev(d, c)
BY DEF Bare, BareLabels, HasClass, HasNumber, HasCdev, SaysCdev, HalfWay, Whole,
   Done, Idle, At, CreateLabels, DestroyLabels

LEMMA BareHasNothingNext ==
  ASSUME NEW d \in Devices, Bare(d)'
  PROVE  /\ ~HasClass(d)'
         /\ \A c \in Cdevs : /\ ~Whole(d, c)' /\ ~HasNumber(d, c)'
                              /\ ~HasCdev(d, c)' /\ ~SaysCdev(d, c)'
BY DEF Bare, BareLabels, HasClass, HasNumber, HasCdev, SaysCdev, HalfWay, Whole,
   Done, Idle, At, CreateLabels, DestroyLabels

(* The steps before the class is created and after it is destroyed.         *)
LEMMA BareWork ==
  ASSUME TypeOK, SlotInv, ChrInv, NEW d \in Devices,
         \/ EnableDevice(d) \/ CheckBars(d) \/ RequestRegions(d) \/ Iomap(d)
         \/ InitializeReturned(d) /\ frame[d].rc # 0
         \/ Iounmap(d) \/ ReleaseRegions(d) \/ DisableDevice(d)
  PROVE  ChrInv'
<1> USE DEF At, Idle, Slot, Becomes
<1> DEFINE c == Cur(d)
           rc == frame[d].rc
<1>1. /\ ~Idle(d)
      /\ UNCHANGED <<reg, have_cdev, class, classes, init_done>>
  BY DEF EnableDevice, CheckBars, RequestRegions, Iomap, InitializeReturned,
     Iounmap, ReleaseRegions, DisableDevice, recordVars, chrVars
<1>2. /\ c \in Bars /\ rc \in {0, -1} /\ 0 \in Bars
      /\ c < 3 => c + 1 \in Bars
  BY FrameFacts
<1>3. frame[d].pc \in FailedLabels /\ frame[d].op # "remove" => rc = -1
  BY <1>1 DEF SlotInv, CallInv, ProbeCall, RemoveCall
<1>4. /\ Bare(d)
      /\ \E l, n, r : Becomes(d, l, n, r) /\ l # "idle"
                    /\ (l \in BareLabels \/ (l = "probe_ret" /\ r = -1))
  <2> USE <1>2, Moves DEF Labels, CdevLabels, CoreLabels, BareLabels, Bare
  <2>1. CASE EnableDevice(d)
    BY <2>1 DEF EnableDevice
  <2>2. CASE CheckBars(d)
    BY <2>2 DEF CheckBars
  <2>3. CASE RequestRegions(d)
    BY <2>3 DEF RequestRegions
  <2>4. CASE Iomap(d)
    BY <2>4 DEF Iomap, AfterBar
  <2>5. CASE InitializeReturned(d) /\ rc # 0
    BY <2>5 DEF InitializeReturned
  <2>6. CASE Iounmap(d)
    BY <2>6 DEF Iounmap, AfterBar
  <2>7. CASE ReleaseRegions(d)
    BY <2>7 DEF ReleaseRegions
  <2>8. CASE DisableDevice(d)
    BY <1>3, <2>8 DEF DisableDevice, FailedLabels
  <2> QED
    BY <2>1, <2>2, <2>3, <2>4, <2>5, <2>6, <2>7, <2>8
<1>5. Bare(d)'
  BY <1>4 DEF Bare
<1> QED
  BY <1>1, <1>4, <1>5, BareHasNothing, BareHasNothingNext, QuietWork DEF ChrRecord

(* The steps between two cdevs, and after the last one.                     *)
LEMMA BetweenWork ==
  ASSUME TypeOK, SlotInv, ChrInv, NEW d \in Devices,
         \/ InitializeReturned(d) /\ frame[d].rc = 0
         \/ CreateReturned(d) \/ DestroyReturned(d)
         \/ Publish(d) \/ dump_dev_registers(d)
  PROVE  ChrInv'
<1> USE DEF At, Idle, Slot, Becomes
<1> DEFINE c == Cur(d)
           rc == frame[d].rc
           Same(e) == /\ HasClass(d)' <=> HasClass(d)
                      /\ Whole(d, e)' <=> Whole(d, e)
                      /\ HasNumber(d, e)' <=> HasNumber(d, e)
                      /\ HasCdev(d, e)' <=> HasCdev(d, e)
                      /\ SaysCdev(d, e)' <=> SaysCdev(d, e)
<1>1. /\ ~Idle(d)
      /\ UNCHANGED <<reg, have_cdev, class, classes>>
      /\ \A s \in Slots \ {Slot(d)} : init_done'[s] = init_done[s]
  BY DEF InitializeReturned, CreateReturned, DestroyReturned, Publish,
     dump_dev_registers, recordVars, chrVars, TypeOK
<1>2. /\ c \in Bars /\ rc \in {0, -1} /\ 0 \in Bars
      /\ UART_A \in Bars
      /\ c > UART_A => c - 1 \in Bars
      /\ c < PARPORT => c + 1 \in Bars
  BY FrameFacts
<1>3. frame[d].pc \in GoodLabels => rc = 0
  BY <1>1 DEF SlotInv, CallInv, ProbeCall, RemoveCall, RemoveLabels, GoodLabels
<1>4. /\ frame[d].op \in {"probe", "remove"}
      /\ frame[d].pc = "create_ret" => c \in Cdevs
  BY <1>1 DEF SlotInv, CallInv, ProbeCall, RemoveCall, CreateLabels
<1>5. \E l \in Labels \ {"idle"} : \E n, r :
         Becomes(d, l, n, r) /\ \A e \in Cdevs : Same(e)
  <2> USE <1>2, Moves DEF Labels, CdevLabels, CoreLabels
  <2> USE DEF HasClass, HasNumber, HasCdev, SaysCdev, HalfWay, Whole, Done,
              CreateLabels, DestroyLabels
  <2>1. CASE InitializeReturned(d) /\ rc = 0
    <3>1. frame[d].pc = "initialize_ret"
          /\ Becomes(d, "alloc_chrdev_region", 0, rc)
      BY <2>1 DEF InitializeReturned, UART_A
    <3>2. \A e \in Cdevs : ~(e < 0)
      BY DEF Cdevs, UART_A, PARPORT
    <3>3. \A e \in Cdevs : Same(e)
      BY <2>1, <3>1, <3>2 DEF Cur
    <3> QED
      BY <3>1, <3>3
  <2>2. CASE CreateReturned(d) /\ rc = 0 /\ c < PARPORT
    <3>1. frame[d].pc = "create_ret"
          /\ Becomes(d, "alloc_chrdev_region", c + 1, rc)
      BY <2>2 DEF CreateReturned
    <3>2. \A e \in Cdevs : e < c + 1 <=> e < c \/ e = c
      BY DEF Cdevs, UART_A, PARPORT, Bars
    <3>3. \A e \in Cdevs : Same(e)
      BY <2>2, <3>1, <3>2 DEF Cur
    <3> QED
      BY <3>1, <3>3
  <2>3. CASE CreateReturned(d) /\ rc = 0 /\ ~(c < PARPORT)
    <3>1. frame[d].pc = "create_ret" /\ Becomes(d, "publish", c, rc)
      BY <2>3 DEF CreateReturned
    <3>2. \A e \in Cdevs : e < c \/ e = c
      BY <1>4, <2>3, <3>1 DEF Cdevs, UART_A, PARPORT
    <3>3. \A e \in Cdevs : Same(e)
      BY <2>3, <3>1, <3>2 DEF Cur
    <3> QED
      BY <3>1, <3>3
  <2>4. ASSUME Unwind(d), \/ frame[d].pc = "create_ret" /\ rc # 0
                          \/ frame[d].pc = "destroy_ret" /\ frame[d].op = "probe",
               frame[d].op = "probe"
        PROVE  \E l \in Labels \ {"idle"} : \E n, r :
                  Becomes(d, l, n, r) /\ \A e \in Cdevs : Same(e)
    <3>1. CASE c > UART_A
      <4>1. Becomes(d, "device_destroy", c - 1, rc)
        BY <2>4, <3>1 DEF Unwind
      <4>2. \A e \in Cdevs : e < c <=> e < c - 1 \/ e = c - 1
        BY DEF Cdevs, UART_A, PARPORT, Bars
      <4>3. \A e \in Cdevs : Same(e)
        BY <2>4, <4>1, <4>2 DEF Cur
      <4> QED
        BY <4>1, <4>3
    <3>2. CASE ~(c > UART_A)
      <4>1. Becomes(d, "class_destroy", c, rc)
        BY <2>4, <3>2 DEF Unwind
      <4>2. \A e \in Cdevs : ~(e < c)
        BY <3>2 DEF Cdevs, UART_A, PARPORT, Bars
      <4>3. \A e \in Cdevs : Same(e)
        BY <2>4, <4>1, <4>2 DEF Cur
      <4> QED
        BY <4>1, <4>3
    <3> QED
      BY <3>1, <3>2
  <2>5. CASE CreateReturned(d) /\ rc # 0
    <3>1. frame[d].pc = "create_ret" /\ Unwind(d)
      BY <2>5 DEF CreateReturned
    <3>2. frame[d].op = "probe"
      BY <1>1, <3>1 DEF SlotInv, CallInv, ProbeCall, RemoveCall, RemoveLabels
    <3> QED
      BY <2>4, <2>5, <3>1, <3>2
  <2>6. CASE DestroyReturned(d) /\ frame[d].op # "remove"
    BY <1>4, <2>4, <2>6 DEF DestroyReturned
  <2>7. CASE DestroyReturned(d) /\ frame[d].op = "remove" /\ c < PARPORT
    <3>1. frame[d].pc = "destroy_ret" /\ Becomes(d, "device_destroy", c + 1, rc)
      BY <2>7 DEF DestroyReturned, DestroyNext
    <3>2. \A e \in Cdevs : e > c <=> e > c + 1 \/ e = c + 1
      BY DEF Cdevs, UART_A, PARPORT, Bars
    <3>3. \A e \in Cdevs : Same(e)
      BY <2>7, <3>1, <3>2 DEF Cur
    <3> QED
      BY <3>1, <3>3
  <2>8. CASE DestroyReturned(d) /\ frame[d].op = "remove" /\ ~(c < PARPORT)
    <3>1. frame[d].pc = "destroy_ret" /\ Becomes(d, "class_destroy", c, rc)
      BY <2>8 DEF DestroyReturned, DestroyNext
    <3>2. \A e \in Cdevs : ~(e > c)
      BY <2>8 DEF Cdevs, UART_A, PARPORT, Bars
    <3>3. \A e \in Cdevs : Same(e)
      BY <2>8, <3>1, <3>2 DEF Cur
    <3> QED
      BY <3>1, <3>3
  <2>9. CASE Publish(d) \/ dump_dev_registers(d)
    <3>1. \/ frame[d].pc = "publish" /\ Becomes(d, "dump", c, rc)
          \/ frame[d].pc = "dump" /\ Becomes(d, "probe_ret", c, rc)
      BY <2>9 DEF Publish, dump_dev_registers
    <3>2. rc = 0
      BY <1>3, <3>1 DEF GoodLabels
    <3>3. \A e \in Cdevs : Same(e)
      BY <3>1, <3>2
    <3> QED
      BY <3>1, <3>3
  <2> QED
    BY <2>1, <2>2, <2>3, <2>5, <2>6, <2>7, <2>8, <2>9
<1>6. UART_A \in Cdevs
  BY DEF Cdevs, UART_A, PARPORT
<1> QED
  BY <1>1, <1>5, <1>6, QuietWork DEF ChrRecord

(* The class is created under the slot's own index, which no class has, and *)
(* destroyed by it.                                                         *)
LEMMA ClassWork ==
  ASSUME TypeOK, SlotInv, ChrInv, NEW d \in Devices,
         mcs9835_cdev_initialize(d) \/ mcs9835_cdev_finalize(d)
  PROVE  ChrInv'
<1> USE McsAssumption DEF At, Idle, Slot, Becomes
<1> DEFINE s == Slot(d)
           c == Cur(d)
           rc == frame[d].rc
<1>1. /\ ~Idle(d)
      /\ UNCHANGED <<reg, have_cdev, init_done>>
      /\ class \in [Slots -> Int \cup {NULL, ERR_PTR}]
      /\ s \in Slots /\ c \in Bars /\ 0 \in Bars
  BY FrameFacts
  DEF mcs9835_cdev_initialize, mcs9835_cdev_finalize, recordVars, TypeOK
<1>2. /\ s \in classes <=> HasClass(d)
      /\ \A e \in Cdevs : CdevOK(d, e)
      /\ \A t \in classes : t \in Slots /\ class[t] = t
  BY <1>1 DEF ChrInv, WorkOK
<1>3. CASE mcs9835_cdev_initialize(d)
  <2>1. frame[d].pc = "class_create"
    BY <1>3 DEF mcs9835_cdev_initialize
  <2>2. s = dev_idx
    BY <2>1 DEF SlotInv, CallInv, ProbeCall, HasPublished, RemoveCall, RemoveLabels
  <2>3. Bare(d) /\ s \notin classes
    BY <1>2, <2>1, BareHasNothing DEF Bare, BareLabels
  <2>4. \/ /\ classes' = classes \cup {s} /\ class' = [class EXCEPT ![s] = s]
           /\ Becomes(d, "initialize_ret", c, rc) /\ rc = 0
        \/ /\ classes' = classes /\ class' = [class EXCEPT ![s] = ERR_PTR]
           /\ Becomes(d, "initialize_ret", c, -1)
    <3>1. rc = 0
      BY <1>1, <2>1
      DEF SlotInv, CallInv, ProbeCall, RemoveCall, RemoveLabels, GoodLabels
    <3>2. /\ Goto(d, "initialize_ret") => Becomes(d, "initialize_ret", c, rc)
          /\ FailTo(d, "initialize_ret", c) => Becomes(d, "initialize_ret", c, -1)
      BY <1>1, Moves DEF Labels, CdevLabels
    <3> QED
      BY <1>3, <2>2, <3>1, <3>2 DEF mcs9835_cdev_initialize
  <2>5. /\ s \in classes' <=> HasClass(d)'
        /\ \A t \in classes' : t \in classes \ {s} \/ (t \in Slots /\ class'[t] = t)
        /\ \A t \in Slots \ {s} : /\ class'[t] = class[t]
                                /\ t \in classes' <=> t \in classes
    BY <1>1, <1>2, <2>3, <2>4
    DEF HasClass, Done, CreateLabels, DestroyLabels
  <2>6. \A e \in Cdevs : CdevOK(d, e)'
    BY <1>1, <1>2, <2>1, <2>4
    DEF CdevOK, CdevIs, HasNumber, HasCdev, HasNode, SaysCdev, HalfWay, Whole,
        Done, CreateLabels, DestroyLabels
  <2>7. WorkOK(d)'
    BY <2>4, <2>5, <2>6 DEF WorkOK
  <2> QED
    BY <1>1, <2>4, <2>5, <2>7, WorkStep
<1>4. CASE mcs9835_cdev_finalize(d)
  <2>1. /\ frame[d].pc = "class_destroy"
        /\ Becomes(d, "pci_iounmap", 0, rc)
        /\ classes' = classes \ {class[s]}
        /\ class' = [class EXCEPT ![s] = NULL]
    BY <1>1, <1>4, Moves DEF mcs9835_cdev_finalize, ClassOf, Labels, CoreLabels
  <2>2. class[s] = s
    BY <1>2, <2>1 DEF HasClass
  <2>3. Bare(d)'
    BY <2>1 DEF Bare, BareLabels
  <2>4. \A e \in Cdevs : CdevOK(d, e)'
    <3>1. \A e \in Cdevs : /\ ~Whole(d, e) /\ ~HasNumber(d, e)
                           /\ ~HasCdev(d, e) /\ ~SaysCdev(d, e)
      BY <2>1 DEF HasNumber, HasCdev, SaysCdev, HalfWay, Whole, Done,
         CreateLabels, DestroyLabels
    <3> QED
      BY <1>1, <1>2, <2>1, <2>3, <3>1, BareHasNothingNext
      DEF CdevOK, CdevIs, HasNode
  <2>5. WorkOK(d)'
    BY <2>1, <2>2, <2>3, <2>4, BareHasNothingNext DEF WorkOK
  <2> QED
    BY <1>1, <1>2, <2>1, <2>2, <2>5, WorkStep
<1> QED
  BY <1>3, <1>4

(* A step that creates or destroys a part of a cdev leaves the other cdevs  *)
(* and the class alone.                                                     *)
LEMMA PartWork ==
  ASSUME SlotInv, ChrInv, NEW d \in Devices, NEW l, NEW r,
         Becomes(d, l, Cur(d), r),
         Slot(d) \in Slots,
         \/ frame[d].pc \in CreateLabels \ {"create_ret"} /\ l \in CreateLabels
         \/ frame[d].pc \in DestroyLabels /\ l \in DestroyLabels,
         UNCHANGED <<class, classes, init_done>>,
         \A s \in Slots \ {Slot(d)} : reg'[s] = reg[s] /\ have_cdev'[s] = have_cdev[s],
         \A c \in Cdevs \ {Cur(d)} : /\ reg'[Slot(d)][c] = reg[Slot(d)][c]
                                   /\ have_cdev'[Slot(d)][c] = have_cdev[Slot(d)][c],
         CdevOK(d, Cur(d))'
  PROVE  ChrInv'
<1> USE DEF At, Idle, Slot, Cur, Becomes
<1>1. ~Idle(d) /\ ~Idle(d)'
  BY DEF CreateLabels, DestroyLabels
<1>2. WorkOK(d)
  BY <1>1 DEF ChrInv
<1>3. HasClass(d) /\ HasClass(d)'
  BY DEF HasClass
<1>4. \A c \in Cdevs \ {Cur(d)} : CdevOK(d, c)'
  BY <1>1, <1>2 DEF WorkOK, CdevOK, CdevIs, HasNumber, HasCdev, HasNode, SaysCdev,
     HalfWay, Whole, Done, CreateLabels, DestroyLabels
<1>5. WorkOK(d)'
  BY <1>2, <1>3, <1>4 DEF WorkOK
<1> QED
  BY <1>1, <1>5, WorkStep DEF ChrInv

(* The parts of a cdev come and go one by one, and have_cdev is set exactly *)
(* while all of them are there or a remove still has to take some.          *)
LEMMA CdevWork ==
  ASSUME TypeOK, SlotInv, ChrInv, NEW d \in Devices,
         mcs9835_cdev_create(d) \/ mcs9835_cdev_destroy(d)
  PROVE  ChrInv'
<1> USE McsAssumption DEF At, Idle, Slot, Becomes
<1> DEFINE s == Slot(d)
           c == Cur(d)
           rc == frame[d].rc
<1>1. /\ ~Idle(d)
      /\ UNCHANGED <<class, classes, init_done>>
      /\ reg \in [Slots -> [Cdevs -> SUBSET ChrParts]]
      /\ have_cdev \in [Slots -> [Cdevs -> BOOLEAN]]
      /\ s \in Slots
      /\ frame[d].pc \in CreateLabels \cup DestroyLabels
  BY FrameFacts DEF mcs9835_cdev_create, AllocRegion, CdevAdd, DeviceCreate,
     ErrCreate, ErrAdd, mcs9835_cdev_destroy, DeviceDestroy, CdevDel,
     UnregisterRegion, recordVars, TypeOK, CreateLabels, DestroyLabels
<1>2. /\ c \in Bars /\ c \in Cdevs /\ ~(c < c) /\ ~(c > c)
      /\ frame[d].pc \in GoodLabels => rc = 0
      /\ frame[d].pc \in {"err_create", "err_add"} => rc = -1
  <2>1. c \in Cdevs
    BY <1>1 DEF SlotInv, CallInv
  <2>2. c \in Bars /\ c \in Int
    BY FrameFacts DEF Bars
  <2>3. /\ frame[d].pc \in GoodLabels => rc = 0
        /\ frame[d].pc \in {"err_create", "err_add"} => rc = -1
    BY <1>1 DEF SlotInv, CallInv, ProbeCall, RemoveCall, RemoveLabels, GoodLabels,
       FailedLabels
  <2> QED
    BY <2>1, <2>2, <2>3
<1>3. /\ CdevOK(d, c)
      /\ class[s] = s /\ class[s] \notin {NULL, ERR_PTR}
  BY <1>1, <1>2 DEF ChrInv, WorkOK, HasClass, Slots
<1>4. ASSUME NEW part, Register(d, part) \/ Unregister(d, part)
      PROVE  /\ \A t \in Slots \ {s} : reg'[t] = reg[t]
             /\ \A e \in Cdevs \ {c} : reg'[s][e] = reg[s][e]
  BY <1>1, <1>2, <1>4 DEF Register, Unregister
<1>5. ASSUME NEW part
       PROVE  /\ Register(d, part) => reg'[s][c] = reg[s][c] \cup {part}
              /\ Unregister(d, part) => reg'[s][c] = reg[s][c] \ {part}
  BY <1>1, <1>2 DEF Register, Unregister
<1>6. ASSUME NEW b, SetHaveCdev(d, b)
      PROVE  /\ \A t \in Slots \ {s} : have_cdev'[t] = have_cdev[t]
             /\ \A e \in Cdevs \ {c} : have_cdev'[s][e] = have_cdev[s][e]
             /\ have_cdev'[s][c] = b
  BY <1>1, <1>2, <1>6 DEF SetHaveCdev
<1> DEFINE Others ==
             /\ \A t \in Slots \ {s} :
                   reg'[t] = reg[t] /\ have_cdev'[t] = have_cdev[t]
             /\ \A e \in Cdevs \ {c} : /\ reg'[s][e] = reg[s][e]
                                       /\ have_cdev'[s][e] = have_cdev[s][e]
           Changes(parts, b) == reg'[s][c] = parts /\ have_cdev'[s][c] = b
<1> USE DEF CdevOK, CdevIs, HasNumber, HasCdev, HasNode, SaysCdev, HalfWay, Whole,
            Done, CreateLabels, DestroyLabels
<1>7. CASE AllocRegion(d)
  <2>1. frame[d].pc = "alloc_chrdev_region"
    BY <1>7 DEF AllocRegion
  <2>2. /\ Others
        /\ \/ /\ Becomes(d, "cdev_add", c, rc)
              /\ Changes(reg[s][c] \cup {"number"}, have_cdev[s][c])
           \/ /\ Becomes(d, "create_ret", c, -1)
              /\ Changes(reg[s][c], FALSE)
    <3>1. CASE Register(d, "number") /\ Goto(d, "cdev_add") /\ UNCHANGED have_cdev
      BY <1>2, <1>4, <1>5, <3>1, Moves DEF Labels, CdevLabels
    <3>2. CASE SetHaveCdev(d, FALSE) /\ FailTo(d, "create_ret", c) /\ UNCHANGED reg
      <4>1. Becomes(d, "create_ret", c, -1)
        BY <1>2, <3>2, Moves DEF Labels, CdevLabels
      <4>2. Others /\ Changes(reg[s][c], FALSE)
        BY <1>6, <3>2
      <4> QED
        BY <4>1, <4>2
    <3> QED
      BY <1>7, <3>1, <3>2 DEF AllocRegion
  <2>3. CdevOK(d, c)'
    BY <1>2, <1>3, <2>1, <2>2 DEF Cur
  <2> QED
    BY <1>1, <2>1, <2>2, <2>3, PartWork
<1>8. CASE CdevAdd(d)
  <2>1. frame[d].pc = "cdev_add" /\ UNCHANGED have_cdev
    BY <1>8 DEF CdevAdd, recordVars
  <2>2. /\ Others
        /\ \/ /\ Becomes(d, "device_create", c, rc)
              /\ Changes(reg[s][c] \cup {"cdev"}, have_cdev[s][c])
           \/ /\ Becomes(d, "err_add", c, -1)
              /\ Changes(reg[s][c], have_cdev[s][c])
    <3>1. CASE Register(d, "cdev") /\ Goto(d, "device_create")
      BY <1>2, <1>4, <1>5, <2>1, <3>1, Moves DEF Labels, CdevLabels
    <3>2. CASE FailTo(d, "err_add", c) /\ UNCHANGED reg
      BY <1>2, <2>1, <3>2, Moves DEF Labels, CdevLabels
    <3> QED
      BY <1>8, <3>1, <3>2 DEF CdevAdd
  <2>3. CdevOK(d, c)'
    BY <1>2, <1>3, <2>1, <2>2 DEF Cur
  <2> QED
    BY <1>1, <2>1, <2>2, <2>3, PartWork
<1>9. CASE DeviceCreate(d)
  <2>1. frame[d].pc = "device_create"
    BY <1>9 DEF DeviceCreate
  <2>2. /\ Others
        /\ \/ /\ Becomes(d, "create_ret", c, rc)
              /\ Changes(reg[s][c] \cup {"node"}, TRUE)
           \/ /\ Becomes(d, "err_create", c, -1)
              /\ Changes(reg[s][c], have_cdev[s][c])
    <3>1. CASE Register(d, "node") /\ SetHaveCdev(d, TRUE) /\ Goto(d, "create_ret")
      BY <1>2, <1>4, <1>5, <1>6, <3>1, Moves DEF Labels, CdevLabels
    <3>2. CASE FailTo(d, "err_create", c) /\ UNCHANGED <<reg, have_cdev>>
      BY <1>2, <3>2, Moves DEF Labels, CdevLabels
    <3> QED
      BY <1>9, <3>1, <3>2 DEF DeviceCreate
  <2>3. CdevOK(d, c)'
    BY <1>2, <1>3, <2>1, <2>2 DEF Cur, GoodLabels
  <2> QED
    BY <1>1, <2>1, <2>2, <2>3, PartWork
<1>10. CASE ErrCreate(d)
  <2>1. frame[d].pc = "err_create" /\ UNCHANGED have_cdev
    BY <1>10 DEF ErrCreate, recordVars
  <2>2. /\ Others /\ Becomes(d, "err_add", c, rc)
        /\ Changes(reg[s][c] \ {"cdev"}, have_cdev[s][c])
    BY <1>2, <1>4, <1>5, <1>10, <2>1, Moves DEF ErrCreate, Labels, CdevLabels
  <2>3. CdevOK(d, c)'
    BY <1>2, <1>3, <2>1, <2>2 DEF Cur
  <2> QED
    BY <1>1, <2>1, <2>2, <2>3, PartWork
<1>11. CASE ErrAdd(d)
  <2>1. frame[d].pc = "err_add"
    BY <1>11 DEF ErrAdd
  <2>2. /\ Others /\ Becomes(d, "create_ret", c, rc)
        /\ Changes(reg[s][c] \ {"number"}, FALSE)
    BY <1>2, <1>4, <1>5, <1>6, <1>11, Moves DEF ErrAdd, Labels, CdevLabels
  <2>3. CdevOK(d, c)'
    BY <1>2, <1>3, <2>1, <2>2 DEF Cur
  <2> QED
    BY <1>1, <2>1, <2>2, <2>3, PartWork
<1>12. CASE DeviceDestroy(d)
  <2>1. frame[d].pc = "device_destroy" /\ UNCHANGED have_cdev
    BY <1>12 DEF DeviceDestroy, recordVars
  <2>2. have_cdev[s][c]
    BY <1>3, <2>1 DEF Cur
  <2>3. /\ Others /\ Becomes(d, "cdev_del", c, rc)
        /\ Changes(reg[s][c] \ {"node"}, have_cdev[s][c])
    <3>1. Unregister(d, "node")
      BY <1>3, <1>12, <2>2 DEF DeviceDestroy, HaveCdev, ClassOf
    <3> QED
      BY <1>2, <1>4, <1>5, <1>12, <2>1, <3>1, Moves
      DEF DeviceDestroy, Labels, CdevLabels
  <2>4. CdevOK(d, c)'
    BY <1>2, <1>3, <2>1, <2>3 DEF Cur
  <2> QED
    BY <1>1, <2>1, <2>3, <2>4, PartWork
<1>13. CASE CdevDel(d)
  <2>1. frame[d].pc = "cdev_del" /\ UNCHANGED have_cdev
    BY <1>13 DEF CdevDel, recordVars
  <2>2. have_cdev[s][c]
    BY <1>3, <2>1 DEF Cur
  <2>3. /\ Others /\ Becomes(d, "unregister_chrdev_region", c, rc)
        /\ Changes(reg[s][c] \ {"cdev"}, have_cdev[s][c])
    <3>1. Unregister(d, "cdev")
      BY <1>13, <2>2 DEF CdevDel, HaveCdev
    <3> QED
      BY <1>2, <1>4, <1>5, <1>13, <2>1, <3>1, Moves
      DEF CdevDel, Labels, CdevLabels
  <2>4. CdevOK(d, c)'
    BY <1>2, <1>3, <2>1, <2>3 DEF Cur
  <2> QED
    BY <1>1, <2>1, <2>3, <2>4, PartWork
<1>14. CASE UnregisterRegion(d)
  <2>1. frame[d].pc = "unregister_chrdev_region"
    BY <1>14 DEF UnregisterRegion
  <2>2. have_cdev[s][c]
    BY <1>3, <2>1 DEF Cur
  <2>3. /\ Others /\ Becomes(d, "destroy_ret", c, rc)
        /\ Changes(reg[s][c] \ {"number"}, FALSE)
    <3>1. Unregister(d, "number")
      BY <1>14, <2>2 DEF UnregisterRegion, HaveCdev
    <3> QED
      BY <1>2, <1>4, <1>5, <1>6, <1>14, <2>1, <3>1, Moves
      DEF UnregisterRegion, Labels, CdevLabels
  <2>4. CdevOK(d, c)'
    BY <1>2, <1>3, <2>1, <2>3 DEF Cur
  <2> QED
    BY <1>1, <2>1, <2>3, <2>4, PartWork
<1> QED
  BY <1>7, <1>8, <1>9, <1>10, <1>11, <1>12, <1>13, <1>14
  DEF mcs9835_cdev_create, mcs9835_cdev_destroy

(* A slot that a call takes up or leaves stands as the rest do.             *)
LEMMA ChrRest ==
  ASSUME SlotInv, ChrInv, AllIdle, NEW s \in Slots
  PROVE  RestOK(s)
BY DEF AllIdle, ChrInv, WorksOn

(* A probe takes up an empty slot, a remove a complete one.                 *)
LEMMA BeginChr ==
  ASSUME Tame, TypeOK, SlotInv, ChrInv, NEW d \in Devices, Probe(d) \/ Remove(d)
  PROVE  ChrInv'
<1> USE DEF At, Idle
<1>1. /\ AllIdle
      /\ frame \in [Devices -> Frame]
      /\ UNCHANGED <<reg, have_cdev, class, classes, init_done>>
      /\ \A e \in Devices \ {d} : frame'[e] = frame[e]
  BY BeginSlot DEF TypeOK, Probe, Remove, recordVars, chrVars
<1>2. \A s \in Slots : RestOK(s) /\ RestOK(s)'
  BY <1>1, ChrRest DEF RestOK, CdevIs
<1>3. \A s \in classes' : s \in Slots /\ class'[s] = s
  BY <1>1 DEF ChrInv
<1>4. \A e \in Devices : ~Idle(e)' => e = d
  BY <1>1 DEF AllIdle
<1>5. WorkOK(d)'
  <2>1. CASE Probe(d)
    <3>1. frame'[d] = Call("pci_enable_device", "probe", dev_idx)
          /\ dev_idx \in Slots /\ modstate = "live"
      <4>1. dev_idx \in Nat /\ dev_idx < MAX_DEVICES
        BY <2>1, CounterNatural DEF SlotInv, Probe
      <4>2. dev_idx \in Slots
        BY <4>1, McsAssumption DEF Slots
      <4> QED
        BY <1>1, <2>1, <4>2 DEF Probe
    <3>2. Slot(d)' = dev_idx /\ ~init_done[dev_idx] /\ Bare(d)'
      BY <3>1 DEF Slot, Call, SlotInv, CountInv, Slots, Bare, BareLabels
    <3>3. RestOK(dev_idx)
      BY <1>2, <3>1
    <3> QED
      BY <1>1, <3>2, <3>3, BareHasNothingNext
      DEF RestOK, WorkOK, CdevOK, CdevIs, HasNode
  <2>2. CASE Remove(d)
    <3>1. Owns(d) /\ frame' = [frame EXCEPT ![d] =
                            Call("device_destroy", "remove", drvdata[d])]
      BY <2>2, BeginSlot DEF Probe, Remove, MayRemove
    <3>2. /\ frame'[d] = Call("device_destroy", "remove", drvdata[d])
          /\ Slot(d)' = drvdata[d] /\ drvdata[d] \in Slots
          /\ init_done[drvdata[d]]
      BY <1>1, <3>1 DEF Slot, Call, Owns
    <3>3. RestOK(drvdata[d])
      BY <1>2, <3>2
    <3>4. HasClass(d)'
      BY <3>2 DEF HasClass, Call, DestroyLabels
    <3>5. \A c \in Cdevs : Whole(d, c)'
      <4>1. \A c \in Cdevs : c > 0 \/ c = 0
        BY DEF Cdevs, UART_A, PARPORT
      <4> QED
        BY <3>2, <4>1 DEF Whole, Call, Cur, DestroyLabels
    <3> QED
      BY <1>1, <3>2, <3>3, <3>4, <3>5
      DEF RestOK, WorkOK, CdevOK, CdevIs, HasNumber, HasCdev, HasNode, SaysCdev
  <2> QED
    BY <2>1, <2>2
<1> QED
  BY <1>2, <1>3, <1>4, <1>5 DEF ChrInv

(* A call leaves its slot complete and published, or empty and not.         *)
LEMMA EndChr ==
  ASSUME Tame, TypeOK, SlotInv, ChrInv, NEW d \in Devices,
         ProbeReturn(d) \/ Retire(d)
  PROVE  ChrInv'
<1> USE DEF At, Idle
<1>0. PICK s \in Slots : s = Slot(d)
  BY FrameFacts
<1>1. /\ ~Idle(d)
      /\ UNCHANGED <<reg, have_cdev, class, classes>>
      /\ \A t \in Slots \ {s} : init_done'[t] = init_done[t]
      /\ AllIdle'
  BY <1>0, ProbeReturnSlot, RetireSlot
  DEF TypeOK, ProbeReturn, Retire, recordVars, chrVars
<1>2. WorkOK(d)
  BY <1>0, <1>1 DEF ChrInv
<1>3. RestOK(s)'
  <2>1. CASE ProbeReturn(d)
    <3>1. /\ frame[d].pc = "probe_ret" /\ frame[d].rc \in {0, -1}
          /\ init_done' = init_done
      BY <2>1, FrameFacts DEF ProbeReturn, recordVars
    <3>2. ProbeCall(d)
      BY <3>1 DEF SlotInv, CallInv, RemoveCall, RemoveLabels
    <3>3. CASE frame[d].rc = 0
      <4>1. init_done[s]
        BY <1>0, <3>1, <3>2, <3>3 DEF ProbeCall, HasPublished, Owns
      <4>2. HasClass(d) /\ \A c \in Cdevs : Whole(d, c)
        BY <3>1, <3>3 DEF HasClass, Whole, Done
      <4> QED
        BY <1>0, <1>1, <1>2, <3>1, <4>1, <4>2 DEF RestOK, WorkOK, CdevOK, CdevIs,
           HasNumber, HasCdev, HasNode, SaysCdev
    <3>4. CASE frame[d].rc = -1
      <4>1. ~init_done[s]
        BY <1>0, <1>1, <3>1, <3>2, <3>4
        DEF ProbeCall, HasPublished, SlotInv, CountInv, TypeOK
      <4>2. Bare(d)
        BY <3>1, <3>4 DEF Bare
      <4> QED
        BY <1>0, <1>1, <1>2, <3>1, <4>1, <4>2, BareHasNothing
        DEF RestOK, WorkOK, CdevOK, CdevIs, HasNode
    <3> QED
      BY <3>1, <3>3, <3>4
  <2>2. CASE Retire(d)
    <3>1. Bare(d) /\ ~init_done'[s]
      BY <1>0, <1>1, <2>2 DEF Retire, Bare, BareLabels, TypeOK
    <3> QED
      BY <1>0, <1>1, <1>2, <3>1, BareHasNothing
      DEF RestOK, WorkOK, CdevOK, CdevIs, HasNode
  <2> QED
    BY <2>1, <2>2
<1>4. ASSUME NEW t \in Slots, t # s PROVE RestOK(t)'
  <2>1. \A e \in Devices : ~WorksOn(e, t)
    BY <1>0, <1>1, <1>4 DEF WorksOn, SlotInv, OneCall
  <2>2. RestOK(t)
    BY <2>1 DEF ChrInv
  <2> QED
    BY <1>0, <1>1, <1>4, <2>2 DEF RestOK, CdevIs
<1>5. \A t \in classes' : t \in Slots /\ class'[t] = t
  BY <1>0, <1>1 DEF ChrInv
<1> QED
  BY <1>0, <1>1, <1>3, <1>4, <1>5 DEF ChrInv, AllIdle

(* A load clears the records of a module that has registered nothing.       *)
LEMMA ModuleChr ==
  ASSUME TypeOK, SlotInv, ChrInv, Module
  PROVE  ChrInv'
<1>1. AllIdle /\ AllIdle' /\ UNCHANGED <<reg, classes>>
  BY ModuleSlot DEF Module, mcs9835_initialize, Unload, mcs9835_finalize, chrVars
<1>2. \A s \in Slots : RestOK(s)
  BY <1>1, ChrRest
<1>3. \A s \in classes : s \in Slots /\ class[s] = s
  BY DEF ChrInv
<1>4. CASE mcs9835_initialize
  <2>1. /\ \A s \in Slots : ~init_done[s] /\ ~init_done'[s]
        /\ \A s \in Slots, c \in Cdevs : ~have_cdev'[s][c]
    BY <1>1, <1>4
    DEF mcs9835_initialize, NoCdevs, SlotInv, OwnerInv, AllIdle
  <2>2. \A s \in Slots : RestOK(s)'
    BY <1>1, <1>2, <2>1 DEF RestOK, CdevIs
  <2>3. classes' = {}
    BY <1>1, <1>2, <1>3, <2>1 DEF RestOK
  <2> QED
    BY <1>1, <2>2, <2>3 DEF ChrInv, AllIdle
<1>5. CASE Unload \/ mcs9835_finalize
  <2>1. UNCHANGED <<init_done, have_cdev, class>>
    BY <1>5 DEF Unload, mcs9835_finalize, recordVars
  <2>2. \A s \in Slots : RestOK(s)'
    BY <1>1, <1>2, <2>1 DEF RestOK, CdevIs
  <2> QED
    BY <1>1, <1>3, <2>1, <2>2 DEF ChrInv, AllIdle
<1> QED
  BY <1>4, <1>5 DEF Module

LEMMA ChrSame ==
  ASSUME ChrInv, UNCHANGED <<recordVars, moduleVars, frame, pciVars, chrVars>>
  PROVE  ChrInv'
<1>1. UNCHANGED <<class, have_cdev, init_done, frame, bound, classes, reg>>
  BY DEF recordVars, pciVars, chrVars
<1>2. /\ \A s \in Slots : RestOK(s)' <=> RestOK(s)
      /\ \A d, s : WorksOn(d, s)' <=> WorksOn(d, s)
  BY <1>1 DEF RestOK, CdevIs, WorksOn, Idle, At, Slot
<1>3. \A d \in Devices : WorkOK(d)' <=> WorkOK(d)
  BY <1>1 DEF WorkOK, CdevOK, CdevIs, HasNumber, HasCdev, HasNode, SaysCdev,
     HalfWay, Whole, Done, HasClass, Idle, At, Slot, Cur
<1> QED
  BY <1>1, <1>2, <1>3 DEF ChrInv, Idle, At

LEMMA ChrStep ==
  ASSUME Tame, TypeOK, SlotInv, ChrInv, [Next]_vars
  PROVE  ChrInv'
<1>1. ASSUME NEW d \in Devices, Handler(d) PROVE ChrInv'
  <2>1. CASE InitializeReturned(d)
    BY <2>1, BareWork, BetweenWork
  <2> QED
    BY <1>1, <2>1, BareWork, BetweenWork, ClassWork, CdevWork, EndChr DEF Handler
<1>2. ASSUME NEW d \in Devices, Probe(d) \/ Remove(d) PROVE ChrInv'
  BY <1>2, BeginChr
<1>3. ASSUME NEW h \in Handles, FileOperation(h) PROVE ChrInv'
  BY <1>3, FileQuiet, ChrSame
<1>4. CASE UNCHANGED vars
  BY <1>4, ChrSame DEF vars
<1> QED
  BY <1>1, <1>2, <1>3, <1>4, ModuleChr DEF Next

LEMMA ChrInit ==
  ASSUME Init
  PROVE  ChrInv
<1>1. /\ \A d \in Devices : Idle(d)
      /\ \A s \in Slots : ~init_done[s]
      /\ \A s \in Slots, c \in Cdevs : reg[s][c] = {} /\ ~have_cdev[s][c]
      /\ classes = {}
  BY DEF Init, Idle, At, NoFrame, Call, NoCdevs
<1> QED
  BY <1>1 DEF ChrInv, RestOK, CdevIs

-----------------------------------------------------------------------------
(* The theorems.                                                            *)

LEMMA LedgerStep ==
  ASSUME Tame, LedgerInv, [Next]_vars
  PROVE  LedgerInv'
BY TypeStep, CounterNatural, SlotStep, PciStep, ChrStep DEF LedgerInv, SlotInv

(* The ledger agrees with the records and with every place a call can stand *)
(* at, for any number of devices, files and slots.                          *)
THEOREM LedgerInvariance ==
  ASSUME ~Concurrent, HotUnbind => MAX_DEVICES = 1
  PROVE  Spec => []LedgerInv
<1>1. Init => LedgerInv
  BY TypeInit, SlotInit, PciInit, ChrInit DEF LedgerInv
<1>2. LedgerInv /\ [Next]_vars => LedgerInv'
  BY LedgerStep DEF Tame
<1> QED
  BY <1>1, <1>2, PTL DEF Spec

(* With nothing in flight every slot rests, complete or empty.              *)
LEMMA LedgerAllOrNothing ==
  ASSUME LedgerInv
  PROVE  AllOrNothing
<1>1. ASSUME NEW d \in Devices, Idle(d)
      PROVE  /\ pci[d] = IF bound[d] THEN {"enabled", "regions"} ELSE {}
             /\ mapped[d] = IF bound[d] THEN Bars ELSE {}
  <2>1. frame[d].pc = "idle" /\ DeviceOK(d) /\ BarsOK(d)
    BY <1>1 DEF LedgerInv, PciInv, HoldingInv, Idle, At
  <2>2. /\ HoldsBars(d) <=> bound[d]
        /\ HoldsRegions(d) <=> bound[d]
        /\ HoldsDevice(d) <=> bound[d]
    BY <2>1 DEF HoldsDevice, HoldsRegions, HoldsBars, Done, Idle, At, CdevLabels
  <2> QED
    BY <2>1, <2>2 DEF DeviceOK, BarsOK
<1>2. ASSUME AllIdle, NEW s \in Slots, NEW c \in Cdevs
      PROVE  /\ reg[s][c] = IF init_done[s] THEN ChrParts ELSE {}
             /\ have_cdev[s][c] = init_done[s]
  <2>1. RestOK(s)
    BY <1>2, ChrRest DEF LedgerInv
  <2>2. /\ reg[s][c] \subseteq ChrParts
        /\ have_cdev[s][c] \in BOOLEAN /\ init_done[s] \in BOOLEAN
    BY DEF LedgerInv, TypeOK
  <2> QED
    BY <2>1, <2>2 DEF RestOK, CdevIs, ChrParts
<1> QED
  BY <1>1, <1>2 DEF AllOrNothing

(* What is registered of a slot, worked on or not, and who has it.          *)
LEMMA SlotCases ==
  ASSUME LedgerInv, NEW s \in Slots
  PROVE  \/ RestOK(s) /\ \A d \in Devices : ~WorksOn(d, s)
         \/ \E d \in Devices : ~Idle(d) /\ Slot(d) = s /\ WorkOK(d)
BY DEF LedgerInv, ChrInv, WorksOn

LEMMA LedgerLayering ==
  ASSUME LedgerInv
  PROVE  CdevLayering
<1> SUFFICES ASSUME NEW s \in Slots, NEW c \in Cdevs
    PROVE  /\ "cdev" \in reg[s][c] => "number" \in reg[s][c]
           /\ "node" \in reg[s][c] => "cdev" \in reg[s][c] /\ class[s] \in classes
  BY DEF CdevLayering
<1>1. s \in classes => class[s] \in classes
  BY DEF LedgerInv, ChrInv
<1>2. CASE RestOK(s)
  BY <1>1, <1>2 DEF RestOK, CdevIs
<1>3. ASSUME NEW d \in Devices, ~Idle(d), Slot(d) = s, WorkOK(d)
      PROVE  /\ "cdev" \in reg[s][c] => "number" \in reg[s][c]
             /\ "node" \in reg[s][c] => "cdev" \in reg[s][c] /\ s \in classes
  <2>1. Whole(d, c) => HasClass(d)
    BY DEF Whole, HasClass, At, CreateLabels, DestroyLabels
  <2>2. HasCdev(d, c) => HasNumber(d, c)
    BY DEF HasCdev, HasNumber, HalfWay
  <2> QED
    BY <1>3, <2>1, <2>2 DEF WorkOK, CdevOK, CdevIs, HasNode, HasCdev
<1> QED
  BY <1>1, <1>2, <1>3, SlotCases

LEMMA LedgerOpenable ==
  ASSUME LedgerInv
  PROVE  OpenableIsMapped
<1> SUFFICES ASSUME NEW s \in Slots, "cdev" \in reg[s][PARPORT]
             PROVE  \E d \in Devices : OwnPort(s, 2, d)
  BY DEF OpenableIsMapped
<1>1. PARPORT \in Cdevs /\ 2 \in Bars
  BY DEF Cdevs, UART_A, PARPORT, Bars
<1>2. CASE RestOK(s) /\ \A d \in Devices : ~WorksOn(d, s)
  <2>1. init_done[s]
    BY <1>1, <1>2 DEF RestOK, CdevIs
  <2> DEFINE d == pci_dev[s]
  <2>3. d \in Devices /\ drvdata[d] = s
    BY <2>1 DEF LedgerInv, SlotInv, OwnerInv
  <2>4. Idle(d)
    BY <1>2, <2>1, <2>3
    DEF LedgerInv, SlotInv, CallInv, ProbeCall, RemoveCall, Published, WorksOn
  <2>5. bound[d]
    BY <2>1, <2>4 DEF LedgerInv, SlotInv, OwnerInv
  <2>6. mapped[d] = Bars
    BY <2>3, <2>4, <2>5 DEF LedgerInv, PciInv, HoldingInv, BarsOK, HoldsBars, Done
  <2>7. vmem[s][2] = d
    BY <1>1, <2>1 DEF LedgerInv, PciInv, CookieInv
  <2> QED
    BY <1>1, <2>3, <2>6, <2>7 DEF OwnPort
<1>3. ASSUME NEW d \in Devices, ~Idle(d), Slot(d) = s, WorkOK(d)
      PROVE  OwnPort(s, 2, d)
  <2>1. HasCdev(d, PARPORT)
    BY <1>1, <1>3 DEF WorkOK, CdevOK, CdevIs
  <2>2. HoldsBars(d)
    BY <1>3, <2>1 DEF HasCdev, Whole, HalfWay, HoldsBars, CdevLabels, At,
       CreateLabels, DestroyLabels
  <2>3. BarsOK(d)
    BY DEF LedgerInv, PciInv, HoldingInv
  <2> QED
    BY <1>1, <1>3, <2>2, <2>3 DEF BarsOK, OwnPort
<1> QED
  BY <1>2, <1>3, SlotCases

(* A bound device with no call in flight owns a slot.                       *)
LEMMA LedgerRemove ==
  ASSUME LedgerInv
  PROVE  RemoveTearsDownOwn
<1>1. \A d \in Devices : bound[d] /\ Idle(d) => Owns(d)
  BY DEF LedgerInv, SlotInv, OwnerInv
<1>2. NULL \notin Slots
  BY McsAssumption DEF Slots
<1> QED
  BY <1>1, <1>2 DEF RemoveTearsDownOwn, Owns

LEMMA LedgerStack ==
  ASSUME LedgerInv
  PROVE  SlotStack
BY InUseFinite DEF LedgerInv, SlotInv, CountInv, SlotStack

(* A call that is about to follow its class pointer stands where its slot   *)
(* has a class, and the pointer of a slot that has one is that of the class. *)
LEMMA LedgerClass ==
  ASSUME LedgerInv
  PROVE  ClassUsable
<1>1. ASSUME NEW d \in Devices,
             frame[d].pc \in {"device_create", "device_destroy", "class_destroy"}
      PROVE  ClassOf(d) \in classes
  <2>1. ~Idle(d)
    BY <1>1 DEF Idle, At
  <2>2. HasClass(d)
    BY <1>1 DEF HasClass, CreateLabels, DestroyLabels
  <2>3. WorkOK(d)
    BY <2>1 DEF LedgerInv, ChrInv
  <2>4. Slot(d) \in classes
    BY <2>2, <2>3 DEF WorkOK
  <2> QED
    BY <2>4 DEF LedgerInv, ChrInv, ClassOf
<1> QED
  BY <1>1 DEF ClassUsable, At

(* Without a module no call is in flight and no device is bound, so that no *)
(* slot is in use and all are empty.                                        *)
LEMMA LedgerNothing ==
  ASSUME LedgerInv
  PROVE  NothingLeftBehind
<1> SUFFICES ASSUME modstate = "absent"
             PROVE  /\ classes = {}
                    /\ \A s \in Slots : \A c \in Cdevs : reg[s][c] = {}
                    /\ \A d \in Devices : pci[d] = {} /\ mapped[d] = {}
  BY DEF NothingLeftBehind
<1>1. AllIdle /\ \A d \in Devices : ~bound[d]
  BY DEF LedgerInv, SlotInv, OwnerInv
<1>2. \A s \in Slots : ~init_done[s]
  BY <1>1 DEF LedgerInv, SlotInv, OwnerInv, AllIdle
<1>3. AllOrNothing
  BY LedgerAllOrNothing
<1>4. \A s \in Slots : s \notin classes
  BY <1>1, <1>2, ChrRest DEF LedgerInv, RestOK
<1>5. classes = {}
  BY <1>4 DEF LedgerInv, ChrInv
<1> QED
  BY <1>1, <1>2, <1>3, <1>5 DEF AllOrNothing, AllIdle

(* A step that changes the ports or the device of a published record: a     *)
(* load, when none is published after it, or a probe, of the slot that the  *)
(* counter names.                                                           *)
LEMMA RecordKept ==
  ASSUME LedgerInv, [Next]_vars, NEW s \in Slots, init_done[s], init_done'[s]
  PROVE  vmem'[s] = vmem[s] /\ pci_dev'[s] = pci_dev[s]
<1>0. /\ vmem \in [Slots -> [Bars -> Devices \cup {NULL}]]
      /\ pci_dev \in [Slots -> Devices \cup {NULL}]
      /\ dev_idx \in Int
  BY DEF LedgerInv, TypeOK
<1>1. CASE Module
  <2>1. ~mcs9835_initialize
    BY DEF mcs9835_initialize
  <2> QED
    BY <1>1, <2>1 DEF Module, Unload, mcs9835_finalize, recordVars
<1>2. ASSUME NEW d \in Devices, Probe(d) \/ Remove(d)
      PROVE  UNCHANGED <<vmem, pci_dev>>
  BY <1>2 DEF Probe, Remove, recordVars
<1>3. ASSUME NEW d \in Devices, At(d, "pci_iomap") \/ At(d, "publish")
      PROVE  Slot(d) # s
  <2>1. ProbeCall(d)
    BY <1>3 DEF LedgerInv, SlotInv, CallInv, RemoveCall, RemoveLabels, At, Idle
  <2>2. modstate = "live" /\ Slot(d) = dev_idx
    BY <1>3, <2>1 DEF ProbeCall, HasPublished, At
  <2>3. s < dev_idx
    BY <2>2 DEF LedgerInv, SlotInv, CountInv
  <2> QED
    BY <1>0, <2>2, <2>3 DEF Slots
<1>4. ASSUME NEW d \in Devices, Iomap(d)
      PROVE  vmem'[s] = vmem[s] /\ pci_dev'[s] = pci_dev[s]
  BY <1>0, <1>3, <1>4 DEF Iomap
<1>5. ASSUME NEW d \in Devices, Publish(d)
      PROVE  vmem'[s] = vmem[s] /\ pci_dev'[s] = pci_dev[s]
  BY <1>0, <1>3, <1>5 DEF Publish
<1>6. ASSUME NEW d \in Devices, Handler(d), ~Iomap(d), ~Publish(d)
      PROVE  UNCHANGED <<vmem, pci_dev>>
  BY <1>6 DEF Handler, EnableDevice, CheckBars, RequestRegions,
     mcs9835_cdev_initialize, InitializeReturned, mcs9835_cdev_create,
     AllocRegion, CdevAdd, DeviceCreate, ErrCreate, ErrAdd, CreateReturned,
     dump_dev_registers, ProbeReturn, mcs9835_cdev_destroy, DeviceDestroy,
     CdevDel, UnregisterRegion, DestroyReturned, mcs9835_cdev_finalize,
     Iounmap, ReleaseRegions, DisableDevice, Retire, recordVars
<1>7. ASSUME NEW h \in Handles, FileOperation(h)
      PROVE  UNCHANGED <<vmem, pci_dev>>
  BY <1>7, FileQuiet DEF recordVars
<1>8. CASE UNCHANGED vars
  BY <1>8 DEF vars, recordVars
<1> QED
  BY <1>1, <1>2, <1>4, <1>5, <1>6, <1>7, <1>8 DEF Next

-----------------------------------------------------------------------------
(* The properties, one by one.                                              *)

(* Between calls a bound device holds everything it was given and any other *)
(* nothing, wherever the probes before failed.                              *)
THEOREM NoLeaks ==
  ASSUME ~Concurrent, HotUnbind => MAX_DEVICES = 1
  PROVE  Spec => []AllOrNothing
BY LedgerInvariance, LedgerAllOrNothing, PTL

(* At no step is there a node without its cdev or its class, nor a cdev     *)
(* without its number.                                                      *)
THEOREM CdevsLayered ==
  ASSUME ~Concurrent, HotUnbind => MAX_DEVICES = 1
  PROVE  Spec => []CdevLayering
BY LedgerInvariance, LedgerLayering, PTL

(* A parallel port that processes can find has its registers mapped.        *)
THEOREM OpenablesMapped ==
  ASSUME ~Concurrent, HotUnbind => MAX_DEVICES = 1
  PROVE  Spec => []OpenableIsMapped
BY LedgerInvariance, LedgerOpenable, PTL

(* A remove finds the record that was published for its device.             *)
THEOREM RemovesOwn ==
  ASSUME ~Concurrent, HotUnbind => MAX_DEVICES = 1
  PROVE  Spec => []RemoveTearsDownOwn
BY LedgerInvariance, LedgerRemove, PTL

(* The slot counter stays within the array, on top of the slots in use.     *)
THEOREM SlotsStacked ==
  ASSUME ~Concurrent, HotUnbind => MAX_DEVICES = 1
  PROVE  Spec => []SlotStack
BY LedgerInvariance, LedgerStack, PTL

(* No kernel call follows a class pointer that is not one of a class.       *)
THEOREM ClassesUsable ==
  ASSUME ~Concurrent, HotUnbind => MAX_DEVICES = 1
  PROVE  Spec => []ClassUsable
BY LedgerInvariance, LedgerClass, PTL

(* Once the module is gone the kernel holds nothing it registered.          *)
THEOREM UnloadLeavesNothing ==
  ASSUME ~Concurrent, HotUnbind => MAX_DEVICES = 1
  PROVE  Spec => []NothingLeftBehind
BY LedgerInvariance, LedgerNothing, PTL

(* A published record keeps its ports and its device until it is retired.   *)
THEOREM RecordsStay ==
  ASSUME ~Concurrent, HotUnbind => MAX_DEVICES = 1
  PROVE  Spec => RecordStable
<1>1. LedgerInv /\ [Next]_vars
        => [\A s \in Slots : init_done[s] /\ init_done'[s] =>
               vmem'[s] = vmem[s] /\ pci_dev'[s] = pci_dev[s]]_vars
  BY RecordKept
<1> QED
  BY <1>1, LedgerInvariance, PTL DEF Spec, RecordStable
=============================================================================
