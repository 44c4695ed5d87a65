--------------------------- MODULE Mcs9835CoreProof ---------------------------
(***************************************************************************)
(* Every access to a port reaches the right device, for any number of      *)
(* devices, files and slots, where devices stay for as long as the module  *)
(* does and the PCI core runs one call at a time.  The proof rests on the  *)
(* inductive invariant IInv of Mcs9835Safety.                              *)
(***************************************************************************)
EXTENDS Mcs9835Safety, Mcs9835TypeProof

(* Nothing is in flight, bound or open at the start.                        *)
LEMMA IInvInit ==
  ASSUME Init
  PROVE  IInv
<1>1. TypeOK
  BY TypeInit
<1>2. AllIdle
  BY DEF Init, AllIdle, Idle, At, NoFrame, Call
<1>3. \A h \in Handles : file[h] = NoFile
  BY DEF Init
<1>4. FileInv
  BY <1>3 DEF FileInv, FileOK, NoFile
<1>5. OneCall
  BY <1>2 DEF OneCall, AllIdle
<1>6. BoundInv
  BY <1>2 DEF BoundInv, Init
<1> QED
  BY <1>1, <1>4, <1>5, <1>6 DEF Init, IInv, RecordsInv, FrameInv

-----------------------------------------------------------------------------
(* The steps of a call.                                                     *)

(* Only one frame is in use, so only that frame matters.                    *)
LEMMA FrameStep ==
  ASSUME IInv, NEW d \in Devices, ~Idle(d),
         \A e \in Devices : Idle(e)' <=> Idle(e),
         modstate' = modstate,
         modstate = "live" => ProbeOK(d)',
         modstate = "detaching" => RemoveOK(d)'
  PROVE  FrameInv'
<1> SUFFICES ASSUME NEW e \in Devices, ~Idle(e)
             PROVE  /\ modstate = "live" => ProbeOK(e)'
                    /\ modstate = "detaching" => RemoveOK(e)'
  BY DEF FrameInv
<1>1. e = d
  BY DEF IInv, OneCall
<1> QED
  BY <1>1

(* While the module does not live, no probe is in flight, nor any call when *)
(* it is absent.                                                            *)
LEMMA NotLive ==
  ASSUME IInv, NEW d \in Devices, ~Idle(d), modstate # "live"
  PROVE  modstate = "detaching" /\ RemoveOK(d)
  BY DEF IInv, TypeOK, BoundInv, AllIdle, FrameInv

(* A step of a call that touches neither a record's ports nor its           *)
(* publication, nor the binding, keeps the invariant if it leaves its own   *)
(* frame in order.                                                          *)
LEMMA QuietStep ==
  ASSUME IInv, TypeOK', NEW d \in Devices,
         ~Idle(d), ~Idle(d)',
         \A e \in Devices \ {d} : frame'[e] = frame[e],
         UNCHANGED <<vmem, mapped, init_done, pci_dev, dev_idx, modstate,
                     bound, file>>,
         modstate = "live" => ProbeOK(d)',
         modstate = "detaching" => RemoveOK(d)'
  PROVE  IInv'
<1>1. \A e \in Devices : Idle(e)' <=> Idle(e)
  BY DEF Idle, At
<1>2. OneCall'
  BY <1>1 DEF IInv, OneCall
<1>3. \A e \in Devices \cup {NULL} : Published(e)' <=> Published(e)
  BY DEF Published
<1>4. RecordsInv'
  BY DEF IInv, RecordsInv, RecordOK, OwnPort, Published
<1>5. FrameInv'
  BY <1>1, FrameStep
<1>6. BoundInv'
  BY <1>1, <1>3 DEF IInv, BoundInv, AllIdle
<1>7. FileInv'
  BY DEF IInv, FileInv, FileOK
<1> QED
  BY <1>2, <1>4, <1>5, <1>6, <1>7 DEF IInv

(* How the quiet steps of a probe leave its frame.                          *)
QuietVars == <<vmem, mapped, init_done, pci_dev, dev_idx, modstate, bound, file>>

LEMMA QuietHandler ==
  ASSUME IInv, TypeOK', NEW d \in Devices,
         \/ EnableDevice(d) \/ CheckBars(d) \/ RequestRegions(d)
         \/ mcs9835_cdev_initialize(d) \/ InitializeReturned(d)
         \/ mcs9835_cdev_create(d) \/ CreateReturned(d)
         \/ dump_dev_registers(d) \/ mcs9835_cdev_destroy(d)
         \/ DestroyReturned(d) \/ mcs9835_cdev_finalize(d)
         \/ ReleaseRegions(d) \/ DisableDevice(d)
  PROVE  IInv'
<1> USE McsAssumption DEF Labels, CdevLabels, CoreLabels, Idle, At
<1>0. /\ frame \in [Devices -> Frame]
      /\ TypeOK
      /\ Cur(d) \in Bars
      /\ 0 \in Bars
      /\ UART_A \in Bars
      /\ Cur(d) > UART_A => Cur(d) - 1 \in Bars
      /\ Cur(d) < PARPORT => Cur(d) + 1 \in Bars
      /\ frame[d].rc \in {0, -1}
  BY DEF IInv, TypeOK, Frame, Cur, Bars, UART_A, PARPORT
<1>1. UNCHANGED QuietVars /\ ~Idle(d)
  BY DEF QuietVars, EnableDevice, CheckBars, RequestRegions,
     mcs9835_cdev_initialize, InitializeReturned, mcs9835_cdev_create,
     AllocRegion, CdevAdd, DeviceCreate, ErrCreate, ErrAdd, CreateReturned,
     dump_dev_registers, mcs9835_cdev_destroy, DeviceDestroy, CdevDel,
     UnregisterRegion, DestroyReturned, mcs9835_cdev_finalize, ReleaseRegions,
     DisableDevice, recordVars, moduleVars, pciVars
<1>2. /\ \A e \in Devices \ {d} : frame'[e] = frame[e]
      /\ ~Idle(d)'
      /\ modstate = "live" => ProbeOK(d)'
      /\ modstate = "detaching" => RemoveOK(d)'
  <2> USE DEF ProbeOK, RemoveOK, HasPublished, MappedLabels, FailedLabels, Published,
         OwnPort, Slot
  <2>0. /\ modstate = "live" => ProbeOK(d)
        /\ modstate = "detaching" => RemoveOK(d)
        /\ UNCHANGED <<vmem, mapped, init_done, pci_dev, dev_idx, modstate>>
    BY <1>1 DEF IInv, FrameInv, QuietVars
  <2>1. CASE EnableDevice(d)
    BY <1>0, <2>0, <2>1, GotoStep, FailToStep DEF EnableDevice
  <2>2. CASE CheckBars(d)
    BY <1>0, <2>0, <2>2, GotoStep, FailToStep DEF CheckBars
  <2>3. CASE RequestRegions(d)
    <3>1. frame[d].pc = "pci_request_regions"
      BY <2>3 DEF RequestRegions
    <3>2. CASE GotoAt(d, "pci_iomap", 0)
      <4>1. /\ \A e \in Devices \ {d} : frame'[e] = frame[e]
            /\ frame'[d].pc = "pci_iomap"
            /\ frame'[d].op = frame[d].op
            /\ frame'[d].cur = 0
            /\ frame'[d].rc = frame[d].rc
            /\ frame'[d].slot = frame[d].slot
        BY <1>0, <3>2, GotoAtStep
      <4>2. \A b \in Bars : ~(b < Cur(d)')
        BY <4>1 DEF Cur, Bars
      <4> QED
        BY <2>0, <3>1, <4>1, <4>2
    <3>3. CASE FailTo(d, "pci_disable_device", 0)
      BY <1>0, <2>0, <3>1, <3>3, FailToStep
    <3> QED
      BY <2>3, <3>2, <3>3 DEF RequestRegions
  <2>4. CASE mcs9835_cdev_initialize(d)
    BY <1>0, <2>0, <2>4, GotoStep, FailToStep DEF mcs9835_cdev_initialize
  <2>5. CASE InitializeReturned(d)
    BY <1>0, <2>0, <2>5, GotoAtStep DEF InitializeReturned
  <2>6. CASE AllocRegion(d)
    <3>1. frame[d].pc = "alloc_chrdev_region"
      BY <2>6 DEF AllocRegion
    <3>2. CASE Goto(d, "cdev_add")
      BY <1>0, <2>0, <3>1, <3>2, GotoStep
    <3>3. CASE FailTo(d, "create_ret", Cur(d))
      BY <1>0, <2>0, <3>1, <3>3, FailToStep
    <3> QED
      BY <2>6, <3>2, <3>3 DEF AllocRegion
  <2>7. CASE CdevAdd(d)
    BY <1>0, <2>0, <2>7, GotoStep, FailToStep DEF CdevAdd
  <2>8. CASE DeviceCreate(d)
    <3>1. frame[d].pc = "device_create"
      BY <2>8 DEF DeviceCreate
    <3>2. CASE Goto(d, "create_ret")
      BY <1>0, <2>0, <3>1, <3>2, GotoStep
    <3>3. CASE FailTo(d, "err_create", Cur(d))
      BY <1>0, <2>0, <3>1, <3>3, FailToStep
    <3> QED
      BY <2>8, <3>2, <3>3 DEF DeviceCreate
  <2>9. CASE ErrCreate(d)
    BY <1>0, <2>0, <2>9, GotoStep DEF ErrCreate
  <2>10. CASE ErrAdd(d)
    BY <1>0, <2>0, <2>10, GotoStep DEF ErrAdd
  <2>11. CASE CreateReturned(d)
    BY <1>0, <2>0, <2>11, GotoStep, GotoAtStep DEF CreateReturned, Unwind
  <2>12. CASE dump_dev_registers(d)
    BY <1>0, <2>0, <2>12, GotoStep DEF dump_dev_registers
  <2>13. CASE DeviceDestroy(d)
    BY <1>0, <2>0, <2>13, GotoStep DEF DeviceDestroy
  <2>14. CASE CdevDel(d)
    BY <1>0, <2>0, <2>14, GotoStep DEF CdevDel
  <2>15. CASE UnregisterRegion(d)
    BY <1>0, <2>0, <2>15, GotoStep DEF UnregisterRegion
  <2>16. CASE DestroyReturned(d)
    BY <1>0, <2>0, <2>16, GotoStep, GotoAtStep DEF DestroyReturned, DestroyNext, Unwind
  <2>17. CASE mcs9835_cdev_finalize(d)
    BY <1>0, <2>0, <2>17, GotoAtStep DEF mcs9835_cdev_finalize
  <2>18. CASE ReleaseRegions(d)
    BY <1>0, <2>0, <2>18, GotoStep DEF ReleaseRegions
  <2>19. CASE DisableDevice(d)
    BY <1>0, <2>0, <2>19, GotoStep DEF DisableDevice
  <2> QED
    BY <2>1, <2>2, <2>3, <2>4, <2>5, <2>6, <2>7, <2>8, <2>9, <2>10,
       <2>11, <2>12, <2>13, <2>14, <2>15, <2>16, <2>17, <2>18, <2>19
    DEF mcs9835_cdev_create, mcs9835_cdev_destroy
<1> QED
  BY <1>1, <1>2, QuietStep DEF QuietVars

(* Mapping a BAR writes the cookie of the slot the counter names, which is  *)
(* not published.                                                           *)
LEMMA IomapStep ==
  ASSUME IInv, TypeOK', NEW d \in Devices, Iomap(d)
  PROVE  IInv'
<1> USE McsAssumption DEF Idle, At, Slot
<1> DEFINE s == Slot(d)
           c == Cur(d)
<1>0. /\ TypeOK
      /\ frame \in [Devices -> Frame]
      /\ vmem \in [Slots -> [Bars -> Devices \cup {NULL}]]
      /\ mapped \in [Devices -> SUBSET Bars]
      /\ pci_dev \in [Slots -> Devices \cup {NULL}]
      /\ dev_idx \in Int
      /\ s \in Slots
      /\ c \in Bars
      /\ 0 \in Bars
      /\ c < 3 => c + 1 \in Bars
  BY DEF IInv, TypeOK, Frame, Cur, Bars
<1>1. /\ frame[d].pc = "pci_iomap"
      /\ UNCHANGED <<init_done, pci_dev, dev_idx, modstate, bound, file>>
  BY DEF Iomap, moduleVars
<1>2. PICK l \in {"pci_iomap", "class_create", "pci_iounmap"} :
        /\ \A e \in Devices \ {d} : frame'[e] = frame[e]
        /\ frame'[d].pc = l
        /\ frame'[d].op = frame[d].op
        /\ frame'[d].slot = frame[d].slot
        /\ IF l = "pci_iounmap"
           THEN /\ frame'[d].rc = -1
                /\ vmem' = [vmem EXCEPT ![s][c] = NULL]
                /\ mapped' = mapped
           ELSE /\ frame'[d].rc = frame[d].rc
                /\ vmem' = [vmem EXCEPT ![s][c] = d]
                /\ mapped' = [mapped EXCEPT ![d] = @ \cup {c}]
                /\ IF l = "pci_iomap" THEN frame'[d].cur = c + 1 ELSE c = 3
  <2>1. CASE GotoAt(d, "pci_iomap", c + 1) /\ c < 3
             /\ vmem' = [vmem EXCEPT ![s][c] = d]
             /\ mapped' = [mapped EXCEPT ![d] = @ \cup {c}]
    <3>1. c + 1 \in Bars /\ "pci_iomap" \in Labels
      BY <1>0, <2>1 DEF Labels, CoreLabels
    <3>2. /\ \A e \in Devices \ {d} : frame'[e] = frame[e]
          /\ frame'[d].pc = "pci_iomap"
          /\ frame'[d].op = frame[d].op
          /\ frame'[d].cur = c + 1
          /\ frame'[d].rc = frame[d].rc
          /\ frame'[d].slot = frame[d].slot
      BY <1>0, <2>1, <3>1, GotoAtStep
    <3> HIDE DEF s, c
    <3> QED
      BY <2>1, <3>2
  <2>2. CASE GotoAt(d, "class_create", 0) /\ ~(c < 3)
             /\ vmem' = [vmem EXCEPT ![s][c] = d]
             /\ mapped' = [mapped EXCEPT ![d] = @ \cup {c}]
    <3>1. c = 3
      BY <1>0, <2>2 DEF Bars
    <3> QED
      BY <1>0, <2>2, <3>1, GotoAtStep DEF Labels, CdevLabels
  <2>3. CASE FailTo(d, "pci_iounmap", 0) /\ vmem' = [vmem EXCEPT ![s][c] = NULL]
             /\ UNCHANGED mapped
    BY <1>0, <2>3, FailToStep DEF Labels, CoreLabels
  <2> QED
    BY <2>1, <2>2, <2>3 DEF Iomap, AfterBar
<1>3. \A e \in Devices : Idle(e)' <=> Idle(e)
  BY <1>1, <1>2
<1>4. \A e : Published(e)' <=> Published(e)
  BY <1>1 DEF Published
<1>5. OneCall' /\ BoundInv' /\ FileInv'
  BY <1>1, <1>3, <1>4
  DEF IInv, OneCall, BoundInv, AllIdle, FileInv, FileOK
<1>6. CASE modstate = "live"
  <2>1. ProbeOK(d) /\ dev_idx = s /\ ~Published(d) /\ ~init_done[s]
    BY <1>0, <1>1, <1>6 DEF IInv, FrameInv, ProbeOK, HasPublished, RecordsInv,
       RecordOK, Slots
  <2>2. /\ \A t \in Slots, b \in Bars : t # s \/ b # c => vmem'[t][b] = vmem[t][b]
        /\ vmem'[s][c] \in {d, NULL}
        /\ l # "pci_iounmap" => vmem'[s][c] = d /\ c \in mapped'[d]
        /\ \A e \in Devices : mapped[e] \subseteq mapped'[e]
    BY <1>0, <1>2
  <2>3. ~Published(NULL)
    BY <1>0, <1>6 DEF IInv, RecordsInv, RecordOK, Published
  <2>4. RecordsInv'
    <3> SUFFICES ASSUME NEW t \in Slots PROVE RecordOK(t)'
      BY <1>0, <1>1, <1>6 DEF IInv, RecordsInv
    <3>1. RecordOK(t)
      BY <1>6 DEF IInv, RecordsInv
    <3>2. CASE t = s
      BY <1>0, <1>1, <1>4, <2>1, <2>2, <2>3, <3>1, <3>2 DEF RecordOK
    <3>3. CASE t # s
      BY <1>0, <1>1, <1>4, <2>2, <3>1, <3>3 DEF RecordOK, OwnPort
    <3> QED
      BY <3>2, <3>3
  <2>5. ProbeOK(d)'
    <3>1. /\ At(d, "pci_iomap")
          /\ \A b \in Bars : b < c => OwnPort(s, b, d)
      BY <1>1, <2>1 DEF ProbeOK, Cur
    <3>2. CASE l = "pci_iounmap"
      BY <1>1, <1>2, <1>4, <2>1, <3>2
      DEF ProbeOK, HasPublished, MappedLabels, FailedLabels
    <3>3. CASE l = "pci_iomap"
      <4>1. \A b \in Bars : b < c + 1 => OwnPort(s, b, d)'
        BY <1>0, <1>2, <2>2, <3>1, <3>3 DEF OwnPort, Bars
      <4>2. Cur(d)' = c + 1
        BY <1>2, <3>3 DEF Cur
      <4> QED
        BY <1>1, <1>2, <1>4, <2>1, <3>3, <4>1, <4>2
        DEF ProbeOK, HasPublished, MappedLabels, FailedLabels
    <3>4. CASE l = "class_create"
      <4>1. \A b \in Bars : OwnPort(s, b, d)'
        BY <1>0, <1>2, <2>2, <3>1, <3>4 DEF OwnPort, Bars
      <4> QED
        BY <1>1, <1>2, <1>4, <2>1, <3>4, <4>1
        DEF ProbeOK, HasPublished, MappedLabels, FailedLabels
    <3> QED
      BY <3>2, <3>3, <3>4
  <2>6. FrameInv'
    BY <1>1, <1>3, <1>6, <2>5, FrameStep
  <2> QED
    BY <1>5, <2>4, <2>6 DEF IInv
<1>7. CASE modstate # "live"
  BY <1>1, <1>7, NotLive DEF RemoveOK
<1> QED
  BY <1>6, <1>7

(* Unmapping a BAR in a probe that has failed takes no published device's   *)
(* mapping away, although the cookie may be one that an earlier probe left. *)
LEMMA IounmapStep ==
  ASSUME IInv, TypeOK', NEW d \in Devices, Iounmap(d)
  PROVE  IInv'
<1> USE McsAssumption DEF Idle, At, Slot
<1> DEFINE s == Slot(d)
           c == Cur(d)
<1>0. /\ TypeOK
      /\ frame \in [Devices -> Frame]
      /\ mapped \in [Devices -> SUBSET Bars]
      /\ pci_dev \in [Slots -> Devices \cup {NULL}]
      /\ dev_idx \in Int
      /\ s \in Slots
      /\ c \in Bars
      /\ 0 \in Bars
      /\ c < 3 => c + 1 \in Bars
  BY DEF IInv, TypeOK, Frame, Cur, Bars
<1>1. /\ frame[d].pc = "pci_iounmap"
      /\ UNCHANGED <<vmem, init_done, pci_dev, dev_idx, modstate, bound, file>>
      /\ \A e \in Devices : e # vmem[s][c] => mapped'[e] = mapped[e]
  BY DEF Iounmap, recordVars, moduleVars
<1>2. /\ \A e \in Devices \ {d} : frame'[e] = frame[e]
      /\ frame'[d].pc \in {"pci_iounmap", "pci_release_regions"}
      /\ frame'[d].op = frame[d].op
      /\ frame'[d].rc = frame[d].rc
      /\ frame'[d].slot = frame[d].slot
  <2>1. CASE GotoAt(d, "pci_iounmap", c + 1) /\ c < 3
    BY <1>0, <2>1, GotoAtStep DEF Labels, CoreLabels
  <2>2. CASE GotoAt(d, "pci_release_regions", 0)
    BY <1>0, <2>2, GotoAtStep DEF Labels, CoreLabels
  <2> QED
    BY <2>1, <2>2 DEF Iounmap, AfterBar
<1>3. \A e \in Devices : Idle(e)' <=> Idle(e)
  BY <1>1, <1>2
<1>4. \A e : Published(e)' <=> Published(e)
  BY <1>1 DEF Published
<1>5. OneCall' /\ BoundInv' /\ FileInv'
  BY <1>1, <1>3, <1>4
  DEF IInv, OneCall, BoundInv, AllIdle, FileInv, FileOK
<1>6. CASE modstate = "live"
  <2>1. ProbeOK(d) /\ dev_idx = s /\ ~init_done[s]
    BY <1>0, <1>1, <1>6 DEF IInv, FrameInv, ProbeOK, HasPublished, RecordsInv,
       RecordOK, Slots
  <2>2. ~Published(vmem[s][c])
    BY <1>0, <1>6, <2>1 DEF IInv, RecordsInv, RecordOK
  <2>3. RecordsInv'
    <3> SUFFICES ASSUME NEW t \in Slots PROVE RecordOK(t)'
      BY <1>0, <1>1, <1>6 DEF IInv, RecordsInv
    <3>1. RecordOK(t)
      BY <1>6 DEF IInv, RecordsInv
    <3>2. init_done[t] => pci_dev[t] # vmem[s][c]
      BY <2>2 DEF Published
    <3> QED
      BY <1>1, <1>4, <3>1, <3>2 DEF RecordOK, OwnPort
  <2>4. ProbeOK(d)'
    BY <1>1, <1>2, <1>4, <2>1
    DEF ProbeOK, HasPublished, MappedLabels, FailedLabels
  <2>5. FrameInv'
    BY <1>1, <1>3, <1>6, <2>4, FrameStep
  <2> QED
    BY <1>5, <2>3, <2>5 DEF IInv
<1>7. CASE modstate # "live"
  <2>1. modstate = "detaching" /\ RemoveOK(d)
    BY <1>1, <1>7, NotLive
  <2>2. RemoveOK(d)'
    BY <1>2, <2>1 DEF RemoveOK
  <2>3. FrameInv'
    BY <1>1, <1>3, <2>1, <2>2, FrameStep
  <2> QED
    BY <1>1, <1>5, <1>7, <2>3 DEF IInv, RecordsInv
<1> QED
  BY <1>6, <1>7

(* A probe reaches its publication with the slot the counter names, so the  *)
(* devices published before keep theirs.                                    *)
LEMMA PublishStep ==
  ASSUME IInv, TypeOK', NEW d \in Devices, Publish(d)
  PROVE  IInv'
<1> USE McsAssumption DEF Idle, At, Slot
<1> DEFINE s == Slot(d)
<1>0. /\ TypeOK
      /\ frame \in [Devices -> Frame]
      /\ pci_dev \in [Slots -> Devices \cup {NULL}]
      /\ init_done \in [Slots -> BOOLEAN]
      /\ dev_idx \in Int
      /\ s \in Slots
      /\ vmem \in [Slots -> [Bars -> Devices \cup {NULL}]]
  BY DEF IInv, TypeOK, Frame
<1>1. /\ frame[d].pc = "publish"
      /\ pci_dev' = [pci_dev EXCEPT ![s] = d]
      /\ init_done' = [init_done EXCEPT ![s] = TRUE]
      /\ dev_idx' = dev_idx + 1
      /\ UNCHANGED <<vmem, mapped, modstate, bound, file>>
  BY DEF Publish, pci_set_drvdata, CountDevice
<1>2. /\ \A e \in Devices \ {d} : frame'[e] = frame[e]
      /\ frame'[d].pc = "dump"
      /\ frame'[d].op = frame[d].op
      /\ frame'[d].rc = frame[d].rc
      /\ frame'[d].slot = frame[d].slot
  BY <1>0, GotoStep DEF Publish, Labels, CoreLabels
<1>3. \A e \in Devices : Idle(e)' <=> Idle(e)
  BY <1>1, <1>2
<1>4. OneCall'
  BY <1>3 DEF IInv, OneCall
<1>5. CASE modstate = "live"
  <2>1. /\ ProbeOK(d) /\ dev_idx = s /\ ~Published(d)
        /\ frame[d].rc = 0
        /\ \A b \in Bars : OwnPort(s, b, d)
        /\ ~init_done[s]
    BY <1>0, <1>1, <1>5 DEF IInv, FrameInv, ProbeOK, HasPublished, RecordsInv,
       RecordOK, Slots, MappedLabels
  <2>2. \A e : e # d => (Published(e)' <=> Published(e))
    BY <1>0, <1>1, <2>1 DEF Published
  <2>3. Published(d)'
    BY <1>0, <1>1 DEF Published
  <2>4. RecordsInv'
    <3> SUFFICES ASSUME NEW t \in Slots PROVE RecordOK(t)'
      BY <1>0, <1>1, <1>5 DEF IInv, RecordsInv
    <3>1. RecordOK(t)
      BY <1>5 DEF IInv, RecordsInv
    <3>2. CASE t = s
      BY <1>0, <1>1, <2>1, <3>2 DEF RecordOK, OwnPort
    <3>3. CASE t # s
      <4>1. t \in Int
        BY DEF Slots
      <4>2. /\ init_done'[t] = init_done[t]
            /\ pci_dev'[t] = pci_dev[t]
            /\ t < dev_idx' <=> t < dev_idx
        BY <1>0, <1>1, <2>1, <3>3, <4>1
      <4>3. ~init_done[t] => \A b \in Bars : vmem[t][b] = NULL
        BY <1>0, <2>1, <3>1, <3>3, <4>1 DEF RecordOK
      <4>4. ~Published(NULL)'
        BY <1>0, <1>1, <2>1, <2>2, <1>5 DEF IInv, RecordsInv, RecordOK, Published
      <4> QED
        <5>1. t > dev_idx' => t > dev_idx
          BY <1>0, <1>1, <4>1
        <5>2. ~init_done'[t] => \A b \in Bars : ~Published(vmem[t][b])'
          BY <1>1, <4>2, <4>3, <4>4 DEF Published
        <5> QED
          BY <1>1, <3>1, <4>2, <5>1, <5>2 DEF RecordOK, OwnPort
    <3> QED
      BY <3>2, <3>3
  <2>5. ProbeOK(d)'
    BY <1>0, <1>1, <1>2, <2>1
    DEF ProbeOK, HasPublished, MappedLabels, FailedLabels
  <2>6. FrameInv'
    BY <1>1, <1>3, <1>5, <2>5, FrameStep
  <2>7. BoundInv'
    BY <1>1, <1>2, <1>3, <1>5, <2>2 DEF IInv, BoundInv
  <2>8. FileInv'
    BY <1>0, <1>1, <2>1 DEF IInv, FileInv, FileOK
  <2> QED
    BY <1>4, <2>4, <2>6, <2>7, <2>8 DEF IInv
<1>6. CASE modstate # "live"
  BY <1>1, <1>6, NotLive DEF RemoveOK
<1> QED
  BY <1>5, <1>6

(* The device that a probe binds is the one it published; a probe that      *)
(* failed binds none.                                                       *)
LEMMA ProbeReturnStep ==
  ASSUME IInv, TypeOK', NEW d \in Devices, ProbeReturn(d)
  PROVE  IInv'
<1> USE DEF Idle, At
<1>1. /\ frame \in [Devices -> Frame]
      /\ bound \in [Devices -> BOOLEAN]
  BY DEF IInv, TypeOK
<1>2. /\ frame[d].pc = "probe_ret"
      /\ bound' = [bound EXCEPT ![d] = (frame[d].rc = 0)]
      /\ frame'[d].pc = "idle"
      /\ \A e \in Devices \ {d} : frame'[e] = frame[e]
      /\ UNCHANGED <<vmem, mapped, init_done, pci_dev, dev_idx, modstate, file>>
  BY <1>1 DEF ProbeReturn, Return, NoFrame, Call, recordVars, moduleVars
<1>3. \A e \in Devices : Idle(e)'
  BY <1>2 DEF IInv, OneCall
<1>4. OneCall' /\ FrameInv'
  BY <1>3 DEF OneCall, FrameInv
<1>5. \A e : Published(e)' <=> Published(e)
  BY <1>2 DEF Published
<1>6. RecordsInv'
  BY <1>2, <1>5 DEF IInv, RecordsInv, RecordOK, OwnPort, Published
<1>7. modstate = "live" => (frame[d].rc = 0 <=> Published(d))
  BY <1>2 DEF IInv, FrameInv, ProbeOK, HasPublished, Published, Slot, TypeOK,
     Frame
<1>8. \A e \in Devices \ {d} : Idle(e)
  BY <1>2 DEF IInv, OneCall
<1>9. modstate # "absent"
  BY <1>2 DEF IInv, BoundInv, AllIdle
<1>10. BoundInv'
  BY <1>1, <1>2, <1>3, <1>5, <1>7, <1>8, <1>9 DEF IInv, BoundInv
<1>11. FileInv'
  BY <1>2 DEF IInv, FileInv, FileOK
<1> QED
  BY <1>4, <1>6, <1>10, <1>11 DEF IInv

(* Retire is a step of remove, which does not run while the module lives.   *)
LEMMA RetireStep ==
  ASSUME IInv, TypeOK', NEW d \in Devices, Retire(d)
  PROVE  IInv'
<1> USE DEF Idle, At
<1>1. /\ frame[d].pc = "retire"
      /\ frame'[d].pc = "idle"
      /\ \A e \in Devices \ {d} : frame'[e] = frame[e]
      /\ UNCHANGED <<modstate, file>>
  BY DEF IInv, TypeOK, Retire, Return, NoFrame, Call
<1>2. modstate \notin {"live", "absent"}
  BY <1>1 DEF IInv, FrameInv, ProbeOK, BoundInv, AllIdle
<1>3. OneCall'
  BY <1>1 DEF IInv, OneCall
<1>4. FileInv'
  BY <1>1, <1>2 DEF IInv, FileInv, FileOK
<1>5. \A e \in Devices : Idle(e)'
  BY <1>1 DEF IInv, OneCall
<1> QED
  BY <1>1, <1>2, <1>3, <1>4, <1>5 DEF IInv, RecordsInv, FrameInv, BoundInv

(* A call begins when none is in flight: a probe for a device that is not   *)
(* published, a remove only after the module has begun to unload.           *)
LEMMA CallStep ==
  ASSUME IInv, TypeOK', ~HotUnbind, ~Concurrent,
         NEW d \in Devices, Probe(d) \/ Remove(d)
  PROVE  IInv'
<1> USE McsAssumption DEF Idle, At
<1>1. /\ frame \in [Devices -> Frame]
      /\ \A e \in Devices : Idle(e)
      /\ \A e \in Devices \ {d} : frame'[e] = frame[e]
      /\ UNCHANGED <<vmem, mapped, init_done, pci_dev, dev_idx, modstate, file>>
  BY DEF IInv, TypeOK, Probe, Remove, MayRemove, MayCall, AllIdle, recordVars,
     moduleVars, pciVars
<1>2. OneCall'
  BY <1>1 DEF OneCall
<1>3. \A e : Published(e)' <=> Published(e)
  BY <1>1 DEF Published
<1>4. RecordsInv'
  BY <1>1, <1>3 DEF IInv, RecordsInv, RecordOK, OwnPort, Published
<1>5. FileInv'
  BY <1>1 DEF IInv, FileInv, FileOK
<1>6. CASE Probe(d)
  <2>1. /\ modstate = "live" /\ ~bound[d]
        /\ frame'[d] = Call("pci_enable_device", "probe", dev_idx)
        /\ bound' = bound
    BY <1>1, <1>6 DEF Probe, pciVars
  <2>2. ~Published(d)
    BY <1>1, <2>1 DEF IInv, BoundInv
  <2>3. ProbeOK(d)'
    BY <1>1, <1>3, <2>1, <2>2
    DEF ProbeOK, HasPublished, Slot, Call, MappedLabels, FailedLabels
  <2>4. FrameInv'
    BY <1>1, <2>1, <2>3 DEF FrameInv
  <2>5. BoundInv'
    BY <1>1, <1>3, <2>1 DEF IInv, BoundInv
  <2> QED
    BY <1>2, <1>4, <1>5, <2>4, <2>5 DEF IInv
<1>7. CASE Remove(d)
  <2>1. modstate = "detaching"
    BY <1>7 DEF Remove, MayRemove
  <2>2. frame'[d] = frame[d] \/ RemoveOK(d)'
    BY <1>1, <1>7 DEF Remove, RemoveOK, Call
  <2>3. FrameInv'
    BY <1>1, <2>1, <2>2 DEF FrameInv
  <2> QED
    BY <1>1, <1>2, <1>4, <1>5, <2>1, <2>3 DEF IInv, BoundInv
<1> QED
  BY <1>6, <1>7

-----------------------------------------------------------------------------
(* The steps of the module and of processes.                                *)

(* A load finds no device bound; an unload begins when no file is open and  *)
(* no call in flight.                                                       *)
LEMMA ModuleStep ==
  ASSUME IInv, TypeOK', Module
  PROVE  IInv'
<1> USE McsAssumption
<1>1. /\ UNCHANGED <<frame, file, bound>>
  BY DEF Module, mcs9835_initialize, Unload, mcs9835_finalize, pciVars
<1>2. OneCall'
  BY <1>1 DEF IInv, OneCall, Idle, At
<1>3. CASE mcs9835_initialize
  <2>1. /\ modstate = "absent"
        /\ \A d \in Devices : Idle(d) /\ Idle(d)' /\ ~bound[d]
    BY <1>1, <1>3 DEF mcs9835_initialize, IInv, BoundInv, AllIdle, Idle, At
  <2>2. /\ \A s \in Slots : ~init_done'[s]
        /\ \A s \in Slots, b \in Bars : vmem'[s][b] = NULL
        /\ dev_idx' = 0
    BY <1>3 DEF mcs9835_initialize, NoCookies
  <2>3. \A e : ~Published(e)'
    BY <2>2 DEF Published
  <2>4. RecordsInv'
    BY <2>2, <2>3 DEF RecordsInv, RecordOK, Published, Slots
  <2>5. FrameInv' /\ BoundInv'
    BY <1>1, <2>1, <2>3 DEF FrameInv, BoundInv, AllIdle
  <2>6. FileInv'
    BY <1>1, <2>1 DEF IInv, FileInv, FileOK
  <2> QED
    BY <1>2, <2>4, <2>5, <2>6 DEF IInv
<1>4. CASE Unload
  <2>1. modstate' = "detaching" /\ \A h \in Handles : file[h].pc = "closed"
    BY <1>4 DEF Unload, ModuleRefs
  <2>2. \A d \in Devices : Idle(d)'
    BY <1>1, <1>4 DEF Unload, AllIdle, Idle, At
  <2> QED
    BY <1>1, <1>2, <2>1, <2>2
    DEF IInv, RecordsInv, FrameInv, BoundInv, FileInv, FileOK
<1>5. CASE mcs9835_finalize
  <2>1. /\ modstate = "detaching" /\ modstate' = "absent"
        /\ AllIdle' /\ \A d \in Devices : ~bound'[d]
    BY <1>1, <1>5 DEF mcs9835_finalize, AllIdle, Idle, At
  <2>2. FileInv'
    BY <1>1, <2>1 DEF IInv, FileInv, FileOK
  <2> QED
    BY <1>2, <2>1, <2>2 DEF IInv, RecordsInv, FrameInv, BoundInv
<1> QED
  BY <1>3, <1>4, <1>5 DEF Module

(* An open file keeps to a published slot, whose port is that of its        *)
(* device.                                                                  *)
LEMMA FileStep ==
  ASSUME IInv, TypeOK', NEW h \in Handles, FileOperation(h)
  PROVE  IInv'
<1> USE McsAssumption
<1>1. /\ UNCHANGED <<vmem, mapped, init_done, pci_dev, dev_idx, modstate,
                     bound, frame>>
      /\ \A g \in Handles \ {h} : file'[g] = file[g]
  BY DEF IInv, TypeOK, FileOperation, ChrdevOpen, mcs9835_open_parport,
     mcs9835_read_parport, CopyFromUser, WritePort, mcs9835_close_parport,
     recordVars, moduleVars, pciVars
<1>2. OneCall' /\ RecordsInv' /\ FrameInv' /\ BoundInv'
  BY <1>1 DEF IInv, OneCall, RecordsInv, RecordOK, OwnPort, Published, FrameInv,
     ProbeOK, HasPublished, RemoveOK, Slot, Cur, BoundInv, AllIdle, Idle, At
<1>3. /\ file \in [Handles -> File]
      /\ file[h].slot \in Slots
      /\ FileOK(h)
  BY DEF IInv, TypeOK, File, FileInv
<1>4. file[h].pc \in {"open", "copyin"} =>
        PortReached(file[h].slot) = file[h].dev
  BY <1>3 DEF IInv, FileOK, RecordsInv, RecordOK, OwnPort, PortReached, Bars
<1>5. FileOK(h)'
  <2>1. CASE \E s \in Slots : ChrdevOpen(h, s)
    BY <1>1, <1>3, <2>1 DEF ChrdevOpen, Opening, FileOK
  <2>2. CASE mcs9835_open_parport(h) /\ init_done[file[h].slot]
    <3>1. file'[h] = [file[h] EXCEPT !.pc = "open",
                                     !.dev = pci_dev[file[h].slot]]
      BY <1>3, <2>2 DEF mcs9835_open_parport
    <3>2. /\ file'[h].pc = "open"
          /\ file'[h].slot = file[h].slot
          /\ file'[h].dev = pci_dev[file[h].slot]
          /\ file'[h].hit = file[h].hit
      BY <1>3, <3>1 DEF File
    <3>3. file[h].hit = NULL
      BY <1>3, <2>2 DEF FileOK, mcs9835_open_parport
    <3> QED
      BY <1>1, <1>3, <2>2, <3>2, <3>3 DEF FileOK, mcs9835_open_parport
  <2>3. CASE mcs9835_open_parport(h) /\ ~init_done[file[h].slot]
    BY <1>3, <2>3 DEF mcs9835_open_parport, NoFile, FileOK
  <2>4. CASE mcs9835_read_parport(h) \/ WritePort(h)
    <3>1. /\ file'[h].pc = "open"
          /\ file'[h].slot = file[h].slot
          /\ file'[h].dev = file[h].dev
          /\ file'[h].hit = PortReached(file[h].slot)
          /\ file[h].pc \in {"open", "copyin"}
      <4>1. CASE mcs9835_read_parport(h)
        <5>1. file'[h] = [file[h] EXCEPT !.hit = PortReached(file[h].slot)]
          BY <1>3, <4>1 DEF mcs9835_read_parport
        <5> QED
          BY <1>3, <4>1, <5>1 DEF mcs9835_read_parport, File
      <4>2. CASE WritePort(h)
        <5>1. file'[h] = [file[h] EXCEPT !.pc = "open",
                                         !.hit = PortReached(file[h].slot)]
          BY <1>3, <4>2 DEF WritePort
        <5> QED
          BY <1>3, <4>2, <5>1 DEF WritePort, File
      <4> QED
        BY <2>4, <4>1, <4>2
    <3> QED
      BY <1>1, <1>3, <1>4, <3>1 DEF FileOK
  <2>5. CASE CopyFromUser(h)
    <3>1. file'[h] = [file[h] EXCEPT !.pc = "copyin"] /\ file[h].pc = "open"
      BY <1>3, <2>5 DEF CopyFromUser
    <3>2. /\ file'[h].pc = "copyin"
          /\ file'[h].slot = file[h].slot
          /\ file'[h].dev = file[h].dev
          /\ file'[h].hit = file[h].hit
      BY <1>3, <3>1 DEF File
    <3> QED
      BY <1>1, <1>3, <3>1, <3>2 DEF FileOK
  <2>6. CASE mcs9835_close_parport(h)
    BY <1>3, <2>6 DEF mcs9835_close_parport, NoFile, FileOK
  <2> QED
    BY <2>1, <2>2, <2>3, <2>4, <2>5, <2>6 DEF FileOperation
<1>6. FileInv'
  BY <1>1, <1>5 DEF IInv, FileInv, FileOK
<1> QED
  BY <1>2, <1>6 DEF IInv

-----------------------------------------------------------------------------
(* The theorems.                                                            *)

LEMMA IInvStep ==
  ASSUME IInv, ~HotUnbind, ~Concurrent, [Next]_vars
  PROVE  IInv'
<1>1. TypeOK'
  BY TypeStep DEF IInv, RecordsInv
<1>2. CASE Module
  BY <1>1, <1>2, ModuleStep
<1>3. ASSUME NEW d \in Devices, Probe(d) \/ Remove(d) PROVE IInv'
  BY <1>1, <1>3, CallStep
<1>4. ASSUME NEW d \in Devices, Handler(d) PROVE IInv'
  BY <1>1, <1>4, QuietHandler, IomapStep, IounmapStep, PublishStep,
     ProbeReturnStep, RetireStep DEF Handler
<1>5. ASSUME NEW h \in Handles, FileOperation(h) PROVE IInv'
  BY <1>1, <1>5, FileStep
<1>6. CASE UNCHANGED vars
  BY <1>1, <1>6 DEF vars, recordVars, moduleVars, pciVars, chrVars, IInv,
     OneCall, RecordsInv, RecordOK, OwnPort, Published, FrameInv, ProbeOK,
     HasPublished, RemoveOK, BoundInv, AllIdle, FileInv, FileOK, Idle, At, Slot, Cur
<1> QED
  BY <1>2, <1>3, <1>4, <1>5, <1>6 DEF Next

(* The invariant gives what a process and a probe rely on.                  *)
LEMMA IInvPortAccess ==
  ASSUME IInv
  PROVE  PortAccessOwn
<1>1. \A h \in Handles : file[h].hit \in {NULL, file[h].dev}
  BY DEF IInv, FileInv, FileOK
<1>2. ASSUME NEW d \in Devices, At(d, "dump"), NEW b \in Bars
      PROVE  OwnPort(Slot(d), b, d)
  <2>1. ~Idle(d)
    BY <1>2 DEF At, Idle
  <2>2. modstate = "live" /\ ProbeOK(d)
    BY <1>2, <2>1 DEF IInv, TypeOK, BoundInv, AllIdle, FrameInv, RemoveOK, At
  <2>3. init_done[Slot(d)] /\ pci_dev[Slot(d)] = d /\ Slot(d) \in Slots
    BY <1>2, <2>2 DEF ProbeOK, HasPublished, IInv, TypeOK, Frame, Slot
  <2> QED
    BY <2>2, <2>3 DEF IInv, RecordsInv, RecordOK
<1> QED
  BY <1>1, <1>2 DEF PortAccessOwn

(* The invariant holds in every reachable state of a machine whose devices  *)
(* stay and whose PCI core runs one call at a time.                         *)
THEOREM Invariance ==
  ASSUME ~HotUnbind, ~Concurrent
  PROVE  Spec => []IInv
<1>1. Init => IInv
  BY IInvInit
<1>2. IInv /\ [Next]_vars => IInv'
  BY IInvStep
<1> QED
  BY <1>1, <1>2, PTL DEF Spec

(* On such a machine every read and write of a process reaches the parallel *)
(* port of the device it opened, and every register dump the device probed. *)
THEOREM PortAccess ==
  ASSUME ~HotUnbind, ~Concurrent
  PROVE  Spec => []PortAccessOwn
<1>1. IInv => PortAccessOwn
  BY IInvPortAccess
<1> QED
  BY <1>1, Invariance, PTL
=============================================================================
