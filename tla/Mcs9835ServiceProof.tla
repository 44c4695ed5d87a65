------------------------- MODULE Mcs9835ServiceProof -------------------------
(***************************************************************************)
(* The driver implements ParportService, for any number of devices, files  *)
(* and slots, where devices stay for as long as the module does and the    *)
(* PCI core runs one call at a time.  IInv gives what the open files see,  *)
(* SlotInv that the devices in service are no more than the slots in use.  *)
(***************************************************************************)
EXTENDS Mcs9835Refinement, Mcs9835CoreProof, Mcs9835LedgerProof

(* What the service sees of the driver.                                     *)
Attached == {pci_dev[s] : s \in {t \in Slots : init_done[t]}}
User     == [h \in Handles |-> file[h].dev]
Reached  == [h \in Handles |-> file[h].hit]

(* The service counts as the driver does.                                   *)
LEMMA SameCardinality ==
  ASSUME NEW S
  PROVE  Service!Cardinality(S) = Cardinality(S)
BY DEF Service!Cardinality, Cardinality

(* No more devices are in service than slots are in use: a device in        *)
(* service has its slot in its driver data.                                 *)
LEMMA AttachedCount ==
  ASSUME SlotInv
  PROVE  /\ Cardinality(Attached) \in Nat
         /\ Cardinality(Attached) <= dev_idx
<1> DEFINE slotOf == [d \in Attached |-> drvdata[d]]
<1>1. \A d \in Attached : drvdata[d] \in InUse /\ pci_dev[drvdata[d]] = d
  BY DEF Attached, InUse, SlotInv, OwnerInv
<1>2. slotOf \in Injection(Attached, InUse)
  BY <1>1 DEF Injection, IsInjective
<1>3. IsFiniteSet(Attached) /\ Cardinality(Attached) <= Cardinality(InUse)
  BY <1>2, FS_Injection, InUseFinite
<1>4. dev_idx = Cardinality(InUse)
  BY DEF SlotInv, CountInv
<1> QED
  BY <1>3, <1>4, FS_CardinalityType

(* What does not touch the publication of a record or a file is invisible.  *)
LEMMA Invisible ==
  ASSUME UNCHANGED <<init_done, pci_dev, file>>
  PROVE  UNCHANGED Service!serviceVars
BY DEF Service!serviceVars

(* A publication attaches the device, which has no slot yet.                *)
LEMMA PublishAttaches ==
  ASSUME TypeOK, SlotInv, NEW d \in Devices, Publish(d)
  PROVE  Service!Attach(d)
<1> DEFINE s == Slot(d)
<1>0. /\ pci_dev \in [Slots -> Devices \cup {NULL}]
      /\ init_done \in [Slots -> BOOLEAN]
      /\ s \in Slots /\ dev_idx \in Int
  BY FrameFacts DEF TypeOK
<1>1. ProbeCall(d) /\ s = dev_idx /\ ~Published(d)
  <2>1. frame[d].pc = "publish"
    BY DEF Publish, At
  <2>2. ProbeCall(d)
    BY <2>1 DEF SlotInv, CallInv, RemoveCall, RemoveLabels, Idle, At
  <2> QED
    BY <2>1, <2>2 DEF ProbeCall, HasPublished, At
<1>2. ~init_done[s]
  BY <1>0, <1>1 DEF ProbeCall, SlotInv, CountInv
<1>3. d \notin Attached
  BY <1>1 DEF Published, Attached
<1>4. Cardinality(Attached) < MAX_DEVICES
  BY <1>0, <1>1, AttachedCount, McsAssumption DEF Slots
<1>5. Attached' = Attached \cup {d}
  <2>1. /\ \A t \in Slots : init_done'[t] <=> init_done[t] \/ t = s
        /\ \A t \in Slots : pci_dev'[t] = IF t = s THEN d ELSE pci_dev[t]
    BY <1>0 DEF Publish
  <2> QED
    BY <1>0, <1>2, <2>1 DEF Attached
<1> QED
  BY <1>3, <1>4, <1>5, SameCardinality DEF Service!Attach, Attached, Publish

(* A retirement detaches the device, which no file is open on: files are    *)
(* open only while the module is live, and then no device leaves.           *)
LEMMA RetireDetaches ==
  ASSUME ~HotUnbind, IInv, SlotInv, NEW d \in Devices, Retire(d)
  PROVE  Service!Detach(d)
<1> DEFINE s == Slot(d)
<1>0. init_done \in [Slots -> BOOLEAN]
  BY DEF IInv, TypeOK
<1>1. /\ modstate = "detaching"
      /\ s \in Slots /\ init_done[s] /\ pci_dev[s] = d /\ drvdata[d] = s
  <2>1. RemoveCall(d)
    BY DEF SlotInv, CallInv, ProbeCall, Retire, Idle, At
  <2> QED
    BY <2>1 DEF RemoveCall, Owns
<1>2. \A h \in Handles : file[h].dev # d
  BY <1>1, McsAssumption DEF IInv, FileInv, FileOK
<1>3. d \in Attached
  BY <1>1 DEF Attached
<1>4. Attached' = Attached \ {d}
  <2>1. /\ \A t \in Slots : init_done'[t] <=> init_done[t] /\ t # s
        /\ pci_dev' = pci_dev
    BY <1>0 DEF Retire
  <2>2. \A t \in Slots : init_done[t] /\ pci_dev[t] = d => t = s
    BY <1>1 DEF SlotInv, OwnerInv
  <2> QED
    BY <1>1, <2>1, <2>2 DEF Attached
<1> QED
  BY <1>2, <1>3, <1>4 DEF Service!Detach, Attached, Retire

(* A load clears the records of a module that has none in use.              *)
LEMMA ModuleInvisible ==
  ASSUME SlotInv, Module
  PROVE  UNCHANGED Service!serviceVars
<1>1. CASE mcs9835_initialize
  <2>1. \A s \in Slots : ~init_done[s] /\ ~init_done'[s]
    BY <1>1 DEF mcs9835_initialize, SlotInv, OwnerInv, AllIdle
  <2>2. Attached' = Attached /\ file' = file
    BY <1>1, <2>1 DEF Attached, mcs9835_initialize
  <2> QED
    BY <2>2 DEF Service!serviceVars, Attached
<1>2. CASE Unload \/ mcs9835_finalize
  BY <1>2, Invisible DEF Unload, mcs9835_finalize, recordVars
<1> QED
  BY <1>1, <1>2 DEF Module

(* A file that is opened is one more user of an attached device, a read or  *)
(* a write reaches the device that the file was opened for, and a close     *)
(* forgets both.                                                            *)
LEMMA FileServed ==
  ASSUME IInv, NEW h \in Handles, FileOperation(h)
  PROVE  \/ Service!Access(h) \/ Service!Close(h)
         \/ \E d \in Devices : Service!Open(h, d)
         \/ UNCHANGED Service!serviceVars
<1>0. /\ file \in [Handles -> File]
      /\ FileOK(h)
      /\ file[h].slot \in Slots
      /\ NULL \notin Devices
  BY McsAssumption DEF IInv, TypeOK, FileInv, File
<1>1. UNCHANGED <<init_done, pci_dev>> /\ Attached' = Attached
  BY FileQuiet DEF recordVars, Attached
<1>2. file[h].pc \in {"open", "copyin"} =>
        /\ file[h].dev \in Devices /\ file[h].dev # NULL
        /\ PortReached(file[h].slot) = file[h].dev
  BY <1>0 DEF IInv, FileOK, RecordsInv, RecordOK, OwnPort, PortReached, Bars
<1>3. file[h].pc \in {"closed", "opening"} =>
        file[h].dev = NULL /\ file[h].hit = NULL
  BY <1>0 DEF FileOK
<1>4. \A g \in Handles \ {h} : file'[g] = file[g]
  BY <1>0 DEF FileOperation, ChrdevOpen, mcs9835_open_parport,
     mcs9835_read_parport, CopyFromUser, WritePort, mcs9835_close_parport
<1>5. ASSUME NEW dev, NEW hit, file'[h].dev = dev, file'[h].hit = hit
      PROVE  /\ User' = [User EXCEPT ![h] = dev]
             /\ Reached' = [Reached EXCEPT ![h] = hit]
  BY <1>4, <1>5 DEF User, Reached
<1>6. CASE file'[h].dev = file[h].dev /\ file'[h].hit = file[h].hit
  <2>1. User' = User /\ Reached' = Reached
    BY <1>5, <1>6 DEF User, Reached
  <2> QED
    BY <1>1, <2>1 DEF Service!serviceVars, Attached, User, Reached
<1>7. CASE \E s \in Slots : ChrdevOpen(h, s)
  BY <1>0, <1>3, <1>6, <1>7 DEF ChrdevOpen, Opening
<1>8. CASE mcs9835_open_parport(h)
  <2>1. CASE init_done[file[h].slot]
    <3>0. pci_dev[file[h].slot] \in Attached \cap Devices
      BY <1>0, <1>8, <2>1 DEF Attached, IInv, RecordsInv, RecordOK, FileOK,
         mcs9835_open_parport
    <3>1. PICK d \in Devices : d = pci_dev[file[h].slot] /\ d \in Attached
      BY <3>0
    <3>2. file'[h] = [file[h] EXCEPT !.pc = "open", !.dev = d]
      BY <1>0, <1>8, <2>1, <3>1 DEF mcs9835_open_parport
    <3>3. file'[h].dev = d /\ file'[h].hit = file[h].hit
      BY <1>0, <3>2 DEF File
    <3>4. User' = [User EXCEPT ![h] = d] /\ Reached' = Reached
      BY <1>5, <3>3 DEF Reached
    <3>5. User[h] = NULL
      BY <1>3, <1>8 DEF User, mcs9835_open_parport
    <3>6. Service!Open(h, d)
      BY <1>1, <3>1, <3>4, <3>5 DEF Service!Open, Attached, User, Reached
    <3> QED
      BY <3>6
  <2>2. CASE ~init_done[file[h].slot]
    BY <1>0, <1>3, <1>6, <1>8, <2>2 DEF mcs9835_open_parport, NoFile
  <2> QED
    BY <2>1, <2>2
<1>9. CASE mcs9835_read_parport(h) \/ WritePort(h)
  <2>1. file[h].dev # NULL /\ PortReached(file[h].slot) = file[h].dev
    BY <1>2, <1>9 DEF mcs9835_read_parport, WritePort
  <2>2. file'[h].dev = file[h].dev /\ file'[h].hit = file[h].dev
    <3>1. CASE mcs9835_read_parport(h)
      <4>1. file'[h] = [file[h] EXCEPT !.hit = file[h].dev]
        BY <1>0, <2>1, <3>1 DEF mcs9835_read_parport
      <4> QED
        BY <1>0, <4>1 DEF File
    <3>2. CASE WritePort(h)
      <4>1. file'[h] = [file[h] EXCEPT !.pc = "open", !.hit = file[h].dev]
        BY <1>0, <2>1, <3>2 DEF WritePort
      <4> QED
        BY <1>0, <4>1 DEF File
    <3> QED
      BY <1>9, <3>1, <3>2
  <2>3. /\ User' = User
        /\ Reached' = [Reached EXCEPT ![h] = User[h]]
        /\ User[h] # NULL
    BY <1>5, <2>1, <2>2 DEF User
  <2> QED
    BY <1>1, <2>3 DEF Service!Access, Attached, User, Reached
<1>10. CASE CopyFromUser(h)
  <2>1. file'[h] = [file[h] EXCEPT !.pc = "copyin"]
    BY <1>0, <1>10 DEF CopyFromUser
  <2>2. file'[h].dev = file[h].dev /\ file'[h].hit = file[h].hit
    BY <1>0, <2>1 DEF File
  <2> QED
    BY <1>6, <2>2
<1>11. CASE mcs9835_close_parport(h)
  <2>1. file'[h] = NoFile /\ file[h].dev # NULL
    BY <1>0, <1>2, <1>11 DEF mcs9835_close_parport
  <2>2. /\ User' = [User EXCEPT ![h] = NULL]
        /\ Reached' = [Reached EXCEPT ![h] = NULL]
        /\ User[h] # NULL
    BY <1>5, <2>1 DEF NoFile, User
  <2> QED
    BY <1>1, <2>2 DEF Service!Close, Attached, User, Reached
<1> QED
  BY <1>7, <1>8, <1>9, <1>10, <1>11 DEF FileOperation

(* The steps of a call that neither publish nor retire are invisible.       *)
LEMMA HandlerServed ==
  ASSUME ~HotUnbind, IInv, SlotInv, NEW d \in Devices, Handler(d)
  PROVE  \/ Service!Attach(d) \/ Service!Detach(d)
         \/ UNCHANGED Service!serviceVars
<1>1. CASE Publish(d)
  BY <1>1, PublishAttaches DEF IInv
<1>2. CASE Retire(d)
  BY <1>2, RetireDetaches
<1>3. CASE ~Publish(d) /\ ~Retire(d)
  <2>1. UNCHANGED <<init_done, pci_dev, file>>
    BY <1>3 DEF Handler, EnableDevice, CheckBars, RequestRegions, Iomap,
       mcs9835_cdev_initialize, InitializeReturned, mcs9835_cdev_create,
       AllocRegion, CdevAdd, DeviceCreate, ErrCreate, ErrAdd, CreateReturned,
       dump_dev_registers, ProbeReturn, mcs9835_cdev_destroy, DeviceDestroy,
       CdevDel, UnregisterRegion, DestroyReturned, mcs9835_cdev_finalize,
       Iounmap, ReleaseRegions, DisableDevice, recordVars
  <2> QED
    BY <2>1, Invisible
<1> QED
  BY <1>1, <1>2, <1>3

(* Every step of the driver is a step of the service or none.               *)
LEMMA Served ==
  ASSUME ~HotUnbind, IInv, SlotInv, [Next]_vars
  PROVE  Service!Next \/ UNCHANGED Service!serviceVars
<1>1. ASSUME NEW d \in Devices, Handler(d)
      PROVE  Service!Next \/ UNCHANGED Service!serviceVars
  BY <1>1, HandlerServed DEF Service!Next
<1>2. ASSUME NEW d \in Devices, Probe(d) \/ Remove(d)
      PROVE  UNCHANGED Service!serviceVars
  <2>1. UNCHANGED <<init_done, pci_dev, file>>
    BY <1>2 DEF Probe, Remove, recordVars
  <2> QED
    BY <2>1, Invisible
<1>3. ASSUME NEW h \in Handles, FileOperation(h)
      PROVE  Service!Next \/ UNCHANGED Service!serviceVars
  BY <1>3, FileServed DEF Service!Next
<1>4. CASE UNCHANGED vars
  BY <1>4, Invisible DEF vars, recordVars
<1> QED
  BY <1>1, <1>2, <1>3, <1>4, ModuleInvisible DEF Next

-----------------------------------------------------------------------------

(* Seen through its published records and its open files, the driver does   *)
(* what ParportService promises.                                            *)
THEOREM Implementation ==
  ASSUME ~HotUnbind, ~Concurrent
  PROVE  Spec => ImplementsService
<1>1. Init => Service!Init
  <2> SUFFICES ASSUME Init PROVE Service!Init
    OBVIOUS
  <2>1. Attached = {} /\ \A h \in Handles : file[h] = NoFile
    BY DEF Init, Attached
  <2> QED
    BY <2>1 DEF Service!Init, Attached, NoFile
<1>2. IInv /\ LedgerInv /\ [Next]_vars => [Service!Next]_(Service!serviceVars)
  BY Served DEF LedgerInv
<1> QED
  BY <1>1, <1>2, Invariance, LedgerInvariance, PTL
  DEF Spec, ImplementsService, Service!Spec

-----------------------------------------------------------------------------
(* Where devices leave under open files, those whose device is in service   *)
(* are still served.                                                        *)

(* A device in service has all its BARs mapped, by the cookies in its slot. *)
LEMMA ServedAccess ==
  ASSUME LedgerInv, NEW h \in Handles, NEW d \in Devices, Access(h),
         bound[d], Idle(d), file[h].slot = drvdata[d]
  PROVE  file'[h].hit = d
<1>1. /\ file \in [Handles -> File]
      /\ vmem \in [Slots -> [Bars -> Devices \cup {NULL}]]
      /\ 2 \in Bars
  BY DEF LedgerInv, TypeOK, Bars
<1>2. Owns(d)
  BY DEF LedgerInv, SlotInv, OwnerInv
<1>3. vmem[drvdata[d]][2] = d
  BY <1>1, <1>2 DEF Owns, LedgerInv, PciInv, CookieInv
<1>4. 2 \in mapped[d]
  BY <1>1 DEF LedgerInv, PciInv, HoldingInv, BarsOK, HoldsBars, Done
<1>5. PortReached(file[h].slot) = d
  BY <1>3, <1>4 DEF PortReached
<1>6. file'[h].hit = PortReached(file[h].slot)
  <2>1. CASE mcs9835_read_parport(h)
    <3>1. file'[h] = [file[h] EXCEPT !.hit = PortReached(file[h].slot)]
      BY <1>1, <2>1 DEF mcs9835_read_parport
    <3> QED
      BY <1>1, <3>1 DEF File
  <2>2. CASE WritePort(h)
    <3>1. file'[h] = [file[h] EXCEPT !.pc = "open",
                                     !.hit = PortReached(file[h].slot)]
      BY <1>1, <2>2 DEF WritePort
    <3> QED
      BY <1>1, <3>1 DEF File
  <2> QED
    BY <2>1, <2>2 DEF Access
<1> QED
  BY <1>5, <1>6

(* A file is on the slot of its device: there is only one, or the device    *)
(* has been there since the file was opened.                                *)
LEMMA FileOnOwnSlot ==
  ASSUME LedgerInv, MAX_DEVICES = 1 \/ IInv, NEW h \in Handles,
         NEW d \in Devices, Access(h), file[h].dev = d, bound[d], Idle(d)
  PROVE  file[h].slot = drvdata[d]
<1>1. file[h].slot \in Slots
  BY DEF LedgerInv, TypeOK, File
<1>2. CASE MAX_DEVICES = 1
  <2>1. drvdata[d] \in Slots
    BY DEF LedgerInv, SlotInv, OwnerInv, Owns
  <2> QED
    BY <1>1, <1>2, <2>1 DEF Slots
<1>3. CASE IInv
  <2>1. file[h].pc \in {"open", "copyin"}
    BY DEF Access, mcs9835_read_parport, WritePort
  <2>2. init_done[file[h].slot] /\ pci_dev[file[h].slot] = d
    BY <1>3, <2>1 DEF IInv, FileInv, FileOK
  <2> QED
    BY <1>1, <2>2 DEF LedgerInv, SlotInv, OwnerInv
<1> QED
  BY <1>2, <1>3

(* A read or write through a file whose device is in service reaches that   *)
(* device, whoever came, failed or left since the file was opened: where    *)
(* devices stay, and with the one slot of the code where they leave.        *)
THEOREM BoundServed ==
  ASSUME ~Concurrent, HotUnbind => MAX_DEVICES = 1
  PROVE  Spec => BoundIsServed
<1>1. LedgerInv /\ (MAX_DEVICES = 1 \/ IInv) /\ [Next]_vars
        => [\A h \in Handles : \A d \in Devices :
               Access(h) /\ file[h].dev = d /\ bound[d] /\ Idle(d) =>
                   file'[h].hit = d]_vars
  BY ServedAccess, FileOnOwnSlot
<1>2. Spec => []LedgerInv
  BY LedgerInvariance
<1>3. Spec => [](MAX_DEVICES = 1 \/ IInv)
  <2>1. CASE MAX_DEVICES = 1
    BY <2>1, PTL
  <2>2. CASE ~HotUnbind
    <3>1. Spec => []IInv
      BY <2>2, Invariance
    <3> QED
      BY <3>1, PTL
  <2> QED
    BY <2>1, <2>2
<1> QED
  BY <1>1, <1>2, <1>3, PTL DEF Spec, BoundIsServed
=============================================================================
