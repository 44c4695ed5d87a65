--------------------------- MODULE Mcs9835UseProof ---------------------------
(***************************************************************************)
(* What is in use is not freed, in every environment: the array of records *)
(* outlives each call, file and device that leads to it, even where        *)
(* devices come and go at any time and calls overlap.  And what else the   *)
(* invariant of Mcs9835CoreProof gives on its machine, where devices stay  *)
(* for as long as the module does and the PCI core runs one call at a      *)
(* time: no open port is initialised again.                                *)
(***************************************************************************)
EXTENDS Mcs9835CoreProof

(* The array is allocated as long as there is a module, an absent module    *)
(* has no calls and no devices, and only a live one has files.              *)
UseInv ==
    /\ modstate # "absent" => allocated
    /\ modstate = "absent" => AllIdle /\ \A d \in Devices : ~bound[d]
    /\ modstate # "live" => \A h \in Handles : file[h].pc = "closed"

(* The steps of a call need a module and leave it and its files alone.      *)
LEMMA HandlerUse ==
  ASSUME UseInv, NEW d \in Devices, Handler(d)
  PROVE  UseInv'
<1>1. ~Idle(d)
  BY DEF Idle, At, Handler, EnableDevice, CheckBars, RequestRegions, Iomap,
     mcs9835_cdev_initialize, InitializeReturned, mcs9835_cdev_create,
     AllocRegion, CdevAdd, DeviceCreate, ErrCreate, ErrAdd, CreateReturned,
     Publish, dump_dev_registers, ProbeReturn, mcs9835_cdev_destroy,
     DeviceDestroy, CdevDel, UnregisterRegion, DestroyReturned,
     mcs9835_cdev_finalize, Iounmap, ReleaseRegions, DisableDevice, Retire
<1>2. UNCHANGED <<modstate, allocated, file>>
  BY DEF Handler, EnableDevice, CheckBars, RequestRegions, Iomap,
     mcs9835_cdev_initialize, InitializeReturned, mcs9835_cdev_create,
     AllocRegion, CdevAdd, DeviceCreate, ErrCreate, ErrAdd, CreateReturned,
     Publish, dump_dev_registers, ProbeReturn, mcs9835_cdev_destroy,
     DeviceDestroy, CdevDel, UnregisterRegion, DestroyReturned,
     mcs9835_cdev_finalize, Iounmap, ReleaseRegions, DisableDevice, Retire,
     moduleVars
<1> QED
  BY <1>1, <1>2 DEF UseInv, AllIdle

(* A file that is not closed needs a live module, and so does an open.      *)
LEMMA FileUse ==
  ASSUME TypeOK, UseInv, NEW h \in Handles, FileOperation(h)
  PROVE  UseInv'
<1>1. modstate = "live"
  BY DEF UseInv, FileOperation, ChrdevOpen, mcs9835_open_parport,
     mcs9835_read_parport, CopyFromUser, WritePort, mcs9835_close_parport
<1>2. UNCHANGED <<modstate, allocated>>
  BY DEF FileOperation, ChrdevOpen, mcs9835_open_parport,
     mcs9835_read_parport, CopyFromUser, WritePort, mcs9835_close_parport,
     moduleVars
<1> QED
  BY <1>1, <1>2 DEF UseInv

LEMMA UseStep ==
  ASSUME TypeOK, UseInv, [Next]_vars
  PROVE  UseInv'
<1>1. CASE Module
  <2> USE DEF UseInv, AllIdle, Idle, At
  <2>1. CASE mcs9835_initialize
    BY <2>1 DEF mcs9835_initialize, pciVars
  <2>2. CASE Unload
    BY <2>2 DEF Unload, ModuleRefs
  <2>3. CASE mcs9835_finalize
    BY <2>3 DEF mcs9835_finalize, pciVars
  <2> QED
    BY <1>1, <2>1, <2>2, <2>3 DEF Module
<1>2. ASSUME NEW d \in Devices, Probe(d) \/ Remove(d)
      PROVE  UseInv'
  <2>1. modstate # "absent"
    BY <1>2 DEF Probe, Remove, MayRemove
  <2> QED
    BY <1>2, <2>1 DEF UseInv, Probe, Remove, moduleVars
<1>3. CASE UNCHANGED vars
  BY <1>3 DEF UseInv, AllIdle, Idle, At, vars, moduleVars, pciVars
<1> QED
  BY <1>1, <1>2, <1>3, HandlerUse, FileUse DEF Next

LEMMA UseInit ==
  ASSUME Init
  PROVE  UseInv
BY DEF Init, UseInv, AllIdle, Idle, At, NoFrame, NoFile, Call

(* A call before its publication works on the slot the counter names, which *)
(* is not published, so that no open file is on it.                         *)
LEMMA UnpublishedUnused ==
  ASSUME IInv, NEW d \in Devices, At(d, "cdev_add"), NEW h \in Handles,
         file[h].pc \in {"open", "copyin"}
  PROVE  file[h].slot # Slot(d)
<1>1. ~Idle(d)
  BY DEF At, Idle
<1>2. modstate = "live"
  BY <1>1, NotLive DEF RemoveOK, At
<1>3. Slot(d) = dev_idx
  BY <1>1, <1>2 DEF IInv, FrameInv, ProbeOK, HasPublished, At
<1>4. file[h].slot \in Slots /\ init_done[file[h].slot]
  BY DEF IInv, TypeOK, File, FileInv, FileOK
<1>5. file[h].slot < dev_idx
  BY <1>2, <1>4 DEF IInv, RecordsInv, RecordOK
<1>6. dev_idx \in Int
  BY DEF IInv, TypeOK
<1> QED
  BY <1>3, <1>5, <1>6

-----------------------------------------------------------------------------

(* The array of records is not freed while a call, an open file or a bound  *)
(* device can still lead to it, whatever the environment does.              *)
THEOREM FreedUnused == Spec => []NoUseAfterFree
<1>1. Init => UseInv
  BY UseInit
<1>2. TypeOK /\ UseInv /\ [Next]_vars => UseInv'
  BY UseStep
<1>3. UseInv => NoUseAfterFree
  BY DEF UseInv, NoUseAfterFree
<1> QED
  BY <1>1, <1>2, <1>3, TypeCorrect, PTL DEF Spec

(* A probe never initialises again the cdev of a port that is open.         *)
THEOREM OpenCdevKept ==
  ASSUME ~HotUnbind, ~Concurrent
  PROVE  Spec => []CdevInitUnused
<1>1. IInv => CdevInitUnused
  BY UnpublishedUnused DEF CdevInitUnused
<1> QED
  BY <1>1, Invariance, PTL
=============================================================================
