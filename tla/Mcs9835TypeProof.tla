--------------------------- MODULE Mcs9835TypeProof ---------------------------
(***************************************************************************)
(* The driver's type invariant, for any number of devices, files and slots *)
(* and in every environment.  A probe works on the slot the counter names  *)
(* and tests its upper bound only, so that its type rests on the counter   *)
(* not being negative (CounterInv).                                        *)
(***************************************************************************)
EXTENDS Mcs9835Safety, FiniteSetTheorems, TLAPS

-----------------------------------------------------------------------------
(* What the three ways to advance a call do to the frames.                  *)

(* Goto leaves the registers of the call alone.                             *)
LEMMA GotoStep ==
  ASSUME TypeOK, NEW d \in Devices, NEW l \in Labels, Goto(d, l)
  PROVE  /\ frame' \in [Devices -> Frame]
         /\ \A e \in Devices \ {d} : frame'[e] = frame[e]
         /\ frame'[d].pc = l
         /\ frame'[d].op = frame[d].op
         /\ frame'[d].cur = frame[d].cur
         /\ frame'[d].rc = frame[d].rc
         /\ frame'[d].slot = frame[d].slot
<1>1. frame \in [Devices -> Frame]
  BY DEF TypeOK
<1>2. [frame[d] EXCEPT !.pc = l] \in Frame
  BY <1>1 DEF Frame
<1>3. frame' = [frame EXCEPT ![d] = [frame[d] EXCEPT !.pc = l]]
  BY <1>1 DEF Goto
<1>4. frame'[d] = [frame[d] EXCEPT !.pc = l]
  BY <1>1, <1>3
<1>5. frame' \in [Devices -> Frame]
  BY <1>1, <1>2, <1>3
<1> QED
  BY <1>1, <1>3, <1>4, <1>5 DEF Frame

(* GotoAt sets the BAR or cdev it works on.                                 *)
LEMMA GotoAtStep ==
  ASSUME TypeOK, NEW d \in Devices, NEW l \in Labels, NEW n \in Bars,
         GotoAt(d, l, n)
  PROVE  /\ frame' \in [Devices -> Frame]
         /\ \A e \in Devices \ {d} : frame'[e] = frame[e]
         /\ frame'[d].pc = l
         /\ frame'[d].op = frame[d].op
         /\ frame'[d].cur = n
         /\ frame'[d].rc = frame[d].rc
         /\ frame'[d].slot = frame[d].slot
<1>1. frame \in [Devices -> Frame]
  BY DEF TypeOK
<1>2. [frame[d] EXCEPT !.pc = l, !.cur = n] \in Frame
  BY <1>1 DEF Frame
<1>3. frame'[d] = [frame[d] EXCEPT !.pc = l, !.cur = n]
  BY <1>1 DEF GotoAt
<1>4. frame' \in [Devices -> Frame]
  BY <1>1, <1>2 DEF GotoAt
<1> QED
  BY <1>1, <1>3, <1>4 DEF Frame, GotoAt

(* FailTo also sets the result of the call.                                 *)
LEMMA FailToStep ==
  ASSUME TypeOK, NEW d \in Devices, NEW l \in Labels, NEW n \in Bars,
         FailTo(d, l, n)
  PROVE  /\ frame' \in [Devices -> Frame]
         /\ \A e \in Devices \ {d} : frame'[e] = frame[e]
         /\ frame'[d].pc = l
         /\ frame'[d].op = frame[d].op
         /\ frame'[d].cur = n
         /\ frame'[d].rc = -1
         /\ frame'[d].slot = frame[d].slot
<1>1. frame \in [Devices -> Frame]
  BY DEF TypeOK
<1>2. [frame[d] EXCEPT !.pc = l, !.cur = n, !.rc = -1] \in Frame
  BY <1>1 DEF Frame
<1>3. frame'[d] = [frame[d] EXCEPT !.pc = l, !.cur = n, !.rc = -1]
  BY <1>1 DEF FailTo
<1>4. frame' \in [Devices -> Frame]
  BY <1>1, <1>2 DEF FailTo
<1> QED
  BY <1>1, <1>3, <1>4 DEF Frame, FailTo

-----------------------------------------------------------------------------
(* Type correctness.                                                        *)

(* A step of a call keeps the frames well typed.                            *)
LEMMA FrameTyped ==
  ASSUME TypeOK, NEW d \in Devices, Handler(d)
  PROVE  frame' \in [Devices -> Frame]
<1> USE McsAssumption DEF Labels, CdevLabels, CoreLabels
<1>0. /\ frame \in [Devices -> Frame]
      /\ Cur(d) \in Bars
      /\ 0 \in Bars
      /\ UART_A \in Bars
      /\ Cur(d) < 3 => Cur(d) + 1 \in Bars
      /\ Cur(d) > UART_A => Cur(d) - 1 \in Bars
      /\ Cur(d) < PARPORT => Cur(d) + 1 \in Bars
  BY DEF TypeOK, Frame, Cur, Bars, UART_A, PARPORT
<1>1. CASE EnableDevice(d)
  BY <1>0, <1>1, GotoStep, FailToStep DEF EnableDevice
<1>2. CASE CheckBars(d)
  BY <1>0, <1>2, GotoStep, FailToStep DEF CheckBars
<1>3. CASE RequestRegions(d)
  BY <1>0, <1>3, GotoAtStep, FailToStep DEF RequestRegions
<1>4. CASE Iomap(d)
  BY <1>0, <1>4, GotoAtStep, FailToStep DEF Iomap, AfterBar
<1>5. CASE mcs9835_cdev_initialize(d)
  BY <1>0, <1>5, GotoStep, FailToStep DEF mcs9835_cdev_initialize
<1>6. CASE InitializeReturned(d)
  BY <1>0, <1>6, GotoAtStep DEF InitializeReturned
<1>7. CASE mcs9835_cdev_create(d)
  BY <1>0, <1>7, GotoStep, FailToStep
  DEF mcs9835_cdev_create, AllocRegion, CdevAdd, DeviceCreate, ErrCreate, ErrAdd
<1>8. CASE CreateReturned(d)
  BY <1>0, <1>8, GotoStep, GotoAtStep DEF CreateReturned, Unwind
<1>9. CASE Publish(d)
  BY <1>9, GotoStep DEF Publish, pci_set_drvdata, CountDevice
<1>10. CASE dump_dev_registers(d)
  BY <1>10, GotoStep DEF dump_dev_registers
<1>11. CASE mcs9835_cdev_destroy(d)
  BY <1>11, GotoStep
  DEF mcs9835_cdev_destroy, DeviceDestroy, CdevDel, UnregisterRegion
<1>12. CASE DestroyReturned(d)
  BY <1>0, <1>12, GotoStep, GotoAtStep DEF DestroyReturned, DestroyNext, Unwind
<1>13. CASE mcs9835_cdev_finalize(d)
  BY <1>0, <1>13, GotoAtStep DEF mcs9835_cdev_finalize
<1>14. CASE Iounmap(d)
  BY <1>0, <1>14, GotoAtStep DEF Iounmap, AfterBar
<1>15. CASE ReleaseRegions(d)
  BY <1>15, GotoStep DEF ReleaseRegions
<1>16. CASE DisableDevice(d)
  BY <1>16, GotoStep DEF DisableDevice
<1>17. CASE ProbeReturn(d) \/ Retire(d)
  BY <1>0, <1>17
  DEF ProbeReturn, Retire, Return, NoFrame, Call, Frame, Labels,
      CoreLabels, Bars, Slots
<1> QED
  BY <1>1, <1>2, <1>3, <1>4, <1>5, <1>6, <1>7, <1>8, <1>9, <1>10, <1>11,
     <1>12, <1>13, <1>14, <1>15, <1>16, <1>17 DEF Handler

(* The initial state is well typed.                                         *)
LEMMA TypeInit ==
  ASSUME Init
  PROVE  TypeOK
<1> USE McsAssumption
<1>1. NoFrame \in Frame /\ NoFile \in File
  BY DEF NoFrame, Call, NoFile, Frame, File, Slots, Labels, CoreLabels, Bars
<1>2. frame \in [Devices -> Frame] /\ file \in [Handles -> File]
  BY <1>1 DEF Init
<1>3. /\ NoCookies \in [Bars -> Devices \cup {NULL}]
      /\ NoCdevs \in [Cdevs -> BOOLEAN]
      /\ [c \in Cdevs |-> {}] \in [Cdevs -> SUBSET ChrParts]
  BY DEF NoCookies, NoCdevs
<1>4. /\ vmem \in [Slots -> [Bars -> Devices \cup {NULL}]]
      /\ class \in [Slots -> Int \cup {NULL, ERR_PTR}]
      /\ have_cdev \in [Slots -> [Cdevs -> BOOLEAN]]
      /\ pci_dev \in [Slots -> Devices \cup {NULL}]
      /\ init_done \in [Slots -> BOOLEAN]
  BY <1>3 DEF Init
<1>5. /\ pci \in [Devices -> SUBSET {"enabled", "regions"}]
      /\ mapped \in [Devices -> SUBSET Bars]
      /\ bound \in [Devices -> BOOLEAN]
      /\ drvdata \in [Devices -> Slots \cup {NULL}]
      /\ classes \in SUBSET Int
      /\ reg \in [Slots -> [Cdevs -> SUBSET ChrParts]]
  BY <1>3 DEF Init
<1> QED
  BY <1>2, <1>4, <1>5 DEF Init, TypeOK

(* Every step keeps the types, if a live module's counter is not negative.  *)
LEMMA TypeStep ==
  ASSUME TypeOK, modstate = "live" => dev_idx >= 0, [Next]_vars
  PROVE  TypeOK'
<1> USE McsAssumption
<1>1. CASE Module
  <2>1. CASE mcs9835_initialize
    <3>1. /\ NoCookies \in [Bars -> Devices \cup {NULL}]
          /\ NoCdevs \in [Cdevs -> BOOLEAN]
      BY DEF NoCookies, NoCdevs
    <3>2. /\ vmem' \in [Slots -> [Bars -> Devices \cup {NULL}]]
          /\ class' \in [Slots -> Int \cup {NULL, ERR_PTR}]
          /\ have_cdev' \in [Slots -> [Cdevs -> BOOLEAN]]
          /\ pci_dev' \in [Slots -> Devices \cup {NULL}]
          /\ init_done' \in [Slots -> BOOLEAN]
      BY <2>1, <3>1 DEF mcs9835_initialize
    <3> QED
      BY <2>1, <3>2 DEF TypeOK, mcs9835_initialize, pciVars, chrVars
  <2>2. CASE Unload \/ mcs9835_finalize
    BY <2>2 DEF TypeOK, Unload, mcs9835_finalize, recordVars, pciVars, chrVars
  <2> QED
    BY <1>1, <2>1, <2>2 DEF Module
<1>2. ASSUME NEW d \in Devices, Probe(d) \/ Remove(d) PROVE TypeOK'
  <2>1. ASSUME NEW s \in Slots
        PROVE  /\ Call("pci_enable_device", "probe", s) \in Frame
               /\ Call("device_destroy", "remove", s) \in Frame
    BY DEF Call, Frame, Labels, CdevLabels, CoreLabels, Bars
  <2>3. drvdata[d] # NULL => drvdata[d] \in Slots
    BY DEF TypeOK
  <2>4. frame \in [Devices -> Frame] /\ bound \in [Devices -> BOOLEAN]
    BY DEF TypeOK
  <2>5. CASE Probe(d)
    <3>1. dev_idx \in Slots
      BY <2>5 DEF Probe, TypeOK, Slots
    <3>2. frame' \in [Devices -> Frame]
      BY <2>1, <2>4, <2>5, <3>1 DEF Probe
    <3> QED
      BY <2>5, <3>2 DEF TypeOK, Probe, recordVars, moduleVars, pciVars, chrVars
  <2>6. CASE Remove(d)
    <3>1. frame' \in [Devices -> Frame] /\ bound' \in [Devices -> BOOLEAN]
      BY <2>1, <2>3, <2>4, <2>6 DEF Remove
    <3> QED
      BY <2>6, <3>1 DEF TypeOK, Remove, recordVars, moduleVars, chrVars
  <2> QED
    BY <1>2, <2>5, <2>6
<1>3. ASSUME NEW d \in Devices, Handler(d) PROVE TypeOK'
  <2>1. frame' \in [Devices -> Frame]
    BY <1>3, FrameTyped
  <2>2. Slot(d) \in Slots /\ Cur(d) \in Bars
    BY DEF TypeOK, Frame, Slot, Cur
  <2> DEFINE Rest == <<recordVars, moduleVars, file, pciVars, chrVars>>
  <2>3. CASE UNCHANGED Rest
    BY <2>1, <2>3 DEF TypeOK, recordVars, moduleVars, pciVars, chrVars
  <2>4. CASE EnableDevice(d) \/ RequestRegions(d) \/ ReleaseRegions(d)
             \/ DisableDevice(d)
    <3>1. pci \in [Devices -> SUBSET {"enabled", "regions"}]
      BY DEF TypeOK
    <3>2. pci' \in [Devices -> SUBSET {"enabled", "regions"}]
      BY <2>4, <3>1 DEF EnableDevice, RequestRegions, ReleaseRegions,
           DisableDevice, pciVars
    <3>3. UNCHANGED <<recordVars, moduleVars, file, mapped, bound, drvdata,
                      chrVars>>
      BY <2>4 DEF EnableDevice, RequestRegions, ReleaseRegions, DisableDevice
    <3> QED
      BY <2>1, <3>2, <3>3 DEF TypeOK, recordVars, moduleVars, chrVars
  <2>5. CASE Iomap(d)
    <3>1. /\ vmem \in [Slots -> [Bars -> Devices \cup {NULL}]]
          /\ mapped \in [Devices -> SUBSET Bars]
      BY DEF TypeOK
    <3>2. vmem' \in [Slots -> [Bars -> Devices \cup {NULL}]]
      BY <2>2, <2>5, <3>1 DEF Iomap, AfterBar
    <3>3. mapped' \in [Devices -> SUBSET Bars]
      BY <2>2, <2>5, <3>1 DEF Iomap, AfterBar
    <3> QED
      BY <2>1, <2>5, <3>2, <3>3 DEF TypeOK, Iomap, moduleVars, chrVars
  <2>6. CASE mcs9835_cdev_initialize(d) \/ mcs9835_cdev_finalize(d)
    <3>1. /\ class \in [Slots -> Int \cup {NULL, ERR_PTR}]
          /\ classes \in SUBSET Int
          /\ dev_idx \in Int
      BY DEF TypeOK
    <3>2. /\ class' \in [Slots -> Int \cup {NULL, ERR_PTR}]
          /\ classes' \in SUBSET Int
      BY <2>2, <2>6, <3>1 DEF mcs9835_cdev_initialize, mcs9835_cdev_finalize
    <3>3. UNCHANGED <<vmem, have_cdev, pci_dev, init_done, moduleVars, file,
                      pciVars, reg>>
      BY <2>6 DEF mcs9835_cdev_initialize, mcs9835_cdev_finalize
    <3> QED
      BY <2>1, <3>2, <3>3 DEF TypeOK, moduleVars, pciVars
  <2>7. CASE mcs9835_cdev_create(d) \/ mcs9835_cdev_destroy(d)
    <3>1. /\ have_cdev \in [Slots -> [Cdevs -> BOOLEAN]]
          /\ reg \in [Slots -> [Cdevs -> SUBSET ChrParts]]
      BY DEF TypeOK
    <3>2. ASSUME NEW b \in BOOLEAN, SetHaveCdev(d, b)
          PROVE  have_cdev' \in [Slots -> [Cdevs -> BOOLEAN]]
      BY <2>2, <3>1, <3>2 DEF SetHaveCdev
    <3>3. ASSUME NEW part \in ChrParts, Register(d, part) \/ Unregister(d, part)
          PROVE  reg' \in [Slots -> [Cdevs -> SUBSET ChrParts]]
      BY <2>2, <3>1, <3>3 DEF Register, Unregister
    <3>4. have_cdev' \in [Slots -> [Cdevs -> BOOLEAN]]
      BY <2>7, <3>1, <3>2 DEF mcs9835_cdev_create, AllocRegion, CdevAdd,
           DeviceCreate, ErrCreate, ErrAdd, mcs9835_cdev_destroy,
           DeviceDestroy, CdevDel, UnregisterRegion, recordVars
    <3>5. reg' \in [Slots -> [Cdevs -> SUBSET ChrParts]]
      BY <2>7, <3>1, <3>3 DEF mcs9835_cdev_create, AllocRegion, CdevAdd,
           DeviceCreate, ErrCreate, ErrAdd, mcs9835_cdev_destroy,
           DeviceDestroy, CdevDel, UnregisterRegion, ChrParts
    <3>6. UNCHANGED <<vmem, class, pci_dev, init_done, moduleVars, file,
                      pciVars, classes>>
      BY <2>7 DEF mcs9835_cdev_create, AllocRegion, CdevAdd, DeviceCreate,
           ErrCreate, ErrAdd, mcs9835_cdev_destroy, DeviceDestroy, CdevDel,
           UnregisterRegion, recordVars
    <3> QED
      BY <2>1, <3>4, <3>5, <3>6 DEF TypeOK, moduleVars, pciVars
  <2>8. CASE Publish(d)
    <3>1. /\ drvdata \in [Devices -> Slots \cup {NULL}]
          /\ pci_dev \in [Slots -> Devices \cup {NULL}]
          /\ init_done \in [Slots -> BOOLEAN]
          /\ dev_idx \in Int
      BY DEF TypeOK
    <3>2. /\ drvdata' \in [Devices -> Slots \cup {NULL}]
          /\ pci_dev' \in [Slots -> Devices \cup {NULL}]
          /\ init_done' \in [Slots -> BOOLEAN]
          /\ dev_idx' \in Int
      BY <2>2, <2>8, <3>1 DEF Publish, pci_set_drvdata, CountDevice
    <3> QED
      BY <2>1, <2>8, <3>2 DEF TypeOK, Publish, chrVars
  <2>9. CASE Retire(d)
    <3>1. /\ init_done \in [Slots -> BOOLEAN]
          /\ bound \in [Devices -> BOOLEAN]
          /\ dev_idx \in Int
      BY DEF TypeOK
    <3>2. /\ init_done' \in [Slots -> BOOLEAN]
          /\ bound' \in [Devices -> BOOLEAN]
          /\ dev_idx' \in Int
      BY <2>2, <2>9, <3>1 DEF Retire, UncountDevice
    <3> QED
      BY <2>1, <2>9, <3>2 DEF TypeOK, Retire, chrVars
  <2>10. CASE ProbeReturn(d)
    BY <2>1, <2>10 DEF TypeOK, ProbeReturn, recordVars, moduleVars, chrVars
  <2>11. CASE Iounmap(d)
    BY <2>1, <2>11 DEF TypeOK, Iounmap, recordVars, moduleVars, chrVars
  <2> QED
    BY <1>3, <2>3, <2>4, <2>5, <2>6, <2>7, <2>8, <2>9, <2>10, <2>11
    DEF Handler, CheckBars, InitializeReturned, CreateReturned,
        dump_dev_registers, DestroyReturned
<1>4. ASSUME NEW h \in Handles, FileOperation(h) PROVE TypeOK'
  <2>1. file \in [Handles -> File]
    BY DEF TypeOK
  <2>2. NoFile \in File
    BY DEF NoFile, File, Slots
  <2>3. \A s \in Slots : Opening(s) \in File
    BY DEF Opening, File
  <2>4. /\ pci_dev \in [Slots -> Devices \cup {NULL}]
        /\ vmem \in [Slots -> [Bars -> Devices \cup {NULL}]]
    BY DEF TypeOK
  <2>5. /\ file[h].slot \in Slots
        /\ pci_dev[file[h].slot] \in Devices \cup {NULL}
        /\ PortReached(file[h].slot) \in Devices \cup {NULL, NOWHERE}
    BY <2>1, <2>4 DEF File, PortReached
  <2>6. file' \in [Handles -> File]
    <3>1. CASE \E s \in Slots : ChrdevOpen(h, s)
      BY <2>1, <2>3, <3>1 DEF ChrdevOpen
    <3>2. CASE mcs9835_open_parport(h)
      <4>1. [file[h] EXCEPT !.pc = "open", !.dev = pci_dev[file[h].slot]]
              \in File
        BY <2>1, <2>5 DEF File
      <4> QED
        BY <2>1, <2>2, <3>2, <4>1 DEF mcs9835_open_parport
    <3>3. CASE mcs9835_read_parport(h)
      <4>1. [file[h] EXCEPT !.hit = PortReached(file[h].slot)] \in File
        BY <2>1, <2>5 DEF File
      <4> QED
        BY <2>1, <3>3, <4>1 DEF mcs9835_read_parport
    <3>4. CASE CopyFromUser(h)
      <4>1. [file[h] EXCEPT !.pc = "copyin"] \in File
        BY <2>1 DEF File
      <4> QED
        BY <2>1, <3>4, <4>1 DEF CopyFromUser
    <3>5. CASE WritePort(h)
      <4>1. [file[h] EXCEPT !.pc = "open",
                            !.hit = PortReached(file[h].slot)] \in File
        BY <2>1, <2>5 DEF File
      <4> QED
        BY <2>1, <3>5, <4>1 DEF WritePort
    <3>6. CASE mcs9835_close_parport(h)
      BY <2>1, <2>2, <3>6 DEF mcs9835_close_parport
    <3> QED
      BY <1>4, <3>1, <3>2, <3>3, <3>4, <3>5, <3>6 DEF FileOperation
  <2> QED
    BY <1>4, <2>6 DEF TypeOK, FileOperation, ChrdevOpen, mcs9835_open_parport,
         mcs9835_read_parport, CopyFromUser, WritePort, mcs9835_close_parport,
         recordVars, moduleVars, pciVars, chrVars
<1>5. CASE UNCHANGED vars
  BY <1>5 DEF TypeOK, vars, recordVars, moduleVars, pciVars, chrVars
<1> QED
  BY <1>1, <1>2, <1>3, <1>4, <1>5 DEF Next

-----------------------------------------------------------------------------
(* The counter is not negative.                                             *)

(* A remove is that of a bound device, and a probe that gives back what it  *)
(* holds has failed.                                                        *)
CallCounted(d) ==
    /\ ~Idle(d) /\ frame[d].op = "remove" => bound[d]
    /\ At(d, "retire") => frame[d].op = "remove"
    /\ frame[d].pc \in FailedLabels /\ frame[d].op # "remove" =>
          frame[d].rc = -1

CountedInv ==
    /\ CounterInv
    /\ modstate = "absent" => AllIdle /\ \A d \in Devices : ~bound[d]
    /\ \A d \in Devices : CallCounted(d)

LEMMA NotNegative ==
  ASSUME TypeOK, CounterInv
  PROVE  dev_idx >= 0
BY FS_CardinalityType DEF CounterInv, TypeOK

(* A step that counts no further device and leaves the counter alone.       *)
LEMMA FewerCounted ==
  ASSUME TypeOK, CounterInv, Counted' \subseteq Counted, dev_idx' = dev_idx
  PROVE  CounterInv'
<1>1. /\ IsFiniteSet(Counted')
      /\ Cardinality(Counted') <= Cardinality(Counted)
  BY FS_Subset DEF CounterInv
<1>2. Cardinality(Counted) \in Nat /\ Cardinality(Counted') \in Nat
  BY <1>1, FS_CardinalityType DEF CounterInv
<1> QED
  BY <1>1, <1>2 DEF CounterInv, TypeOK

(* A call that goes on within probe or remove and publishes nothing.        *)
LEMMA CallAdvances ==
  ASSUME TypeOK, CountedInv, NEW d \in Devices, ~Idle(d),
         UNCHANGED <<bound, dev_idx, modstate>>,
         \A e \in Devices \ {d} : frame'[e] = frame[e],
         frame'[d].op = frame[d].op,
         frame'[d].pc \notin {"idle", "dump"},
         frame'[d].pc = "probe_ret" => frame'[d].rc = -1 \/ At(d, "dump"),
         frame'[d].pc = "retire" => frame[d].op = "remove",
         frame'[d].pc \in FailedLabels /\ frame[d].op # "remove" =>
             frame'[d].rc = -1
  PROVE  CountedInv'
<1>1. \A e \in Devices : CallCounted(e)'
  BY DEF CountedInv, CallCounted, Idle, At
<1>2. Counted' \subseteq Counted
  BY DEF Counted, At
<1>3. modstate # "absent"
  BY DEF CountedInv, AllIdle
<1> QED
  BY <1>1, <1>2, <1>3, FewerCounted DEF CountedInv

LEMMA HandlerCounted ==
  ASSUME TypeOK, CountedInv, NEW d \in Devices, Handler(d)
  PROVE  CountedInv'
<1> USE DEF Labels, CdevLabels, CoreLabels
<1>0. /\ frame[d].rc \in {0, -1}
      /\ Cur(d) \in Bars
      /\ 0 \in Bars
      /\ UART_A \in Bars
      /\ Cur(d) < 3 => Cur(d) + 1 \in Bars
      /\ Cur(d) > UART_A => Cur(d) - 1 \in Bars
      /\ Cur(d) < PARPORT => Cur(d) + 1 \in Bars
  BY DEF TypeOK, Frame, Cur, Bars, UART_A, PARPORT
<1>00. CallCounted(d)
  BY DEF CountedInv
<1>1. CASE EnableDevice(d)
  BY <1>1, <1>0, <1>00, GotoStep, FailToStep, CallAdvances
  DEF EnableDevice, At, Idle, FailedLabels, moduleVars
<1>2. CASE CheckBars(d)
  BY <1>2, <1>0, <1>00, GotoStep, FailToStep, CallAdvances
  DEF CheckBars, At, Idle, FailedLabels, moduleVars, pciVars
<1>3. CASE RequestRegions(d)
  BY <1>3, <1>0, <1>00, GotoAtStep, FailToStep, CallAdvances
  DEF RequestRegions, At, Idle, FailedLabels, moduleVars
<1>4. CASE Iomap(d)
  BY <1>4, <1>0, <1>00, GotoAtStep, FailToStep, CallAdvances
  DEF Iomap, AfterBar, At, Idle, FailedLabels, moduleVars
<1>5. CASE mcs9835_cdev_initialize(d)
  BY <1>5, <1>0, <1>00, GotoStep, FailToStep, CallAdvances
  DEF mcs9835_cdev_initialize, At, Idle, FailedLabels, moduleVars, pciVars
<1>6. CASE InitializeReturned(d)
  BY <1>6, <1>0, <1>00, GotoAtStep, CallAdvances
  DEF InitializeReturned, At, Idle, FailedLabels, moduleVars, pciVars
<1>7. CASE mcs9835_cdev_create(d)
  <2>1. CASE AllocRegion(d)
    <3>1. /\ At(d, "alloc_chrdev_region")
          /\ Goto(d, "cdev_add") \/ FailTo(d, "create_ret", Cur(d))
          /\ UNCHANGED <<moduleVars, pciVars>>
      BY <2>1 DEF AllocRegion
    <3> QED
      BY <3>1, <1>0, <1>00, GotoStep, FailToStep, CallAdvances
      DEF At, Idle, FailedLabels, moduleVars, pciVars
  <2>2. CASE CdevAdd(d)
    BY <2>2, <1>0, <1>00, GotoStep, FailToStep, CallAdvances
    DEF CdevAdd, At, Idle, FailedLabels, moduleVars, pciVars
  <2>3. CASE DeviceCreate(d)
    <3>1. /\ At(d, "device_create")
          /\ Goto(d, "create_ret") \/ FailTo(d, "err_create", Cur(d))
          /\ UNCHANGED <<moduleVars, pciVars>>
      BY <2>3 DEF DeviceCreate
    <3> QED
      BY <3>1, <1>0, <1>00, GotoStep, FailToStep, CallAdvances
      DEF At, Idle, FailedLabels, moduleVars, pciVars
  <2>4. CASE ErrCreate(d)
    BY <2>4, <1>0, <1>00, GotoStep, CallAdvances
    DEF ErrCreate, CallCounted, At, Idle, FailedLabels, moduleVars, pciVars
  <2>5. CASE ErrAdd(d)
    BY <2>5, <1>0, <1>00, GotoStep, CallAdvances
    DEF ErrAdd, CallCounted, At, Idle, FailedLabels, moduleVars, pciVars
  <2> QED
    BY <1>7, <2>1, <2>2, <2>3, <2>4, <2>5 DEF mcs9835_cdev_create
<1>8. CASE CreateReturned(d)
  BY <1>8, <1>0, <1>00, GotoStep, GotoAtStep, CallAdvances
  DEF CreateReturned, Unwind, At, Idle, FailedLabels, moduleVars, pciVars
<1>9. CASE Publish(d)
  <2>1. /\ \A e \in Devices \ {d} : frame'[e] = frame[e]
        /\ frame'[d].pc = "dump"
        /\ frame'[d].op = frame[d].op
    BY <1>9, GotoStep DEF Publish
  <2>2. UNCHANGED <<bound, modstate>> /\ dev_idx' = dev_idx + 1
    BY <1>9 DEF Publish, CountDevice
  <2>3. Counted' \subseteq Counted \cup {d}
    BY <2>1, <2>2 DEF Counted, At
  <2>4. /\ IsFiniteSet(Counted')
        /\ Cardinality(Counted') <= Cardinality(Counted \cup {d})
    <3>1. IsFiniteSet(Counted \cup {d})
      BY FS_AddElement DEF CountedInv, CounterInv
    <3> QED
      BY <2>3, <3>1, FS_Subset
  <2>5. /\ Cardinality(Counted \cup {d}) <= Cardinality(Counted) + 1
        /\ Cardinality(Counted \cup {d}) \in Nat
        /\ Cardinality(Counted) \in Nat
        /\ Cardinality(Counted') \in Nat
    <3>1. IsFiniteSet(Counted)
      BY DEF CountedInv, CounterInv
    <3>2. Cardinality(Counted) \in Nat /\ Cardinality(Counted') \in Nat
      BY <2>4, <3>1, FS_CardinalityType
    <3>3. Cardinality(Counted \cup {d}) =
             IF d \in Counted THEN Cardinality(Counted)
                              ELSE Cardinality(Counted) + 1
      BY <3>1, FS_AddElement
    <3> QED
      BY <3>2, <3>3
  <2>6. CounterInv'
    BY <2>2, <2>4, <2>5 DEF CountedInv, CounterInv, TypeOK
  <2>7. \A e \in Devices : CallCounted(e)'
    BY <1>9, <2>1, <2>2 DEF CountedInv, CallCounted, Idle, At, FailedLabels,
       Publish
  <2>8. modstate # "absent"
    BY <1>9 DEF CountedInv, AllIdle, Idle, At, Publish
  <2> QED
    BY <2>2, <2>6, <2>7, <2>8 DEF CountedInv
<1>10. CASE dump_dev_registers(d)
  BY <1>10, <1>0, <1>00, GotoStep, CallAdvances
  DEF dump_dev_registers, At, Idle, FailedLabels, moduleVars, pciVars
<1>11. CASE mcs9835_cdev_destroy(d)
  <2>1. CASE DeviceDestroy(d)
    BY <2>1, <1>0, <1>00, GotoStep, CallAdvances
    DEF DeviceDestroy, CallCounted, At, Idle, FailedLabels, moduleVars, pciVars
  <2>2. CASE CdevDel(d)
    BY <2>2, <1>0, <1>00, GotoStep, CallAdvances
    DEF CdevDel, CallCounted, At, Idle, FailedLabels, moduleVars, pciVars
  <2>3. CASE UnregisterRegion(d)
    BY <2>3, <1>0, <1>00, GotoStep, CallAdvances
    DEF UnregisterRegion, CallCounted, At, Idle, FailedLabels, moduleVars, pciVars
  <2> QED
    BY <1>11, <2>1, <2>2, <2>3 DEF mcs9835_cdev_destroy
<1>12. CASE DestroyReturned(d)
  BY <1>12, <1>0, <1>00, GotoStep, GotoAtStep, CallAdvances
  DEF DestroyReturned, DestroyNext, Unwind, CallCounted, At, Idle,
      FailedLabels, moduleVars, pciVars
<1>13. CASE mcs9835_cdev_finalize(d)
  BY <1>13, <1>0, <1>00, GotoAtStep, CallAdvances
  DEF mcs9835_cdev_finalize, CallCounted, At, Idle, FailedLabels,
      moduleVars, pciVars
<1>14. CASE Iounmap(d)
  BY <1>14, <1>0, <1>00, GotoAtStep, CallAdvances
  DEF Iounmap, AfterBar, CallCounted, At, Idle, FailedLabels, moduleVars
<1>15. CASE ReleaseRegions(d)
  BY <1>15, <1>0, <1>00, GotoStep, CallAdvances
  DEF ReleaseRegions, CallCounted, At, Idle, FailedLabels, moduleVars
<1>16. CASE DisableDevice(d)
  BY <1>16, <1>0, <1>00, GotoStep, CallAdvances
  DEF DisableDevice, CallCounted, At, Idle, FailedLabels, moduleVars
<1>17. CASE ProbeReturn(d) \/ Retire(d)
  <2>1. /\ \A e \in Devices \ {d} :
             frame'[e] = frame[e] /\ bound'[e] = bound[e]
        /\ frame'[d] = NoFrame
        /\ modstate' = modstate
    BY <1>17 DEF ProbeReturn, Retire, Return, TypeOK, moduleVars
  <2>2. NoFrame.pc = "idle"
    BY DEF NoFrame, Call
  <2>3. \A e \in Devices : CallCounted(e)'
    BY <2>1, <2>2 DEF CountedInv, CallCounted, Idle, At, FailedLabels
  <2>4. modstate # "absent"
    BY <1>17 DEF CountedInv, AllIdle, Idle, At, ProbeReturn, Retire
  <2>5. CASE ProbeReturn(d)
    <3>1. bound'[d] => At(d, "probe_ret") /\ frame[d].rc = 0
      BY <2>5 DEF ProbeReturn, TypeOK
    <3>2. Counted' \subseteq Counted
      BY <2>1, <2>2, <3>1 DEF Counted, At
    <3> QED
      BY <2>1, <2>3, <2>4, <2>5, <3>2, FewerCounted
      DEF CountedInv, ProbeReturn, moduleVars
  <2>6. CASE Retire(d)
    <3>1. bound[d]
      BY <1>00, <2>6 DEF Retire, CallCounted, Idle, At
    <3>2. d \in Counted
      BY <3>1 DEF Counted
    <3>3. Counted' \subseteq Counted \ {d}
      BY <2>1, <2>2, <2>6 DEF Counted, At, Retire, TypeOK
    <3>4. /\ IsFiniteSet(Counted')
          /\ Cardinality(Counted') <= Cardinality(Counted \ {d})
      <4>1. IsFiniteSet(Counted \ {d})
        BY FS_RemoveElement DEF CountedInv, CounterInv
      <4> QED
        BY <3>3, <4>1, FS_Subset
    <3>5. /\ Cardinality(Counted \ {d}) = Cardinality(Counted) - 1
          /\ Cardinality(Counted) \in Nat
          /\ Cardinality(Counted') \in Nat
      <4>1. IsFiniteSet(Counted)
        BY DEF CountedInv, CounterInv
      <4>2. Cardinality(Counted) \in Nat /\ Cardinality(Counted') \in Nat
        BY <3>4, <4>1, FS_CardinalityType
      <4>3. Cardinality(Counted \ {d}) = Cardinality(Counted) - 1
        BY <3>2, <4>1, FS_RemoveElement
      <4> QED
        BY <4>2, <4>3
    <3>6. CounterInv'
      BY <2>6, <3>4, <3>5
      DEF CountedInv, CounterInv, TypeOK, Retire, UncountDevice
    <3> QED
      BY <2>1, <2>3, <2>4, <3>6 DEF CountedInv
  <2> QED
    BY <1>17, <2>5, <2>6
<1> QED
  BY <1>1, <1>2, <1>3, <1>4, <1>5, <1>6, <1>7, <1>8, <1>9, <1>10, <1>11,
     <1>12, <1>13, <1>14, <1>15, <1>16, <1>17 DEF Handler

LEMMA CountedInit ==
  ASSUME Init
  PROVE  CountedInv
<1>1. Counted = {}
  BY DEF Init, Counted, At, NoFrame, Call
<1> QED
  BY <1>1, FS_EmptySet DEF Init, CountedInv, CounterInv, CallCounted, AllIdle,
     Idle, At, NoFrame, Call, FailedLabels

LEMMA CountedStep ==
  ASSUME TypeOK, CountedInv, [Next]_vars
  PROVE  CountedInv'
<1> USE DEF CountedInv
<1>1. CASE mcs9835_initialize
  <2>1. UNCHANGED <<frame, bound>> /\ dev_idx' = 0
    BY <1>1 DEF mcs9835_initialize, pciVars
  <2>2. AllIdle /\ \A d \in Devices : ~bound[d]
    BY <1>1 DEF mcs9835_initialize
  <2>3. Counted' = {}
    BY <2>1, <2>2 DEF Counted, AllIdle, Idle, At
  <2> QED
    BY <2>1, <2>2, <2>3, FS_EmptySet DEF CounterInv, CallCounted, AllIdle,
       Idle, At
<1>2. CASE Unload \/ mcs9835_finalize
  <2>1. UNCHANGED <<frame, bound, dev_idx>>
    BY <1>2 DEF Unload, mcs9835_finalize, pciVars
  <2>2. modstate' = "absent" => AllIdle /\ \A d \in Devices : ~bound[d]
    BY <1>2 DEF Unload, mcs9835_finalize
  <2> QED
    BY <2>1, <2>2 DEF CounterInv, Counted, CallCounted, AllIdle, Idle, At
<1>3. ASSUME NEW d \in Devices, Probe(d) PROVE CountedInv'
  <2>1. /\ frame' = [frame EXCEPT ![d] =
                        Call("pci_enable_device", "probe", dev_idx)]
        /\ UNCHANGED <<bound, dev_idx, modstate>>
        /\ modstate # "absent"
    BY <1>3 DEF Probe, moduleVars, pciVars
  <2>2. Counted' \subseteq Counted
    BY <2>1 DEF Counted, At, Call, TypeOK
  <2>3. \A e \in Devices : CallCounted(e)'
    BY <2>1 DEF CallCounted, Idle, At, Call, TypeOK, FailedLabels
  <2> QED
    BY <2>1, <2>2, <2>3, FewerCounted
<1>4. ASSUME NEW d \in Devices, Remove(d) PROVE CountedInv'
  <2>1. bound[d] /\ Idle(d) /\ UNCHANGED <<dev_idx, modstate>>
    BY <1>4 DEF Remove, MayRemove, MayCall, moduleVars
  <2>2. modstate # "absent"
    BY <2>1
  <2>3. CASE /\ frame' = [frame EXCEPT ![d] =
                            Call("device_destroy", "remove", drvdata[d])]
             /\ UNCHANGED bound
    <3>1. Counted' \subseteq Counted
      BY <2>3 DEF Counted, At, Call, TypeOK
    <3>2. \A e \in Devices : CallCounted(e)'
      BY <2>1, <2>3 DEF CallCounted, Idle, At, Call, TypeOK, FailedLabels
    <3> QED
      BY <2>1, <2>2, <3>1, <3>2, FewerCounted
  <2>4. CASE bound' = [bound EXCEPT ![d] = FALSE] /\ UNCHANGED frame
    <3>1. Counted' \subseteq Counted
      BY <2>4 DEF Counted, At, TypeOK
    <3>2. \A e \in Devices : CallCounted(e)'
      BY <2>1, <2>4 DEF CallCounted, Idle, At, TypeOK, FailedLabels
    <3> QED
      BY <2>1, <2>2, <3>1, <3>2, FewerCounted
  <2> QED
    BY <1>4, <2>3, <2>4 DEF Remove
<1>5. ASSUME NEW h \in Handles, FileOperation(h) PROVE CountedInv'
  <2>1. UNCHANGED <<frame, bound, dev_idx, modstate>>
    BY <1>5 DEF FileOperation, ChrdevOpen, mcs9835_open_parport,
       mcs9835_read_parport, CopyFromUser, WritePort, mcs9835_close_parport,
       moduleVars, pciVars
  <2> QED
    BY <2>1 DEF CounterInv, Counted, CallCounted, AllIdle, Idle, At
<1>6. CASE UNCHANGED vars
  BY <1>6 DEF CounterInv, Counted, CallCounted, AllIdle, Idle, At, vars,
     moduleVars, pciVars
<1> QED
  BY <1>1, <1>2, <1>3, <1>4, <1>5, <1>6, HandlerCounted DEF Next, Module

-----------------------------------------------------------------------------

(* Every reachable state is well typed, whatever the environment does: in   *)
(* particular a call in progress always works on a slot of the array and on *)
(* a BAR or cdev that exists.                                               *)
THEOREM TypeCorrect == Spec => []TypeOK
<1>1. Init => TypeOK /\ CountedInv
  BY TypeInit, CountedInit
<1>2. TypeOK /\ CountedInv /\ [Next]_vars => TypeOK' /\ CountedInv'
  BY TypeStep, CountedStep, NotNegative DEF CountedInv
<1> QED
  BY <1>1, <1>2, PTL DEF Spec
=============================================================================
