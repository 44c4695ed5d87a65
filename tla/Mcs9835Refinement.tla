-------------------------- MODULE Mcs9835Refinement --------------------------
(***************************************************************************)
(* The driver implements ParportService when devices stay for as long as   *)
(* the module does: publishing a record attaches its device, retiring it   *)
(* detaches it, and everything in between is invisible to processes.       *)
(***************************************************************************)
EXTENDS Mcs9835Safety

Service == INSTANCE ParportService WITH
    attached <- {pci_dev[s] : s \in {t \in Slots : init_done[t]}},
    user     <- [h \in Handles |-> file[h].dev],
    reached  <- [h \in Handles |-> file[h].hit]

(* Every step of the driver, seen through its published records and its     *)
(* open files, is a step of the service or none: no process ever reaches    *)
(* the port of a device it did not open, no device is detached under a      *)
(* process, and no more than MAX_DEVICES are in service.                    *)
ImplementsService == Service!Spec
=============================================================================
