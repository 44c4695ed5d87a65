---------------------------- MODULE ParportService ----------------------------
(***************************************************************************)
(* What the driver promises the processes that open its device files, with *)
(* no records, probes or registrations: a bounded number of devices is     *)
(* attached, a process that opens an attached device reaches the parallel  *)
(* port of that device and of no other until it closes the file, and a     *)
(* device is detached only when no process has it open.                    *)
(***************************************************************************)
EXTENDS Naturals, FiniteSets

CONSTANTS Devices, Handles, MAX_DEVICES, NULL

VARIABLES
    attached,  \* the devices in service
    user,      \* per handle, the device it is open on, or NULL
    reached    \* per handle, the device its last access reached, or NULL

serviceVars == <<attached, user, reached>>

Init ==
    /\ attached = {}
    /\ user = [h \in Handles |-> NULL]
    /\ reached = [h \in Handles |-> NULL]

Attach(d) ==
    /\ d \notin attached
    /\ Cardinality(attached) < MAX_DEVICES
    /\ attached' = attached \cup {d}
    /\ UNCHANGED <<user, reached>>

Detach(d) ==
    /\ d \in attached
    /\ \A h \in Handles : user[h] # d
    /\ attached' = attached \ {d}
    /\ UNCHANGED <<user, reached>>

Open(h, d) ==
    /\ user[h] = NULL
    /\ d \in attached
    /\ user' = [user EXCEPT ![h] = d]
    /\ UNCHANGED <<attached, reached>>

Access(h) ==
    /\ user[h] # NULL
    /\ reached' = [reached EXCEPT ![h] = user[h]]
    /\ UNCHANGED <<attached, user>>

Close(h) ==
    /\ user[h] # NULL
    /\ user' = [user EXCEPT ![h] = NULL]
    /\ reached' = [reached EXCEPT ![h] = NULL]
    /\ UNCHANGED attached

Next ==
    \/ \E d \in Devices : Attach(d) \/ Detach(d)
    \/ \E h \in Handles : Access(h) \/ Close(h) \/ \E d \in Devices : Open(h, d)

Spec == Init /\ [][Next]_serviceVars
=============================================================================
