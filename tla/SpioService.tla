----------------------------- MODULE SpioService -----------------------------
(***************************************************************************)
(* What LIBSPIO promises the threads of a process (spio.h): each call      *)
(* takes effect at one instant between its start and its answer, initialize*)
(* and finalize alternate, and of the errors since the last read or        *)
(* finalize the first one recorded is kept until it is read once.          *)
(***************************************************************************)
EXTENDS Naturals

CONSTANTS Threads

VARIABLES
    ready,  \* is the library initialized?
    latch,  \* the code of the unread error, or SPIO_NO_ERROR
    call    \* per thread, its call

SPIO_NO_ERROR            == 0
SPIO_NOT_INITIALIZED     == 1
SPIO_ALREADY_INITIALIZED == 2
SPIO_BAD_ARGUMENT        == 3
Codes == SPIO_NO_ERROR .. SPIO_BAD_ARGUMENT

Ops == {"initialize", "finalize", "get_last_error", "query"}

(* A call has begun, has been refused with a code that is not recorded yet, *)
(* has taken effect, or is over.  A read carries the code it took.          *)
CallStates == [phase : {"begun", "refused", "done", "over"}, op : Ops,
               code : Codes, ok : BOOLEAN]

ServiceVars == <<ready, latch, call>>

NotCalled == [phase |-> "over", op |-> "query", code |-> 0, ok |-> TRUE]

ServiceInit ==
    /\ ready = FALSE
    /\ latch = SPIO_NO_ERROR
    /\ call = [t \in Threads |-> NotCalled]

Step(t, from, op, to, code, ok) ==
    /\ call[t].phase = from
    /\ call[t].op = op
    /\ call' = [call EXCEPT ![t] =
                    [phase |-> to, op |-> op, code |-> code, ok |-> ok]]

Begin(t, op) ==
    /\ call[t].phase = "over"
    /\ call' = [call EXCEPT ![t] = [phase |-> "begun", op |-> op, code |-> 0,
                                    ok |-> TRUE]]
    /\ UNCHANGED <<ready, latch>>

Initialize(t) ==
    /\ ~ready
    /\ ready' = TRUE
    /\ Step(t, "begun", "initialize", "done", 0, TRUE)
    /\ UNCHANGED latch

(* Finalize forgets the unread error in the same instant.                   *)
Finalize(t) ==
    /\ ready
    /\ ready' = FALSE
    /\ latch' = SPIO_NO_ERROR
    /\ Step(t, "begun", "finalize", "done", 0, TRUE)

GetLastError(t) ==
    /\ Step(t, "begun", "get_last_error", "done", latch, TRUE)
    /\ latch' = SPIO_NO_ERROR
    /\ UNCHANGED ready

Refuse(t) ==
    /\ \/ ready /\ Step(t, "begun", "initialize", "refused",
                        SPIO_ALREADY_INITIALIZED, TRUE)
       \/ ~ready /\ Step(t, "begun", "finalize", "refused",
                         SPIO_NOT_INITIALIZED, TRUE)
       \/ Step(t, "begun", "query", "refused", SPIO_BAD_ARGUMENT, TRUE)
    /\ UNCHANGED <<ready, latch>>

(* An unread error is not replaced by a later one.                          *)
Record(t) ==
    /\ \E op \in Ops : Step(t, "refused", op, "done", 0, FALSE)
    /\ latch' = IF latch = SPIO_NO_ERROR THEN call[t].code ELSE latch
    /\ UNCHANGED ready

Over(t) ==
    /\ \/ \E op \in Ops : Step(t, "done", op, "over", call[t].code, call[t].ok)
       \/ Step(t, "begun", "query", "over", 0, TRUE)
    /\ UNCHANGED <<ready, latch>>

ServiceNext ==
    \E t \in Threads :
        \/ \E op \in Ops : Begin(t, op)
        \/ Initialize(t)
        \/ Finalize(t)
        \/ GetLastError(t)
        \/ Refuse(t)
        \/ Record(t)
        \/ Over(t)

ServiceSpec == ServiceInit /\ [][ServiceNext]_ServiceVars
=============================================================================
