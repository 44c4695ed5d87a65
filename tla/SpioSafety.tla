----------------------------- MODULE SpioSafety -----------------------------
(***************************************************************************)
(* What LIBSPIO must keep to when the threads of a process share it.       *)
(***************************************************************************)
EXTENDS SpioCore

(* Every variable has the type spio_core.h gives it.                        *)
TypeOK ==
    /\ m_error_code \in SPIO_NO_ERROR .. SPIO_MUTEX_UNLOCK_FAILED
    /\ m_last_error_read \in BOOLEAN
    /\ m_error_mutex \in Threads \cup {NOBODY}
    /\ m_initialized \in BOOLEAN
    /\ m_init_mutex \in Threads \cup {NOBODY}
    /\ call \in [Threads -> Calls]
    /\ left \in [Threads -> 0 .. Budget]

(* No two threads touch the error record at a time, even when locks and     *)
(* unlocks return errors: a thread whose lock failed goes away, and one     *)
(* whose unlock failed leaves the mutex to nobody.                          *)
ErrorLabels == {"get", "unlock_get", "update", "unlock_update"}

ErrorRecordGuarded ==
    \A t, u \in Threads :
        call[t].pc \in ErrorLabels /\ call[u].pc \in ErrorLabels => t = u

(* Every call returns, although finalize takes the error mutex while it     *)
(* holds the other one and every failing call takes the error mutex.        *)
CallsReturn == \A t \in Threads : ~At(t, "idle") ~> At(t, "idle")

(* The two query functions return SPIO_SUCCESS, whatever they are given.    *)
QueriesSucceed ==
    \A t \in Threads : At(t, "idle") /\ call[t].op \in Queries =>
        call[t].ret = SPIO_SUCCESS

-----------------------------------------------------------------------------
(* The view of SpioService: finalize takes effect when internal_finalize    *)
(* has cleared the error, before m_initialized is reset.                    *)

Finalizing(t) ==
    /\ call[t].op = "finalize"
    /\ call[t].pc \in {"unlock_get", "set_initialized"}

Refused(t) == call[t].pc \in {"catch", "lock_update", "update"}

Phase(t) ==
    CASE At(t, "idle") -> "over"
      [] Refused(t)    -> "refused"
      [] Finalizing(t) \/ call[t].pc \in {"unlock_init", "unlock_get",
                                          "unlock_update"} -> "done"
      [] OTHER         -> "begun"

(* The code of the service's call: the error it was refused with or read.   *)
CodeSeen(t) ==
    IF Refused(t) \/ call[t].op = "get_last_error" THEN call[t].code ELSE 0

Succeeds(t) ==
    ~At(t, "unlock_update") /\ (At(t, "idle") => call[t].ret = SPIO_SUCCESS)

Service == INSTANCE SpioService WITH
    ready <- m_initialized /\ \A t \in Threads : ~Finalizing(t),
    latch <- m_error_code,
    call  <- [t \in Threads |->
                [phase |-> Phase(t),
                 op    |-> IF call[t].op \in Queries THEN "query"
                                                     ELSE call[t].op,
                 code  |-> CodeSeen(t),
                 ok    |-> Succeeds(t)]]

(* However the calls of several threads interleave, each takes effect at    *)
(* one instant: initialize and finalize alternate, a call is refused only   *)
(* for what was so at that instant, and every unread error is read once.    *)
ImplementsSpio == Service!ServiceSpec

-----------------------------------------------------------------------------
(* The inductive invariant behind ImplementsSpio, for mutexes that do not   *)
(* fail.                                                                    *)

(* initialize and finalize hold the other mutex from the check of           *)
(* m_initialized on; finalize holds it while it reads the last error.       *)
GetLabels == {"lock_get", "get", "unlock_get"}

HoldsInit(t) ==
    \/ call[t].pc \in {"check", "set_initialized", "unlock_init", "catch"}
    \/ call[t].op = "finalize" /\ call[t].pc \in GetLabels

(* The only error each operation is refused with.                           *)
Refusal(op) ==
    CASE op = "initialize" -> SPIO_ALREADY_INITIALIZED
      [] op = "finalize"   -> SPIO_NOT_INITIALIZED
      [] OTHER             -> SPIO_BAD_ARGUMENT

PlaceOK(t) ==
    /\ call[t].pc \in {"lock_init", "check", "set_initialized", "unlock_init",
                       "catch"} => call[t].op \in {"initialize", "finalize"}
    /\ call[t].pc \in GetLabels => call[t].op \in {"finalize", "get_last_error"}
    /\ At(t, "query") => call[t].op \in Queries
    /\ Refused(t) \/ At(t, "unlock_update") => call[t].op # "get_last_error"
    /\ Refused(t) => call[t].code = Refusal(call[t].op)

(* What the check found stays so until the mutex is given back.             *)
CheckOK(t) ==
    /\ HoldsInit(t) => m_init_mutex = t
    /\ At(t, "set_initialized") =>
          (m_initialized <=> call[t].op = "finalize")
    /\ call[t].pc \in GetLabels /\ call[t].op = "finalize" => m_initialized

(* The three together: an error on record is one nobody has read yet, each  *)
(* refused call carries the error of its operation, and no thread changes   *)
(* what initialize or finalize has checked before the mutex is free again.  *)
OrderInv ==
    /\ TypeOK
    /\ m_last_error_read <=> m_error_code = SPIO_NO_ERROR
    /\ \A t \in Threads : PlaceOK(t) /\ CheckOK(t)
=============================================================================
