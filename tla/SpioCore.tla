------------------------------ MODULE SpioCore ------------------------------
(***************************************************************************)
(* spio_core.cpp: the one object behind LIBSPIO, called by the threads of  *)
(* a process through the functions of spio.cpp.  A step is the lock or the *)
(* unlock of a mutex, or what a thread does under one.                     *)
(*                                                                         *)
(* An error's source follows from its code and is left out; the output of  *)
(* the two query functions and the text of an error are left out as well.  *)
(***************************************************************************)
EXTENDS Integers

CONSTANTS
    Threads,     \* the threads of the process
    NOBODY,      \* the owner of a free mutex
    MutexFails,  \* may a lock or an unlock of a mutex return an error?
    Budget       \* bound: how many calls each thread makes

ASSUME SpioAssumption ==
    /\ NOBODY \notin Threads
    /\ MutexFails \in BOOLEAN
    /\ Budget \in Nat

SPIO_SUCCESS             == 0
SPIO_FAILURE             == -1
SPIO_ERROR_MUTEX_FAILURE == -2

SPIO_NO_ERROR            == 0
SPIO_NOT_INITIALIZED     == 1
SPIO_ALREADY_INITIALIZED == 2
SPIO_BAD_ARGUMENT        == 3
SPIO_MUTEX_LOCK_FAILED   == 4
SPIO_MUTEX_UNLOCK_FAILED == 5

VARIABLES
    m_error_code,
    m_last_error_read,
    m_error_mutex,   \* the thread that holds it, or NOBODY
    m_initialized,
    m_init_mutex,    \* the thread that holds it, or NOBODY
    call,            \* per thread, the call in progress or the last one
    left             \* per thread, how many calls it may still make

errorVars == <<m_error_code, m_last_error_read>>
vars == <<errorVars, m_error_mutex, m_initialized, m_init_mutex, call, left>>

Queries == {"get_error_string", "test_get_lib_prod_info"}
Ops == {"initialize", "finalize", "get_last_error"} \cup Queries

Labels == {"idle", "lock_init", "check", "set_initialized", "unlock_init",
           "catch", "lock_get", "get", "unlock_get", "query",
           "lock_update", "update", "unlock_update"}

(* Where a call stands (pc), whether its pointer argument is null (null),   *)
(* the code of the exception it handles or of the error it has read (code)  *)
(* and its return value (ret).                                              *)
Calls == [pc : Labels, op : Ops, null : BOOLEAN,
          code : SPIO_NO_ERROR .. SPIO_MUTEX_UNLOCK_FAILED,
          ret : {SPIO_SUCCESS, SPIO_FAILURE, SPIO_ERROR_MUTEX_FAILURE}]

NoCall == [pc |-> "idle", op |-> "get_error_string", null |-> FALSE,
           code |-> SPIO_NO_ERROR, ret |-> SPIO_SUCCESS]

At(t, label) == call[t].pc = label

Goto(t, label) == call' = [call EXCEPT ![t].pc = label]
GotoWith(t, label, code) ==
    call' = [call EXCEPT ![t] = [@ EXCEPT !.pc = label, !.code = code]]
Return(t, rc) ==
    call' = [call EXCEPT ![t] = [@ EXCEPT !.pc = "idle", !.ret = rc]]

Init ==
    /\ m_error_code = SPIO_NO_ERROR
    /\ m_last_error_read = TRUE
    /\ m_error_mutex = NOBODY
    /\ m_initialized = FALSE
    /\ m_init_mutex = NOBODY
    /\ call = [t \in Threads |-> NoCall]
    /\ left = [t \in Threads |-> Budget]

-----------------------------------------------------------------------------
(* spio_do_mutex_lock and spio_do_mutex_unlock, and the macros that stand   *)
(* for them around the error record: what follows depends on the result.    *)
(* The unlock of a default mutex of the C library frees it whoever holds it.*)
Lock(t, mutex, Got, Failed) ==
    \/ mutex = NOBODY /\ mutex' = t /\ Got
    \/ MutexFails /\ UNCHANGED mutex /\ Failed

Unlock(mutex, Freed, Failed) ==
    \/ mutex' = NOBODY /\ Freed
    \/ MutexFails /\ UNCHANGED mutex /\ Failed

(* A thread calls one of the functions of spio.cpp.                         *)
FirstLabel(op) ==
    CASE op = "get_last_error" -> "lock_get"
      [] op \in Queries        -> "query"
      [] OTHER                 -> "lock_init"

Call(t, op, null) ==
    /\ At(t, "idle")
    /\ call' = [call EXCEPT ![t] = [NoCall EXCEPT !.pc = FirstLabel(op),
                                        !.op = op, !.null = null]]
    /\ UNCHANGED <<errorVars, m_error_mutex, m_initialized, m_init_mutex>>

Enter(t) ==
    /\ left[t] > 0
    /\ left' = [left EXCEPT ![t] = @ - 1]
    /\ \E op \in Ops : \E null \in BOOLEAN :
          (null => op \in Queries) /\ Call(t, op, null)

(* get_error_string and test_get_lib_prod_info throw for a null pointer and *)
(* otherwise touch nothing of the object.                                   *)
Query(t) ==
    /\ At(t, "query")
    /\ IF call[t].null
       THEN GotoWith(t, "lock_update", SPIO_BAD_ARGUMENT)
       ELSE Return(t, SPIO_SUCCESS)
    /\ UNCHANGED <<errorVars, m_error_mutex, m_initialized, m_init_mutex, left>>

-----------------------------------------------------------------------------
(* initialize and finalize differ in what they check and set.               *)

LockInit(t) ==
    /\ At(t, "lock_init")
    /\ Lock(t, m_init_mutex,
            Goto(t, "check"), GotoWith(t, "catch", SPIO_MUTEX_LOCK_FAILED))
    /\ UNCHANGED <<errorVars, m_error_mutex, m_initialized, left>>

(* finalize goes on to internal_finalize, which reads the last error.       *)
CheckInitialized(t) ==
    /\ At(t, "check")
    /\ IF call[t].op = "initialize"
       THEN IF m_initialized
            THEN GotoWith(t, "catch", SPIO_ALREADY_INITIALIZED)
            ELSE Goto(t, "set_initialized")
       ELSE IF m_initialized
            THEN Goto(t, "lock_get")
            ELSE GotoWith(t, "catch", SPIO_NOT_INITIALIZED)
    /\ UNCHANGED <<errorVars, m_error_mutex, m_initialized, m_init_mutex, left>>

SetInitialized(t) ==
    /\ At(t, "set_initialized")
    /\ m_initialized' = (call[t].op = "initialize")
    /\ Goto(t, "unlock_init")
    /\ UNCHANGED <<errorVars, m_error_mutex, m_init_mutex, left>>

UnlockInit(t) ==
    /\ At(t, "unlock_init")
    /\ Unlock(m_init_mutex,
              Return(t, SPIO_SUCCESS),
              GotoWith(t, "catch", SPIO_MUTEX_UNLOCK_FAILED))
    /\ UNCHANGED <<errorVars, m_error_mutex, m_initialized, left>>

(* Mutant: the handler leaves the mutex locked.                             *)
CatchKeepsLock(t) ==
    /\ At(t, "catch")
    /\ Goto(t, "lock_update")
    /\ UNCHANGED <<errorVars, m_error_mutex, m_initialized, m_init_mutex, left>>

(* The handler unlocks whether or not this thread holds the mutex: a lock   *)
(* that failed ends here too.  The result is ignored.                       *)
Catch(t) ==
    /\ At(t, "catch")
    /\ Unlock(m_init_mutex, TRUE, TRUE)
    /\ Goto(t, "lock_update")
    /\ UNCHANGED <<errorVars, m_error_mutex, m_initialized, left>>

-----------------------------------------------------------------------------
(* get_last_error, called by a thread or by internal_finalize, which        *)
(* ignores its result.                                                      *)

GetReturned(t, rc) ==
    IF call[t].op = "finalize"
    THEN GotoWith(t, "set_initialized", SPIO_NO_ERROR)
    ELSE Return(t, rc)

LockGet(t) ==
    /\ At(t, "lock_get")
    /\ Lock(t, m_error_mutex,
            Goto(t, "get"), GetReturned(t, SPIO_ERROR_MUTEX_FAILURE))
    /\ UNCHANGED <<errorVars, m_initialized, m_init_mutex, left>>

(* Mutant: the error is read without being cleared.                         *)
GetKeeps(t) ==
    /\ At(t, "get")
    /\ GotoWith(t, "unlock_get", m_error_code)
    /\ UNCHANGED <<errorVars, m_error_mutex, m_initialized, m_init_mutex, left>>

(* Mutant: the error is cleared but not marked as read.                     *)
GetForgetsRead(t) ==
    /\ At(t, "get")
    /\ GotoWith(t, "unlock_get", m_error_code)
    /\ m_error_code' = SPIO_NO_ERROR
    /\ UNCHANGED <<m_last_error_read, m_error_mutex, m_initialized,
                   m_init_mutex, left>>

Get(t) ==
    /\ At(t, "get")
    /\ GotoWith(t, "unlock_get", m_error_code)
    /\ m_error_code' = SPIO_NO_ERROR
    /\ m_last_error_read' = TRUE
    /\ UNCHANGED <<m_error_mutex, m_initialized, m_init_mutex, left>>

UnlockGet(t) ==
    /\ At(t, "unlock_get")
    /\ Unlock(m_error_mutex,
              GetReturned(t, SPIO_SUCCESS),
              GetReturned(t, SPIO_ERROR_MUTEX_FAILURE))
    /\ UNCHANGED <<errorVars, m_initialized, m_init_mutex, left>>

-----------------------------------------------------------------------------
(* update_error, which ends every call that threw.                          *)

(* Mutant: a lock that failed is taken for one that was got.                *)
LockUpdateUnchecked(t) ==
    /\ At(t, "lock_update")
    /\ Lock(t, m_error_mutex, TRUE, TRUE)
    /\ Goto(t, "update")
    /\ UNCHANGED <<errorVars, m_initialized, m_init_mutex, left>>

LockUpdate(t) ==
    /\ At(t, "lock_update")
    /\ Lock(t, m_error_mutex,
            Goto(t, "update"), Return(t, SPIO_ERROR_MUTEX_FAILURE))
    /\ UNCHANGED <<errorVars, m_initialized, m_init_mutex, left>>

(* Mutant: what is recorded is the return value instead of the code.        *)
UpdateRecordsRc(t) ==
    /\ At(t, "update")
    /\ IF m_last_error_read
       THEN /\ m_error_code' = SPIO_FAILURE
            /\ m_last_error_read' = FALSE
       ELSE UNCHANGED errorVars
    /\ Goto(t, "unlock_update")
    /\ UNCHANGED <<m_error_mutex, m_initialized, m_init_mutex, left>>

(* Mutant: a later error replaces one that has not been read.               *)
UpdateLatest(t) ==
    /\ At(t, "update")
    /\ m_error_code' = call[t].code
    /\ m_last_error_read' = FALSE
    /\ Goto(t, "unlock_update")
    /\ UNCHANGED <<m_error_mutex, m_initialized, m_init_mutex, left>>

(* An error that has not been read is not replaced.                         *)
Update(t) ==
    /\ At(t, "update")
    /\ IF m_last_error_read
       THEN /\ m_error_code' = call[t].code
            /\ m_last_error_read' = FALSE
       ELSE UNCHANGED errorVars
    /\ Goto(t, "unlock_update")
    /\ UNCHANGED <<m_error_mutex, m_initialized, m_init_mutex, left>>

UnlockUpdate(t) ==
    /\ At(t, "unlock_update")
    /\ Unlock(m_error_mutex,
              Return(t, SPIO_FAILURE), Return(t, SPIO_ERROR_MUTEX_FAILURE))
    /\ UNCHANGED <<errorVars, m_initialized, m_init_mutex, left>>

-----------------------------------------------------------------------------

Continue(t) ==
    \/ Query(t)
    \/ LockInit(t)
    \/ CheckInitialized(t)
    \/ SetInitialized(t)
    \/ UnlockInit(t)
    \/ Catch(t)
    \/ LockGet(t)
    \/ Get(t)
    \/ UnlockGet(t)
    \/ LockUpdate(t)
    \/ Update(t)
    \/ UnlockUpdate(t)

Next == \E t \in Threads : Enter(t) \/ Continue(t)

Spec == Init /\ [][Next]_vars

(* A thread that can take its next step is scheduled in the end; no thread  *)
(* is promised a mutex that others keep taking.                             *)
FairSpec == Spec /\ \A t \in Threads : WF_vars(Continue(t))
=============================================================================
