------------------------------ MODULE SpioProof ------------------------------
(***************************************************************************)
(* The error record of LIBSPIO is touched by one thread at a time, for any *)
(* number of threads and calls, with mutexes that fail or do not.  A       *)
(* thread at the record holds the error mutex: that is inductive, because  *)
(* no thread unlocks the error mutex that is not at the record itself.     *)
(* (Of the initialization mutex this does not hold: see Catch.)            *)
(*                                                                         *)
(* With mutexes that do not fail the initialization mutex guards what was  *)
(* checked under it (OrderInv), and the library implements SpioService:    *)
(* each call takes effect at one instant.                                  *)
(***************************************************************************)
EXTENDS SpioSafety, TLAPS

-----------------------------------------------------------------------------
(* What the steps do to the calls.                                          *)

LEMMA GotoType ==
  ASSUME call \in [Threads -> Calls], NEW t \in Threads,
         NEW label \in Labels, Goto(t, label)
  PROVE  call' \in [Threads -> Calls]
<1>1. [call[t] EXCEPT !.pc = label] \in Calls
  BY DEF Calls
<1> QED
  BY <1>1 DEF Goto

LEMMA GotoWithType ==
  ASSUME call \in [Threads -> Calls], NEW t \in Threads,
         NEW label \in Labels,
         NEW code \in SPIO_NO_ERROR .. SPIO_MUTEX_UNLOCK_FAILED,
         GotoWith(t, label, code)
  PROVE  call' \in [Threads -> Calls]
<1>1. [call[t] EXCEPT !.pc = label, !.code = code] \in Calls
  BY DEF Calls
<1> QED
  BY <1>1 DEF GotoWith

LEMMA ReturnType ==
  ASSUME call \in [Threads -> Calls], NEW t \in Threads,
         NEW rc \in {SPIO_SUCCESS, SPIO_FAILURE, SPIO_ERROR_MUTEX_FAILURE},
         Return(t, rc)
  PROVE  call' \in [Threads -> Calls]
<1>1. [call[t] EXCEPT !.pc = "idle", !.ret = rc] \in Calls
  BY DEF Calls, Labels
<1> QED
  BY <1>1 DEF Return

LEMMA GetReturnedType ==
  ASSUME call \in [Threads -> Calls], NEW t \in Threads,
         NEW rc \in {SPIO_SUCCESS, SPIO_FAILURE, SPIO_ERROR_MUTEX_FAILURE},
         GetReturned(t, rc)
  PROVE  call' \in [Threads -> Calls]
<1>1. "set_initialized" \in Labels /\
      SPIO_NO_ERROR \in SPIO_NO_ERROR .. SPIO_MUTEX_UNLOCK_FAILED
  BY DEF Labels, SPIO_NO_ERROR, SPIO_MUTEX_UNLOCK_FAILED
<1> QED
  BY <1>1, GotoWithType, ReturnType DEF GetReturned

(* Where a thread's own step takes it; the others stay.                     *)
LEMMA CallSteps ==
  ASSUME call \in [Threads -> Calls], NEW t \in Threads
  PROVE  /\ \A label : Goto(t, label) =>
               /\ call'[t].pc = label
               /\ \A u \in Threads \ {t} : call'[u] = call[u]
         /\ \A label, code : GotoWith(t, label, code) =>
               /\ call'[t].pc = label
               /\ \A u \in Threads \ {t} : call'[u] = call[u]
         /\ \A rc : Return(t, rc) =>
               /\ call'[t].pc = "idle"
               /\ \A u \in Threads \ {t} : call'[u] = call[u]
         /\ \A rc : GetReturned(t, rc) =>
               /\ call'[t].pc \in {"idle", "set_initialized"}
               /\ \A u \in Threads \ {t} : call'[u] = call[u]
  BY DEF Goto, GotoWith, Return, GetReturned, Calls

-----------------------------------------------------------------------------
(* Every step keeps the types.                                              *)

LEMMA NoCallType == NoCall \in Calls
<1>1. SPIO_NO_ERROR \in SPIO_NO_ERROR .. SPIO_MUTEX_UNLOCK_FAILED
  BY DEF SPIO_NO_ERROR, SPIO_MUTEX_UNLOCK_FAILED
<1>2. "idle" \in Labels /\ "get_error_string" \in Ops
  BY DEF Labels, Ops, Queries
<1> QED
  BY <1>1, <1>2 DEF NoCall, Calls

LEMMA SpioTypeInit ==
  ASSUME Init
  PROVE  TypeOK
<1>1. call \in [Threads -> Calls]
  BY NoCallType DEF Init
<1>2. left \in [Threads -> 0 .. Budget]
  BY SpioAssumption DEF Init
<1>3. m_error_code \in SPIO_NO_ERROR .. SPIO_MUTEX_UNLOCK_FAILED
  BY DEF Init, SPIO_NO_ERROR, SPIO_MUTEX_UNLOCK_FAILED
<1> QED
  BY <1>1, <1>2, <1>3 DEF Init, TypeOK

LEMMA EnterType ==
  ASSUME TypeOK, NEW t \in Threads, Enter(t)
  PROVE  TypeOK'
<1>1. PICK op \in Ops, null \in BOOLEAN : Call(t, op, null)
  BY DEF Enter
<1>2. FirstLabel(op) \in Labels
  BY DEF FirstLabel, Labels
<1>3. [NoCall EXCEPT !.pc = FirstLabel(op), !.op = op, !.null = null] \in Calls
  BY <1>2, NoCallType DEF Calls
<1>4. call' \in [Threads -> Calls]
  BY <1>1, <1>3 DEF Call, TypeOK
<1>5. left' \in [Threads -> 0 .. Budget]
  <2>1. left[t] \in 0 .. Budget /\ left[t] > 0
    BY DEF Enter, TypeOK
  <2>2. left[t] - 1 \in 0 .. Budget
    BY <2>1, SpioAssumption
  <2> QED
    BY <2>2 DEF Enter, TypeOK
<1> QED
  BY <1>1, <1>4, <1>5 DEF Call, TypeOK, errorVars

LEMMA ContinueType ==
  ASSUME TypeOK, NEW t \in Threads, Continue(t)
  PROVE  TypeOK'
<1> USE DEF TypeOK
<1>0. /\ call[t] \in Calls
      /\ call[t].code \in SPIO_NO_ERROR .. SPIO_MUTEX_UNLOCK_FAILED
      /\ \A code \in {SPIO_NO_ERROR, SPIO_BAD_ARGUMENT, SPIO_NOT_INITIALIZED,
                      SPIO_ALREADY_INITIALIZED, SPIO_MUTEX_LOCK_FAILED,
                      SPIO_MUTEX_UNLOCK_FAILED} :
            code \in SPIO_NO_ERROR .. SPIO_MUTEX_UNLOCK_FAILED
  BY DEF Calls, SPIO_NO_ERROR, SPIO_BAD_ARGUMENT, SPIO_NOT_INITIALIZED,
     SPIO_ALREADY_INITIALIZED, SPIO_MUTEX_LOCK_FAILED, SPIO_MUTEX_UNLOCK_FAILED
<1>1. call' \in [Threads -> Calls]
  <2> USE DEF Labels
  <2>1. CASE Query(t)
    BY <1>0, <2>1, GotoWithType, ReturnType DEF Query
  <2>2. CASE LockInit(t)
    BY <1>0, <2>2, GotoType, GotoWithType DEF LockInit, Lock
  <2>3. CASE CheckInitialized(t)
    BY <1>0, <2>3, GotoType, GotoWithType DEF CheckInitialized
  <2>4. CASE SetInitialized(t)
    BY <2>4, GotoType DEF SetInitialized
  <2>5. CASE UnlockInit(t)
    BY <1>0, <2>5, ReturnType, GotoWithType DEF UnlockInit, Unlock
  <2>6. CASE Catch(t)
    BY <2>6, GotoType DEF Catch, Unlock
  <2>7. CASE LockGet(t)
    BY <2>7, GotoType, GetReturnedType DEF LockGet, Lock
  <2>8. CASE Get(t)
    BY <2>8, GotoWithType DEF Get
  <2>9. CASE UnlockGet(t)
    BY <2>9, GetReturnedType DEF UnlockGet, Unlock
  <2>10. CASE LockUpdate(t)
    BY <2>10, GotoType, ReturnType DEF LockUpdate, Lock
  <2>11. CASE Update(t)
    BY <2>11, GotoType DEF Update
  <2>12. CASE UnlockUpdate(t)
    BY <2>12, ReturnType DEF UnlockUpdate, Unlock
  <2> QED
    BY <2>1, <2>2, <2>3, <2>4, <2>5, <2>6, <2>7, <2>8, <2>9, <2>10, <2>11,
       <2>12 DEF Continue
<1>2. /\ m_error_code' \in SPIO_NO_ERROR .. SPIO_MUTEX_UNLOCK_FAILED
      /\ m_last_error_read' \in BOOLEAN
  BY <1>0 DEF Continue, Query, LockInit, CheckInitialized, SetInitialized,
     UnlockInit, Catch, LockGet, Get, UnlockGet, LockUpdate, Update,
     UnlockUpdate, Lock, Unlock, errorVars
<1>3. /\ m_error_mutex' \in Threads \cup {NOBODY}
      /\ m_init_mutex' \in Threads \cup {NOBODY}
      /\ m_initialized' \in BOOLEAN
      /\ left' = left
  BY DEF Continue, Query, LockInit, CheckInitialized, SetInitialized,
     UnlockInit, Catch, LockGet, Get, UnlockGet, LockUpdate, Update,
     UnlockUpdate, Lock, Unlock, errorVars
<1> QED
  BY <1>1, <1>2, <1>3

-----------------------------------------------------------------------------
(* A thread that is at the error record holds the error mutex.              *)

AtRecord(t) == call[t].pc \in ErrorLabels

HolderAtRecord == \A t \in Threads : AtRecord(t) => m_error_mutex = t

LEMMA HolderStep ==
  ASSUME TypeOK, HolderAtRecord, NEW t \in Threads, Continue(t)
  PROVE  HolderAtRecord'
<1>0. call \in [Threads -> Calls] /\ NOBODY # t
  BY SpioAssumption DEF TypeOK
<1>1. \A u \in Threads \ {t} : call'[u] = call[u]
  BY <1>0, CallSteps DEF Continue, Query, LockInit, CheckInitialized,
     SetInitialized, UnlockInit, Catch, LockGet, Get, UnlockGet, LockUpdate,
     Update, UnlockUpdate, Lock, Unlock
<1>2. ASSUME m_error_mutex' # m_error_mutex
      PROVE  m_error_mutex \in {t, NOBODY}
  <2>1. \/ LockGet(t) \/ UnlockGet(t) \/ LockUpdate(t) \/ UnlockUpdate(t)
    BY <1>2 DEF Continue, Query, LockInit, CheckInitialized, SetInitialized,
       UnlockInit, Catch, Get, Update, Lock, Unlock
  <2>2. CASE LockGet(t) \/ LockUpdate(t)
    BY <1>2, <2>2 DEF LockGet, LockUpdate, Lock
  <2>3. CASE UnlockGet(t) \/ UnlockUpdate(t)
    BY <2>3 DEF UnlockGet, UnlockUpdate, Unlock, At, HolderAtRecord, AtRecord,
       ErrorLabels
  <2> QED
    BY <2>1, <2>2, <2>3
<1>3. ASSUME NEW u \in Threads \ {t}, AtRecord(u)'
      PROVE  m_error_mutex' = u
  <2>1. m_error_mutex = u
    BY <1>1, <1>3 DEF AtRecord, HolderAtRecord
  <2> QED
    BY <1>2, <2>1, SpioAssumption
<1>4. ASSUME AtRecord(t)'
      PROVE  m_error_mutex' = t
  <2> USE DEF AtRecord, ErrorLabels
  <2>1. CASE LockGet(t)
    BY <1>0, <1>4, <2>1, CallSteps DEF LockGet, Lock
  <2>2. CASE Get(t)
    BY <2>2 DEF Get, At, HolderAtRecord
  <2>3. CASE LockUpdate(t)
    BY <1>0, <1>4, <2>3, CallSteps DEF LockUpdate, Lock
  <2>4. CASE Update(t)
    BY <2>4 DEF Update, At, HolderAtRecord
  <2>5. call'[t].pc \in {"get", "unlock_get", "update", "unlock_update"}
    BY <1>4
  <2>6. CASE Query(t)
    BY <1>0, <2>5, <2>6, CallSteps DEF Query
  <2>7. CASE LockInit(t)
    BY <1>0, <2>5, <2>7, CallSteps DEF LockInit, Lock
  <2>8. CASE CheckInitialized(t)
    BY <1>0, <2>5, <2>8, CallSteps DEF CheckInitialized
  <2>9. CASE SetInitialized(t) \/ Catch(t)
    BY <1>0, <2>5, <2>9, CallSteps DEF SetInitialized, Catch, Unlock
  <2>10. CASE UnlockInit(t)
    BY <1>0, <2>5, <2>10, CallSteps DEF UnlockInit, Unlock
  <2>11. CASE UnlockGet(t)
    BY <1>0, <2>5, <2>11, CallSteps DEF UnlockGet, Unlock
  <2>12. CASE UnlockUpdate(t)
    BY <1>0, <2>5, <2>12, CallSteps DEF UnlockUpdate, Unlock
  <2> QED
    BY <2>1, <2>2, <2>3, <2>4, <2>6, <2>7, <2>8, <2>9, <2>10, <2>11, <2>12
       DEF Continue
<1> QED
  BY <1>3, <1>4 DEF HolderAtRecord

(* A call that begins is not at the record.                                 *)
LEMMA HolderEnter ==
  ASSUME TypeOK, HolderAtRecord, NEW t \in Threads, Enter(t)
  PROVE  HolderAtRecord'
<1>1. PICK op \in Ops, null \in BOOLEAN : Call(t, op, null)
  BY DEF Enter
<1>2. FirstLabel(op) \in {"lock_get", "query", "lock_init"}
  BY DEF FirstLabel
<1>3. /\ call'[t].pc = FirstLabel(op)
      /\ \A u \in Threads \ {t} : call'[u] = call[u]
      /\ m_error_mutex' = m_error_mutex
  BY <1>1 DEF Call, TypeOK, NoCall
<1>4. ~AtRecord(t)'
  BY <1>2, <1>3 DEF AtRecord, ErrorLabels
<1> QED
  BY <1>3, <1>4 DEF HolderAtRecord, AtRecord

SpioInv == TypeOK /\ HolderAtRecord

LEMMA SpioInvariance == Spec => []SpioInv
<1>1. Init => SpioInv
  <2> SUFFICES ASSUME Init PROVE SpioInv
    OBVIOUS
  <2>1. \A t \in Threads : call[t].pc = "idle"
    BY DEF Init, NoCall
  <2> QED
    BY <2>1, SpioTypeInit DEF SpioInv, HolderAtRecord, AtRecord, ErrorLabels
<1>2. SpioInv /\ [Next]_vars => SpioInv'
  <2> SUFFICES ASSUME SpioInv, [Next]_vars PROVE SpioInv'
    OBVIOUS
  <2>1. CASE Next
    BY <2>1, EnterType, ContinueType, HolderEnter, HolderStep DEF Next, SpioInv
  <2>2. CASE UNCHANGED vars
    BY <2>2 DEF vars, errorVars, SpioInv, TypeOK, HolderAtRecord, AtRecord
  <2> QED
    BY <2>1, <2>2
<1> QED
  BY <1>1, <1>2, PTL DEF Spec

(* Whatever threads and mutexes do, the variables keep their types: no error*)
(* but those of spio.h is ever recorded or returned.                        *)
THEOREM SpioTypeCorrect == Spec => []TypeOK
<1>1. SpioInv => TypeOK
  BY DEF SpioInv
<1> QED
  BY <1>1, SpioInvariance, PTL

(* No two threads are at the error record at a time.                        *)
THEOREM RecordGuarded == Spec => []ErrorRecordGuarded
<1>1. SpioInv => ErrorRecordGuarded
  BY DEF SpioInv, HolderAtRecord, AtRecord, ErrorRecordGuarded
<1> QED
  BY <1>1, SpioInvariance, PTL

-----------------------------------------------------------------------------
(* The calls of a process take effect in some order, if mutexes do not      *)
(* fail.                                                                    *)

(* The registers of a call after a step of it; the other calls stay.        *)
Moved(t, label, code, ret) ==
    /\ call'[t].pc = label
    /\ call'[t].op = call[t].op
    /\ call'[t].code = code
    /\ call'[t].ret = ret
    /\ \A u \in Threads \ {t} : call'[u] = call[u]

LEMMA Moves ==
  ASSUME TypeOK, NEW t \in Threads
  PROVE  /\ \A label : Goto(t, label) =>
               Moved(t, label, call[t].code, call[t].ret)
         /\ \A label, code : GotoWith(t, label, code) =>
               Moved(t, label, code, call[t].ret)
         /\ \A rc : Return(t, rc) => Moved(t, "idle", call[t].code, rc)
  BY DEF TypeOK, Calls, Moved, Goto, GotoWith, Return

(* What each step does to the registers of its call and to the object.      *)
Same(t, label, code, ret) ==
    /\ Moved(t, label, code, ret)
    /\ UNCHANGED <<errorVars, m_initialized>>

Outcome(t) ==
    LET code == call[t].code
        ret  == call[t].ret
        op   == call[t].op
    IN
    \/ /\ At(t, "query") /\ call[t].null /\ UNCHANGED m_init_mutex
       /\ Same(t, "lock_update", SPIO_BAD_ARGUMENT, ret)
    \/ /\ At(t, "query") /\ UNCHANGED m_init_mutex
       /\ Same(t, "idle", code, SPIO_SUCCESS)
    \/ /\ At(t, "lock_init") /\ m_init_mutex = NOBODY /\ m_init_mutex' = t
       /\ Same(t, "check", code, ret)
    \/ /\ At(t, "check") /\ op = "initialize" /\ m_initialized
       /\ UNCHANGED m_init_mutex
       /\ Same(t, "catch", SPIO_ALREADY_INITIALIZED, ret)
    \/ /\ At(t, "check") /\ op = "initialize" /\ ~m_initialized
       /\ UNCHANGED m_init_mutex
       /\ Same(t, "set_initialized", code, ret)
    \/ /\ At(t, "check") /\ op # "initialize" /\ m_initialized
       /\ UNCHANGED m_init_mutex
       /\ Same(t, "lock_get", code, ret)
    \/ /\ At(t, "check") /\ op # "initialize" /\ ~m_initialized
       /\ UNCHANGED m_init_mutex
       /\ Same(t, "catch", SPIO_NOT_INITIALIZED, ret)
    \/ /\ At(t, "set_initialized") /\ UNCHANGED <<errorVars, m_init_mutex>>
       /\ m_initialized' = (op = "initialize")
       /\ Moved(t, "unlock_init", code, ret)
    \/ /\ At(t, "unlock_init") /\ m_init_mutex' = NOBODY
       /\ Same(t, "idle", code, SPIO_SUCCESS)
    \/ /\ At(t, "catch") /\ m_init_mutex' = NOBODY
       /\ Same(t, "lock_update", code, ret)
    \/ /\ At(t, "lock_get") /\ UNCHANGED m_init_mutex
       /\ Same(t, "get", code, ret)
    \/ /\ At(t, "get") /\ UNCHANGED <<m_initialized, m_init_mutex>>
       /\ m_error_code' = SPIO_NO_ERROR /\ m_last_error_read'
       /\ Moved(t, "unlock_get", m_error_code, ret)
    \/ /\ At(t, "unlock_get") /\ op = "finalize" /\ UNCHANGED m_init_mutex
       /\ Same(t, "set_initialized", SPIO_NO_ERROR, ret)
    \/ /\ At(t, "unlock_get") /\ op # "finalize" /\ UNCHANGED m_init_mutex
       /\ Same(t, "idle", code, SPIO_SUCCESS)
    \/ /\ At(t, "lock_update") /\ UNCHANGED m_init_mutex
       /\ Same(t, "update", code, ret)
    \/ /\ At(t, "update") /\ UNCHANGED <<m_initialized, m_init_mutex>>
       /\ IF m_last_error_read
          THEN m_error_code' = code /\ ~m_last_error_read'
          ELSE UNCHANGED errorVars
       /\ Moved(t, "unlock_update", code, ret)
    \/ /\ At(t, "unlock_update") /\ UNCHANGED m_init_mutex
       /\ Same(t, "idle", code, SPIO_FAILURE)

LEMMA Outcomes ==
  ASSUME ~MutexFails, TypeOK, NEW t \in Threads, Continue(t)
  PROVE  Outcome(t)
<1> USE DEF Outcome, Same
<1>1. CASE Query(t)
  BY <1>1, Moves DEF Query
<1>2. CASE LockInit(t)
  BY <1>2, Moves DEF LockInit, Lock
<1>3. CASE CheckInitialized(t)
  BY <1>3, Moves DEF CheckInitialized
<1>4. CASE SetInitialized(t)
  BY <1>4, Moves DEF SetInitialized
<1>5. CASE UnlockInit(t)
  BY <1>5, Moves DEF UnlockInit, Unlock
<1>6. CASE Catch(t)
  BY <1>6, Moves DEF Catch, Unlock
<1>7. CASE LockGet(t)
  BY <1>7, Moves DEF LockGet, Lock
<1>8. CASE Get(t)
  BY <1>8, Moves DEF Get
<1>9. CASE UnlockGet(t)
  BY <1>9, Moves DEF UnlockGet, Unlock, GetReturned
<1>10. CASE LockUpdate(t)
  BY <1>10, Moves DEF LockUpdate, Lock
<1>11. CASE Update(t)
  BY <1>11, Moves DEF Update
<1>12. CASE UnlockUpdate(t)
  BY <1>12, Moves DEF UnlockUpdate, Unlock
<1> QED
  BY <1>1, <1>2, <1>3, <1>4, <1>5, <1>6, <1>7, <1>8, <1>9, <1>10, <1>11, <1>12
  DEF Continue

LEMMA OrderInit ==
  ASSUME Init
  PROVE  OrderInv
<1>1. TypeOK
  BY SpioTypeInit
<1>2. \A t \in Threads : call[t].pc = "idle"
  BY DEF Init, NoCall
<1> QED
  BY <1>1, <1>2
  DEF Init, OrderInv, PlaceOK, CheckOK, HoldsInit, Refused, GetLabels, At

(* A call that begins holds nothing.                                        *)
LEMMA OrderEnter ==
  ASSUME OrderInv, NEW t \in Threads, Enter(t)
  PROVE  OrderInv'
<1>1. PICK op \in Ops, null \in BOOLEAN : Call(t, op, null)
  BY DEF Enter
<1>2. /\ call'[t].pc = FirstLabel(op)
      /\ call'[t].op = op
      /\ \A u \in Threads \ {t} : call'[u] = call[u]
      /\ UNCHANGED <<errorVars, m_error_mutex, m_initialized, m_init_mutex>>
  BY <1>1 DEF OrderInv, TypeOK, Call, NoCall
<1>3. PlaceOK(t)' /\ CheckOK(t)'
  <2>1. \/ op = "get_last_error" /\ FirstLabel(op) = "lock_get"
        \/ op \in Queries /\ FirstLabel(op) = "query"
        \/ op \in {"initialize", "finalize"} /\ FirstLabel(op) = "lock_init"
    BY DEF FirstLabel, Ops, Queries
  <2> QED
    BY <1>2, <2>1 DEF PlaceOK, CheckOK, HoldsInit, Refused, GetLabels, At
<1>4. \A u \in Threads \ {t} : PlaceOK(u)' /\ CheckOK(u)'
  BY <1>2 DEF OrderInv, PlaceOK, CheckOK, HoldsInit, Refused, At
<1>5. TypeOK'
  BY EnterType DEF OrderInv
<1> QED
  BY <1>2, <1>3, <1>4, <1>5 DEF OrderInv, errorVars

(* The steps of one call do not take the mutex from another, nor change     *)
(* what it found under the mutex.                                           *)
LEMMA OrderStep ==
  ASSUME ~MutexFails, OrderInv, NEW t \in Threads, Continue(t)
  PROVE  OrderInv'
<1>1. TypeOK /\ TypeOK' /\ Outcome(t)
  BY Outcomes, ContinueType DEF OrderInv
<1>2. \A u \in Threads \ {t} : call'[u] = call[u]
  BY <1>1 DEF Outcome, Same, Moved
<1>3. PlaceOK(t) /\ CheckOK(t) /\ call[t].op \in Ops
  BY <1>1 DEF OrderInv, TypeOK, Calls
<1>4. m_init_mutex' # m_init_mutex => m_init_mutex \in {NOBODY, t}
  BY <1>1, <1>3 DEF Outcome, CheckOK, HoldsInit, At
<1>5. m_initialized' # m_initialized => m_init_mutex = t
  BY <1>1, <1>3 DEF Outcome, Same, CheckOK, HoldsInit, At
<1>6. ASSUME NEW u \in Threads \ {t} PROVE PlaceOK(u)' /\ CheckOK(u)'
  <2>1. PlaceOK(u)'
    BY <1>2 DEF OrderInv, PlaceOK, Refused, At
  <2>2. HoldsInit(u)' <=> HoldsInit(u)
    BY <1>2 DEF HoldsInit
  <2>3. CASE HoldsInit(u)
    <3>1. m_init_mutex' = u /\ m_initialized' = m_initialized
      BY <1>4, <1>5, <2>3, SpioAssumption DEF OrderInv, CheckOK
    <3> QED
      BY <1>2, <2>1, <3>1 DEF OrderInv, CheckOK, At
  <2>4. CASE ~HoldsInit(u)
    BY <1>2, <2>1, <2>2, <2>4 DEF CheckOK, HoldsInit, At
  <2> QED
    BY <2>3, <2>4
<1>7. PlaceOK(t)'
  BY <1>1, <1>3 DEF Outcome, Same, Moved, PlaceOK, Refused, Refusal, GetLabels,
     At, Ops, Queries
<1>8. CheckOK(t)'
  BY <1>1, <1>3 DEF Outcome, Same, Moved, CheckOK, PlaceOK, HoldsInit, Refused,
     GetLabels, At
<1>9. (m_last_error_read <=> m_error_code = SPIO_NO_ERROR)'
  BY <1>1, <1>3 DEF Outcome, Same, OrderInv, errorVars, PlaceOK, Refused,
     Refusal, At, SPIO_NO_ERROR, SPIO_ALREADY_INITIALIZED,
     SPIO_NOT_INITIALIZED, SPIO_BAD_ARGUMENT
<1> QED
  BY <1>1, <1>6, <1>7, <1>8, <1>9 DEF OrderInv

(* What a call found under the mutex stays so, for any number of threads    *)
(* and calls, if mutexes do not fail.                                       *)
THEOREM OrderInvariance ==
  ASSUME ~MutexFails
  PROVE  Spec => []OrderInv
<1>1. Init => OrderInv
  BY OrderInit
<1>2. OrderInv /\ [Next]_vars => OrderInv'
  <2>1. OrderInv /\ UNCHANGED vars => OrderInv'
    BY DEF vars, errorVars, OrderInv, TypeOK, PlaceOK, CheckOK, HoldsInit,
       Refused, At
  <2> QED
    BY <2>1, OrderEnter, OrderStep DEF Next
<1> QED
  BY <1>1, <1>2, PTL DEF Spec

-----------------------------------------------------------------------------
(* The view of the service.                                                 *)

ViewOp(t) == IF call[t].op \in Queries THEN "query" ELSE call[t].op

View(t) == [phase |-> Phase(t), op |-> ViewOp(t), code |-> CodeSeen(t),
            ok |-> Succeeds(t)]

Views == [t \in Threads |-> View(t)]
Ready == m_initialized /\ \A t \in Threads : ~Finalizing(t)

(* The phase of a call by its place.                                        *)
PhaseTable(t) ==
    /\ At(t, "idle") => Phase(t) = "over"
    /\ Refused(t) => Phase(t) = "refused"
    /\ call[t].pc \in {"unlock_init", "unlock_get", "unlock_update"} =>
          Phase(t) = "done"
    /\ At(t, "set_initialized") => Phase(t) = IF call[t].op = "finalize"
                                              THEN "done" ELSE "begun"
    /\ call[t].pc \in {"lock_init", "check", "lock_get", "get", "query"} =>
          Phase(t) = "begun"

LEMMA Phases ==
  ASSUME NEW t
  PROVE  PhaseTable(t) /\ PhaseTable(t)'
BY DEF PhaseTable, Phase, Refused, Finalizing, At

(* A step of one call changes the view of that call.                        *)
LEMMA ViewStep ==
  ASSUME NEW t \in Threads, \A u \in Threads \ {t} : call'[u] = call[u]
  PROVE  Views' = [Views EXCEPT ![t] = View(t)']
<1>1. \A u \in Threads \ {t} : View(u)' = View(u)
  BY DEF View, ViewOp, Phase, CodeSeen, Succeeds, Refused, Finalizing, At
<1> QED
  BY <1>1 DEF Views

LEMMA EnterServed ==
  ASSUME OrderInv, NEW t \in Threads, Enter(t)
  PROVE  \E op \in Service!Ops : Service!Begin(t, op)
<1>1. PICK op \in Ops, null \in BOOLEAN : Call(t, op, null)
  BY DEF Enter
<1>2. /\ At(t, "idle")
      /\ call'[t].pc = FirstLabel(op)
      /\ call'[t].op = op
      /\ call'[t].code = SPIO_NO_ERROR
      /\ \A u \in Threads \ {t} : call'[u] = call[u]
      /\ UNCHANGED <<errorVars, m_initialized>>
  BY <1>1 DEF OrderInv, TypeOK, Call, NoCall
<1>3. FirstLabel(op) \in {"lock_get", "query", "lock_init"}
  BY DEF FirstLabel
<1>4. PICK sop \in Service!Ops : sop = IF op \in Queries THEN "query" ELSE op
  BY DEF Ops, Queries, Service!Ops
<1>5. View(t)' = [phase |-> "begun", op |-> sop, code |-> 0, ok |-> TRUE]
  <2>1. Phase(t)' = "begun"
    BY <1>2, <1>3, Phases DEF PhaseTable
  <2>2. ViewOp(t)' = sop
    BY <1>2, <1>4 DEF ViewOp
  <2>3. CodeSeen(t)' = 0 /\ Succeeds(t)'
    BY <1>2, <1>3 DEF CodeSeen, Succeeds, Refused, At, SPIO_NO_ERROR
  <2> QED
    BY <2>1, <2>2, <2>3 DEF View
<1>6. View(t).phase = "over"
  BY <1>2, Phases DEF PhaseTable, View
<1>7. Ready' <=> Ready
  <2>1. \A u \in Threads : Finalizing(u)' <=> Finalizing(u)
    BY <1>2, <1>3 DEF Finalizing, At
  <2> QED
    BY <1>2, <2>1 DEF Ready
<1>8. Service!Begin(t, sop)
  BY <1>2, <1>5, <1>6, <1>7, ViewStep DEF Service!Begin, Views, View, ViewOp,
     Ready, errorVars
<1> QED
  BY <1>8

(* The library is ready as the thread with the other mutex sees it.         *)
LEMMA ReadyStep ==
  ASSUME OrderInv, NEW t \in Threads, \A u \in Threads \ {t} : call'[u] = call[u]
  PROVE  /\ HoldsInit(t) => (Ready <=> m_initialized /\ ~Finalizing(t))
         /\ HoldsInit(t) => (Ready' <=> m_initialized' /\ ~Finalizing(t)')
         /\ (Finalizing(t)' <=> Finalizing(t)) /\ m_initialized' = m_initialized
               => (Ready' <=> Ready)
<1>1. \A u \in Threads : Finalizing(u) => m_init_mutex = u
  BY DEF OrderInv, CheckOK, HoldsInit, Finalizing, At, GetLabels
<1>2. \A u \in Threads \ {t} : Finalizing(u)' <=> Finalizing(u)
  BY DEF Finalizing
<1>3. HoldsInit(t) => m_init_mutex = t
  BY DEF OrderInv, CheckOK
<1> QED
  BY <1>1, <1>2, <1>3 DEF Ready

Viewed(t, phase, code, ok) ==
    /\ View(t).phase = phase
    /\ View(t).code = code
    /\ View(t).ok = ok

(* What the service sees of a call by its place.                            *)
ViewTable(t) ==
    /\ call[t].pc \in {"query", "lock_init", "check"} =>
          Viewed(t, "begun", 0, TRUE)
    /\ At(t, "set_initialized") =>
          Viewed(t, IF call[t].op = "finalize" THEN "done" ELSE "begun", 0, TRUE)
    /\ At(t, "unlock_init") => Viewed(t, "done", 0, TRUE)
    /\ Refused(t) => Viewed(t, "refused", call[t].code, TRUE)
    /\ call[t].pc \in {"lock_get", "get"} =>
          Viewed(t, "begun",
                 IF call[t].op = "finalize" THEN 0 ELSE call[t].code, TRUE)
    /\ At(t, "unlock_get") =>
          Viewed(t, "done",
                 IF call[t].op = "finalize" THEN 0 ELSE call[t].code, TRUE)
    /\ At(t, "unlock_update") => Viewed(t, "done", 0, FALSE)
    /\ At(t, "idle") =>
          Viewed(t, "over",
                 IF call[t].op = "get_last_error" THEN call[t].code ELSE 0,
                 call[t].ret = SPIO_SUCCESS)

LEMMA ViewedAs ==
  ASSUME NEW t \in Threads
  PROVE  (PlaceOK(t) => ViewTable(t)) /\ (PlaceOK(t) => ViewTable(t))'
BY Phases DEF PhaseTable, PlaceOK, ViewTable, Viewed, View, CodeSeen, Succeeds,
   Refused, GetLabels, At, Queries

(* The service sees a step of its own, or none.                             *)
LEMMA ServiceStep ==
  ASSUME NEW t \in Threads, \A u \in Threads \ {t} : call'[u] = call[u],
         NEW op, ViewOp(t) = op, ViewOp(t)' = op, NEW from, View(t).phase = from,
         NEW to, NEW code, NEW ok, Viewed(t, to, code, ok)'
  PROVE  Service!Step(t, from, op, to, code, ok)
<1>1. View(t)' = [phase |-> to, op |-> op, code |-> code, ok |-> ok]
  BY DEF Viewed, View
<1> QED
  BY <1>1, ViewStep DEF Service!Step, Views, View, ViewOp

LEMMA ServiceStutter ==
  ASSUME NEW t \in Threads, \A u \in Threads \ {t} : call'[u] = call[u],
         ViewOp(t)' = ViewOp(t), Ready' <=> Ready, m_error_code' = m_error_code,
         NEW phase, NEW code, NEW ok,
         Viewed(t, phase, code, ok), Viewed(t, phase, code, ok)'
  PROVE  UNCHANGED Service!ServiceVars
<1>1. View(t)' = View(t)
  BY DEF Viewed, View
<1> QED
  BY <1>1, ViewStep DEF Service!ServiceVars, Views, View, ViewOp, Ready

LEMMA ServiceOver ==
  ASSUME NEW t \in Threads, \A u \in Threads \ {t} : call'[u] = call[u],
         NEW op \in Service!Ops, ViewOp(t) = op, ViewOp(t)' = op,
         Ready' <=> Ready, m_error_code' = m_error_code, NEW code, NEW ok,
         Viewed(t, "done", code, ok), Viewed(t, "over", code, ok)'
  PROVE  Service!Over(t)
<1>1. Service!Step(t, "done", op, "over", code, ok)
  BY ServiceStep DEF Viewed
<1>2. Views[t].code = code /\ Views[t].ok = ok
  BY DEF Viewed, Views
<1> QED
  BY <1>1, <1>2 DEF Service!Over, Service!Step, Ready, Views, View, ViewOp

(* Every step of a call is seen as at most one step of the service.         *)
LEMMA ContinueServed ==
  ASSUME ~MutexFails, OrderInv, NEW t \in Threads, Continue(t)
  PROVE  \/ Service!Initialize(t) \/ Service!Finalize(t)
         \/ Service!GetLastError(t) \/ Service!Refuse(t)
         \/ Service!Record(t) \/ Service!Over(t)
         \/ UNCHANGED Service!ServiceVars
<1>0. /\ Outcome(t) /\ PlaceOK(t) /\ CheckOK(t) /\ call[t].op \in Ops
      /\ PlaceOK(t)'
  BY Outcomes, OrderStep DEF OrderInv, TypeOK, Calls
<1>1. \A u \in Threads \ {t} : call'[u] = call[u]
  BY <1>0 DEF Outcome, Same, Moved
<1>2. PICK op : op = ViewOp(t) /\ op = ViewOp(t)'
  BY <1>0 DEF Outcome, Same, Moved, ViewOp
<1>3. ViewTable(t) /\ ViewTable(t)'
  BY <1>0, ViewedAs
<1>4. /\ HoldsInit(t) => (Ready <=> m_initialized /\ ~Finalizing(t))
      /\ HoldsInit(t) => (Ready' <=> m_initialized' /\ ~Finalizing(t)')
      /\ (Finalizing(t)' <=> Finalizing(t)) /\ m_initialized' = m_initialized
            => (Ready' <=> Ready)
  BY <1>1, ReadyStep
<1> USE DEF At, Same, Moved
<1>5. CASE At(t, "query")
  <2>1. call[t].op \in Queries /\ op = "query"
    BY <1>0, <1>2, <1>5 DEF PlaceOK, ViewOp
  <2>2. Ready' <=> Ready
    BY <1>0, <1>4, <1>5 DEF Outcome, Finalizing
  <2>3. CASE call'[t].pc = "lock_update"
    <3>1. Viewed(t, "begun", 0, TRUE) /\ Viewed(t, "refused", SPIO_BAD_ARGUMENT, TRUE)'
      BY <1>0, <1>3, <1>5, <2>3 DEF Outcome, ViewTable, Refused
    <3>2. Service!Step(t, "begun", "query", "refused", SPIO_BAD_ARGUMENT, TRUE)
      BY <1>1, <1>2, <2>1, <3>1, ServiceStep DEF Viewed
    <3> QED
      BY <1>0, <1>5, <2>2, <3>2 DEF Outcome, errorVars, Service!Refuse, Ready,
         SPIO_BAD_ARGUMENT, Service!SPIO_BAD_ARGUMENT
  <2>4. CASE call'[t].pc = "idle"
    <3>1. Viewed(t, "begun", 0, TRUE) /\ Viewed(t, "over", 0, TRUE)'
      BY <1>0, <1>3, <1>5, <2>1, <2>4 DEF Outcome, ViewTable, Queries
    <3>2. Service!Step(t, "begun", "query", "over", 0, TRUE)
      BY <1>1, <1>2, <2>1, <3>1, ServiceStep DEF Viewed
    <3> QED
      BY <1>0, <1>5, <2>2, <3>2 DEF Outcome, errorVars, Service!Over, Ready
  <2> QED
    BY <1>0, <1>5, <2>3, <2>4 DEF Outcome
<1>6. CASE At(t, "lock_init")
  <2>1. /\ Viewed(t, "begun", 0, TRUE) /\ Viewed(t, "begun", 0, TRUE)'
        /\ m_error_code' = m_error_code
        /\ Ready' <=> Ready
    BY <1>0, <1>3, <1>4, <1>6 DEF Outcome, ViewTable, Finalizing, errorVars
  <2> QED
    BY <1>1, <1>2, <2>1, ServiceStutter
<1>7. CASE At(t, "check")
  <2>1. HoldsInit(t) /\ call[t].op \in {"initialize", "finalize"} /\ op = call[t].op
    BY <1>0, <1>2, <1>7 DEF HoldsInit, PlaceOK, ViewOp, Queries
  <2>2. /\ Viewed(t, "begun", 0, TRUE)
        /\ m_error_code' = m_error_code
        /\ Ready' <=> Ready
        /\ Ready <=> m_initialized
    BY <1>0, <1>3, <1>4, <1>7, <2>1 DEF Outcome, ViewTable, Finalizing, errorVars
  <2>3. CASE call'[t].pc \in {"set_initialized", "lock_get"}
    <3>1. Viewed(t, "begun", 0, TRUE)'
      BY <1>0, <1>3, <1>7, <2>1, <2>3 DEF Outcome, ViewTable
    <3> QED
      BY <1>1, <1>2, <2>2, <3>1, ServiceStutter
  <2>4. CASE call'[t].pc = "catch" /\ m_initialized
    <3>1. op = "initialize" /\ Viewed(t, "refused", SPIO_ALREADY_INITIALIZED, TRUE)'
      BY <1>0, <1>3, <1>7, <2>1, <2>4 DEF Outcome, ViewTable, Refused
    <3>2. Service!Step(t, "begun", "initialize", "refused",
                       SPIO_ALREADY_INITIALIZED, TRUE)
      BY <1>1, <1>2, <2>2, <3>1, ServiceStep DEF Viewed
    <3> QED
      BY <2>2, <2>4, <3>2 DEF Service!Refuse, Ready, SPIO_ALREADY_INITIALIZED,
         Service!SPIO_ALREADY_INITIALIZED
  <2>5. CASE call'[t].pc = "catch" /\ ~m_initialized
    <3>1. op = "finalize" /\ Viewed(t, "refused", SPIO_NOT_INITIALIZED, TRUE)'
      BY <1>0, <1>3, <1>7, <2>1, <2>5 DEF Outcome, ViewTable, Refused
    <3>2. Service!Step(t, "begun", "finalize", "refused",
                       SPIO_NOT_INITIALIZED, TRUE)
      BY <1>1, <1>2, <2>2, <3>1, ServiceStep DEF Viewed
    <3> QED
      BY <2>2, <2>5, <3>2 DEF Service!Refuse, Ready, SPIO_NOT_INITIALIZED,
         Service!SPIO_NOT_INITIALIZED
  <2> QED
    BY <1>0, <1>7, <2>3, <2>4, <2>5 DEF Outcome
<1>8. CASE At(t, "set_initialized")
  <2>1. /\ HoldsInit(t) /\ call[t].op \in {"initialize", "finalize"}
        /\ op = call[t].op
        /\ m_initialized <=> call[t].op = "finalize"
    BY <1>0, <1>2, <1>8 DEF HoldsInit, PlaceOK, CheckOK, ViewOp, Queries
  <2>2. /\ call'[t].pc = "unlock_init" /\ call'[t].op = call[t].op
        /\ m_initialized' = (call[t].op = "initialize")
        /\ m_error_code' = m_error_code
        /\ Viewed(t, "done", 0, TRUE)'
    BY <1>0, <1>3, <1>8 DEF Outcome, ViewTable, errorVars
  <2>3. CASE op = "initialize"
    <3>1. ~Ready /\ Ready' /\ Viewed(t, "begun", 0, TRUE)
      BY <1>3, <1>4, <1>8, <2>1, <2>2, <2>3 DEF Finalizing, ViewTable
    <3>2. Service!Step(t, "begun", "initialize", "done", 0, TRUE)
      BY <1>1, <1>2, <2>2, <2>3, <3>1, ServiceStep DEF Viewed
    <3> QED
      BY <2>2, <3>1, <3>2 DEF Service!Initialize, Ready
  <2>4. CASE op = "finalize"
    <3>1. ~Ready /\ ~Ready' /\ Viewed(t, "done", 0, TRUE)
      BY <1>3, <1>4, <1>8, <2>1, <2>2, <2>4 DEF Finalizing, ViewTable
    <3> QED
      BY <1>1, <1>2, <2>2, <3>1, ServiceStutter
  <2> QED
    BY <2>1, <2>3, <2>4
<1>9. op \in Service!Ops
  BY <1>0, <1>2 DEF ViewOp, Ops, Queries, Service!Ops
<1>10. CASE At(t, "unlock_init")
  <2>1. /\ Viewed(t, "done", 0, TRUE) /\ Viewed(t, "over", 0, TRUE)'
        /\ m_error_code' = m_error_code
        /\ Ready' <=> Ready
    BY <1>0, <1>3, <1>4, <1>10
    DEF Outcome, ViewTable, Finalizing, PlaceOK, errorVars
  <2> QED
    BY <1>1, <1>2, <1>9, <2>1, ServiceOver
<1>11. CASE At(t, "catch") \/ At(t, "lock_update")
  <2>1. /\ Viewed(t, "refused", call[t].code, TRUE)
        /\ Viewed(t, "refused", call[t].code, TRUE)'
        /\ call'[t].code = call[t].code
        /\ m_error_code' = m_error_code
        /\ Ready' <=> Ready
    BY <1>0, <1>3, <1>4, <1>11
    DEF Outcome, ViewTable, Finalizing, Refused, errorVars
  <2> QED
    BY <1>1, <1>2, <2>1, ServiceStutter
<1>12. CASE At(t, "lock_get")
  <2>1. PICK code : code = IF call[t].op = "finalize" THEN 0 ELSE call[t].code
    OBVIOUS
  <2>2. /\ Viewed(t, "begun", code, TRUE) /\ Viewed(t, "begun", code, TRUE)'
        /\ m_error_code' = m_error_code
        /\ Ready' <=> Ready
    BY <1>0, <1>3, <1>4, <1>12, <2>1 DEF Outcome, ViewTable, Finalizing, errorVars
  <2> QED
    BY <1>1, <1>2, <2>2, ServiceStutter
<1>13. CASE At(t, "get")
  <2>1. /\ call[t].op \in {"finalize", "get_last_error"} /\ op = call[t].op
        /\ call[t].op = "finalize" => HoldsInit(t) /\ m_initialized
    BY <1>0, <1>2, <1>13
    DEF HoldsInit, PlaceOK, CheckOK, ViewOp, Queries, GetLabels
  <2>2. /\ call'[t].pc = "unlock_get" /\ call'[t].op = call[t].op
        /\ call'[t].code = m_error_code
        /\ m_initialized' = m_initialized
        /\ m_error_code' = SPIO_NO_ERROR
        /\ View(t).phase = "begun"
    BY <1>0, <1>3, <1>13 DEF Outcome, ViewTable, Viewed
  <2>3. CASE op = "finalize"
    <3>1. Ready /\ ~Ready' /\ Viewed(t, "done", 0, TRUE)'
      BY <1>3, <1>4, <1>13, <2>1, <2>2, <2>3 DEF Finalizing, ViewTable
    <3>2. Service!Step(t, "begun", "finalize", "done", 0, TRUE)
      BY <1>1, <1>2, <2>2, <2>3, <3>1, ServiceStep
    <3> QED
      BY <2>2, <3>1, <3>2 DEF Service!Finalize, Ready, SPIO_NO_ERROR,
         Service!SPIO_NO_ERROR
  <2>4. CASE op = "get_last_error"
    <3>1. PICK latch : latch = m_error_code
      OBVIOUS
    <3>2. /\ Ready' <=> Ready
          /\ Viewed(t, "done", latch, TRUE)'
      BY <1>3, <1>4, <1>13, <2>1, <2>2, <2>4, <3>1 DEF Finalizing, ViewTable
    <3>3. Service!Step(t, "begun", "get_last_error", "done", latch, TRUE)
      BY <1>1, <1>2, <2>2, <2>4, <3>2, ServiceStep
    <3> QED
      BY <2>2, <3>1, <3>2, <3>3 DEF Service!GetLastError, Service!Step, Ready,
         SPIO_NO_ERROR, Service!SPIO_NO_ERROR
  <2> QED
    BY <2>1, <2>3, <2>4
<1>14. CASE At(t, "unlock_get")
  <2>1. CASE call[t].op = "finalize"
    <3>1. /\ Viewed(t, "done", 0, TRUE) /\ Viewed(t, "done", 0, TRUE)'
          /\ m_error_code' = m_error_code
          /\ Ready' <=> Ready
      BY <1>0, <1>3, <1>4, <1>14, <2>1 DEF Outcome, ViewTable, Finalizing, errorVars
    <3> QED
      BY <1>1, <1>2, <3>1, ServiceStutter
  <2>2. CASE call[t].op # "finalize"
    <3>1. PICK code : code = call[t].code
      OBVIOUS
    <3>2. /\ Viewed(t, "done", code, TRUE) /\ Viewed(t, "over", code, TRUE)'
          /\ m_error_code' = m_error_code
          /\ Ready' <=> Ready
      BY <1>0, <1>3, <1>4, <1>14, <2>2, <3>1
      DEF Outcome, ViewTable, Finalizing, PlaceOK, GetLabels, errorVars
    <3> QED
      BY <1>1, <1>2, <1>9, <3>2, ServiceOver
  <2> QED
    BY <2>1, <2>2
<1>15. CASE At(t, "update")
  <2>1. /\ Viewed(t, "refused", call[t].code, TRUE) /\ Viewed(t, "done", 0, FALSE)'
        /\ m_error_code' = IF m_error_code = SPIO_NO_ERROR THEN call[t].code
                                                          ELSE m_error_code
        /\ Ready' <=> Ready
    BY <1>0, <1>3, <1>4, <1>15
    DEF Outcome, ViewTable, Finalizing, Refused, OrderInv, errorVars
  <2>2. Service!Step(t, "refused", op, "done", 0, FALSE)
    BY <1>1, <1>2, <2>1, ServiceStep DEF Viewed
  <2>3. Views[t].code = call[t].code
    BY <2>1 DEF Viewed, Views
  <2> QED
    BY <1>9, <2>1, <2>2, <2>3 DEF Service!Record, Ready, Views, View, ViewOp,
       SPIO_NO_ERROR, Service!SPIO_NO_ERROR
<1>16. CASE At(t, "unlock_update")
  <2>0. /\ call'[t].pc = "idle" /\ call'[t].op = call[t].op
        /\ call[t].op # "get_last_error"
        /\ call'[t].ret # SPIO_SUCCESS
    BY <1>0, <1>16 DEF Outcome, PlaceOK, SPIO_SUCCESS, SPIO_FAILURE
  <2>1. /\ Viewed(t, "done", 0, FALSE) /\ Viewed(t, "over", 0, FALSE)'
        /\ m_error_code' = m_error_code
        /\ Ready' <=> Ready
    BY <1>0, <1>3, <1>4, <1>16, <2>0
    DEF Outcome, ViewTable, Finalizing, errorVars
  <2> QED
    BY <1>1, <1>2, <1>9, <2>1, ServiceOver
<1> QED
  BY <1>0, <1>5, <1>6, <1>7, <1>8, <1>10, <1>11, <1>12, <1>13, <1>14, <1>15,
     <1>16 DEF Outcome

(* However the calls of any number of threads interleave, each takes effect *)
(* at one instant, if mutexes do not fail: initialize and finalize          *)
(* alternate, and every unread error is kept until it is read once.         *)
THEOREM Linearization ==
  ASSUME ~MutexFails
  PROVE  Spec => ImplementsSpio
<1>1. Init => Service!ServiceInit
  <2> SUFFICES ASSUME Init PROVE Service!ServiceInit
    OBVIOUS
  <2>1. ~Ready /\ m_error_code = 0
    BY DEF Init, Ready, SPIO_NO_ERROR
  <2>2. ASSUME NEW t \in Threads
        PROVE  View(t) = Service!NotCalled
    <3>1. call[t] = NoCall
      BY DEF Init
    <3>2. Phase(t) = "over"
      BY <3>1, Phases DEF PhaseTable, NoCall, At
    <3>3. ViewOp(t) = "query" /\ CodeSeen(t) = 0 /\ Succeeds(t)
      BY <3>1 DEF ViewOp, CodeSeen, Succeeds, Refused, NoCall, At, Queries
    <3> QED
      BY <3>2, <3>3 DEF View, Service!NotCalled
  <2> QED
    BY <2>1, <2>2 DEF Service!ServiceInit, Service!SPIO_NO_ERROR, Ready, View,
       ViewOp
<1>2. OrderInv /\ [Next]_vars => [Service!ServiceNext]_(Service!ServiceVars)
  <2> SUFFICES ASSUME OrderInv, [Next]_vars
               PROVE  Service!ServiceNext \/ UNCHANGED Service!ServiceVars
    OBVIOUS
  <2>1. ASSUME NEW t \in Threads, Enter(t)
        PROVE  Service!ServiceNext
    BY <2>1, EnterServed DEF Service!ServiceNext
  <2>2. ASSUME NEW t \in Threads, Continue(t)
        PROVE  Service!ServiceNext \/ UNCHANGED Service!ServiceVars
    BY <2>2, ContinueServed DEF Service!ServiceNext
  <2>3. CASE UNCHANGED vars
    BY <2>3 DEF vars, errorVars, Service!ServiceVars, Phase, CodeSeen,
       Succeeds, Refused, Finalizing, At
  <2> QED
    BY <2>1, <2>2, <2>3 DEF Next
<1> QED
  BY <1>1, <1>2, OrderInvariance, PTL
  DEF Spec, ImplementsSpio, Service!ServiceSpec
=============================================================================
