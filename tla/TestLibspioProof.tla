--------------------------- MODULE TestLibspioProof ---------------------------
(***************************************************************************)
(* The menu of the test program shows the first refusal, and the program   *)
(* ends with both mutexes free.  What is inductive is MenuInv: it follows  *)
(* the error owed to the user through the calls that record, read or clear *)
(* it in the library.                                                      *)
(***************************************************************************)
EXTENDS TestLibspio, TLAPS

Codes == Lib!SPIO_NO_ERROR .. Lib!SPIO_MUTEX_UNLOCK_FAILED
Rets == {Lib!SPIO_SUCCESS, Lib!SPIO_FAILURE, Lib!SPIO_ERROR_MUTEX_FAILURE}

-----------------------------------------------------------------------------
(* What the steps of the library do to the call.                            *)

LEMMA CallFields ==
  ASSUME call \in [{MAIN} -> Lib!Calls]
  PROVE  /\ call[MAIN].pc \in Lib!Labels
         /\ call[MAIN].op \in Lib!Ops
         /\ call[MAIN].null \in BOOLEAN
         /\ call[MAIN].code \in Codes
         /\ call[MAIN].ret \in Rets
  BY DEF Lib!Calls, Codes, Rets

LEMMA GotoMoves ==
  ASSUME call \in [{MAIN} -> Lib!Calls], NEW label \in Lib!Labels,
         Lib!Goto(MAIN, label)
  PROVE  /\ call' \in [{MAIN} -> Lib!Calls]
         /\ call'[MAIN].pc = label
         /\ call'[MAIN].op = call[MAIN].op
         /\ call'[MAIN].null = call[MAIN].null
         /\ call'[MAIN].code = call[MAIN].code
         /\ call'[MAIN].ret = call[MAIN].ret
<1>1. call'[MAIN] = [call[MAIN] EXCEPT !.pc = label]
  BY DEF Lib!Goto
<1>2. [call[MAIN] EXCEPT !.pc = label] \in Lib!Calls
  BY DEF Lib!Calls
<1> QED
  BY <1>1, <1>2 DEF Lib!Goto, Lib!Calls

LEMMA GotoWithMoves ==
  ASSUME call \in [{MAIN} -> Lib!Calls], NEW label \in Lib!Labels,
         NEW code \in Codes, Lib!GotoWith(MAIN, label, code)
  PROVE  /\ call' \in [{MAIN} -> Lib!Calls]
         /\ call'[MAIN].pc = label
         /\ call'[MAIN].op = call[MAIN].op
         /\ call'[MAIN].null = call[MAIN].null
         /\ call'[MAIN].code = code
         /\ call'[MAIN].ret = call[MAIN].ret
<1>1. call'[MAIN] = [call[MAIN] EXCEPT !.pc = label, !.code = code]
  BY DEF Lib!GotoWith
<1>2. [call[MAIN] EXCEPT !.pc = label, !.code = code] \in Lib!Calls
  BY DEF Lib!Calls, Codes
<1> QED
  BY <1>1, <1>2 DEF Lib!GotoWith, Lib!Calls

LEMMA ReturnMoves ==
  ASSUME call \in [{MAIN} -> Lib!Calls], NEW rc \in Rets, Lib!Return(MAIN, rc)
  PROVE  /\ call' \in [{MAIN} -> Lib!Calls]
         /\ call'[MAIN].pc = "idle"
         /\ call'[MAIN].op = call[MAIN].op
         /\ call'[MAIN].null = call[MAIN].null
         /\ call'[MAIN].code = call[MAIN].code
         /\ call'[MAIN].ret = rc
<1>1. call'[MAIN] = [call[MAIN] EXCEPT !.pc = "idle", !.ret = rc]
  BY DEF Lib!Return
<1>2. [call[MAIN] EXCEPT !.pc = "idle", !.ret = rc] \in Lib!Calls
  BY DEF Lib!Calls, Lib!Labels, Rets
<1> QED
  BY <1>1, <1>2 DEF Lib!Return, Lib!Calls

LEMMA CallMoves ==
  ASSUME call \in [{MAIN} -> Lib!Calls], NEW op \in Lib!Ops,
         Lib!Call(MAIN, op, FALSE)
  PROVE  /\ call' \in [{MAIN} -> Lib!Calls]
         /\ call'[MAIN].pc = Lib!FirstLabel(op)
         /\ call'[MAIN].op = op
         /\ call'[MAIN].null = FALSE
<1>1. call'[MAIN] = [Lib!NoCall EXCEPT !.pc = Lib!FirstLabel(op),
                         !.op = op, !.null = FALSE]
  BY DEF Lib!Call
<1>2. Lib!FirstLabel(op) \in Lib!Labels
  BY DEF Lib!FirstLabel, Lib!Labels
<1>3. [pc |-> Lib!FirstLabel(op), op |-> op, null |-> FALSE,
       code |-> Lib!SPIO_NO_ERROR, ret |-> Lib!SPIO_SUCCESS] \in Lib!Calls
  BY <1>2 DEF Lib!Calls, Lib!SPIO_NO_ERROR, Lib!SPIO_MUTEX_UNLOCK_FAILED
<1>4. call'[MAIN] =
         [pc |-> Lib!FirstLabel(op), op |-> op, null |-> FALSE,
          code |-> Lib!SPIO_NO_ERROR, ret |-> Lib!SPIO_SUCCESS]
  BY <1>1 DEF Lib!NoCall
<1> QED
  BY <1>1, <1>3, <1>4 DEF Lib!Call, Lib!NoCall

-----------------------------------------------------------------------------
LEMMA MenuInit ==
  ASSUME Init
  PROVE  MenuInv
<1>1. call = [t \in {MAIN} |-> Lib!NoCall] /\ Lib!NoCall \in Lib!Calls
  BY DEF Init, Lib!Init, Lib!NoCall, Lib!Calls, Lib!Labels, Lib!Ops, Lib!Queries,
     Lib!SPIO_NO_ERROR, Lib!SPIO_MUTEX_UNLOCK_FAILED
<1>2. call[MAIN].pc = "idle" /\ call[MAIN].op = "get_error_string"
  BY <1>1 DEF Lib!NoCall
<1>3. PlaceOK
  BY <1>2 DEF PlaceOK, Init, Lib!At, RefusedLabels
<1>4. RecordOK
  BY <1>2 DEF RecordOK, Init, Lib!Init, Cleared, Refused, InCall, NoError
<1>5. MutexOK
  BY <1>2 DEF MutexOK, Init, Lib!Init, InCall
<1> QED
  BY <1>1, <1>3, <1>4, <1>5 DEF MenuInv, Init, ShowsFirstRefusal

-----------------------------------------------------------------------------
(* The outcomes of a step in the library, with mutexes that do not fail.    *)

Moved(label, code, ret) ==
    /\ call' \in [{MAIN} -> Lib!Calls]
    /\ call'[MAIN].pc = label
    /\ call'[MAIN].op = call[MAIN].op
    /\ call'[MAIN].null = call[MAIN].null
    /\ call'[MAIN].code = code
    /\ call'[MAIN].ret = ret

Record == <<m_error_code, m_last_error_read>>
Mutexes == <<m_error_mutex, m_init_mutex>>

(* A step inside one of the calls of initialize and finalize.               *)
InitOutcome(op, code, ret) ==
    /\ UNCHANGED <<Record, m_error_mutex>>
    /\ \/ /\ Lib!At(MAIN, "lock_init") /\ m_init_mutex' = MAIN
          /\ Moved("check", code, ret)
       \/ /\ Lib!At(MAIN, "check") /\ UNCHANGED m_init_mutex
          /\ \/ op = "initialize" /\ Moved("catch", Meaning(op), ret)
             \/ op = "initialize" /\ Moved("set_initialized", code, ret)
             \/ op # "initialize" /\ Moved("lock_get", code, ret)
             \/ op # "initialize" /\ Moved("catch", Meaning(op), ret)
       \/ /\ Lib!At(MAIN, "set_initialized") /\ UNCHANGED m_init_mutex
          /\ Moved("unlock_init", code, ret)
       \/ /\ Lib!At(MAIN, "unlock_init") /\ m_init_mutex' = NOBODY
          /\ Moved("idle", code, Lib!SPIO_SUCCESS)
       \/ /\ Lib!At(MAIN, "catch") /\ m_init_mutex' = NOBODY
          /\ Moved("lock_update", code, ret)

(* A step that reads the record, for get_last_error or for finalize.        *)
GetOutcome(op, code, ret) ==
    /\ UNCHANGED m_init_mutex
    /\ \/ /\ Lib!At(MAIN, "lock_get") /\ m_error_mutex' = MAIN
          /\ UNCHANGED Record /\ Moved("get", code, ret)
       \/ /\ Lib!At(MAIN, "get") /\ UNCHANGED m_error_mutex
          /\ m_error_code' = NoError /\ m_last_error_read' = TRUE
          /\ Moved("unlock_get", m_error_code, ret)
       \/ /\ Lib!At(MAIN, "unlock_get") /\ m_error_mutex' = NOBODY
          /\ UNCHANGED Record
          /\ IF op = "finalize" THEN Moved("set_initialized", NoError, ret)
                                ELSE Moved("idle", code, Lib!SPIO_SUCCESS)

(* A step that records an error.                                            *)
UpdateOutcome(code, ret) ==
    /\ UNCHANGED m_init_mutex
    /\ \/ /\ Lib!At(MAIN, "lock_update") /\ m_error_mutex' = MAIN
          /\ UNCHANGED Record /\ Moved("update", code, ret)
       \/ /\ Lib!At(MAIN, "update") /\ UNCHANGED m_error_mutex
          /\ IF m_last_error_read
             THEN m_error_code' = code /\ m_last_error_read' = FALSE
             ELSE UNCHANGED Record
          /\ Moved("unlock_update", code, ret)
       \/ /\ Lib!At(MAIN, "unlock_update") /\ m_error_mutex' = NOBODY
          /\ UNCHANGED Record /\ Moved("idle", code, Lib!SPIO_FAILURE)

QueryOutcome(code) ==
    /\ Lib!At(MAIN, "query")
    /\ UNCHANGED <<Record, Mutexes>>
    /\ Moved("idle", code, Lib!SPIO_SUCCESS)

Outcome ==
    LET c == call[MAIN] IN
    \/ InitOutcome(c.op, c.code, c.ret)
    \/ GetOutcome(c.op, c.code, c.ret)
    \/ UpdateOutcome(c.code, c.ret)
    \/ QueryOutcome(c.code)

LEMMA Labelled ==
  {"idle", "lock_init", "check", "set_initialized", "unlock_init", "catch",
   "lock_get", "get", "unlock_get", "query", "lock_update", "update",
   "unlock_update"} = Lib!Labels
BY DEF Lib!Labels

LEMMA Coded ==
  /\ Codes = 0 .. 5
  /\ NoError = 0
  /\ Lib!SPIO_NO_ERROR = 0
  /\ Meaning("initialize") = 2 /\ Lib!SPIO_ALREADY_INITIALIZED = 2
  /\ \A op : op # "initialize" => Meaning(op) = 1
  /\ Lib!SPIO_NOT_INITIALIZED = 1
  /\ Lib!SPIO_SUCCESS = 0 /\ Lib!SPIO_SUCCESS \in Rets
  /\ Lib!SPIO_FAILURE = -1 /\ Lib!SPIO_FAILURE \in Rets
BY DEF Codes, NoError, Meaning, Rets, Lib!SPIO_NO_ERROR, Lib!SPIO_SUCCESS,
   Lib!SPIO_FAILURE, Lib!SPIO_ALREADY_INITIALIZED, Lib!SPIO_NOT_INITIALIZED,
   Lib!SPIO_MUTEX_UNLOCK_FAILED

LEMMA Moves ==
  ASSUME call \in [{MAIN} -> Lib!Calls]
  PROVE  /\ \A label \in Lib!Labels : Lib!Goto(MAIN, label) =>
               Moved(label, call[MAIN].code, call[MAIN].ret)
         /\ \A label \in Lib!Labels, code \in Codes :
               Lib!GotoWith(MAIN, label, code) =>
                  Moved(label, code, call[MAIN].ret)
         /\ \A rc \in Rets : Lib!Return(MAIN, rc) =>
               Moved("idle", call[MAIN].code, rc)
BY GotoMoves, GotoWithMoves, ReturnMoves DEF Moved

LEMMA Outcomes ==
  ASSUME MenuInv, Lib!Continue(MAIN)
  PROVE  Outcome
<1> USE Labelled, Coded, CallFields, Moves DEF MenuInv, Outcome, Record, Mutexes,
        Lib!errorVars
<1>0. m_error_code \in Codes
  <2>1. owed \in Codes /\ \A op : Meaning(op) \in Codes
    BY DEF RecordOK, InitOps, Meaning
  <2> QED
    BY <2>1 DEF RecordOK
<1>1. CASE Lib!Query(MAIN)
  <2>1. ~call[MAIN].null
    BY <1>1 DEF Lib!Query, PlaceOK
  <2> QED
    BY <1>1, <2>1 DEF Lib!Query, QueryOutcome
<1>2. CASE Lib!LockInit(MAIN)
  BY <1>2 DEF Lib!LockInit, Lib!Lock, InitOutcome
<1>3. CASE Lib!CheckInitialized(MAIN)
  BY <1>3 DEF Lib!CheckInitialized, InitOutcome
<1>4. CASE Lib!SetInitialized(MAIN)
  BY <1>4 DEF Lib!SetInitialized, InitOutcome
<1>5. CASE Lib!UnlockInit(MAIN)
  BY <1>5 DEF Lib!UnlockInit, Lib!Unlock, InitOutcome
<1>6. CASE Lib!Catch(MAIN)
  BY <1>6 DEF Lib!Catch, Lib!Unlock, InitOutcome
<1>7. CASE Lib!LockGet(MAIN)
  BY <1>7 DEF Lib!LockGet, Lib!Lock, GetOutcome
<1>8. CASE Lib!Get(MAIN)
  BY <1>0, <1>8 DEF Lib!Get, GetOutcome
<1>9. CASE Lib!UnlockGet(MAIN)
  BY <1>9 DEF Lib!UnlockGet, Lib!Unlock, Lib!GetReturned, GetOutcome
<1>10. CASE Lib!LockUpdate(MAIN)
  BY <1>10 DEF Lib!LockUpdate, Lib!Lock, UpdateOutcome
<1>11. CASE Lib!Update(MAIN)
  BY <1>11 DEF Lib!Update, UpdateOutcome
<1>12. CASE Lib!UnlockUpdate(MAIN)
  BY <1>12 DEF Lib!UnlockUpdate, Lib!Unlock, UpdateOutcome
<1> QED
  BY <1>1, <1>2, <1>3, <1>4, <1>5, <1>6, <1>7, <1>8, <1>9, <1>10, <1>11, <1>12
  DEF Lib!Continue

-----------------------------------------------------------------------------
(* A step in the library keeps the invariant.                               *)

LEMMA MenuInLibrary ==
  ASSUME MenuInv, InLibrary
  PROVE  MenuInv'
<1> DEFINE c == call[MAIN]
<1> USE Coded DEF MenuInv
<1>1. Outcome /\ at = "calling" /\ UNCHANGED menuVars
  BY Outcomes DEF InLibrary
<1>2. /\ at' = "calling" /\ status' = status /\ owed' = owed
      /\ report' = report
  BY <1>1 DEF menuVars
<1>3. PlaceOK /\ RecordOK /\ MutexOK /\ ShowsFirstRefusal
  OBVIOUS
<1>4. call' \in [{MAIN} -> Lib!Calls] /\ c.pc \in Lib!Labels
  BY <1>1, CallFields
  DEF Outcome, InitOutcome, GetOutcome, UpdateOutcome, QueryOutcome, Moved
<1>5. CASE InitOutcome(c.op, c.code, c.ret)
  <2> USE <1>1, <1>2, <1>3, <1>5 DEF InitOutcome, Moved, InCall, Lib!At, InitOps,
          RefusedLabels, GetLabels, Lib!Queries
  <2>1. PlaceOK'
    BY DEF PlaceOK
  <2>2. RecordOK'
    BY DEF PlaceOK, RecordOK, Record, Cleared, Refused, Succeeded
  <2>3. MutexOK'
    BY DEF PlaceOK, MutexOK
  <2> QED
    BY <1>4, <2>1, <2>2, <2>3 DEF ShowsFirstRefusal
<1>6. CASE GetOutcome(c.op, c.code, c.ret)
  <2> USE <1>1, <1>2, <1>3, <1>6 DEF GetOutcome, Moved, InCall, Lib!At, InitOps,
          RefusedLabels, GetLabels, Lib!Queries
  <2>1. PlaceOK'
    BY DEF PlaceOK
  <2>2. RecordOK'
    BY DEF PlaceOK, RecordOK, Record, Cleared, Refused, Succeeded
  <2>3. MutexOK'
    BY DEF PlaceOK, MutexOK
  <2> QED
    BY <1>4, <2>1, <2>2, <2>3 DEF ShowsFirstRefusal
<1>7. CASE UpdateOutcome(c.code, c.ret)
  <2> USE <1>1, <1>2, <1>3, <1>7 DEF UpdateOutcome, Moved, InCall, Lib!At,
          InitOps, RefusedLabels, GetLabels, Lib!Queries
  <2>1. PlaceOK'
    BY DEF PlaceOK
  <2>2. RecordOK'
    BY DEF PlaceOK, RecordOK, Record, Cleared, Refused, Succeeded
  <2>3. MutexOK'
    BY DEF PlaceOK, MutexOK
  <2> QED
    BY <1>4, <2>1, <2>2, <2>3 DEF ShowsFirstRefusal
<1>8. CASE QueryOutcome(c.code)
  <2> USE <1>1, <1>2, <1>3, <1>8 DEF QueryOutcome, Moved, InCall, Lib!At,
          InitOps, RefusedLabels, GetLabels, Lib!Queries, Mutexes
  <2>1. PlaceOK'
    BY DEF PlaceOK
  <2>2. RecordOK'
    BY DEF PlaceOK, RecordOK, Record, Cleared, Refused, Succeeded
  <2>3. MutexOK'
    BY DEF PlaceOK, MutexOK
  <2> QED
    BY <1>4, <2>1, <2>2, <2>3 DEF ShowsFirstRefusal
<1> QED
  BY <1>1, <1>5, <1>6, <1>7, <1>8 DEF Outcome

-----------------------------------------------------------------------------
(* The steps of the menu.                                                   *)

(* A call begins: nothing is recorded or cleared yet.                       *)
LEMMA MenuSwitch ==
  ASSUME MenuInv, Switch
  PROVE  MenuInv'
<1> USE Coded DEF MenuInv, Switch
<1>0. Lib!At(MAIN, "idle")
  BY DEF PlaceOK
<1>1. m_error_code = owed /\ m_init_mutex = NOBODY /\ m_error_mutex = NOBODY
  BY <1>0 DEF RecordOK, MutexOK, Cleared, Refused, InCall, Lib!At
<1>2. CASE value \in 1 .. 4
  <2>1. PICK op \in Lib!Ops :
           /\ Lib!Call(MAIN, op, FALSE)
           /\ op \in InitOps \cup {"get_last_error", "test_get_lib_prod_info"}
    <3>1. Operation(value) \in InitOps \cup {"get_last_error",
                                             "test_get_lib_prod_info"}
      BY <1>2 DEF Operation, InitOps
    <3> QED
      BY <1>2, <3>1 DEF Lib!Ops, Lib!Queries, InitOps
  <2>2. /\ call' \in [{MAIN} -> Lib!Calls]
        /\ call'[MAIN].pc = Lib!FirstLabel(op)
        /\ call'[MAIN].op = op
        /\ ~call'[MAIN].null
    BY <2>1, CallMoves
  <2>3. \/ op \in InitOps /\ call'[MAIN].pc = "lock_init"
        \/ op = "get_last_error" /\ call'[MAIN].pc = "lock_get"
        \/ op = "test_get_lib_prod_info" /\ call'[MAIN].pc = "query"
    BY <2>1, <2>2 DEF Lib!FirstLabel, Lib!Queries, InitOps
  <2>4. /\ at' = "calling"
        /\ UNCHANGED <<m_error_code, m_last_error_read, m_error_mutex,
                       m_init_mutex, status, owed, report>>
    BY <1>2, <2>1 DEF Lib!Call, Lib!errorVars
  <2>5. PlaceOK'
    BY <2>2, <2>3, <2>4 DEF PlaceOK, InCall, Lib!At, InitOps, RefusedLabels,
       GetLabels, Lib!Queries
  <2>6. RecordOK'
    BY <1>1, <2>2, <2>3, <2>4 DEF RecordOK, Cleared, Refused, InCall, InitOps
  <2>7. MutexOK'
    BY <1>1, <2>2, <2>3, <2>4 DEF MutexOK, InCall, InitOps, GetLabels
  <2> QED
    BY <2>2, <2>4, <2>5, <2>6, <2>7 DEF ShowsFirstRefusal
<1>3. CASE value \notin 1 .. 4
  <2>1. /\ at # "calling" /\ at' # "calling"
        /\ UNCHANGED <<libVars, status, owed, report>>
    BY <1>3
  <2> QED
    BY <2>1 DEF libVars, PlaceOK, RecordOK, MutexOK, Cleared, Refused, InCall,
       Lib!At, Succeeded, ShowsFirstRefusal
<1> QED
  BY <1>2, <1>3

(* Nothing the invariant looks at.                                          *)
LEMMA MenuElsewhere ==
  ASSUME MenuInv, Type \/ ReadNumber \/ ReadFails \/ UNCHANGED vars
  PROVE  MenuInv'
<1>1. UNCHANGED <<libVars, status, owed, report>>
  BY DEF Type, ReadNumber, ReadFails, vars, menuVars
<1>2. (at = "calling") <=> (at' = "calling")
  BY DEF Type, ReadNumber, ReadFails, vars, menuVars
<1> USE DEF MenuInv, libVars, InCall, Lib!At
<1>3. PlaceOK'
  BY <1>1, <1>2 DEF PlaceOK
<1>4. RecordOK'
  BY <1>1, <1>2 DEF RecordOK, Cleared, Refused, Succeeded
<1>5. MutexOK'
  BY <1>1, <1>2 DEF MutexOK
<1> QED
  BY <1>1, <1>3, <1>4, <1>5 DEF ShowsFirstRefusal

(* The code that get_last_error returned is the one owed.                   *)
LEMMA MenuAskForString ==
  ASSUME MenuInv, AskForString
  PROVE  MenuInv'
<1> USE Coded DEF MenuInv, AskForString
<1>1. InCall("get_last_error", {"idle"})
  BY DEF Done, InCall, Lib!At
<1>2. /\ call[MAIN].code = owed
      /\ m_error_code = NoError
      /\ m_init_mutex = NOBODY /\ m_error_mutex = NOBODY
  BY <1>1 DEF RecordOK, MutexOK, Cleared, InCall
<1>3. PICK op \in Lib!Queries : op = "get_error_string" /\ Lib!Call(MAIN, op, FALSE)
  BY DEF Lib!Queries
<1>4. op \in Lib!Ops /\ Lib!FirstLabel(op) = "query"
  BY <1>3 DEF Lib!Ops, Lib!FirstLabel
<1>5. /\ call' \in [{MAIN} -> Lib!Calls]
      /\ call'[MAIN].pc = "query"
      /\ call'[MAIN].op = "get_error_string"
      /\ ~call'[MAIN].null
  BY <1>3, <1>4, CallMoves
<1>6. /\ at' = "calling" /\ status' = owed
      /\ UNCHANGED <<m_error_code, m_last_error_read, m_error_mutex,
                     m_init_mutex, owed, report>>
  BY <1>2, <1>3 DEF Lib!Call, Lib!errorVars, Done
<1>7. PlaceOK'
  BY <1>5, <1>6 DEF PlaceOK, InCall, Lib!At, RefusedLabels, Lib!Queries
<1>8. RecordOK'
  BY <1>2, <1>5, <1>6 DEF RecordOK, Cleared, Refused, InCall, InitOps
<1>9. MutexOK'
  BY <1>2, <1>5, <1>6 DEF MutexOK, InCall, GetLabels
<1> QED
  BY <1>5, <1>6, <1>7, <1>8, <1>9 DEF ShowsFirstRefusal

(* The error shown is the one owed, and nothing is owed any more.           *)
LEMMA MenuShows ==
  ASSUME MenuInv, ShowError \/ ShowProdInfo
  PROVE  MenuInv'
<1> USE Coded DEF MenuInv
<1>1. /\ Lib!At(MAIN, "idle") /\ at = "calling" /\ at' = "menu"
      /\ UNCHANGED <<libVars, status>>
  BY DEF ShowError, ShowProdInfo, Done
<1>2. CASE ShowError
  <2>1. InCall("get_error_string", {"idle"})
    BY <1>2 DEF ShowError, Done, InCall, Lib!At
  <2>2. status = owed /\ m_error_code = NoError
    BY <2>1 DEF RecordOK, Cleared, InCall
  <2> QED
    BY <1>1, <1>2, <2>1, <2>2 DEF ShowError, libVars, PlaceOK, RecordOK, MutexOK,
       Cleared, Refused, InCall, Lib!At, InitOps, ShowsFirstRefusal, RefusedLabels,
       GetLabels
<1>3. CASE ShowProdInfo
  BY <1>1, <1>3 DEF ShowProdInfo, Done, libVars, PlaceOK, RecordOK, MutexOK,
     Cleared, Refused, InCall, Lib!At, InitOps, ShowsFirstRefusal, RefusedLabels,
     GetLabels
<1> QED
  BY <1>2, <1>3

(* A refused call leaves on record the error it makes the program owe.      *)
LEMMA MenuReturned ==
  ASSUME MenuInv, Returned
  PROVE  MenuInv'
<1> USE Coded DEF MenuInv, Returned
<1>1. PICK op \in InitOps :
         /\ Done(op)
         /\ owed' = IF Succeeded
                    THEN IF op = "finalize" THEN NoError ELSE owed
                    ELSE IF owed = NoError THEN Meaning(op) ELSE owed
  BY DEF InitOps
<1>2. /\ InCall(op, {"idle"}) /\ call[MAIN].pc = "idle"
      /\ at' = "menu" /\ UNCHANGED <<libVars, status, report>>
  BY <1>1 DEF Done, InCall, Lib!At
<1>3. owed' \in {NoError} \cup {Meaning(o) : o \in InitOps}
  BY <1>1 DEF RecordOK
<1>4. m_error_code = owed'
  <2>1. CASE Succeeded
    BY <1>1, <1>2, <2>1 DEF RecordOK, Cleared, Refused, InCall, InitOps
  <2>2. CASE ~Succeeded
    BY <1>1, <1>2, <2>2 DEF RecordOK, Refused, InCall
  <2> QED
    BY <2>1, <2>2
<1> QED
  BY <1>2, <1>3, <1>4 DEF libVars, PlaceOK, RecordOK, MutexOK, Cleared, Refused,
     InCall, Lib!At, ShowsFirstRefusal, GetLabels, RefusedLabels

-----------------------------------------------------------------------------
(* The library's record and its mutexes follow what the menu owes to its    *)
(* user, whatever is typed and for any number of choices.                   *)
THEOREM MenuInvariance == Spec => []MenuInv
<1>1. Init => MenuInv
  BY MenuInit
<1>2. MenuInv /\ [Next]_vars => MenuInv'
  BY MenuInLibrary, MenuSwitch, MenuElsewhere, MenuAskForString, MenuShows,
     MenuReturned
  DEF Next, Program
<1> QED
  BY <1>1, <1>2, PTL DEF Spec

(* The error shown is that of the first refusal not shown before.           *)
THEOREM FirstRefusalShown == Spec => []ShowsFirstRefusal
<1>1. MenuInv => ShowsFirstRefusal
  BY DEF MenuInv
<1> QED
  BY <1>1, MenuInvariance, PTL

(* The program leaves both mutexes free when it ends.                       *)
THEOREM MutexesFreeAtEnd == Spec => []EndsUnlocked
<1>1. MenuInv => EndsUnlocked
  BY DEF MenuInv, PlaceOK, MutexOK, InCall, Lib!At, EndsUnlocked
<1> QED
  BY <1>1, MenuInvariance, PTL
==============================================================================
