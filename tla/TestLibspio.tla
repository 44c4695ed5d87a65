----------------------------- MODULE TestLibspio -----------------------------
(***************************************************************************)
(* test_libspio.c: a process of one thread that reads choices from a menu  *)
(* and makes the calls of LIBSPIO they stand for, composed with SpioCore.  *)
(***************************************************************************)
EXTENDS Integers

CONSTANTS
    MAIN,       \* the thread
    NOBODY,
    NONE,       \* nothing typed that scanf has not taken
    UNREADABLE, \* what scanf cannot read as a number, the end of input included
    UNSET       \* the local value before scanf has written it

Exit == 100

(* Numbers stand for the choices of the menu, 0 for all others.             *)
Numbers == 0 .. 4 \cup {Exit}

ASSUME MenuAssumption ==
    /\ MAIN # NOBODY
    /\ {NONE, UNREADABLE, UNSET} \cap Int = {}
    /\ NONE # UNREADABLE

VARIABLES
    m_error_code, m_last_error_read, m_error_mutex,
    m_initialized, m_init_mutex, call, left,
    at,      \* where the loop stands
    input,   \* the first thing typed that scanf has not taken
    value,   \* the choice read last
    status,  \* the code that get_last_error returned
    owed,    \* history: the first error told of and not shown yet
    report   \* history: the error shown last and the one owed then

libVars  == <<m_error_code, m_last_error_read, m_error_mutex, m_initialized,
              m_init_mutex, call, left>>
menuVars == <<at, input, value, status, owed, report>>
vars == <<libVars, menuVars>>

Lib == INSTANCE SpioCore WITH
    Threads <- {MAIN}, MutexFails <- FALSE, Budget <- 0

NoError == Lib!SPIO_NO_ERROR

Init ==
    /\ Lib!Init
    /\ at = "menu"
    /\ input = NONE
    /\ value = UNSET
    /\ status = NoError
    /\ owed = NoError
    /\ report = [shown |-> NoError, owed |-> NoError]

-----------------------------------------------------------------------------
(* The user types, or ends the input.                                       *)
Type ==
    /\ input = NONE
    /\ at # "ended"
    /\ input' \in Numbers \cup {UNREADABLE}
    /\ UNCHANGED <<libVars, at, value, status, owed, report>>

ReadNumber ==
    /\ at = "menu"
    /\ input \in Numbers
    /\ value' = input
    /\ input' = NONE
    /\ at' = "switch"
    /\ UNCHANGED <<libVars, status, owed, report>>

(* What scanf cannot read stays where it is, and "continue" goes on to the  *)
(* condition of the loop: it looks at the choice read last, or at whatever  *)
(* an unset local holds.                                                    *)
ReadFails ==
    /\ at = "menu"
    /\ input = UNREADABLE
    /\ at' \in IF value = UNSET THEN {"menu", "ended"} ELSE {"menu"}
    /\ UNCHANGED <<libVars, input, value, status, owed, report>>

Operation(choice) ==
    CASE choice = 1 -> "test_get_lib_prod_info"
      [] choice = 2 -> "get_last_error"
      [] choice = 3 -> "initialize"
      [] choice = 4 -> "finalize"

Switch ==
    /\ at = "switch"
    /\ IF value \in 1 .. 4
       THEN /\ at' = "calling"
            /\ Lib!Call(MAIN, Operation(value), FALSE)
            /\ UNCHANGED left
       ELSE /\ at' = IF value = Exit THEN "ended" ELSE "menu"
            /\ UNCHANGED libVars
    /\ UNCHANGED <<input, value, status, owed, report>>

InLibrary ==
    /\ at = "calling"
    /\ Lib!Continue(MAIN)
    /\ UNCHANGED menuVars

-----------------------------------------------------------------------------
(* A call has returned.  The queries are given no null pointer and, with    *)
(* mutexes that do not fail, they and spio_get_last_error succeed.          *)
Done(op) == at = "calling" /\ Lib!At(MAIN, "idle") /\ call[MAIN].op = op
Succeeded == call[MAIN].ret = Lib!SPIO_SUCCESS

(* get_last_error asks for the string of the code it was given.             *)
AskForString ==
    /\ Done("get_last_error")
    /\ status' = call[MAIN].code
    /\ Lib!Call(MAIN, "get_error_string", FALSE)
    /\ UNCHANGED <<left, at, input, value, owed, report>>

ShowError ==
    /\ Done("get_error_string")
    /\ at' = "menu"
    /\ report' = [shown |-> status, owed |-> owed]
    /\ owed' = NoError
    /\ UNCHANGED <<libVars, input, value, status>>

ShowProdInfo ==
    /\ Done("test_get_lib_prod_info")
    /\ at' = "menu"
    /\ UNCHANGED <<libVars, input, value, status, owed, report>>

(* The error a refused choice stands for, as the user of the menu knows it. *)
Meaning(op) == IF op = "initialize" THEN Lib!SPIO_ALREADY_INITIALIZED
                                    ELSE Lib!SPIO_NOT_INITIALIZED

(* A successful finalize forgets what was owed.                             *)
Returned ==
    /\ \E op \in {"initialize", "finalize"} :
          /\ Done(op)
          /\ owed' = IF Succeeded
                     THEN IF op = "finalize" THEN NoError ELSE owed
                     ELSE IF owed = NoError THEN Meaning(op) ELSE owed
    /\ at' = "menu"
    /\ UNCHANGED <<libVars, input, value, status, report>>

Program ==
    \/ ReadNumber
    \/ ReadFails
    \/ Switch
    \/ InLibrary
    \/ AskForString
    \/ ShowError
    \/ ShowProdInfo
    \/ Returned

Next == Type \/ Program

Spec == Init /\ [][Next]_vars

(* The program runs on as long as it can; nothing says that its user types. *)
FairSpec == Spec /\ WF_vars(Program)

-----------------------------------------------------------------------------

(* The error shown on choice 2 is that of the first choice that was refused *)
(* since the last one shown or the last finalize, and "No error" if none    *)
(* was: nothing is lost, shown twice or replaced in between.                *)
ShowsFirstRefusal == report.shown = report.owed

(* When the program ends, and the destructor of the library's object        *)
(* destroys the mutexes, both are free.                                     *)
EndsUnlocked ==
    at = "ended" => m_error_mutex = NOBODY /\ m_init_mutex = NOBODY

(* Every choice that was read brings the menu back or ends the program.     *)
ChoiceCompletes == (at \in {"switch", "calling"}) ~> (at \in {"menu", "ended"})

-----------------------------------------------------------------------------
(* The inductive invariant behind the two.                                  *)

InCall(op, labels) ==
    at = "calling" /\ call[MAIN].op = op /\ call[MAIN].pc \in labels

InitOps == {"initialize", "finalize"}
RefusedLabels == {"catch", "lock_update", "update"}
GetLabels == {"lock_get", "get", "unlock_get"}

(* Where each operation can stand.                                          *)
PlaceOK ==
    /\ at # "calling" => Lib!At(MAIN, "idle")
    /\ at = "calling" =>
          \/ /\ call[MAIN].op \in InitOps
             /\ call[MAIN].pc \in {"lock_init", "check", "set_initialized",
                                  "unlock_init", "unlock_update", "idle"}
                                     \cup RefusedLabels
          \/ InCall("finalize", GetLabels)
          \/ InCall("get_last_error", GetLabels \cup {"idle"})
          \/ call[MAIN].op \in Lib!Queries /\ call[MAIN].pc \in {"query", "idle"}
    /\ call[MAIN].pc \in RefusedLabels => call[MAIN].code = Meaning(call[MAIN].op)
    /\ Lib!At(MAIN, "query") => ~call[MAIN].null

(* The error that the library has on record: the one owed, but for calls    *)
(* that have recorded or cleared one and have not returned.                 *)
Refused ==
    \E op \in InitOps :
       \/ InCall(op, {"unlock_update"})
       \/ InCall(op, {"idle"}) /\ ~Succeeded

Cleared ==
    \/ InCall("finalize", {"unlock_get", "set_initialized", "unlock_init"})
    \/ InCall("finalize", {"idle"}) /\ Succeeded
    \/ InCall("get_last_error", {"unlock_get", "idle"})
    \/ InCall("get_error_string", {"query", "idle"})

RecordOK ==
    /\ owed \in {NoError} \cup {Meaning(op) : op \in InitOps}
    /\ m_last_error_read <=> m_error_code = NoError
    /\ Cleared => m_error_code = NoError
    /\ Refused => m_error_code = IF owed = NoError
                                 THEN Meaning(call[MAIN].op) ELSE owed
    /\ ~Cleared /\ ~Refused => m_error_code = owed
    /\ InCall("get_last_error", {"unlock_get", "idle"}) => call[MAIN].code = owed
    /\ InCall("get_error_string", {"query", "idle"}) => status = owed

(* The mutexes are held inside calls only.                                  *)
MutexOK ==
    /\ m_init_mutex =
          IF \/ call[MAIN].pc \in {"check", "set_initialized", "unlock_init",
                                   "catch"}
             \/ InCall("finalize", GetLabels)
          THEN MAIN ELSE NOBODY
    /\ m_error_mutex =
          IF call[MAIN].pc \in {"get", "unlock_get", "update", "unlock_update"}
          THEN MAIN ELSE NOBODY

(* The library has on record the error the menu owes to its user, through   *)
(* the calls that record, read and clear it, and its mutexes are held only  *)
(* where those calls hold them.                                             *)
MenuInv ==
    /\ call \in [{MAIN} -> Lib!Calls]
    /\ PlaceOK
    /\ RecordOK
    /\ MutexOK
    /\ ShowsFirstRefusal
=============================================================================
