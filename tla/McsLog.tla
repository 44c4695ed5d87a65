-------------------------------- MODULE McsLog --------------------------------
(***************************************************************************)
(* mcs9835_log.c: the log levels of the driver, kept twice, as the mask    *)
(* the LOG macro looks at and as the table that is displayed.              *)
(*                                                                         *)
(* A mask is the set of its bits and a level is its bit, so that the loop  *)
(* over the table, whose entries have a bit each, is a function on levels. *)
(* Both are data of the module: each load starts from their initial values.*)
(***************************************************************************)
EXTENDS Integers

CONSTANTS
    Levels,     \* the levels of log_list
    Default,    \* the initial value of mcs_log_level
    OtherBits   \* the bits of a mask that belong to no level

ASSUME LogAssumption ==
    /\ Default \subseteq Levels
    /\ Levels \cap OtherBits = {}

MCS_DISABLE == 0
MCS_ENABLE  == 1
MCS_TOGGLE  == 2

VARIABLES
    log_list,       \* the status of each level
    mcs_log_level,
    loaded          \* is the module loaded?

vars == <<log_list, mcs_log_level, loaded>>

Bits == Levels \cup OtherBits

AllDisabled == [l \in Levels |-> MCS_DISABLE]

Init ==
    /\ log_list = AllDisabled
    /\ mcs_log_level = Default
    /\ loaded = FALSE

(* The table after a call of mcs_set_log_level.  Toggling writes an entry   *)
(* twice in one expression; the compiler stores the remainder last.         *)
ListAfter(list, level, status) ==
    [l \in Levels |-> IF l \notin level THEN list[l]
                      ELSE IF status = MCS_TOGGLE THEN (list[l] + 1) % 2
                      ELSE status]

(* Mutant: the requested bits go into the mask whether they name a level.   *)
MaskAfterUnknown(mask, list, level) ==
    (mask \ {l \in Levels \cap level : list[l] = MCS_DISABLE})
        \cup (level \ {l \in Levels : list[l] = MCS_DISABLE})

(* The mask after a call that has left the table as list.                   *)
MaskAfter(mask, list, level) ==
    (mask \ {l \in Levels \cap level : list[l] = MCS_DISABLE})
        \cup {l \in Levels \cap level : list[l] # MCS_DISABLE}

(* No file of the driver calls it but at load; it is exported to all.  A    *)
(* status other than the three is refused and changes nothing.              *)
mcs_set_log_level(level, status) ==
    /\ loaded
    /\ log_list' = ListAfter(log_list, level, status)
    /\ mcs_log_level' = MaskAfter(mcs_log_level, log_list', level)
    /\ UNCHANGED loaded

(* Mutant: the table is not brought up to date with the initial mask.       *)
LoadWithoutDefault(loglevel) ==
    /\ ~loaded
    /\ log_list' = ListAfter(AllDisabled, loglevel, MCS_ENABLE)
    /\ mcs_log_level' = MaskAfter(Default, log_list', loglevel)
    /\ loaded' = TRUE

(* The start of mcs9835_initialize: the initial mask is enabled in the      *)
(* table, then the bits of the module parameter, which add to it.           *)
Load(loglevel) ==
    /\ ~loaded
    /\ LET list == ListAfter(AllDisabled, Default, MCS_ENABLE)
           mask == MaskAfter(Default, list, Default)
       IN /\ log_list' = ListAfter(list, loglevel, MCS_ENABLE)
          /\ mcs_log_level' = MaskAfter(mask, log_list', loglevel)
    /\ loaded' = TRUE

(* The data of the module go with it.                                       *)
Unload ==
    /\ loaded
    /\ log_list' = AllDisabled
    /\ mcs_log_level' = Default
    /\ loaded' = FALSE

Next ==
    \/ \E level \in SUBSET Bits :
          \/ Load(level)
          \/ \E status \in {MCS_DISABLE, MCS_ENABLE, MCS_TOGGLE} :
                mcs_set_log_level(level, status)
    \/ Unload

Spec == Init /\ [][Next]_vars

-----------------------------------------------------------------------------

(* The levels mcs_display_log_levels shows as ON, and those LOG prints.     *)
Displayed == {l \in Levels : log_list[l] = MCS_ENABLE}
Logged    == {l \in Levels : l \in mcs_log_level}

(* A level is on or off, and only bits of levels get into the mask, whatever*)
(* is asked for.                                                            *)
TypeOK ==
    /\ log_list \in [Levels -> {MCS_DISABLE, MCS_ENABLE}]
    /\ mcs_log_level \in SUBSET Levels
    /\ loaded \in BOOLEAN

(* While the module is loaded, the levels displayed as ON are those that are*)
(* logged, after any sequence of enables, disables and toggles of any mask. *)
DisplayedIsLogged == loaded => Displayed = Logged

(* A loglevel parameter other than 0 overrides the default: after the load  *)
(* the levels it names are logged and no others.                            *)
LoglevelOverrides ==
    [][\A loglevel \in SUBSET Bits \ {{}} :
          Load(loglevel) => mcs_log_level' = loglevel \cap Levels]_vars
=============================================================================
