----------------------------- MODULE McsLogProof -----------------------------
(***************************************************************************)
(* The table and the mask of mcs9835_log.c agree for any table of levels,  *)
(* any initial mask made of them and any other bits in the masks it is     *)
(* asked for.  TypeOK is needed for a toggle, which is right only for a    *)
(* status that is on or off; together the two are inductive.               *)
(***************************************************************************)
EXTENDS McsLog, TLAPS

StatusOK(list) == list \in [Levels -> {MCS_DISABLE, MCS_ENABLE}]
Agree(mask, list) ==
    \A l \in Levels : l \in mask <=> list[l] = MCS_ENABLE

(* One call of mcs_set_log_level keeps the table to on and off.             *)
LEMMA ListAfterStatus ==
  ASSUME NEW list, StatusOK(list), NEW level,
         NEW status \in {MCS_DISABLE, MCS_ENABLE, MCS_TOGGLE}
  PROVE  StatusOK(ListAfter(list, level, status))
<1>1. ASSUME NEW l \in Levels
      PROVE  (IF l \notin level THEN list[l]
              ELSE IF status = MCS_TOGGLE THEN (list[l] + 1) % 2
              ELSE status) \in {MCS_DISABLE, MCS_ENABLE}
  <2>1. list[l] \in {0, 1}
    BY DEF StatusOK, MCS_DISABLE, MCS_ENABLE
  <2>2. (list[l] + 1) % 2 \in {0, 1}
    BY <2>1
  <2> QED
    BY <2>1, <2>2 DEF MCS_DISABLE, MCS_ENABLE, MCS_TOGGLE
<1> QED
  BY <1>1 DEF StatusOK, ListAfter

(* It leaves bits of levels in the mask and no others.                      *)
LEMMA MaskAfterLevels ==
  ASSUME NEW mask \in SUBSET Levels, NEW list, NEW level
  PROVE  MaskAfter(mask, list, level) \in SUBSET Levels
  BY DEF MaskAfter

(* If mask and table agreed before it, they agree after it.                 *)
LEMMA MaskAfterAgrees ==
  ASSUME NEW list, StatusOK(list), NEW mask, Agree(mask, list), NEW level,
         NEW status \in {MCS_DISABLE, MCS_ENABLE, MCS_TOGGLE}
  PROVE  LET after == ListAfter(list, level, status)
         IN  Agree(MaskAfter(mask, after, level), after)
<1> DEFINE after == ListAfter(list, level, status)
<1>1. StatusOK(after)
  BY ListAfterStatus
<1>2. ASSUME NEW l \in Levels
      PROVE  l \in MaskAfter(mask, after, level) <=> after[l] = MCS_ENABLE
  <2>1. CASE l \in level
    <3>1. after[l] \in {0, 1}
      BY <1>1 DEF StatusOK, MCS_DISABLE, MCS_ENABLE
    <3> HIDE DEF after
    <3> QED
      BY <2>1, <3>1 DEF MaskAfter, MCS_DISABLE, MCS_ENABLE
  <2>2. CASE l \notin level
    <3>1. after[l] = list[l]
      BY <2>2 DEF ListAfter
    <3> HIDE DEF after
    <3> QED
      BY <2>2, <3>1 DEF MaskAfter, Agree
  <2> QED
    BY <2>1, <2>2
<1> HIDE DEF after
<1>3. Agree(MaskAfter(mask, after, level), after)
  BY <1>2 DEF Agree
<1> QED
  BY <1>3 DEF after

(* What a load leaves: the first call brings the table up to the initial    *)
(* mask, the second adds the module parameter to both.                      *)
LEMMA LoadAgrees ==
  ASSUME NEW loglevel, Load(loglevel)
  PROVE  /\ StatusOK(log_list')
         /\ mcs_log_level' \in SUBSET Levels
         /\ Agree(mcs_log_level', log_list')
<1> DEFINE list == ListAfter(AllDisabled, Default, MCS_ENABLE)
           mask == MaskAfter(Default, list, Default)
<1>0. /\ MCS_ENABLE \in {MCS_DISABLE, MCS_ENABLE, MCS_TOGGLE}
      /\ Default \in SUBSET Levels
  BY LogAssumption
<1>1. StatusOK(AllDisabled)
  BY DEF StatusOK, AllDisabled
<1>2. StatusOK(list)
  BY <1>0, <1>1, ListAfterStatus
<1>3. mask \in SUBSET Levels
  BY <1>0, MaskAfterLevels
<1>4. Agree(mask, list)
  <2>1. ASSUME NEW l \in Levels
        PROVE  list[l] = IF l \in Default THEN MCS_ENABLE ELSE MCS_DISABLE
    BY DEF ListAfter, AllDisabled, MCS_ENABLE, MCS_TOGGLE
  <2> HIDE DEF list
  <2>2. ASSUME NEW l \in Levels
        PROVE  l \in MaskAfter(Default, list, Default) <=> l \in Default
    BY <2>1 DEF MaskAfter, MCS_ENABLE, MCS_DISABLE
  <2>3. ASSUME NEW l \in Levels
        PROVE  l \in mask <=> list[l] = MCS_ENABLE
    BY <2>1, <2>2 DEF MCS_ENABLE, MCS_DISABLE
  <2> QED
    BY <2>3 DEF Agree
<1> HIDE DEF list, mask
<1>5. /\ log_list' = ListAfter(list, loglevel, MCS_ENABLE)
      /\ mcs_log_level' = MaskAfter(mask, log_list', loglevel)
  BY DEF Load, list, mask
<1>6. StatusOK(log_list')
  BY <1>0, <1>2, <1>5, ListAfterStatus
<1>7. mcs_log_level' \in SUBSET Levels
  BY <1>3, <1>5, MaskAfterLevels
<1>8. Agree(mcs_log_level', log_list')
  BY <1>0, <1>2, <1>4, <1>5, MaskAfterAgrees
<1> QED
  BY <1>6, <1>7, <1>8

LogInv == TypeOK /\ (loaded => Agree(mcs_log_level, log_list))

LEMMA LogInvInit ==
  ASSUME Init
  PROVE  LogInv
  BY LogAssumption DEF Init, LogInv, TypeOK, AllDisabled

LEMMA LogInvStep ==
  ASSUME LogInv, [Next]_vars
  PROVE  LogInv'
<1>0. StatusOK(log_list)
  BY DEF LogInv, TypeOK, StatusOK
<1>1. ASSUME NEW level, Load(level)
      PROVE  LogInv'
  <2>1. loaded' = TRUE
    BY <1>1 DEF Load
  <2> QED
    BY <1>1, <2>1, LoadAgrees DEF LogInv, TypeOK, StatusOK
<1>2. ASSUME NEW level,
             NEW status \in {MCS_DISABLE, MCS_ENABLE, MCS_TOGGLE},
             mcs_set_log_level(level, status)
      PROVE  LogInv'
  <2>1. /\ loaded /\ loaded'
        /\ log_list' = ListAfter(log_list, level, status)
        /\ mcs_log_level' = MaskAfter(mcs_log_level, log_list', level)
    BY <1>2 DEF mcs_set_log_level
  <2>2. StatusOK(log_list')
    BY <1>0, <2>1, ListAfterStatus
  <2>3. mcs_log_level' \in SUBSET Levels
    BY <2>1, MaskAfterLevels DEF LogInv, TypeOK
  <2>4. Agree(mcs_log_level', log_list')
    BY <1>0, <2>1, MaskAfterAgrees DEF LogInv
  <2>5. loaded' \in BOOLEAN
    BY <1>2 DEF mcs_set_log_level, LogInv, TypeOK
  <2> QED
    BY <2>2, <2>3, <2>4, <2>5 DEF LogInv, TypeOK, StatusOK
<1>3. CASE Unload
  BY <1>3, LogAssumption DEF Unload, LogInv, TypeOK, AllDisabled
<1>4. CASE UNCHANGED vars
  BY <1>4 DEF vars, LogInv, TypeOK, Agree
<1> QED
  BY <1>1, <1>2, <1>3, <1>4 DEF Next

LEMMA LogInvariance == Spec => []LogInv
<1>1. Init => LogInv
  BY LogInvInit
<1>2. LogInv /\ [Next]_vars => LogInv'
  BY LogInvStep
<1> QED
  BY <1>1, <1>2, PTL DEF Spec

(* A status is on or off and the mask holds bits of levels only, whatever   *)
(* masks the module parameter and the callers ask for.                      *)
THEOREM LogTypeCorrect == Spec => []TypeOK
<1>1. LogInv => TypeOK
  BY DEF LogInv
<1> QED
  BY <1>1, LogInvariance, PTL

(* The levels displayed as ON are those that LOG prints.                    *)
THEOREM DisplayAgrees == Spec => []DisplayedIsLogged
<1>1. LogInv => DisplayedIsLogged
  BY DEF LogInv, DisplayedIsLogged, Displayed, Logged, Agree
<1> QED
  BY <1>1, LogInvariance, PTL
=============================================================================
