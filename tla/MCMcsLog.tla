------------------------------- MODULE MCMcsLog -------------------------------
(* Eight of the twelve levels and one bit that names none, for TLC.         *)
EXTENDS McsLog

MCDefault   == {"MCS_ALR", "MCS_ERR", "MCS_WRN", "MCS_INF"}
MCLevels    == MCDefault \cup {"MCS_INI", "MCS_REG", "MCS_CDV", "MCS_DBG"}
MCOtherBits == {"bit 7"}
=============================================================================
