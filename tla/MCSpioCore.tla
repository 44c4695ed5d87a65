----------------------------- MODULE MCSpioCore -----------------------------
(* Finite instances of LIBSPIO for TLC.                                     *)
EXTENDS SpioSafety, TLC

CONSTANTS t1, t2, t3

MCThreads == {t1, t2, t3}
MCTwoThreads == {t1, t2}

Symmetry == Permutations(MCThreads)
=============================================================================
