---------------------------- MODULE MCMcs9835Core ----------------------------
(* Finite instances of the driver for TLC.                                  *)
EXTENDS Mcs9835Refinement, Mcs9835Ledger, TLC

CONSTANTS d1, d2, d3, h1, h2

MCTwoDevices == {d1, d2}
MCThreeDevices == {d1, d2, d3}
MCTwoHandles == {h1, h2}
MCOneHandle == {h1}

Symmetry == Permutations(Devices) \cup Permutations(Handles)
=============================================================================
