-------------------------- MODULE MCWalletRotation --------------------------
(* WalletRotation with small sets of tasks, for TLC.                       *)
EXTENDS WalletRotation, TLC

Symmetry == Permutations(Tasks)
=============================================================================
