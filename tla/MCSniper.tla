------------------------------ MODULE MCSniper ------------------------------
(* Sniper with small sets of launches, for TLC.                            *)
EXTENDS Sniper, TLC

Symmetry == Permutations(Launches)
=============================================================================
