----------------------------- MODULE MCExecutor -----------------------------
(* Executor for TLC.  No symmetry: the run checks a liveness property.      *)
EXTENDS Executor
=============================================================================
