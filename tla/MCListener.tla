----------------------------- MODULE MCListener -----------------------------
(* Listener with a short chain, for TLC.                                   *)
EXTENDS Listener

\* A transaction with two launches, one with none, one with one.
ShortChain == <<2, 0, 1>>
=============================================================================
