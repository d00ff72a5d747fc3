---------------------------- MODULE MCCallDepth ----------------------------
(***************************************************************************)
(* CallDepth for TLC: programs of at most five calls and branches.            *)
(***************************************************************************)
EXTENDS CallDepth
=============================================================================
