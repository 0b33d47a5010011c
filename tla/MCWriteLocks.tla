---------------------------- MODULE MCWriteLocks ----------------------------
(* Small instances of WriteLocks. *)
EXTENDS WriteLocks, TLC
=============================================================================
