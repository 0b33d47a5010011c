---------------------------- MODULE MCVaultIndex ----------------------------
(* Two entities of kind user-content, one of which cites the other.          *)
EXTENDS VaultIndex
CONSTANTS u, v
LinkDef == [i \in {u, v} |-> IF i = u THEN {v} ELSE {}]
=============================================================================
