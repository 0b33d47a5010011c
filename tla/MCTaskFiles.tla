---------------------------- MODULE MCTaskFiles ----------------------------
(***************************************************************************)
(* One task of any kind, that may have been archived before.               *)
(***************************************************************************)
EXTENDS TaskFiles, TLC

CONSTANTS job, opt1, opt2

PathDef == Task \X {"active", "archive"}
ArchivedBefore == {Archived(job)}
EitherOption == Permutations(Option)
=============================================================================
