---------------------------- MODULE MCCheckLock ----------------------------
(***************************************************************************)
(* A few invocations of the batch script.  The invocations are alike.      *)
(***************************************************************************)
EXTENDS CheckLock, TLC

Alike == Permutations(Invocations)
=============================================================================
