---------------------------- MODULE MCCleanupLock ----------------------------
(***************************************************************************)
(* Instances of CleanupLock for TLC.                                       *)
(***************************************************************************)
EXTENDS CleanupLock, TLC

\* Instances are interchangeable.
Symmetry == Permutations(Instance)

================================================================================
