---------------------------- MODULE MCUsagePool ----------------------------
(***************************************************************************)
(* Instances of UsagePool for TLC.                                         *)
(***************************************************************************)
EXTENDS UsagePool, TLC

CONSTANTS i1, i2, s1, s2, s3, m1, m2

\* Two sessions on one process, one on the other.
ThreeHomes == s1 :> i1 @@ s2 :> i2 @@ s3 :> i1

Models == Permutations(Model)

================================================================================
