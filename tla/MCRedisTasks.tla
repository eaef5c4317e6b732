----------------------------- MODULE MCRedisTasks -----------------------------
(***************************************************************************)
(* Instances of RedisTasks for TLC.                                        *)
(***************************************************************************)
EXTENDS RedisTasks, TLC

CONSTANTS i1, i2, t1, t2, x1

\* Two tasks of one chat.
OneItem  == t1 :> x1 @@ t2 :> x1

================================================================================
