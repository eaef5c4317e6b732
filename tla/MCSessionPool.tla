---------------------------- MODULE MCSessionPool ----------------------------
(***************************************************************************)
(* Instances of SessionPool for TLC.                                       *)
(***************************************************************************)
EXTENDS SessionPool, TLC

CONSTANTS i1, i2, i3, u1, u2, s1, s2, s3, s4

\* A user with three sessions and one with one.
TwoUsers == s1 :> u1 @@ s2 :> u1 @@ s3 :> u1 @@ s4 :> u2

\* The sessions of the first user on three processes, that of the second on one of them.
Spread == s1 :> i1 @@ s2 :> i2 @@ s3 :> i3 @@ s4 :> i2

================================================================================
