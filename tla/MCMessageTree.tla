----------------------------- MODULE MCMessageTree -----------------------------
(* Instances of MessageTree for TLC. *)
EXTENDS MessageTree, TLC

\* Nothing is forgotten of an upset, and every property excuses this one: what follows
\* it need not be looked at.
BeforeStaleCopy == "staleCopy" \notin upset
================================================================================
