------------------------------- MODULE MCChatSync -------------------------------
(* Instances of ChatSync for TLC. *)
EXTENDS ChatSync, TLC

ChatSymmetry == Permutations(Chat)

================================================================================
