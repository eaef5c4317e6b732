------------------------------ MODULE MCChatTasks ------------------------------
(* Instances of ChatTasks for TLC. *)
EXTENDS ChatTasks, TLC

================================================================================
