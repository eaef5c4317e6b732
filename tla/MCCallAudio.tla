------------------------------- MODULE MCCallAudio -------------------------------
(* Instances of CallAudio for TLC. *)
EXTENDS CallAudio, TLC

================================================================================
