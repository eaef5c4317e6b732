----------------------------- MODULE MCNoteSession -----------------------------
(* Instances of NoteSession for TLC. *)
EXTENDS NoteSession, TLC

CONSTANTS a, b, e1, e2

Symmetric == Permutations(Client) \cup Permutations(Edit)

================================================================================
